-------------------------- MODULE CanvasSyncProofs --------------------------
(***************************************************************************)
(* Theorems about CanvasSync, for any number of rooms and of handlers in   *)
(* flight, any operations and any budget of requests, expiries, failures   *)
(* and crashes.  First types and what the stores hold; then order, while a *)
(* room stays warm; then what holds while the requests of a room come one  *)
(* after another, up to the implementation of LiveCanvas.                  *)
(***************************************************************************)
EXTENDS CanvasSync, CanvasProofs, TLAPS

-----------------------------------------------------------------------------
(* What the helpers of the handlers do to the types.                       *)

LEMMA AtRevisionType ==
    ASSUME NEW c, c.nodes \in SUBSET Node, c.edges \in SUBSET Edge, NEW n \in Nat
    PROVE  AtRevision(c, n) \in CanvasStateData
BY DEF AtRevision, CanvasStateData

LEMMA CanvasOrType ==
    ASSUME NEW s \in CanvasOrNil
    PROVE  CanvasOr(s) \in CanvasStateData
BY DEF CanvasOr, CanvasOrNil, EmptyCanvas, CanvasStateData

\* A content put after a canvas, or after none.
LEMMA SuccessorType ==
    ASSUME NEW c \in Content, NEW s \in CanvasOrNil
    PROVE  AtRevision(c, CanvasOr(s).revision + 1) \in CanvasStateData
PROOF
<1>1. CanvasOr(s).revision + 1 \in Nat
  BY CanvasOrType DEF CanvasStateData
<1>2. c.nodes \in SUBSET Node /\ c.edges \in SUBSET Edge
  BY DEF Content
<1> QED BY <1>1, <1>2, AtRevisionType

LEMMA NilIsNoData ==
    /\ Nil \notin CanvasStateData
    /\ Nil \notin Content
    /\ Nil \notin Ops
    /\ Nil \notin Rooms
BY CanvasSyncAssumption

LEMMA HandlerType ==
    ASSUME NEW pc \in Awaits, NEW r \in Rooms \cup {Nil}, NEW a \in Ops \cup Content \cup {Nil},
           NEW s \in CanvasOrNil, NEW todo \in SUBSET Rooms
    PROVE  /\ Handler(pc, r, a, s, todo) \in Task
           /\ Handler(pc, r, a, s, todo).pc = pc
           /\ Handler(pc, r, a, s, todo).room = r
           /\ Handler(pc, r, a, s, todo).arg = a
           /\ Handler(pc, r, a, s, todo).state = s
BY DEF Handler, Task, CanvasOrNil

LEMMA IdleType == Idle \in Task /\ Idle.pc = "idle" /\ Idle.state = Nil
PROOF
<1>1. "idle" \in Awaits /\ Nil \in CanvasOrNil
  BY DEF Awaits, CanvasOrNil
<1>2. LET t == Handler("idle", Nil, Nil, Nil, {})
      IN  t \in Task /\ t.pc = "idle" /\ t.state = Nil
  BY <1>1, HandlerType
<1> QED BY <1>2 DEF Idle

LEMMA StartWithGetType ==
    ASSUME TypeOK, NEW p \in Procs, NEW r \in Rooms,
           NEW a \in Ops \cup Content \cup {Nil},
           NEW pc \in {"op:get", "join:get", "flush:get", "restore:get", "snapshot:get"},
           pc = "op:get" => a \in Ops,
           pc = "restore:get" => a \in Content,
           StartWithGet(p, pc, r, a)
    PROVE  /\ task' \in [Procs -> Task]
           /\ redisQ' \in Seq(Procs)
           /\ HandlersHold'
PROOF
<1> DEFINE t == Handler(pc, r, a, redis[r], {})
<1>0. pc \in Awaits /\ redis[r] \in CanvasOrNil
  BY DEF TypeOK, Awaits, RedisAwaits, FlushAwaits
<1>1. t \in Task /\ t.pc = pc /\ t.room = r /\ t.arg = a
  BY <1>0, HandlerType
<1>2. task' = [task EXCEPT ![p] = t] /\ task \in [Procs -> Task]
  BY DEF StartWithGet, TypeOK
<1> HIDE DEF t
<1>3. task' \in [Procs -> Task]
  BY <1>1, <1>2
<1>4. redisQ' \in Seq(Procs)
  BY DEF StartWithGet, TypeOK
<1>5. HandlersHold'
  BY <1>1, <1>2 DEF HandlersHold, TypeOK
<1> QED BY <1>3, <1>4, <1>5

LEMMA ReturnType ==
    ASSUME TypeOK, NEW p \in Procs, Return(p)
    PROVE  task' \in [Procs -> Task] /\ HandlersHold'
PROOF
<1>2. task' = [task EXCEPT ![p] = Idle] /\ task \in [Procs -> Task]
  BY DEF Return, TypeOK
<1>3. HandlersHold'
  BY <1>2, IdleType DEF HandlersHold, TypeOK
<1> QED BY IdleType, <1>2, <1>3

LEMMA QueueType ==
    ASSUME TypeOK, NEW p \in Procs, redisQ # <<>>
    PROVE  Tail(redisQ) \in Seq(Procs) /\ Append(Tail(redisQ), p) \in Seq(Procs)
BY DEF TypeOK

\* Handler p goes on as t, which works on the same room with the same argument.
LEMMA GoOnType ==
    ASSUME TypeOK, NEW p \in Procs, NEW t \in Task, task' = [task EXCEPT ![p] = t],
           task[p].pc # "idle",
           t.room = task[p].room, t.arg = task[p].arg,
           t.pc \in {"op:set", "op:expire"} => task[p].arg \in Ops,
           t.state = Nil => t.pc \in {"idle", "join:row", "snapshot:row"},
           t.pc \notin {"op:get", "restore:get", "save:row"}
    PROVE  task' \in [Procs -> Task] /\ HandlersHold'
PROOF
<1>1. task' \in [Procs -> Task]
  BY DEF TypeOK
<1>2. HandlersHold'
  <2> SUFFICES ASSUME NEW q \in Procs
               PROVE  LET u == task'[q] IN
        /\ u.pc # "idle" => u.room \in Rooms
        /\ u.pc \in {"op:get", "op:set", "op:expire"} => u.arg \in Ops
        /\ u.pc \in {"restore:get", "save:row"} => u.arg \in Content
        /\ u.pc \in {"op:set", "op:expire", "join:reply", "join:set", "restore:set",
                     "restore:expire", "restore:save", "restore:write",
                     "restore:saved", "flush:save", "flush:write", "flush:saved",
                     "save:save", "save:write", "snapshot:save"} => u.state # Nil
    BY DEF HandlersHold
  <2>1. CASE q = p
    <3>1. task'[q] = t
      BY <2>1 DEF TypeOK
    <3> QED BY <3>1 DEF TypeOK, HandlersHold
  <2>2. CASE q # p
    <3>1. task'[q] = task[q]
      BY <2>2 DEF TypeOK
    <3> QED BY <3>1 DEF TypeOK, HandlersHold
  <2> QED BY <2>1, <2>2
<1> QED BY <1>1, <1>2

LEMMA AwaitType ==
    ASSUME TypeOK, NEW p \in Procs, NEW pc \in Awaits \ {"idle"},
           NEW s \in CanvasOrNil, Await(p, pc, s),
           task[p].pc # "idle",
           pc \in {"op:set", "op:expire"} => task[p].arg \in Ops,
           s = Nil => pc \in {"join:row", "snapshot:row"},
           pc \notin {"op:get", "restore:get", "save:row"}
    PROVE  task' \in [Procs -> Task] /\ HandlersHold'
PROOF
<1> DEFINE t == [task[p] EXCEPT !.pc = pc, !.state = s]
<1>1. task' = [task EXCEPT ![p] = t] /\ task[p] \in Task
  BY DEF Await, TypeOK
<1>2. t \in Task /\ t.pc = pc /\ t.state = s /\ t.room = task[p].room /\ t.arg = task[p].arg
  BY <1>1 DEF Task
<1> HIDE DEF t
<1> QED BY <1>1, <1>2, GoOnType

\* AwaitType, for each kind of thing a handler goes on with.
HoldsCanvas == {"join:reply", "join:set", "flush:save", "flush:write", "flush:saved",
                "restore:set", "restore:expire", "restore:save", "restore:write",
                "restore:saved", "save:save", "save:write", "snapshot:save"}

LEMMA AwaitCanvasType ==
    ASSUME TypeOK, NEW p \in Procs, NEW pc \in HoldsCanvas,
           NEW s \in CanvasStateData, Await(p, pc, s), task[p].pc # "idle"
    PROVE  task' \in [Procs -> Task] /\ HandlersHold'
PROOF
<1>1. pc \in Awaits \ {"idle"} /\ pc \notin {"op:set", "op:expire", "op:get", "restore:get", "save:row"}
  BY DEF HoldsCanvas, Awaits, RedisAwaits, FlushAwaits, WriteAwaits
<1>2. s \in CanvasOrNil /\ s # Nil
  BY NilIsNoData DEF CanvasOrNil
<1> QED BY <1>1, <1>2, AwaitType

LEMMA AwaitOpType ==
    ASSUME TypeOK, NEW p \in Procs, NEW pc \in {"op:set", "op:expire"},
           NEW s \in CanvasStateData, Await(p, pc, s), task[p].pc # "idle",
           task[p].arg \in Ops
    PROVE  task' \in [Procs -> Task] /\ HandlersHold'
PROOF
<1>1. pc \in Awaits \ {"idle"} /\ pc \notin {"op:get", "restore:get", "save:row"}
  BY DEF Awaits, RedisAwaits
<1>2. s \in CanvasOrNil /\ s # Nil
  BY NilIsNoData DEF CanvasOrNil
<1> QED BY <1>1, <1>2, AwaitType

LEMMA AwaitRowType ==
    ASSUME TypeOK, NEW p \in Procs, NEW pc \in {"join:row", "snapshot:row"},
           Await(p, pc, Nil), task[p].pc # "idle"
    PROVE  task' \in [Procs -> Task] /\ HandlersHold'
PROOF
<1>1. pc \in Awaits \ {"idle"} /\ pc \notin {"op:set", "op:expire", "op:get", "restore:get", "save:row"}
  BY DEF Awaits
<1>2. Nil \in CanvasOrNil
  BY DEF CanvasOrNil
<1> QED BY <1>1, <1>2, AwaitType

\* The two halves of repository.save.
LEMMA ReadRowType ==
    ASSUME TypeOK, NEW p \in Procs, NEW pc \in WriteAwaits, ReadRow(p, pc),
           task[p].pc # "idle", task[p].state # Nil
    PROVE  task' \in [Procs -> Task] /\ HandlersHold'
PROOF
<1> DEFINE t == [task[p] EXCEPT !.pc = pc, !.base = pg[task[p].room]]
<1>1. task' = [task EXCEPT ![p] = t] /\ task[p] \in Task
  BY DEF ReadRow, TypeOK
<1>2. pg[task[p].room] \in CanvasOrNil
  BY DEF TypeOK, HandlersHold
<1>3. pc \in Awaits /\ pc \notin {"op:set", "op:expire", "op:get", "restore:get", "save:row"}
  BY DEF Awaits, WriteAwaits
<1>4. /\ t \in Task /\ t.pc = pc /\ t.state = task[p].state
      /\ t.room = task[p].room /\ t.arg = task[p].arg
  BY <1>1, <1>2, <1>3 DEF Task
<1> HIDE DEF t
<1> QED BY <1>1, <1>3, <1>4, GoOnType

LEMMA SavedType ==
    ASSUME TypeOK, NEW p \in Procs, NEW pc \in {"flush:saved", "restore:saved"},
           task' = [task EXCEPT ![p].pc = pc, ![p].base = Nil],
           task[p].pc # "idle", task[p].state # Nil
    PROVE  task' \in [Procs -> Task] /\ HandlersHold'
PROOF
<1> DEFINE t == [task[p] EXCEPT !.pc = pc, !.base = Nil]
<1>1. task' = [task EXCEPT ![p] = t] /\ task[p] \in Task
  BY DEF TypeOK
<1>3. pc \in Awaits /\ pc \notin {"op:set", "op:expire", "op:get", "restore:get", "save:row"}
  BY DEF Awaits, FlushAwaits
<1>4. /\ t \in Task /\ t.pc = pc /\ t.state = task[p].state
      /\ t.room = task[p].room /\ t.arg = task[p].arg
  BY <1>1, <1>3 DEF Task, CanvasOrNil
<1> HIDE DEF t
<1> QED BY <1>1, <1>3, <1>4, GoOnType

\* A save writes a canvas, and the canvas it was given if the row is still as
\* it was read.
LEMMA WrittenType ==
    ASSUME NEW row \in CanvasOrNil, NEW base \in CanvasOrNil, NEW s \in CanvasStateData
    PROVE  /\ Written(row, base, s) \in CanvasOrNil
           /\ base = Nil => Written(row, base, s) = s
           /\ base = row => Written(row, base, s) = s
PROOF
<1>1. CASE base = Nil
  BY <1>1 DEF Written, CanvasOrNil
<1>3. CASE base # Nil /\ row = Nil
  BY <1>3 DEF Written, CanvasOrNil
<1>2. CASE base # Nil /\ row # Nil
  <2>1. base \in CanvasStateData /\ row \in CanvasStateData
    BY <1>2 DEF CanvasOrNil
  <2>2. Written(row, base, s) \in CanvasStateData
    BY <1>2, <2>1 DEF Written, CanvasStateData
  <2>3. base = row => Written(row, base, s) = s
    BY <1>2, <2>1 DEF Written, CanvasStateData
  <2> QED BY <1>2, <2>2, <2>3 DEF CanvasOrNil
<1> QED BY <1>1, <1>2, <1>3

LEMMA FlushNextType ==
    ASSUME TypeOK, NEW p \in Procs, NEW todo \in SUBSET Rooms, NEW q \in Seq(Procs),
           FlushNext(p, todo, q)
    PROVE  /\ task' \in [Procs -> Task]
           /\ redisQ' \in Seq(Procs)
           /\ HandlersHold'
PROOF
<1>1. CASE todo = {}
  BY <1>1, ReturnType DEF FlushNext
<1>2. CASE todo # {}
  <2>1. PICK r \in todo :
           task' = [task EXCEPT ![p] = Handler("flush:get", r, Nil, redis[r], Rest(todo, r))]
    BY <1>2 DEF FlushNext
  <2> DEFINE t == Handler("flush:get", r, Nil, redis[r], Rest(todo, r))
  <2>5. /\ "flush:get" \in Awaits
        /\ redis[r] \in CanvasOrNil
        /\ Rest(todo, r) \in SUBSET Rooms
    BY DEF TypeOK, Awaits, FlushAwaits, Rest
  <2>2. t \in Task /\ t.pc = "flush:get" /\ t.room = r
    BY <2>5, HandlerType
  <2>3. task' \in [Procs -> Task] /\ HandlersHold'
    <3> HIDE DEF t
    <3> QED BY <2>1, <2>2 DEF t, TypeOK, HandlersHold
  <2>4. redisQ' \in Seq(Procs)
    BY <1>2 DEF FlushNext
  <2> QED BY <2>3, <2>4
<1> QED BY <1>1, <1>2

LEMMA BudgetType ==
    ASSUME TypeOK, NEW kind \in Kinds,
           Spend(kind) \/ (kind \in Requests /\ SpendRequest(kind))
    PROVE  budget' \in [Kinds -> Nat]
PROOF
<1>1. CASE Spend(kind)
  <2>1. budget' = [budget EXCEPT ![kind] = @ - 1] /\ budget[kind] > 0 /\ budget \in [Kinds -> Nat]
    BY <1>1 DEF TypeOK, Spend
  <2>2. budget[kind] - 1 \in Nat
    BY <2>1
  <2> QED BY <2>1, <2>2
<1>2. CASE kind \in Requests /\ SpendRequest(kind)
  <2>1. kind # "request" /\ "request" \in Kinds
    BY <1>2 DEF Requests, Kinds
  <2>2. budget' = [budget EXCEPT ![kind] = @ - 1, !["request"] = @ - 1]
        /\ budget[kind] > 0 /\ budget["request"] > 0 /\ budget \in [Kinds -> Nat]
    BY <1>2 DEF TypeOK, SpendRequest
  <2>3. budget[kind] - 1 \in Nat /\ budget["request"] - 1 \in Nat
    BY <2>1, <2>2
  <2> QED BY <2>1, <2>2, <2>3
<1> QED BY <1>1, <1>2

LEMMA SetRedisType ==
    ASSUME TypeOK, NEW r \in Rooms, NEW s \in CanvasStateData, SetRedis(r, s)
    PROVE  /\ redis' \in [Rooms -> CanvasOrNil]
           /\ past' \in [Rooms -> SUBSET CanvasStateData]
BY DEF TypeOK, SetRedis, CanvasOrNil

\* What a handler that awaits at pc holds, read off TypeOK.
LEMMA HeldType ==
    ASSUME TypeOK, NEW p \in Procs
    PROVE  /\ task[p].state \in CanvasOrNil
           /\ task[p].state # Nil => task[p].state \in CanvasStateData
           /\ task[p].base \in CanvasOrNil
           /\ task[p].todo \in SUBSET Rooms
           /\ task[p].pc # "idle" => task[p].room \in Rooms
           /\ task[p].pc \in {"op:get", "op:set", "op:expire"} => task[p].arg \in Ops
           /\ task[p].pc \in {"restore:get", "save:row"} => task[p].arg \in Content
           /\ task[p].pc \in HoldsCanvas \cup {"op:set", "op:expire"}
                => task[p].state \in CanvasStateData
BY DEF TypeOK, HandlersHold, Task, CanvasOrNil, HoldsCanvas

LEMMA WriteRowType ==
    ASSUME TypeOK, NEW p \in Procs, WriteRow(p), task[p].pc # "idle", task[p].state # Nil
    PROVE  pg' \in [Rooms -> CanvasOrNil] /\ torn' \in BOOLEAN
PROOF
<1> DEFINE r == task[p].room
           w == Written(pg[r], task[p].base, task[p].state)
<1>1. r \in Rooms /\ pg[r] \in CanvasOrNil /\ task[p].base \in CanvasOrNil
      /\ task[p].state \in CanvasStateData
  BY HeldType DEF TypeOK
<1>2. w \in CanvasOrNil
  BY <1>1, WrittenType
<1>3. pg' = [pg EXCEPT ![r] = w] /\ torn' = (torn \/ task[p].base # pg[r])
  BY DEF WriteRow
<1> HIDE DEF w, r
<1> QED BY <1>1, <1>2, <1>3 DEF TypeOK

LEMMA RestartType ==
    ASSUME TypeOK, Restart, budget' \in [Kinds -> Nat]
    PROVE  TypeOK'
PROOF
<1>2. task' \in [Procs -> Task] /\ HandlersHold'
  BY IdleType DEF Restart, HandlersHold
<1> QED BY <1>2 DEF Restart, TypeOK, stores

-----------------------------------------------------------------------------
(* Type correctness, handler by handler.                                   *)

LEMMA RequestType ==
    ASSUME TypeOK, NEW p \in Procs, Request(p)
    PROVE  TypeOK'
PROOF
<1>0. snapshots \subseteq Content /\ Drafts \subseteq Content
  BY CanvasSyncAssumption DEF TypeOK
<1>1. CASE OpRequest(p)
  <2>1. PICK r \in Rooms, op \in Ops : StartWithGet(p, "op:get", r, op)
    BY <1>1 DEF OpRequest
  <2>2. budget' \in [Kinds -> Nat]
    BY <1>1, BudgetType DEF OpRequest, Kinds, Requests
  <2> QED BY <1>1, <2>1, <2>2, StartWithGetType DEF OpRequest, TypeOK, stores
<1>2. CASE JoinRequest(p)
  <2>1. PICK r \in Rooms : StartWithGet(p, "join:get", r, Nil)
    BY <1>2 DEF JoinRequest
  <2>2. budget' \in [Kinds -> Nat]
    BY <1>2, BudgetType DEF JoinRequest, Kinds, Requests
  <2> QED BY <1>2, <2>1, <2>2, StartWithGetType DEF JoinRequest, TypeOK, stores
<1>3. CASE LeaveRequest(p)
  <2>1. PICK r \in Rooms : StartWithGet(p, "flush:get", r, Nil)
    BY <1>3 DEF LeaveRequest
  <2>2. budget' \in [Kinds -> Nat]
    BY <1>3, BudgetType DEF LeaveRequest, Kinds, Requests
  <2> QED BY <1>3, <2>1, <2>2, StartWithGetType DEF LeaveRequest, TypeOK, stores
<1>4. CASE RestoreRequest(p)
  <2>1. PICK r \in Rooms, c \in snapshots : StartWithGet(p, "restore:get", r, c)
    BY <1>4 DEF RestoreRequest
  <2>2. budget' \in [Kinds -> Nat]
    BY <1>4, BudgetType DEF RestoreRequest, Kinds, Requests
  <2> QED BY <1>0, <1>4, <2>1, <2>2, StartWithGetType DEF RestoreRequest, TypeOK, stores
<1>5. CASE SaveRequest(p)
  <2>1. PICK r \in Rooms, c \in Drafts :
           task' = [task EXCEPT ![p] = Handler("save:row", r, c, Nil, {})]
    BY <1>5 DEF SaveRequest
  <2> DEFINE t == Handler("save:row", r, c, Nil, {})
  <2>2. t \in Task /\ t.pc = "save:row" /\ t.room = r /\ t.arg = c
    BY <1>0, HandlerType DEF Awaits, CanvasOrNil
  <2>3. task' \in [Procs -> Task] /\ HandlersHold'
    <3> HIDE DEF t
    <3> QED BY <1>0, <2>1, <2>2 DEF t, TypeOK, HandlersHold
  <2>4. budget' \in [Kinds -> Nat]
    BY <1>5, BudgetType DEF SaveRequest, Kinds, Requests
  <2> QED BY <1>5, <2>3, <2>4 DEF SaveRequest, TypeOK, stores
<1>6. CASE SnapshotRequest(p)
  <2>1. PICK r \in Rooms : StartWithGet(p, "snapshot:get", r, Nil)
    BY <1>6 DEF SnapshotRequest
  <2>2. budget' \in [Kinds -> Nat]
    BY <1>6, BudgetType DEF SnapshotRequest, Kinds, Requests
  <2> QED BY <1>6, <2>1, <2>2, StartWithGetType DEF SnapshotRequest, TypeOK, stores
<1> QED BY <1>1, <1>2, <1>3, <1>4, <1>5, <1>6 DEF Request

LEMMA OpStepType ==
    ASSUME TypeOK, NEW p \in Procs, OpStep(p)
    PROVE  TypeOK'
PROOF
<1>1. CASE OpNotFound(p)
  BY <1>1, ReturnType, QueueType DEF OpNotFound, Resumes, RedisAwaits, Replied, TypeOK, stores
<1>2. CASE OpWrite(p)
  <2> DEFINE new == AtRevision(ApplyOperation(task[p].state, task[p].arg),
                               task[p].state.revision + 1)
  <2>1. task[p].state \in CanvasStateData /\ task[p].arg \in Operation /\ task[p].room \in Rooms
    BY <1>2, HeldType, CanvasSyncAssumption DEF OpWrite, Resumes
  <2>2. new \in CanvasStateData
    BY <2>1, ApplyOperationType, AtRevisionType DEF CanvasStateData
  <2>3. SetRedis(task[p].room, new) /\ Await(p, "op:set", new)
    BY <1>2 DEF OpWrite
  <2>4. redis' \in [Rooms -> CanvasOrNil] /\ past' \in [Rooms -> SUBSET CanvasStateData]
    BY <2>1, <2>2, <2>3, SetRedisType
  <2> HIDE DEF new
  <2>5. task' \in [Procs -> Task] /\ HandlersHold'
    <3>1. task[p].pc # "idle" /\ task[p].arg \in Ops
      BY <1>2, HeldType DEF OpWrite, Resumes
    <3> QED BY <2>2, <2>3, <3>1, AwaitOpType
  <2> QED BY <1>2, <2>4, <2>5, QueueType
          DEF OpWrite, Resumes, RedisAwaits, ToRedis, TypeOK
<1>3. CASE OpRefreshTTL(p)
  <2>1. task' \in [Procs -> Task] /\ HandlersHold'
    <3>1. /\ task[p].pc # "idle" /\ task[p].arg \in Ops
          /\ task[p].state \in CanvasStateData
      BY <1>3, HeldType DEF OpRefreshTTL, Resumes
    <3> QED BY <1>3, <3>1, AwaitOpType DEF OpRefreshTTL
  <2> QED BY <1>3, <2>1, QueueType
          DEF OpRefreshTTL, Resumes, RedisAwaits, ToRedis, TypeOK, stores
<1>4. CASE OpDone(p)
  <2>1. task[p].room \in Rooms /\ task[p].state \in CanvasStateData
    BY <1>4, HeldType DEF OpDone, Resumes, TypeOK, HandlersHold
  <2>2. dirtyRooms' \subseteq Rooms /\ lastAck' \in [Rooms -> Nat]
    BY <1>4, <2>1 DEF OpDone, MarkDirty, TypeOK, CanvasStateData
  <2> QED BY <1>4, <2>2, ReturnType, QueueType
          DEF OpDone, Resumes, RedisAwaits, Replied, TypeOK, stores
<1> QED BY <1>1, <1>2, <1>3, <1>4 DEF OpStep

LEMMA WarmStepType ==
    ASSUME TypeOK, NEW p \in Procs, WarmStep(p)
    PROVE  TypeOK'
PROOF
<1>1. CASE WarmHit(p)
  BY <1>1, ReturnType, QueueType DEF WarmHit, Resumes, RedisAwaits, Replied, TypeOK, stores
<1>2. CASE WarmMiss(p)
  <2>1. task' \in [Procs -> Task] /\ HandlersHold'
    <3>1. task[p].pc # "idle"
      BY <1>2 DEF WarmMiss, Resumes
    <3> QED BY <1>2, <3>1, AwaitRowType DEF WarmMiss
  <2> QED BY <1>2, <2>1, QueueType
          DEF WarmMiss, Resumes, RedisAwaits, Replied, TypeOK, stores
<1>3. CASE WarmSelect(p)
  <2> DEFINE s == CanvasOr(pg[task[p].room])
  <2>1. s \in CanvasStateData
    BY <1>3, HeldType, CanvasOrType DEF WarmSelect, Resumes, TypeOK
  <2> HIDE DEF s
  <2>2. task' \in [Procs -> Task] /\ HandlersHold'
    <3>1. task[p].pc # "idle"
      BY <1>3 DEF s, WarmSelect, Resumes
    <3> QED BY <1>3, <2>1, <3>1, AwaitCanvasType DEF s, WarmSelect, HoldsCanvas
  <2> QED BY <1>3, <2>2 DEF WarmSelect, TypeOK, stores
<1>4. CASE WarmStore(p)
  <2>1. task[p].room \in Rooms /\ task[p].state \in CanvasStateData
    BY <1>4, HeldType DEF WarmStore, Resumes, TypeOK, HandlersHold
  <2>2. redis' \in [Rooms -> CanvasOrNil] /\ past' \in [Rooms -> SUBSET CanvasStateData]
    BY <1>4, <2>1, SetRedisType DEF WarmStore
  <2>3. task' \in [Procs -> Task] /\ HandlersHold'
    <3>1. task[p].pc # "idle"
      BY <1>4 DEF WarmStore, Resumes
    <3> QED BY <1>4, <2>1, <3>1, AwaitCanvasType DEF WarmStore, HoldsCanvas
  <2> QED BY <1>4, <2>2, <2>3 DEF WarmStore, TypeOK
<1>5. CASE WarmDone(p)
  BY <1>5, ReturnType, QueueType DEF WarmDone, Resumes, RedisAwaits, Replied, TypeOK, stores
<1> QED BY <1>1, <1>2, <1>3, <1>4, <1>5 DEF WarmStep

LEMMA FlushTickType ==
    ASSUME TypeOK, NEW p \in Procs, FlushTick(p)
    PROVE  TypeOK'
PROOF
<1>1. FlushNext(p, dirtyRooms, redisQ) /\ dirtyRooms \in SUBSET Rooms /\ redisQ \in Seq(Procs)
  BY DEF FlushTick, TypeOK
<1>2. task' \in [Procs -> Task] /\ redisQ' \in Seq(Procs) /\ HandlersHold'
  BY <1>1, FlushNextType
<1> QED BY <1>2 DEF FlushTick, TypeOK, stores

LEMMA FlushStepType ==
    ASSUME TypeOK, NEW p \in Procs, FlushStep(p)
    PROVE  TypeOK'
PROOF
<1>0. redisQ \in Seq(Procs) /\ task[p].todo \in SUBSET Rooms
  BY HeldType DEF TypeOK
<1>1. CASE FlushMiss(p)
  <2>1. FlushNext(p, task[p].todo, Tail(redisQ)) /\ redisQ # <<>>
    BY <1>1 DEF FlushMiss, Resumes, RedisAwaits
  <2>2. task' \in [Procs -> Task] /\ redisQ' \in Seq(Procs) /\ HandlersHold'
    BY <1>0, <2>1, QueueType, FlushNextType
  <2> QED BY <1>1, <2>2 DEF FlushMiss, TypeOK, stores
<1>2. CASE FlushPersist(p)
  <2>1. task' \in [Procs -> Task] /\ HandlersHold'
    <3>1. task[p].pc # "idle" /\ task[p].state \in CanvasStateData
      BY <1>2, HeldType DEF FlushPersist, Resumes, HoldsCanvas
    <3> QED BY <1>2, <3>1, AwaitCanvasType DEF FlushPersist, HoldsCanvas
  <2> QED BY <1>2, <2>1, QueueType
          DEF FlushPersist, Resumes, RedisAwaits, Replied, TypeOK, stores
<1>3. CASE FlushRead(p)
  <2>1. task[p].pc # "idle" /\ task[p].state # Nil
    BY <1>3 DEF FlushRead, Resumes, TypeOK, HandlersHold
  <2>2. task' \in [Procs -> Task] /\ HandlersHold'
    BY <1>3, <2>1, ReadRowType DEF FlushRead, WriteAwaits
  <2> QED BY <1>3, <2>2 DEF FlushRead, TypeOK, stores
<1>5. CASE FlushSave(p)
  <2>1. task[p].pc # "idle" /\ task[p].state # Nil
    BY <1>5 DEF FlushSave, Resumes, TypeOK, HandlersHold
  <2>2. task' \in [Procs -> Task] /\ HandlersHold'
    BY <1>5, <2>1, SavedType DEF FlushSave
  <2>3. pg' \in [Rooms -> CanvasOrNil] /\ torn' \in BOOLEAN
    BY <1>5, <2>1, WriteRowType DEF FlushSave
  <2> QED BY <1>5, <2>2, <2>3 DEF FlushSave, TypeOK
<1>4. CASE FlushDone(p)
  <2>1. FlushNext(p, task[p].todo, redisQ)
    BY <1>4 DEF FlushDone
  <2>2. task' \in [Procs -> Task] /\ redisQ' \in Seq(Procs) /\ HandlersHold'
    BY <1>0, <2>1, FlushNextType
  <2> QED BY <1>4, <2>2 DEF FlushDone, Unmark, TypeOK, stores
<1> QED BY <1>1, <1>2, <1>3, <1>4, <1>5 DEF FlushStep

LEMMA RestoreStepType ==
    ASSUME TypeOK, NEW p \in Procs, RestoreStep(p)
    PROVE  TypeOK'
PROOF
<1>1. CASE RestoreWrite(p)
  <2> DEFINE new == Restored(task[p].arg, task[p].state)
  <2>1. task[p].arg \in Content /\ task[p].room \in Rooms /\ task[p].state \in CanvasOrNil
    BY <1>1, HeldType DEF RestoreWrite, Resumes
  <2>2. new \in CanvasStateData
    BY <2>1, SuccessorType DEF Restored
  <2> HIDE DEF new
  <2>3. redis' \in [Rooms -> CanvasOrNil] /\ past' \in [Rooms -> SUBSET CanvasStateData]
    BY <1>1, <2>1, <2>2, SetRedisType DEF new, RestoreWrite
  <2>4. task' \in [Procs -> Task] /\ HandlersHold'
    <3>1. task[p].pc # "idle"
      BY <1>1 DEF new, RestoreWrite, Resumes
    <3> QED BY <1>1, <2>2, <3>1, AwaitCanvasType DEF new, RestoreWrite, HoldsCanvas
  <2> QED BY <1>1, <2>3, <2>4, QueueType
          DEF RestoreWrite, Resumes, RedisAwaits, ToRedis, TypeOK
<1>2. CASE RestoreRefreshTTL(p)
  <2>1. task' \in [Procs -> Task] /\ HandlersHold'
    <3>1. task[p].pc # "idle" /\ task[p].state \in CanvasStateData
      BY <1>2, HeldType DEF RestoreRefreshTTL, Resumes, HoldsCanvas
    <3> QED BY <1>2, <3>1, AwaitCanvasType DEF RestoreRefreshTTL, HoldsCanvas
  <2> QED BY <1>2, <2>1, QueueType
          DEF RestoreRefreshTTL, Resumes, RedisAwaits, ToRedis, TypeOK, stores
<1>3. CASE RestorePersist(p)
  <2>1. task' \in [Procs -> Task] /\ HandlersHold'
    <3>1. task[p].pc # "idle" /\ task[p].state \in CanvasStateData
      BY <1>3, HeldType DEF RestorePersist, Resumes, HoldsCanvas
    <3> QED BY <1>3, <3>1, AwaitCanvasType DEF RestorePersist, HoldsCanvas
  <2> QED BY <1>3, <2>1, QueueType
          DEF RestorePersist, Resumes, RedisAwaits, Replied, TypeOK, stores
<1>4. CASE RestoreRead(p)
  <2>1. task[p].pc # "idle" /\ task[p].state # Nil
    BY <1>4 DEF RestoreRead, Resumes, TypeOK, HandlersHold
  <2>2. task' \in [Procs -> Task] /\ HandlersHold'
    BY <1>4, <2>1, ReadRowType DEF RestoreRead, WriteAwaits
  <2> QED BY <1>4, <2>2 DEF RestoreRead, TypeOK, stores
<1>6. CASE RestoreSave(p)
  <2>1. task[p].pc # "idle" /\ task[p].state # Nil
    BY <1>6 DEF RestoreSave, Resumes, TypeOK, HandlersHold
  <2>2. task' \in [Procs -> Task] /\ HandlersHold'
    BY <1>6, <2>1, SavedType DEF RestoreSave
  <2>3. pg' \in [Rooms -> CanvasOrNil] /\ torn' \in BOOLEAN
    BY <1>6, <2>1, WriteRowType DEF RestoreSave
  <2> QED BY <1>6, <2>2, <2>3 DEF RestoreSave, TypeOK
<1>5. CASE RestoreDone(p)
  BY <1>5, ReturnType DEF RestoreDone, Unmark, TypeOK, stores
<1> QED BY <1>1, <1>2, <1>3, <1>4, <1>5, <1>6 DEF RestoreStep

LEMMA SaveStepType ==
    ASSUME TypeOK, NEW p \in Procs, SaveStep(p)
    PROVE  TypeOK'
PROOF
<1>1. CASE SaveSelect(p)
  <2> DEFINE s == AtRevision(task[p].arg, CanvasOr(pg[task[p].room]).revision + 1)
  <2>1. task[p].arg \in Content /\ pg[task[p].room] \in CanvasOrNil
    BY <1>1, HeldType DEF SaveSelect, Resumes, TypeOK
  <2>2. s \in CanvasStateData
    BY <2>1, SuccessorType
  <2> HIDE DEF s
  <2>3. task' \in [Procs -> Task] /\ HandlersHold'
    <3>1. task[p].pc # "idle"
      BY <1>1 DEF s, SaveSelect, Resumes
    <3> QED BY <1>1, <2>2, <3>1, AwaitCanvasType DEF s, SaveSelect, HoldsCanvas
  <2> QED BY <1>1, <2>3 DEF SaveSelect, TypeOK, stores
<1>2. CASE SaveRead(p)
  <2>1. task[p].pc # "idle" /\ task[p].state # Nil
    BY <1>2 DEF SaveRead, Resumes, TypeOK, HandlersHold
  <2>2. task' \in [Procs -> Task] /\ HandlersHold'
    BY <1>2, <2>1, ReadRowType DEF SaveRead, WriteAwaits
  <2> QED BY <1>2, <2>2 DEF SaveRead, TypeOK, stores
<1>3. CASE SaveWrite(p)
  <2>1. task[p].pc # "idle" /\ task[p].state # Nil /\ task[p].room \in Rooms
    BY <1>3, HeldType DEF SaveWrite, Resumes, TypeOK, HandlersHold
  <2>2. pg' \in [Rooms -> CanvasOrNil] /\ torn' \in BOOLEAN
    BY <1>3, <2>1, WriteRowType DEF SaveWrite
  <2>3. past' \in [Rooms -> SUBSET CanvasStateData]
    BY <1>3, <2>1, HeldType DEF SaveWrite, TypeOK
  <2> QED BY <1>3, <2>2, <2>3, ReturnType DEF SaveWrite, TypeOK
<1> QED BY <1>1, <1>2, <1>3 DEF SaveStep

LEMMA SnapshotStepType ==
    ASSUME TypeOK, NEW p \in Procs, SnapshotStep(p)
    PROVE  TypeOK'
PROOF
<1>1. CASE SnapshotLive(p)
  <2>1. task' \in [Procs -> Task] /\ HandlersHold'
    <3>1. task[p].pc # "idle" /\ task[p].state \in CanvasOrNil
      BY <1>1, HeldType DEF SnapshotLive, Resumes
    <3>2. CASE task[p].state = Nil
      BY <1>1, <3>1, <3>2, AwaitRowType DEF SnapshotLive
    <3>3. CASE task[p].state # Nil
      BY <1>1, <3>1, <3>3, HeldType, AwaitCanvasType DEF SnapshotLive, HoldsCanvas
    <3> QED BY <3>2, <3>3
  <2> QED BY <1>1, <2>1, QueueType
          DEF SnapshotLive, Resumes, RedisAwaits, Replied, TypeOK, stores
<1>2. CASE SnapshotCold(p)
  <2> DEFINE s == CanvasOr(pg[task[p].room])
  <2>1. s \in CanvasStateData
    BY <1>2, HeldType, CanvasOrType DEF SnapshotCold, Resumes, TypeOK
  <2> HIDE DEF s
  <2>2. task' \in [Procs -> Task] /\ HandlersHold'
    <3>1. task[p].pc # "idle"
      BY <1>2 DEF s, SnapshotCold, Resumes
    <3> QED BY <1>2, <2>1, <3>1, AwaitCanvasType DEF s, SnapshotCold, HoldsCanvas
  <2> QED BY <1>2, <2>2 DEF SnapshotCold, TypeOK, stores
<1>3. CASE SnapshotInsert(p)
  <2>1. task[p].state \in CanvasStateData
    BY <1>3, HeldType DEF SnapshotInsert, Resumes, TypeOK, HandlersHold
  <2>2. ContentOf(task[p].state) \in Content
    BY <2>1 DEF ContentOf, Content, CanvasStateData
  <2> QED BY <1>3, <2>2, ReturnType DEF SnapshotInsert, TypeOK
<1> QED BY <1>1, <1>2, <1>3 DEF SnapshotStep

LEMMA ExpireType ==
    ASSUME TypeOK, NEW r \in Rooms, Expire(r)
    PROVE  TypeOK'
PROOF
<1>1. budget' \in [Kinds -> Nat]
  BY BudgetType DEF Expire, Kinds
<1>2. redis' \in [Rooms -> CanvasOrNil]
  BY DEF Expire, TypeOK, CanvasOrNil
<1>3. HandlersHold'
  BY DEF Expire, TypeOK, HandlersHold
<1> QED BY <1>1, <1>2, <1>3 DEF Expire, TypeOK

LEMMA CrashType ==
    ASSUME TypeOK, Crash
    PROVE  TypeOK'
PROOF
<1>1. budget' \in [Kinds -> Nat]
  BY BudgetType DEF Crash, Kinds
<1> QED BY <1>1, RestartType DEF Crash

LEMMA RejectedType ==
    ASSUME TypeOK, NEW p \in Procs, Rejected(p), budget' \in [Kinds -> Nat],
           task[p].pc \in RedisAwaits => redisQ # <<>>
    PROVE  TypeOK'
PROOF
<1>1. CASE task[p].pc \in FlushAwaits
  BY <1>1, RestartType DEF Rejected
<1>2. CASE task[p].pc \notin FlushAwaits
  <2>1. Return(p) /\ UNCHANGED <<stores, dirtyRooms, lastAck>>
    BY <1>2 DEF Rejected
  <2>2. redisQ' \in Seq(Procs)
    BY <1>2, QueueType DEF Rejected, TypeOK
  <2> QED BY <2>1, <2>2, ReturnType DEF TypeOK, stores
<1> QED BY <1>1, <1>2

LEMMA FaultType ==
    ASSUME TypeOK, NEW p \in Procs, Fault(p)
    PROVE  TypeOK'
PROOF
<1>1. budget' \in [Kinds -> Nat]
  BY BudgetType DEF Fault, Kinds
<1> QED BY <1>1, RejectedType DEF Fault, Resumes

LEMMA CollideType ==
    ASSUME TypeOK, NEW p \in Procs, Collide(p)
    PROVE  TypeOK'
PROOF
<1>1. budget' \in [Kinds -> Nat]
  BY DEF Collide, TypeOK
<1>2. task[p].pc \notin RedisAwaits
  BY DEF Collide, WriteAwaits, RedisAwaits
<1> QED BY <1>1, <1>2, RejectedType DEF Collide

LEMMA InitType == Init => TypeOK
PROOF
<1> SUFFICES ASSUME Init PROVE TypeOK
  OBVIOUS
<1>1. PICK start \in [Rooms -> Starts] :
         /\ redis = [r \in Rooms |-> start[r].live]
         /\ pg = [r \in Rooms |-> start[r].durable]
         /\ past = [r \in Rooms |-> {start[r].live, start[r].durable} \ {Nil}]
  BY DEF Init
<1>2. \A r \in Rooms : start[r].live \in CanvasOrNil /\ start[r].durable \in CanvasOrNil
  BY CanvasSyncAssumption
<1>3. redis \in [Rooms -> CanvasOrNil] /\ pg \in [Rooms -> CanvasOrNil]
  BY <1>1, <1>2
<1>4. past \in [Rooms -> SUBSET CanvasStateData]
  BY <1>1, <1>2 DEF CanvasOrNil
<1>6. task \in [Procs -> Task] /\ HandlersHold
  BY IdleType DEF Init, HandlersHold
<1>7. dirtyRooms \subseteq Rooms /\ redisQ \in Seq(Procs) /\ torn \in BOOLEAN
  <2>1. dirtyRooms = {} /\ redisQ = <<>> /\ torn = FALSE
    BY DEF Init
  <2>2. <<>> \in Seq(Procs)
    OBVIOUS
  <2>3. torn \in BOOLEAN
    BY <2>1, Zenon
  <2> QED BY <2>1, <2>2, <2>3
<1>8. snapshots \subseteq Content /\ budget \in [Kinds -> Nat]
  <2>1. snapshots = StartSnapshots /\ budget = Budget
    BY DEF Init
  <2> QED BY <2>1, CanvasSyncAssumption
<1>9. lastAck \in [Rooms -> Nat]
  BY DEF Init
<1> QED BY <1>3, <1>4, <1>6, <1>7, <1>8, <1>9 DEF TypeOK

\* Every step of the server keeps the types.
LEMMA NextType == TypeOK /\ [Next]_vars => TypeOK'
PROOF
<1> SUFFICES ASSUME TypeOK, [Next]_vars PROVE TypeOK'
  OBVIOUS
<1>1. ASSUME NEW p \in Procs, Step(p) PROVE TypeOK'
  BY <1>1, OpStepType, WarmStepType, FlushStepType, RestoreStepType,
     SaveStepType, SnapshotStepType, CollideType DEF Step
<1>2. CASE UNCHANGED vars
  BY <1>2 DEF vars, TypeOK, HandlersHold
<1> QED BY <1>1, <1>2, RequestType, FlushTickType, FaultType, ExpireType, CrashType DEF Next

\* Stores, handlers and queue always have their types, and a handler that is
\* about to use an operation, a content or a canvas holds one: no code path of
\* the service dereferences a null canvas (canvas-sync.service.ts:79-178).
THEOREM TypeCorrect == Spec => []TypeOK
PROOF
<1> QED BY InitType, NextType, PTL DEF Spec

-----------------------------------------------------------------------------
(* Integrity.                                                              *)

LEMMA SameItemsWellFormed ==
    ASSUME NEW s, NEW t, s.nodes = t.nodes, s.edges = t.edges, WellFormed(s)
    PROVE  WellFormed(t)
BY DEF WellFormed, UniqueNodeIds, UniqueEdgeIds, NoDanglingEdges, HasNode

LEMMA AtRevisionWellFormed ==
    ASSUME NEW c, NEW n, WellFormed(c)
    PROVE  WellFormed(AtRevision(c, n))
BY SameItemsWellFormed DEF AtRevision

LEMMA ContentOfWellFormed ==
    ASSUME NEW s, WellFormed(s)
    PROVE  WellFormed(ContentOf(s))
BY SameItemsWellFormed DEF ContentOf

LEMMA CanvasOrWellFormed ==
    ASSUME NEW s, s # Nil => WellFormed(s)
    PROVE  WellFormed(CanvasOr(s))
BY DEF CanvasOr, EmptyCanvas, WellFormed, UniqueNodeIds, UniqueEdgeIds, NoDanglingEdges

HandsIntegrity == \A p \in Procs : HoldsWellFormed(task[p])
AllWellFormed ==
    /\ \A r \in Rooms : redis[r] # Nil => WellFormed(redis[r])
    /\ \A r \in Rooms : pg[r] # Nil => WellFormed(pg[r])
    /\ \A c \in snapshots : WellFormed(c)
    /\ HandsIntegrity

LEMMA StartWithGetIntegrity ==
    ASSUME TypeOK, AllWellFormed, NEW p \in Procs, NEW r \in Rooms, NEW a, NEW pc,
           StartWithGet(p, pc, r, a),
           pc \in {"restore:get", "save:row"} => WellFormed(a)
    PROVE  HandsIntegrity'
PROOF
<1> DEFINE t == Handler(pc, r, a, redis[r], {})
<1>1. task' = [task EXCEPT ![p] = t] /\ task \in [Procs -> Task]
  BY DEF StartWithGet, TypeOK
<1>2. HoldsWellFormed(t)
  BY DEF AllWellFormed, HoldsWellFormed, Handler
<1> HIDE DEF t
<1> QED BY <1>1, <1>2 DEF HandsIntegrity, AllWellFormed

LEMMA ReturnIntegrity ==
    ASSUME TypeOK, AllWellFormed, NEW p \in Procs, Return(p)
    PROVE  HandsIntegrity'
PROOF
<1>1. task' = [task EXCEPT ![p] = Idle] /\ task \in [Procs -> Task]
  BY DEF Return, TypeOK
<1>2. HoldsWellFormed(Idle)
  BY DEF Idle, Handler, HoldsWellFormed
<1> QED BY <1>1, <1>2 DEF HandsIntegrity, AllWellFormed

LEMMA AwaitIntegrity ==
    ASSUME TypeOK, AllWellFormed, NEW p \in Procs, NEW pc, NEW s, Await(p, pc, s),
           pc \notin {"restore:get", "save:row"},
           s # Nil => WellFormed(s)
    PROVE  HandsIntegrity'
PROOF
<1> DEFINE t == [task[p] EXCEPT !.pc = pc, !.state = s]
<1>1. task' = [task EXCEPT ![p] = t] /\ task \in [Procs -> Task]
  BY DEF Await, TypeOK
<1>2. t.pc = pc /\ t.state = s
  BY <1>1 DEF Task
<1>3. HoldsWellFormed(t)
  BY <1>2 DEF HoldsWellFormed
<1> HIDE DEF t
<1> QED BY <1>1, <1>3 DEF HandsIntegrity, AllWellFormed

LEMMA FlushNextIntegrity ==
    ASSUME TypeOK, AllWellFormed, NEW p \in Procs, NEW todo \in SUBSET Rooms, NEW q,
           FlushNext(p, todo, q)
    PROVE  HandsIntegrity'
PROOF
<1>1. CASE todo = {}
  BY <1>1, ReturnIntegrity DEF FlushNext
<1>2. CASE todo # {}
  <2>1. PICK r \in todo :
           task' = [task EXCEPT ![p] = Handler("flush:get", r, Nil, redis[r], Rest(todo, r))]
    BY <1>2 DEF FlushNext
  <2> DEFINE t == Handler("flush:get", r, Nil, redis[r], Rest(todo, r))
  <2>2. HoldsWellFormed(t)
    BY DEF AllWellFormed, HoldsWellFormed, Handler
  <2>3. task' = [task EXCEPT ![p] = t] /\ task \in [Procs -> Task]
    BY <2>1 DEF TypeOK
  <2> HIDE DEF t
  <2> QED BY <2>2, <2>3 DEF HandsIntegrity, AllWellFormed
<1> QED BY <1>1, <1>2

LEMMA SetRedisIntegrity ==
    ASSUME TypeOK, AllWellFormed, NEW r \in Rooms, NEW s, WellFormed(s), SetRedis(r, s)
    PROVE  \A q \in Rooms : redis'[q] # Nil => WellFormed(redis'[q])
BY DEF TypeOK, AllWellFormed, SetRedis

LEMMA ReadRowIntegrity ==
    ASSUME TypeOK, AllWellFormed, NEW p \in Procs, NEW pc \in WriteAwaits, ReadRow(p, pc)
    PROVE  HandsIntegrity'
PROOF
<1> DEFINE t == [task[p] EXCEPT !.pc = pc, !.base = pg[task[p].room]]
<1>1. task' = [task EXCEPT ![p] = t] /\ task \in [Procs -> Task]
  BY DEF ReadRow, TypeOK
<1>2. t.pc = pc /\ t.state = task[p].state
  BY <1>1 DEF Task
<1>3. HoldsWellFormed(t)
  BY <1>2 DEF HoldsWellFormed, AllWellFormed, HandsIntegrity, WriteAwaits
<1> HIDE DEF t
<1> QED BY <1>1, <1>3 DEF HandsIntegrity, AllWellFormed

LEMMA SavedIntegrity ==
    ASSUME TypeOK, AllWellFormed, NEW p \in Procs, NEW pc \in {"flush:saved", "restore:saved"},
           task' = [task EXCEPT ![p].pc = pc, ![p].base = Nil]
    PROVE  HandsIntegrity'
PROOF
<1> DEFINE t == [task[p] EXCEPT !.pc = pc, !.base = Nil]
<1>1. task' = [task EXCEPT ![p] = t] /\ task \in [Procs -> Task]
  BY DEF TypeOK
<1>2. t.pc = pc /\ t.state = task[p].state
  BY <1>1 DEF Task
<1>3. HoldsWellFormed(t)
  BY <1>2 DEF HoldsWellFormed, AllWellFormed, HandsIntegrity
<1> HIDE DEF t
<1> QED BY <1>1, <1>3 DEF HandsIntegrity, AllWellFormed

\* A save that is not torn writes the canvas it was given.
LEMMA WriteRowWhole ==
    ASSUME TypeOK, NEW p \in Procs, WriteRow(p), ~torn',
           task[p].pc # "idle", task[p].state # Nil
    PROVE  pg' = [pg EXCEPT ![task[p].room] = task[p].state] /\ ~torn
PROOF
<1>1. /\ pg[task[p].room] \in CanvasOrNil /\ task[p].base \in CanvasOrNil
      /\ task[p].state \in CanvasStateData
  BY HeldType DEF TypeOK
<1>2. task[p].base = pg[task[p].room] /\ ~torn
  BY DEF WriteRow, TypeOK
<1>3. Written(pg[task[p].room], task[p].base, task[p].state) = task[p].state
  BY <1>1, <1>2, WrittenType
<1> QED BY <1>2, <1>3 DEF WriteRow

LEMMA WriteRowIntegrity ==
    ASSUME TypeOK, AllWellFormed, NEW p \in Procs, WriteRow(p), ~torn',
           task[p].pc # "idle", task[p].state # Nil, WellFormed(task[p].state)
    PROVE  \A q \in Rooms : pg'[q] # Nil => WellFormed(pg'[q])
BY WriteRowWhole, HeldType DEF TypeOK, AllWellFormed

\* What a handler reads, it reads well formed.
LEMMA HeldIntegrity ==
    ASSUME TypeOK, AllWellFormed, NEW p \in Procs
    PROVE  /\ task[p].state # Nil => WellFormed(task[p].state)
           /\ task[p].pc \in {"restore:get", "save:row"} => WellFormed(task[p].arg)
           /\ task[p].pc \in HoldsCanvas \cup {"op:set", "op:expire"}
                => WellFormed(task[p].state)
           /\ task[p].pc # "idle" => WellFormed(CanvasOr(pg[task[p].room]))
PROOF
<1>1. /\ task[p].state # Nil => WellFormed(task[p].state)
      /\ task[p].pc \in {"restore:get", "save:row"} => WellFormed(task[p].arg)
  BY DEF AllWellFormed, HandsIntegrity, HoldsWellFormed
<1>2. task[p].pc \in HoldsCanvas \cup {"op:set", "op:expire"} => task[p].state # Nil
  BY HeldType, NilIsNoData
<1>3. task[p].pc # "idle" => WellFormed(CanvasOr(pg[task[p].room]))
  BY HeldType, CanvasOrWellFormed DEF AllWellFormed
<1> QED BY <1>1, <1>2, <1>3

LEMMA RestartIntegrity ==
    ASSUME TypeOK, AllWellFormed, Restart
    PROVE  AllWellFormed'
BY DEF Restart, AllWellFormed, HandsIntegrity, HoldsWellFormed, Idle, Handler, stores

LEMMA RequestIntegrity ==
    ASSUME TypeOK, AllWellFormed, NEW p \in Procs, Request(p)
    PROVE  AllWellFormed'
PROOF
<1>1. UNCHANGED stores
  BY DEF Request, OpRequest, JoinRequest, LeaveRequest, RestoreRequest, SaveRequest,
         SnapshotRequest
<1>2. HandsIntegrity'
  <2>1. CASE OpRequest(p)
    BY <2>1, StartWithGetIntegrity DEF OpRequest
  <2>2. CASE JoinRequest(p)
    BY <2>2, StartWithGetIntegrity DEF JoinRequest
  <2>3. CASE LeaveRequest(p)
    BY <2>3, StartWithGetIntegrity DEF LeaveRequest
  <2>4. CASE RestoreRequest(p)
    <3>1. PICK r \in Rooms, c \in snapshots : StartWithGet(p, "restore:get", r, c)
      BY <2>4 DEF RestoreRequest
    <3>2. WellFormed(c)
      BY DEF AllWellFormed
    <3> QED BY <3>1, <3>2, StartWithGetIntegrity
  <2>5. CASE SaveRequest(p)
    <3>1. PICK r \in Rooms, c \in Drafts :
             task' = [task EXCEPT ![p] = Handler("save:row", r, c, Nil, {})]
      BY <2>5 DEF SaveRequest
    <3> DEFINE t == Handler("save:row", r, c, Nil, {})
    <3>2. HoldsWellFormed(t)
      BY WellFormedAssumption DEF HoldsWellFormed, Handler
    <3>3. task' = [task EXCEPT ![p] = t] /\ task \in [Procs -> Task]
      BY <3>1 DEF TypeOK
    <3> HIDE DEF t
    <3> QED BY <3>2, <3>3 DEF HandsIntegrity, AllWellFormed
  <2>6. CASE SnapshotRequest(p)
    BY <2>6, StartWithGetIntegrity DEF SnapshotRequest
  <2> QED BY <2>1, <2>2, <2>3, <2>4, <2>5, <2>6 DEF Request
<1> QED BY <1>1, <1>2 DEF stores, HandsIntegrity, AllWellFormed

LEMMA OpStepIntegrity ==
    ASSUME TypeOK, AllWellFormed, NEW p \in Procs, OpStep(p)
    PROVE  AllWellFormed'
PROOF
<1>1. CASE OpNotFound(p)
  BY <1>1, ReturnIntegrity DEF OpNotFound, stores, HandsIntegrity, AllWellFormed
<1>2. CASE OpWrite(p)
  <2> DEFINE new == AtRevision(ApplyOperation(task[p].state, task[p].arg),
                               task[p].state.revision + 1)
  <2>1. task[p].state \in CanvasStateData /\ task[p].arg \in Operation /\ task[p].room \in Rooms
    BY <1>2, HeldType, CanvasSyncAssumption DEF OpWrite, Resumes
  <2>2. WellFormed(task[p].state)
    BY <1>2, HeldIntegrity DEF OpWrite
  <2>3. WellFormed(new)
    BY <2>1, <2>2, ApplyOperationWellFormed, AtRevisionWellFormed
  <2>4. SetRedis(task[p].room, new) /\ Await(p, "op:set", new)
    BY <1>2 DEF OpWrite
  <2> HIDE DEF new
  <2>5. HandsIntegrity'
    BY <2>3, <2>4, AwaitIntegrity
  <2>6. \A q \in Rooms : redis'[q] # Nil => WellFormed(redis'[q])
    BY <2>1, <2>3, <2>4, SetRedisIntegrity
  <2> QED BY <1>2, <2>5, <2>6 DEF OpWrite, HandsIntegrity, AllWellFormed
<1>3. CASE OpRefreshTTL(p)
  <2>1. HandsIntegrity'
    BY <1>3, HeldIntegrity, AwaitIntegrity DEF OpRefreshTTL
  <2> QED BY <1>3, <2>1 DEF OpRefreshTTL, stores, HandsIntegrity, AllWellFormed
<1>4. CASE OpDone(p)
  BY <1>4, ReturnIntegrity DEF OpDone, stores, HandsIntegrity, AllWellFormed
<1> QED BY <1>1, <1>2, <1>3, <1>4 DEF OpStep

LEMMA WarmStepIntegrity ==
    ASSUME TypeOK, AllWellFormed, NEW p \in Procs, WarmStep(p)
    PROVE  AllWellFormed'
PROOF
<1>1. CASE WarmHit(p)
  BY <1>1, ReturnIntegrity DEF WarmHit, stores, HandsIntegrity, AllWellFormed
<1>2. CASE WarmMiss(p)
  <2>1. HandsIntegrity'
    BY <1>2, AwaitIntegrity DEF WarmMiss
  <2> QED BY <1>2, <2>1 DEF WarmMiss, stores, HandsIntegrity, AllWellFormed
<1>3. CASE WarmSelect(p)
  <2>1. WellFormed(CanvasOr(pg[task[p].room]))
    BY <1>3, HeldIntegrity DEF WarmSelect, Resumes
  <2>2. HandsIntegrity'
    BY <1>3, <2>1, AwaitIntegrity DEF WarmSelect
  <2> QED BY <1>3, <2>2 DEF WarmSelect, stores, HandsIntegrity, AllWellFormed
<1>4. CASE WarmStore(p)
  <2>1. task[p].room \in Rooms /\ WellFormed(task[p].state)
    BY <1>4, HeldType, HeldIntegrity DEF WarmStore, Resumes, HoldsCanvas
  <2>2. HandsIntegrity'
    BY <1>4, <2>1, AwaitIntegrity DEF WarmStore
  <2>3. \A q \in Rooms : redis'[q] # Nil => WellFormed(redis'[q])
    BY <1>4, <2>1, SetRedisIntegrity DEF WarmStore
  <2> QED BY <1>4, <2>2, <2>3 DEF WarmStore, HandsIntegrity, AllWellFormed
<1>5. CASE WarmDone(p)
  BY <1>5, ReturnIntegrity DEF WarmDone, stores, HandsIntegrity, AllWellFormed
<1> QED BY <1>1, <1>2, <1>3, <1>4, <1>5 DEF WarmStep

LEMMA FlushStepIntegrity ==
    ASSUME TypeOK, AllWellFormed, ~torn', NEW p \in Procs, FlushTick(p) \/ FlushStep(p)
    PROVE  AllWellFormed'
PROOF
<1>0. dirtyRooms \in SUBSET Rooms /\ task[p].todo \in SUBSET Rooms
  BY HeldType DEF TypeOK
<1>1. CASE FlushTick(p)
  BY <1>0, <1>1, FlushNextIntegrity DEF FlushTick, stores, HandsIntegrity, AllWellFormed
<1>2. CASE FlushMiss(p)
  BY <1>0, <1>2, FlushNextIntegrity DEF FlushMiss, stores, HandsIntegrity, AllWellFormed
<1>3. CASE FlushPersist(p)
  <2>1. HandsIntegrity'
    BY <1>3, HeldIntegrity, AwaitIntegrity DEF FlushPersist
  <2> QED BY <1>3, <2>1 DEF FlushPersist, stores, HandsIntegrity, AllWellFormed
<1>4. CASE FlushSave(p)
  <2>1. task[p].pc # "idle" /\ task[p].state # Nil /\ WellFormed(task[p].state)
    BY <1>4, HeldType, HeldIntegrity, NilIsNoData DEF FlushSave, Resumes, HoldsCanvas
  <2>2. HandsIntegrity'
    BY <1>4, SavedIntegrity DEF FlushSave
  <2>3. \A q \in Rooms : pg'[q] # Nil => WellFormed(pg'[q])
    BY <1>4, <2>1, WriteRowIntegrity DEF FlushSave
  <2> QED BY <1>4, <2>2, <2>3 DEF FlushSave, HandsIntegrity, AllWellFormed
<1>6. CASE FlushRead(p)
  <2>1. HandsIntegrity'
    BY <1>6, ReadRowIntegrity DEF FlushRead, WriteAwaits
  <2> QED BY <1>6, <2>1 DEF FlushRead, stores, HandsIntegrity, AllWellFormed
<1>5. CASE FlushDone(p)
  BY <1>0, <1>5, FlushNextIntegrity DEF FlushDone, stores, HandsIntegrity, AllWellFormed
<1> QED BY <1>1, <1>2, <1>3, <1>4, <1>5, <1>6 DEF FlushStep

LEMMA RestoreStepIntegrity ==
    ASSUME TypeOK, AllWellFormed, ~torn', NEW p \in Procs, RestoreStep(p)
    PROVE  AllWellFormed'
PROOF
<1>1. CASE RestoreWrite(p)
  <2> DEFINE new == Restored(task[p].arg, task[p].state)
  <2>1. task[p].room \in Rooms /\ WellFormed(task[p].arg)
    BY <1>1, HeldType, HeldIntegrity DEF RestoreWrite, Resumes
  <2>2. WellFormed(new)
    BY <2>1, AtRevisionWellFormed DEF Restored
  <2>3. SetRedis(task[p].room, new) /\ Await(p, "restore:set", new)
    BY <1>1 DEF RestoreWrite
  <2> HIDE DEF new
  <2>4. HandsIntegrity'
    BY <2>2, <2>3, AwaitIntegrity
  <2>5. \A q \in Rooms : redis'[q] # Nil => WellFormed(redis'[q])
    BY <2>1, <2>2, <2>3, SetRedisIntegrity
  <2> QED BY <1>1, <2>4, <2>5 DEF RestoreWrite, HandsIntegrity, AllWellFormed
<1>2. CASE RestoreRefreshTTL(p)
  <2>1. HandsIntegrity'
    BY <1>2, HeldIntegrity, AwaitIntegrity DEF RestoreRefreshTTL
  <2> QED BY <1>2, <2>1 DEF RestoreRefreshTTL, stores, HandsIntegrity, AllWellFormed
<1>3. CASE RestorePersist(p)
  <2>1. HandsIntegrity'
    BY <1>3, HeldIntegrity, AwaitIntegrity DEF RestorePersist
  <2> QED BY <1>3, <2>1 DEF RestorePersist, stores, HandsIntegrity, AllWellFormed
<1>4. CASE RestoreSave(p)
  <2>1. task[p].pc # "idle" /\ task[p].state # Nil /\ WellFormed(task[p].state)
    BY <1>4, HeldType, HeldIntegrity, NilIsNoData DEF RestoreSave, Resumes, HoldsCanvas
  <2>2. HandsIntegrity'
    BY <1>4, SavedIntegrity DEF RestoreSave
  <2>3. \A q \in Rooms : pg'[q] # Nil => WellFormed(pg'[q])
    BY <1>4, <2>1, WriteRowIntegrity DEF RestoreSave
  <2> QED BY <1>4, <2>2, <2>3 DEF RestoreSave, HandsIntegrity, AllWellFormed
<1>6. CASE RestoreRead(p)
  <2>1. HandsIntegrity'
    BY <1>6, ReadRowIntegrity DEF RestoreRead, WriteAwaits
  <2> QED BY <1>6, <2>1 DEF RestoreRead, stores, HandsIntegrity, AllWellFormed
<1>5. CASE RestoreDone(p)
  BY <1>5, ReturnIntegrity DEF RestoreDone, stores, HandsIntegrity, AllWellFormed
<1> QED BY <1>1, <1>2, <1>3, <1>4, <1>5, <1>6 DEF RestoreStep

LEMMA SaveStepIntegrity ==
    ASSUME TypeOK, AllWellFormed, ~torn', NEW p \in Procs, SaveStep(p)
    PROVE  AllWellFormed'
PROOF
<1>1. CASE SaveSelect(p)
  <2> DEFINE s == AtRevision(task[p].arg, CanvasOr(pg[task[p].room]).revision + 1)
  <2>1. WellFormed(s)
    BY <1>1, HeldIntegrity, AtRevisionWellFormed DEF SaveSelect, Resumes
  <2>2. Await(p, "save:save", s)
    BY <1>1 DEF SaveSelect
  <2> HIDE DEF s
  <2>3. HandsIntegrity'
    BY <2>1, <2>2, AwaitIntegrity
  <2> QED BY <1>1, <2>3 DEF SaveSelect, stores, HandsIntegrity, AllWellFormed
<1>2. CASE SaveRead(p)
  <2>1. HandsIntegrity'
    BY <1>2, ReadRowIntegrity DEF SaveRead, WriteAwaits
  <2> QED BY <1>2, <2>1 DEF SaveRead, stores, HandsIntegrity, AllWellFormed
<1>3. CASE SaveWrite(p)
  <2>1. task[p].pc # "idle" /\ task[p].state # Nil /\ WellFormed(task[p].state)
    BY <1>3, HeldType, HeldIntegrity, NilIsNoData DEF SaveWrite, Resumes, HoldsCanvas
  <2>2. \A q \in Rooms : pg'[q] # Nil => WellFormed(pg'[q])
    BY <1>3, <2>1, WriteRowIntegrity DEF SaveWrite
  <2> QED BY <1>3, <2>2, ReturnIntegrity DEF SaveWrite, HandsIntegrity, AllWellFormed
<1> QED BY <1>1, <1>2, <1>3 DEF SaveStep

LEMMA SnapshotStepIntegrity ==
    ASSUME TypeOK, AllWellFormed, NEW p \in Procs, SnapshotStep(p)
    PROVE  AllWellFormed'
PROOF
<1>1. CASE SnapshotLive(p)
  <2>1. HandsIntegrity'
    BY <1>1, HeldIntegrity, AwaitIntegrity DEF SnapshotLive
  <2> QED BY <1>1, <2>1 DEF SnapshotLive, stores, HandsIntegrity, AllWellFormed
<1>2. CASE SnapshotCold(p)
  <2>1. WellFormed(CanvasOr(pg[task[p].room]))
    BY <1>2, HeldIntegrity DEF SnapshotCold, Resumes
  <2>2. HandsIntegrity'
    BY <1>2, <2>1, AwaitIntegrity DEF SnapshotCold
  <2> QED BY <1>2, <2>2 DEF SnapshotCold, stores, HandsIntegrity, AllWellFormed
<1>3. CASE SnapshotInsert(p)
  <2>1. WellFormed(ContentOf(task[p].state))
    BY <1>3, HeldIntegrity, ContentOfWellFormed DEF SnapshotInsert, Resumes, HoldsCanvas
  <2> QED BY <1>3, <2>1, ReturnIntegrity DEF SnapshotInsert, HandsIntegrity, AllWellFormed
<1> QED BY <1>1, <1>2, <1>3 DEF SnapshotStep

LEMMA RejectedIntegrity ==
    ASSUME TypeOK, AllWellFormed, NEW p \in Procs, Rejected(p)
    PROVE  AllWellFormed'
PROOF
<1>1. CASE task[p].pc \in FlushAwaits
  BY <1>1, RestartIntegrity DEF Rejected
<1>2. CASE task[p].pc \notin FlushAwaits
  BY <1>2, ReturnIntegrity DEF Rejected, stores, HandsIntegrity, AllWellFormed
<1> QED BY <1>1, <1>2

LEMMA EnvironmentIntegrity ==
    ASSUME TypeOK, AllWellFormed,
           \/ Crash
           \/ \E r \in Rooms : Expire(r)
           \/ \E p \in Procs : Fault(p) \/ Collide(p)
    PROVE  AllWellFormed'
PROOF
<1>1. CASE Crash
  BY <1>1, RestartIntegrity DEF Crash
<1>2. ASSUME NEW r \in Rooms, Expire(r) PROVE AllWellFormed'
  BY <1>2 DEF Expire, AllWellFormed, HandsIntegrity, TypeOK, HoldsWellFormed
<1>3. ASSUME NEW p \in Procs, Fault(p) \/ Collide(p) PROVE AllWellFormed'
  BY <1>3, RejectedIntegrity DEF Fault, Collide
<1> QED BY <1>1, <1>2, <1>3

LEMMA InitIntegrity == Init => AllWellFormed
PROOF
<1> SUFFICES ASSUME Init PROVE AllWellFormed
  OBVIOUS
<1>1. PICK start \in [Rooms -> Starts] :
         /\ redis = [r \in Rooms |-> start[r].live]
         /\ pg = [r \in Rooms |-> start[r].durable]
  BY DEF Init
<1>2. \A r \in Rooms : start[r] \in Starts
  OBVIOUS
<1>3. \A r \in Rooms : /\ redis[r] # Nil => WellFormed(redis[r])
                       /\ pg[r] # Nil => WellFormed(pg[r])
  BY <1>1, <1>2, WellFormedAssumption
<1>4. \A c \in snapshots : WellFormed(c)
  BY WellFormedAssumption DEF Init
<1>5. HandsIntegrity
  BY DEF Init, Idle, Handler, HandsIntegrity, HoldsWellFormed
<1> QED BY <1>3, <1>4, <1>5 DEF AllWellFormed

\* torn never comes off.
LEMMA TornStays ==
    ASSUME TypeOK, [Next]_vars, ~torn'
    PROVE  ~torn
PROOF
<1>1. CASE UNCHANGED vars
  BY <1>1 DEF vars
<1>2. ASSUME NEW p \in Procs, Request(p) \/ FlushTick(p) PROVE ~torn
  BY <1>2 DEF Request, OpRequest, JoinRequest, LeaveRequest, RestoreRequest, SaveRequest,
     SnapshotRequest, FlushTick, stores
<1>3. ASSUME NEW p \in Procs, Rejected(p) PROVE ~torn
  BY <1>3 DEF Rejected, Restart, stores
<1>4. ASSUME NEW p \in Procs, OpStep(p) \/ WarmStep(p) PROVE ~torn
  BY <1>4 DEF OpStep, OpNotFound, OpWrite, OpRefreshTTL, OpDone,
     WarmStep, WarmHit, WarmMiss, WarmSelect, WarmStore, WarmDone, stores
<1>5. ASSUME NEW p \in Procs, WriteRow(p) PROVE ~torn
  BY <1>5 DEF WriteRow, TypeOK
<1>6. ASSUME NEW p \in Procs, FlushStep(p) \/ RestoreStep(p) PROVE ~torn
  BY <1>5, <1>6 DEF FlushStep, FlushMiss, FlushPersist, FlushRead, FlushSave, FlushDone,
     RestoreStep, RestoreWrite, RestoreRefreshTTL, RestorePersist, RestoreRead,
     RestoreSave, RestoreDone, stores
<1>7. ASSUME NEW p \in Procs, SaveStep(p) \/ SnapshotStep(p) PROVE ~torn
  BY <1>5, <1>7 DEF SaveStep, SaveSelect, SaveRead, SaveWrite,
     SnapshotStep, SnapshotLive, SnapshotCold, SnapshotInsert, stores
<1>8. ASSUME NEW p \in Procs, Step(p) PROVE ~torn
  BY <1>3, <1>4, <1>6, <1>7, <1>8 DEF Step, Collide
<1>9. CASE Crash \/ \E r \in Rooms : Expire(r)
  BY <1>9 DEF Crash, Restart, Expire, stores
<1> QED BY <1>1, <1>2, <1>3, <1>8, <1>9 DEF Next, Fault

\* The canvases of the server stay well formed, whatever overlaps, fails or
\* crashes, until a save writes a row that has changed since it read it
\* (ot.ts:18, canvas-sync.service.ts:79, 129, 150, canvas-state.service.ts:69).
THEOREM IntegrityHolds == Spec => []Integrity
PROOF
<1>0. Integrity <=> (~torn => AllWellFormed)
  BY DEF Integrity, AllWellFormed, HandsIntegrity
<1>1. TypeOK /\ (~torn => AllWellFormed) /\ [Next]_vars => (~torn' => AllWellFormed')
  <2> SUFFICES ASSUME TypeOK, ~torn => AllWellFormed, [Next]_vars, ~torn'
               PROVE  AllWellFormed'
    OBVIOUS
  <2>0. AllWellFormed
    BY TornStays
  <2>1. ASSUME NEW p \in Procs, Step(p) PROVE AllWellFormed'
    BY <2>0, <2>1, OpStepIntegrity, WarmStepIntegrity, FlushStepIntegrity,
       RestoreStepIntegrity, SaveStepIntegrity, SnapshotStepIntegrity,
       EnvironmentIntegrity DEF Step
  <2>2. CASE UNCHANGED vars
    BY <2>0, <2>2 DEF vars, AllWellFormed, HandsIntegrity, HoldsWellFormed
  <2> QED BY <2>0, <2>1, <2>2, RequestIntegrity, FlushStepIntegrity, EnvironmentIntegrity
          DEF Next
<1>2. Init => (~torn => AllWellFormed)
  BY InitIntegrity
<1> QED BY <1>0, <1>1, <1>2, TypeCorrect, PTL DEF Spec

-----------------------------------------------------------------------------
(***************************************************************************)
(* Whatever a handler carries from Redis to PostgreSQL was live in the     *)
(* room it carries it for.                                                 *)
(***************************************************************************)

\* The awaits of a handler that carries a canvas on its way to the row.
Carrying == {"flush:get", "flush:save", "flush:write",
             "restore:set", "restore:expire", "restore:save", "restore:write"}
Carries(t, history) ==
    t.pc \in Carrying /\ t.state # Nil => t.state \in history[t.room]

\* DurableWasLive is not inductive: FlushSave writes what the handler holds, so
\* what handlers hold, and the live canvas they read, must be in past as well.
DurableInv ==
    /\ \A r \in Rooms : redis[r] # Nil => redis[r] \in past[r]
    /\ \A p \in Procs : Carries(task[p], past)
    /\ DurableWasLive
    /\ ColumnsWereLive

-----------------------------------------------------------------------------

\* past only grows, and one handler moves on to t.
LEMMA CarriesKept ==
    ASSUME TypeOK, DurableInv, NEW p \in Procs, NEW t,
           task' = [task EXCEPT ![p] = t],
           \A r \in Rooms : past[r] \subseteq past'[r],
           Carries(t, past')
    PROVE  \A q \in Procs : Carries(task'[q], past')
PROOF
<1> SUFFICES ASSUME NEW q \in Procs PROVE Carries(task'[q], past')
  OBVIOUS
<1>1. CASE q = p
  BY <1>1 DEF TypeOK
<1>2. CASE q # p
  <2>1. task'[q] = task[q]
    BY <1>2 DEF TypeOK
  <2>2. task[q].pc \in Carrying => task[q].room \in Rooms
    BY HeldType DEF Carrying
  <2> QED BY <2>1, <2>2 DEF Carries, DurableInv
<1> QED BY <1>1, <1>2

\* A step that only moves one handler on.
LEMMA HandlerStep ==
    ASSUME TypeOK, DurableInv, NEW p \in Procs, NEW t,
           task' = [task EXCEPT ![p] = t],
           UNCHANGED <<redis, pg, past, torn>>,
           Carries(t, past)
    PROVE  DurableInv'
PROOF
<1>1. \A q \in Procs : Carries(task'[q], past')
  BY CarriesKept DEF Carries
<1> QED BY <1>1 DEF DurableInv, DurableWasLive, RowIsACanvas, ColumnsWereLive

LEMMA StartWithGetDurable ==
    ASSUME TypeOK, DurableInv, NEW p \in Procs, NEW pc, NEW r \in Rooms, NEW a,
           StartWithGet(p, pc, r, a), UNCHANGED <<redis, pg, past, torn>>
    PROVE  DurableInv'
PROOF
<1> DEFINE t == Handler(pc, r, a, redis[r], {})
<1>1. task' = [task EXCEPT ![p] = t]
  BY DEF StartWithGet
<1>2. Carries(t, past)
  BY DEF Carries, DurableInv, Handler
<1> HIDE DEF t
<1> QED BY <1>1, <1>2, HandlerStep

LEMMA ReturnDurable ==
    ASSUME TypeOK, DurableInv, NEW p \in Procs, Return(p),
           UNCHANGED <<redis, pg, past, torn>>
    PROVE  DurableInv'
PROOF
<1>1. Carries(Idle, past)
  BY DEF Carries, Idle, Handler
<1> QED BY <1>1, HandlerStep DEF Return

\* A handler goes on with s, which it either does not carry to the row or has
\* carried before.
LEMMA AwaitDurable ==
    ASSUME TypeOK, DurableInv, NEW p \in Procs, NEW pc, NEW s, Await(p, pc, s),
           pc \in Carrying => task[p].pc \in Carrying /\ s = task[p].state,
           UNCHANGED <<redis, pg, past, torn>>
    PROVE  DurableInv'
PROOF
<1> DEFINE t == [task[p] EXCEPT !.pc = pc, !.state = s]
<1>1. task' = [task EXCEPT ![p] = t] /\ task[p] \in Task
  BY DEF Await, TypeOK
<1>2. t.pc = pc /\ t.state = s /\ t.room = task[p].room
  BY <1>1 DEF Task
<1>3. Carries(t, past)
  BY <1>2 DEF Carries, DurableInv
<1> HIDE DEF t
<1> QED BY <1>1, <1>3, HandlerStep

LEMMA FlushNextDurable ==
    ASSUME TypeOK, DurableInv, NEW p \in Procs, NEW todo \in SUBSET Rooms, NEW q,
           FlushNext(p, todo, q), UNCHANGED <<redis, pg, past, torn>>
    PROVE  DurableInv'
PROOF
<1>1. CASE todo = {}
  BY <1>1, ReturnDurable DEF FlushNext
<1>2. CASE todo # {}
  <2>1. PICK r \in todo :
           task' = [task EXCEPT ![p] = Handler("flush:get", r, Nil, redis[r], Rest(todo, r))]
    BY <1>2 DEF FlushNext
  <2> DEFINE t == Handler("flush:get", r, Nil, redis[r], Rest(todo, r))
  <2>2. Carries(t, past)
    BY DEF Carries, DurableInv, Handler
  <2>3. task' = [task EXCEPT ![p] = t]
    BY <2>1
  <2> HIDE DEF t
  <2> QED BY <2>2, <2>3, HandlerStep
<1> QED BY <1>1, <1>2

\* SET canvas:<room>: the new canvas is live, and so part of the history.
LEMMA SetRedisDurable ==
    ASSUME TypeOK, DurableInv, NEW p \in Procs, NEW pc, NEW s,
           SetRedis(task[p].room, s), task[p].room \in Rooms,
           Await(p, pc, s), UNCHANGED <<pg, torn>>
    PROVE  DurableInv'
PROOF
<1> DEFINE t == [task[p] EXCEPT !.pc = pc, !.state = s]
<1>1. task' = [task EXCEPT ![p] = t] /\ task[p] \in Task
  BY DEF Await, TypeOK
<1>2. t.pc = pc /\ t.state = s /\ t.room = task[p].room
  BY <1>1 DEF Task
<1>3. /\ \A r \in Rooms : past[r] \subseteq past'[r]
      /\ s \in past'[task[p].room]
  BY DEF SetRedis, TypeOK
<1>4. Carries(t, past')
  BY <1>2, <1>3 DEF Carries
<1>5. \A q \in Procs : Carries(task'[q], past')
  <2> HIDE DEF t
  <2> QED BY <1>1, <1>3, <1>4, CarriesKept
<1>6. \A r \in Rooms : redis'[r] # Nil => redis'[r] \in past'[r]
  BY DEF SetRedis, TypeOK, DurableInv
<1>7. DurableWasLive'
  BY <1>3 DEF DurableInv, DurableWasLive, RowIsACanvas
<1>8. ColumnsWereLive'
  BY <1>3 DEF DurableInv, ColumnsWereLive, ColumnsFrom
<1> QED BY <1>5, <1>6, <1>7, <1>8 DEF DurableInv

\* A handler reads the row and goes on with what it carries.
LEMMA ReadRowDurable ==
    ASSUME TypeOK, DurableInv, NEW p \in Procs, NEW pc, ReadRow(p, pc),
           pc \in Carrying => task[p].pc \in Carrying,
           UNCHANGED <<redis, pg, past, torn>>
    PROVE  DurableInv'
PROOF
<1> DEFINE t == [task[p] EXCEPT !.pc = pc, !.base = pg[task[p].room]]
<1>1. task' = [task EXCEPT ![p] = t] /\ task[p] \in Task
  BY DEF ReadRow, TypeOK
<1>2. t.pc = pc /\ t.state = task[p].state /\ t.room = task[p].room
  BY <1>1 DEF Task
<1>3. Carries(t, past)
  BY <1>2 DEF Carries, DurableInv
<1> HIDE DEF t
<1> QED BY <1>1, <1>3, HandlerStep

\* The columns a save writes: its own, or those that are there.
LEMMA WrittenColumns ==
    ASSUME NEW row \in CanvasOrNil, NEW base \in CanvasOrNil,
           NEW history, NEW s \in history, s \in CanvasStateData,
           row # Nil => ColumnsFrom(row, history),
           Written(row, base, s) # Nil
    PROVE  ColumnsFrom(Written(row, base, s), history)
PROOF
<1>1. CASE base = Nil
  BY <1>1, WrittenType DEF ColumnsFrom
<1>2. CASE base # Nil /\ row = Nil
  BY <1>2 DEF Written
<1>3. CASE base # Nil /\ row # Nil
  BY <1>3 DEF Written, ColumnsFrom
<1> QED BY <1>1, <1>2, <1>3

\* A save of a canvas of the room's history.
LEMMA WriteRowDurable ==
    ASSUME TypeOK, DurableInv, NEW p \in Procs, WriteRow(p),
           task[p].pc # "idle", task[p].state # Nil,
           \A r \in Rooms : past[r] \subseteq past'[r],
           task[p].state \in past'[task[p].room]
    PROVE  DurableWasLive' /\ ColumnsWereLive'
PROOF
<1>1. /\ task[p].room \in Rooms /\ pg[task[p].room] \in CanvasOrNil
      /\ task[p].base \in CanvasOrNil /\ task[p].state \in CanvasStateData
  BY HeldType DEF TypeOK
<1>2. DurableWasLive'
  <2> SUFFICES ASSUME ~torn' PROVE RowIsACanvas'
    BY DEF DurableWasLive
  <2>1. pg' = [pg EXCEPT ![task[p].room] = task[p].state] /\ ~torn
    BY WriteRowWhole
  <2> QED BY <1>1, <2>1 DEF DurableInv, DurableWasLive, RowIsACanvas, TypeOK
<1>3. ColumnsWereLive'
  <2> SUFFICES ASSUME NEW r \in Rooms, pg'[r] # Nil
               PROVE  ColumnsFrom(pg'[r], past'[r])
    BY DEF ColumnsWereLive
  <2>1. pg[r] # Nil => ColumnsFrom(pg[r], past'[r])
    BY DEF DurableInv, ColumnsWereLive, ColumnsFrom
  <2>2. CASE r = task[p].room
    <3>1. pg'[r] = Written(pg[r], task[p].base, task[p].state)
      BY <1>1, <2>2 DEF WriteRow, TypeOK
    <3> QED BY <1>1, <2>1, <2>2, <3>1, WrittenColumns
  <2>3. CASE r # task[p].room
    BY <2>1, <2>3 DEF WriteRow, TypeOK
  <2> QED BY <2>2, <2>3
<1> QED BY <1>2, <1>3

LEMMA SavedDurable ==
    ASSUME TypeOK, DurableInv, NEW p \in Procs, NEW pc \in {"flush:saved", "restore:saved"},
           WriteRow(p), task[p].pc \in Carrying, task[p].state # Nil,
           task' = [task EXCEPT ![p].pc = pc, ![p].base = Nil],
           UNCHANGED <<redis, past>>
    PROVE  DurableInv'
PROOF
<1> DEFINE t == [task[p] EXCEPT !.pc = pc, !.base = Nil]
<1>1. task' = [task EXCEPT ![p] = t] /\ task[p] \in Task
  BY DEF TypeOK
<1>2. t.pc \notin Carrying
  BY <1>1 DEF Task, Carrying
<1>3. \A q \in Procs : Carries(task'[q], past')
  <2>1. Carries(t, past')
    BY <1>2 DEF Carries
  <2> HIDE DEF t
  <2> QED BY <1>1, <2>1, CarriesKept
<1>4. task[p].pc # "idle" /\ task[p].state \in past'[task[p].room]
  BY DEF DurableInv, Carries, Carrying
<1>5. DurableWasLive' /\ ColumnsWereLive'
  BY <1>4, WriteRowDurable
<1> QED BY <1>3, <1>5 DEF DurableInv

LEMMA RestartDurable ==
    ASSUME TypeOK, DurableInv, Restart
    PROVE  DurableInv'
BY DEF Restart, DurableInv, DurableWasLive, RowIsACanvas, ColumnsWereLive,
       Carries, Carrying, Idle, Handler, stores

-----------------------------------------------------------------------------
(* Every step of the server.                                               *)

LEMMA RequestDurable ==
    ASSUME TypeOK, DurableInv, NEW p \in Procs, Request(p)
    PROVE  DurableInv'
PROOF
<1>1. CASE OpRequest(p)
  BY <1>1, StartWithGetDurable DEF OpRequest, stores
<1>2. CASE JoinRequest(p)
  BY <1>2, StartWithGetDurable DEF JoinRequest, stores
<1>3. CASE LeaveRequest(p)
  BY <1>3, StartWithGetDurable DEF LeaveRequest, stores
<1>4. CASE RestoreRequest(p)
  BY <1>4, StartWithGetDurable DEF RestoreRequest, stores
<1>5. CASE SaveRequest(p)
  <2>1. PICK r \in Rooms, c \in Drafts :
           task' = [task EXCEPT ![p] = Handler("save:row", r, c, Nil, {})]
    BY <1>5 DEF SaveRequest
  <2>2. Carries(Handler("save:row", r, c, Nil, {}), past)
    BY DEF Carries, Handler
  <2> QED BY <1>5, <2>1, <2>2, HandlerStep DEF SaveRequest, stores
<1>6. CASE SnapshotRequest(p)
  BY <1>6, StartWithGetDurable DEF SnapshotRequest, stores
<1> QED BY <1>1, <1>2, <1>3, <1>4, <1>5, <1>6 DEF Request

LEMMA OpStepDurable ==
    ASSUME TypeOK, DurableInv, NEW p \in Procs, OpStep(p)
    PROVE  DurableInv'
PROOF
<1>1. CASE OpNotFound(p)
  BY <1>1, ReturnDurable DEF OpNotFound, stores
<1>2. CASE OpWrite(p)
  <2>1. task[p].room \in Rooms
    BY <1>2, HeldType DEF OpWrite, Resumes
  <2> QED BY <1>2, <2>1, SetRedisDurable DEF OpWrite
<1>3. CASE OpRefreshTTL(p)
  BY <1>3, AwaitDurable DEF OpRefreshTTL, Carrying, stores
<1>4. CASE OpDone(p)
  BY <1>4, ReturnDurable DEF OpDone, stores
<1> QED BY <1>1, <1>2, <1>3, <1>4 DEF OpStep

LEMMA WarmStepDurable ==
    ASSUME TypeOK, DurableInv, NEW p \in Procs, WarmStep(p)
    PROVE  DurableInv'
PROOF
<1>1. CASE WarmHit(p)
  BY <1>1, ReturnDurable DEF WarmHit, stores
<1>2. CASE WarmMiss(p)
  BY <1>2, AwaitDurable DEF WarmMiss, Carrying, stores
<1>3. CASE WarmSelect(p)
  BY <1>3, AwaitDurable DEF WarmSelect, Carrying, stores
<1>4. CASE WarmStore(p)
  <2>1. task[p].room \in Rooms
    BY <1>4, HeldType DEF WarmStore, Resumes
  <2> QED BY <1>4, <2>1, SetRedisDurable DEF WarmStore
<1>5. CASE WarmDone(p)
  BY <1>5, ReturnDurable DEF WarmDone, stores
<1> QED BY <1>1, <1>2, <1>3, <1>4, <1>5 DEF WarmStep

LEMMA FlushStepDurable ==
    ASSUME TypeOK, DurableInv, NEW p \in Procs, FlushTick(p) \/ FlushStep(p)
    PROVE  DurableInv'
PROOF
<1>0. dirtyRooms \in SUBSET Rooms /\ task[p].todo \in SUBSET Rooms
  BY HeldType DEF TypeOK
<1>1. CASE FlushTick(p)
  BY <1>0, <1>1, FlushNextDurable DEF FlushTick, stores
<1>2. CASE FlushMiss(p)
  BY <1>0, <1>2, FlushNextDurable DEF FlushMiss, stores
<1>3. CASE FlushPersist(p)
  BY <1>3, AwaitDurable DEF FlushPersist, Resumes, Carrying, stores
<1>4. CASE FlushSave(p)
  <2>1. task[p].pc \in Carrying /\ task[p].state # Nil
    BY <1>4 DEF FlushSave, Resumes, Carrying, TypeOK, HandlersHold
  <2> QED BY <1>4, <2>1, SavedDurable DEF FlushSave
<1>6. CASE FlushRead(p)
  BY <1>6, ReadRowDurable DEF FlushRead, Resumes, Carrying, stores
<1>5. CASE FlushDone(p)
  BY <1>0, <1>5, FlushNextDurable DEF FlushDone, stores
<1> QED BY <1>1, <1>2, <1>3, <1>4, <1>5, <1>6 DEF FlushStep

LEMMA RestoreStepDurable ==
    ASSUME TypeOK, DurableInv, NEW p \in Procs, RestoreStep(p)
    PROVE  DurableInv'
PROOF
<1>1. CASE RestoreWrite(p)
  <2>1. task[p].room \in Rooms
    BY <1>1, HeldType DEF RestoreWrite, Resumes
  <2> QED BY <1>1, <2>1, SetRedisDurable DEF RestoreWrite
<1>2. CASE RestoreRefreshTTL(p)
  BY <1>2, AwaitDurable DEF RestoreRefreshTTL, Resumes, Carrying, stores
<1>3. CASE RestorePersist(p)
  BY <1>3, AwaitDurable DEF RestorePersist, Resumes, Carrying, stores
<1>4. CASE RestoreSave(p)
  <2>1. task[p].pc \in Carrying /\ task[p].state # Nil
    BY <1>4 DEF RestoreSave, Resumes, Carrying, TypeOK, HandlersHold
  <2> QED BY <1>4, <2>1, SavedDurable DEF RestoreSave
<1>6. CASE RestoreRead(p)
  BY <1>6, ReadRowDurable DEF RestoreRead, Resumes, Carrying, stores
<1>5. CASE RestoreDone(p)
  BY <1>5, ReturnDurable DEF RestoreDone, stores
<1> QED BY <1>1, <1>2, <1>3, <1>4, <1>5, <1>6 DEF RestoreStep

LEMMA SaveStepDurable ==
    ASSUME TypeOK, DurableInv, NEW p \in Procs, SaveStep(p)
    PROVE  DurableInv'
PROOF
<1>1. CASE SaveSelect(p)
  BY <1>1, AwaitDurable DEF SaveSelect, Carrying, stores
<1>2. CASE SaveRead(p)
  BY <1>2, ReadRowDurable DEF SaveRead, Resumes, Carrying, stores
<1>3. CASE SaveWrite(p)
  <2>1. task[p].room \in Rooms /\ task[p].pc # "idle" /\ task[p].state # Nil
    BY <1>3, HeldType DEF SaveWrite, Resumes, TypeOK, HandlersHold
  <2>2. past' = [past EXCEPT ![task[p].room] = @ \cup {task[p].state}]
    BY <1>3 DEF SaveWrite
  <2>3. /\ \A r \in Rooms : past[r] \subseteq past'[r]
        /\ task[p].state \in past'[task[p].room]
    BY <2>1, <2>2 DEF TypeOK
  <2>4. Carries(Idle, past')
    BY DEF Carries, Idle, Handler
  <2>5. \A q \in Procs : Carries(task'[q], past')
    BY <1>3, <2>3, <2>4, CarriesKept DEF SaveWrite, Return
  <2>6. DurableWasLive' /\ ColumnsWereLive'
    BY <1>3, <2>1, <2>3, WriteRowDurable DEF SaveWrite
  <2>7. \A r \in Rooms : redis'[r] # Nil => redis'[r] \in past'[r]
    BY <1>3, <2>3 DEF SaveWrite, DurableInv
  <2> QED BY <2>5, <2>6, <2>7 DEF DurableInv
<1> QED BY <1>1, <1>2, <1>3 DEF SaveStep

LEMMA SnapshotStepDurable ==
    ASSUME TypeOK, DurableInv, NEW p \in Procs, SnapshotStep(p)
    PROVE  DurableInv'
PROOF
<1>1. CASE SnapshotLive(p)
  BY <1>1, AwaitDurable DEF SnapshotLive, Carrying, stores
<1>2. CASE SnapshotCold(p)
  BY <1>2, AwaitDurable DEF SnapshotCold, Carrying, stores
<1>3. CASE SnapshotInsert(p)
  BY <1>3, ReturnDurable DEF SnapshotInsert
<1> QED BY <1>1, <1>2, <1>3 DEF SnapshotStep

LEMMA RejectedDurable ==
    ASSUME TypeOK, DurableInv, NEW p \in Procs, Rejected(p)
    PROVE  DurableInv'
PROOF
<1>1. CASE task[p].pc \in FlushAwaits
  BY <1>1, RestartDurable DEF Rejected
<1>2. CASE task[p].pc \notin FlushAwaits
  BY <1>2, ReturnDurable DEF Rejected, stores
<1> QED BY <1>1, <1>2

LEMMA EnvironmentDurable ==
    ASSUME TypeOK, DurableInv,
           \/ Crash
           \/ \E r \in Rooms : Expire(r)
           \/ \E p \in Procs : Fault(p) \/ Collide(p)
    PROVE  DurableInv'
PROOF
<1>1. CASE Crash
  BY <1>1, RestartDurable DEF Crash
<1>2. ASSUME NEW r \in Rooms, Expire(r) PROVE DurableInv'
  BY <1>2 DEF Expire, TypeOK, DurableInv, DurableWasLive, RowIsACanvas, ColumnsWereLive,
     Carries
<1>3. ASSUME NEW p \in Procs, Fault(p) \/ Collide(p) PROVE DurableInv'
  BY <1>3, RejectedDurable DEF Fault, Collide
<1> QED BY <1>1, <1>2, <1>3

LEMMA InitDurable == Init => DurableInv
PROOF
<1> SUFFICES ASSUME Init PROVE DurableInv
  OBVIOUS
<1>1. PICK start \in [Rooms -> Starts] :
         /\ redis = [r \in Rooms |-> start[r].live]
         /\ pg = [r \in Rooms |-> start[r].durable]
         /\ past = [r \in Rooms |-> {start[r].live, start[r].durable} \ {Nil}]
  BY DEF Init
<1>2. \A p \in Procs : Carries(task[p], past)
  BY DEF Init, Idle, Handler, Carries
<1>3. RowIsACanvas /\ \A r \in Rooms : redis[r] # Nil => redis[r] \in past[r]
  BY <1>1 DEF RowIsACanvas
<1> QED BY <1>2, <1>3 DEF DurableInv, DurableWasLive, RowIsACanvas, ColumnsWereLive, ColumnsFrom

LEMMA DurableInvHolds == Spec => []DurableInv
PROOF
<1>1. TypeOK /\ DurableInv /\ [Next]_vars => DurableInv'
  <2> SUFFICES ASSUME TypeOK, DurableInv, [Next]_vars PROVE DurableInv'
    OBVIOUS
  <2>1. ASSUME NEW p \in Procs, Step(p) PROVE DurableInv'
    BY <2>1, OpStepDurable, WarmStepDurable, FlushStepDurable, RestoreStepDurable,
       SaveStepDurable, SnapshotStepDurable, EnvironmentDurable DEF Step
  <2>2. CASE UNCHANGED vars
    BY <2>2 DEF vars, DurableInv, DurableWasLive, RowIsACanvas, ColumnsWereLive, Carries
  <2> QED BY <2>1, <2>2, RequestDurable, FlushStepDurable, EnvironmentDurable DEF Next
<1> QED BY <1>1, InitDurable, TypeCorrect, PTL DEF Spec

\* A row of canvas_states holds a canvas that was live in its room, or was saved
\* there by PUT, until a save writes a row that has changed since it read it: no
\* flush or restore, however late, however many in flight, and across failures
\* and crashes, writes a canvas of another room or one that nobody saw
\* (canvas-sync.service.ts:150-178, canvas-state.service.ts:69).
THEOREM DurableWasLiveHolds == Spec => []DurableWasLive
PROOF
<1>1. DurableInv => DurableWasLive
  BY DEF DurableInv
<1> QED BY <1>1, DurableInvHolds, PTL

\* Whatever saves overlap, each column of a row comes from such a canvas.
THEOREM ColumnsWereLiveHolds == Spec => []ColumnsWereLive
PROOF
<1>1. DurableInv => ColumnsWereLive
  BY DEF DurableInv
<1> QED BY <1>1, DurableInvHolds, PTL


-----------------------------------------------------------------------------
(* Order.  The handlers of a room await Redis in one queue.  Those that    *)
(* have read the live canvas and will write it stand in the order of what  *)
(* they read, none more than one revision behind; and an operation further *)
(* on than another has the lower revision.                                 *)

\* Where a handler of room r stands.
Reading(t, r) == t.room = r /\ t.pc \in {"op:get", "restore:get"}
Editing(t, r) == t.room = r /\ t.pc \in {"op:get", "op:set", "op:expire"}
Stage(t) == CASE t.pc = "op:get" -> 1 [] t.pc = "op:set" -> 2 [] OTHER -> 3

\* The revision an operation has been given, or will be.
Answer(t) == IF t.pc = "op:get" THEN t.state.revision + 1 ELSE t.state.revision

\* The handler of t awaits Redis ahead of that of u.
Precedes(t, u, r) ==
    /\ Reading(t, r) /\ Reading(u, r) => t.state.revision <= u.state.revision
    /\ Editing(t, r) /\ Editing(u, r) =>
          IF Stage(t) >= Stage(u) THEN Answer(t) <= Answer(u) ELSE Answer(u) <= Answer(t)

\* n is the revision of the live canvas, a the one acknowledged last.
Current(t, r, n, a) ==
    /\ Reading(t, r) => t.state.revision <= n /\ n <= t.state.revision + 1
    /\ Editing(t, r) => a <= Answer(t) /\ (t.pc # "op:get" => t.state.revision <= n)

\* A handler of a room that has always been warm has not missed its canvas.
Hit(t, r) == t.room = r =>
    /\ t.pc \in {"op:get", "restore:get", "join:get"} => t.state # Nil
    /\ t.pc \notin {"join:row", "join:reply", "join:set"}

InOrder(q, T, r, n, a) ==
    /\ \A i \in 1 .. Len(q) :
          T[q[i]].pc \in RedisAwaits /\ Current(T[q[i]], r, n, a)
    /\ \A i, j \in 1 .. Len(q) :
          i < j => q[i] # q[j] /\ Precedes(T[q[i]], T[q[j]], r)

OrderInv(r) ==
    /\ \A p \in Procs : Hit(task[p], r)
    /\ lastAck[r] <= redis[r].revision
    /\ InOrder(redisQ, task, r, redis[r].revision, lastAck[r])

-----------------------------------------------------------------------------
(* A queue in order stays so when a handler leaves it, changes outside it, *)
(* or joins its end.                                                       *)

LEMMA EmptyInOrder ==
    ASSUME NEW T, NEW r, NEW n, NEW a
    PROVE  InOrder(<<>>, T, r, n, a)
BY DEF InOrder

LEMMA TailInOrder ==
    ASSUME NEW q \in Seq(Procs), NEW T, NEW r, NEW n, NEW a, q # <<>>, InOrder(q, T, r, n, a)
    PROVE  /\ Tail(q) \in Seq(Procs)
           /\ InOrder(Tail(q), T, r, n, a)
           /\ T[Head(q)].pc \in RedisAwaits
           /\ Current(T[Head(q)], r, n, a)
           /\ \A i \in 1 .. Len(Tail(q)) :
                 /\ Tail(q)[i] # Head(q)
                 /\ Precedes(T[Head(q)], T[Tail(q)[i]], r)
PROOF
<1> DEFINE s == Tail(q)
<1>1. /\ s \in Seq(Procs) /\ Len(s) = Len(q) - 1 /\ Len(q) \in Nat /\ Len(q) >= 1
      /\ \A i \in 1 .. Len(s) : s[i] = q[i + 1] /\ i + 1 \in 1 .. Len(q)
      /\ Head(q) = q[1]
  OBVIOUS
<1> HIDE DEF s
<1>2. \A i \in 1 .. Len(s) : T[s[i]].pc \in RedisAwaits /\ Current(T[s[i]], r, n, a)
  BY <1>1 DEF InOrder
<1>3. \A i, j \in 1 .. Len(s) : i < j => s[i] # s[j] /\ Precedes(T[s[i]], T[s[j]], r)
  <2> SUFFICES ASSUME NEW i \in 1 .. Len(s), NEW j \in 1 .. Len(s), i < j
               PROVE  s[i] # s[j] /\ Precedes(T[s[i]], T[s[j]], r)
    OBVIOUS
  <2>1. i + 1 < j + 1 /\ i + 1 \in 1 .. Len(q) /\ j + 1 \in 1 .. Len(q)
    BY <1>1
  <2>2. q[i + 1] # q[j + 1] /\ Precedes(T[q[i + 1]], T[q[j + 1]], r)
    BY <2>1 DEF InOrder
  <2> QED BY <1>1, <2>2
<1>4. \A i \in 1 .. Len(s) : s[i] # q[1] /\ Precedes(T[q[1]], T[s[i]], r)
  <2> SUFFICES ASSUME NEW i \in 1 .. Len(s)
               PROVE  s[i] # q[1] /\ Precedes(T[q[1]], T[s[i]], r)
    OBVIOUS
  <2>1. 1 < i + 1 /\ i + 1 \in 1 .. Len(q) /\ 1 \in 1 .. Len(q)
    BY <1>1
  <2> QED BY <1>1, <2>1 DEF InOrder
<1>5. 1 \in 1 .. Len(q)
  BY <1>1
<1>6. T[q[1]].pc \in RedisAwaits /\ Current(T[q[1]], r, n, a)
  BY <1>5 DEF InOrder
<1>7. InOrder(s, T, r, n, a)
  BY <1>2, <1>3 DEF InOrder
<1> QED BY <1>1, <1>4, <1>6, <1>7 DEF s

LEMMA ElsewhereInOrder ==
    ASSUME NEW q \in Seq(Procs), NEW T, DOMAIN T = Procs, NEW r, NEW n, NEW a,
           NEW p \in Procs, NEW t,
           InOrder(q, T, r, n, a), \A i \in 1 .. Len(q) : q[i] # p
    PROVE  InOrder(q, [T EXCEPT ![p] = t], r, n, a)
PROOF
<1> DEFINE U == [T EXCEPT ![p] = t]
<1>1. \A i \in 1 .. Len(q) : U[q[i]] = T[q[i]]
  OBVIOUS
<1> HIDE DEF U
<1>2. InOrder(q, U, r, n, a)
  BY <1>1 DEF InOrder
<1> QED BY <1>2 DEF U

LEMMA AppendInOrder ==
    ASSUME NEW q \in Seq(Procs), NEW T, NEW r, NEW n, NEW a, NEW p \in Procs,
           InOrder(q, T, r, n, a), T[p].pc \in RedisAwaits, Current(T[p], r, n, a),
           \A i \in 1 .. Len(q) : q[i] # p /\ Precedes(T[q[i]], T[p], r)
    PROVE  InOrder(Append(q, p), T, r, n, a)
PROOF
<1> DEFINE s == Append(q, p)
<1>1. /\ Len(s) = Len(q) + 1 /\ Len(q) \in Nat /\ s[Len(s)] = p
      /\ \A i \in 1 .. Len(q) : s[i] = q[i]
      /\ \A i \in 1 .. Len(s) : i \in 1 .. Len(q) \/ i = Len(s)
  OBVIOUS
<1> HIDE DEF s
<1>2. \A i \in 1 .. Len(s) : T[s[i]].pc \in RedisAwaits /\ Current(T[s[i]], r, n, a)
  BY <1>1 DEF InOrder
<1>3. \A i, j \in 1 .. Len(s) : i < j => s[i] # s[j] /\ Precedes(T[s[i]], T[s[j]], r)
  <2> SUFFICES ASSUME NEW i \in 1 .. Len(s), NEW j \in 1 .. Len(s), i < j
               PROVE  s[i] # s[j] /\ Precedes(T[s[i]], T[s[j]], r)
    OBVIOUS
  <2>1. i \in 1 .. Len(q)
    BY <1>1
  <2>2. CASE j \in 1 .. Len(q)
    BY <1>1, <2>1, <2>2 DEF InOrder
  <2>3. CASE j = Len(s)
    BY <1>1, <2>1, <2>3
  <2> QED BY <1>1, <2>2, <2>3
<1>4. InOrder(s, T, r, n, a)
  BY <1>2, <1>3 DEF InOrder
<1> QED BY <1>4 DEF s

-----------------------------------------------------------------------------
(* What a handler does to the order of the room.                           *)

\* The queue once p has consumed what resumed it.
Left(p) == IF task[p].pc \in RedisAwaits THEN Tail(redisQ) ELSE redisQ

LEMMA LeftInOrder ==
    ASSUME TypeOK, NEW r \in Rooms, OrderInv(r), NEW p \in Procs,
           task[p].pc \in RedisAwaits => redisQ # <<>> /\ Head(redisQ) = p
    PROVE  /\ Left(p) \in Seq(Procs)
           /\ InOrder(Left(p), task, r, redis[r].revision, lastAck[r])
           /\ \A i \in 1 .. Len(Left(p)) :
                 /\ Left(p)[i] # p
                 /\ task[p].pc \in RedisAwaits => Precedes(task[p], task[Left(p)[i]], r)
           /\ task[p].pc \in RedisAwaits
                => Current(task[p], r, redis[r].revision, lastAck[r])
PROOF
<1>0. redisQ \in Seq(Procs)
  BY DEF TypeOK
<1>1. CASE task[p].pc \in RedisAwaits
  BY <1>0, <1>1, TailInOrder DEF OrderInv, Left
<1>2. CASE task[p].pc \notin RedisAwaits
  <2>1. \A i \in 1 .. Len(redisQ) : redisQ[i] # p
    BY <1>2 DEF OrderInv, InOrder
  <2> QED BY <1>0, <1>2, <2>1 DEF OrderInv, Left
<1> QED BY <1>1, <1>2

\* p goes on as t and awaits no reply of Redis.
LEMMA AwayInOrder ==
    ASSUME TypeOK, NEW r \in Rooms, OrderInv(r), NEW p \in Procs, NEW t,
           task[p].pc \in RedisAwaits => redisQ # <<>> /\ Head(redisQ) = p,
           task' = [task EXCEPT ![p] = t], redisQ' = Left(p), Hit(t, r),
           redis'[r] = redis[r], lastAck'[r] = lastAck[r]
    PROVE  OrderInv(r)'
PROOF
<1>1. DOMAIN task = Procs
  BY DEF TypeOK
<1>2. InOrder(Left(p), task', r, redis[r].revision, lastAck[r])
  BY <1>1, LeftInOrder, ElsewhereInOrder
<1>3. \A q \in Procs : Hit(task'[q], r)
  BY <1>1 DEF OrderInv
<1>4. InOrder(redisQ', task', r, redis'[r].revision, lastAck'[r])
  BY <1>2
<1>5. lastAck'[r] <= redis'[r].revision
  BY DEF OrderInv
<1> QED BY <1>3, <1>4, <1>5 DEF OrderInv

\* p goes on as t and awaits another reply of Redis.
LEMMA OnInOrder ==
    ASSUME TypeOK, NEW r \in Rooms, OrderInv(r), NEW p \in Procs, NEW t,
           task[p].pc \in RedisAwaits => redisQ # <<>> /\ Head(redisQ) = p,
           task' = [task EXCEPT ![p] = t], redisQ' = Append(Left(p), p), Hit(t, r),
           redis'[r] = redis[r], lastAck'[r] = lastAck[r],
           t.pc \in RedisAwaits, Current(t, r, redis[r].revision, lastAck[r]),
           \A i \in 1 .. Len(Left(p)) : Precedes(task[Left(p)[i]], t, r)
    PROVE  OrderInv(r)'
PROOF
<1>1. DOMAIN task = Procs
  BY DEF TypeOK
<1>2. InOrder(Left(p), task', r, redis[r].revision, lastAck[r])
  BY <1>1, LeftInOrder, ElsewhereInOrder
<1>3. \A q \in Procs : Hit(task'[q], r)
  BY <1>1 DEF OrderInv
<1>4. task'[p] = t
  BY <1>1
<1>5. \A i \in 1 .. Len(Left(p)) : Left(p)[i] # p /\ task'[Left(p)[i]] = task[Left(p)[i]]
  BY <1>1, LeftInOrder
<1>6. Left(p) \in Seq(Procs)
  BY LeftInOrder
<1>7. InOrder(redisQ', task', r, redis[r].revision, lastAck[r])
  BY <1>2, <1>4, <1>5, <1>6, AppendInOrder
<1>8. InOrder(redisQ', task', r, redis'[r].revision, lastAck'[r])
  BY <1>7
<1>9. lastAck'[r] <= redis'[r].revision
  BY DEF OrderInv
<1> QED BY <1>3, <1>8, <1>9 DEF OrderInv

\* What concerns neither the reads nor the acknowledgements of the room.
LEMMA BesideInOrder ==
    ASSUME NEW t, NEW r, ~Reading(t, r), ~Editing(t, r), NEW n, NEW a
    PROVE  Current(t, r, n, a) /\ \A u : Precedes(u, t, r)
BY DEF Current, Precedes

\* What stands in the queue of the room holds a canvas.
LEMMA HeldRevision ==
    ASSUME TypeOK, NEW r \in Rooms, OrderInv(r), NEW p \in Procs
    PROVE  Reading(task[p], r) \/ Editing(task[p], r) => task[p].state.revision \in Nat
PROOF
<1>1. Reading(task[p], r) \/ Editing(task[p], r) => task[p].state # Nil
  BY HeldType, NilIsNoData DEF OrderInv, Hit, Reading, Editing
<1>2. task[p].state # Nil => task[p].state.revision \in Nat
  BY HeldType DEF CanvasStateData
<1> QED BY <1>1, <1>2

\* A handler that has just read the live canvas is behind all others.
LEMMA ReadInOrder ==
    ASSUME TypeOK, NEW r \in Rooms, OrderInv(r), redis[r] # Nil, NEW t,
           t.room = r => t.state = redis[r],
           t.pc \notin {"op:set", "op:expire", "join:row", "join:reply", "join:set"}
    PROVE  /\ Hit(t, r)
           /\ Current(t, r, redis[r].revision, lastAck[r])
           /\ \A p \in Procs : Current(task[p], r, redis[r].revision, lastAck[r])
                                => Precedes(task[p], t, r)
PROOF
<1>1. redis[r].revision \in Nat /\ lastAck[r] \in Nat /\ lastAck[r] <= redis[r].revision
  BY DEF TypeOK, CanvasOrNil, CanvasStateData, OrderInv
<1>2. Hit(t, r)
  BY DEF Hit
<1>3. Current(t, r, redis[r].revision, lastAck[r])
  BY <1>1 DEF Current, Reading, Editing, Answer
<1>4. ASSUME NEW p \in Procs, Current(task[p], r, redis[r].revision, lastAck[r])
      PROVE  Precedes(task[p], t, r)
  <2>1. Reading(task[p], r) /\ Reading(t, r) => task[p].state.revision <= t.state.revision
    BY <1>4 DEF Current, Reading
  <2>2. ASSUME Editing(task[p], r), Editing(t, r)
        PROVE  Stage(task[p]) >= Stage(t) /\ Answer(task[p]) <= Answer(t)
    <3>1. t.pc = "op:get" /\ t.state = redis[r]
      BY <2>2 DEF Editing
    <3>2. Stage(task[p]) >= Stage(t)
      BY <2>2, <3>1 DEF Stage, Editing
    <3>3. task[p].state.revision <= redis[r].revision /\ task[p].state.revision \in Nat
      BY <1>4, <2>2, HeldRevision DEF Current, Reading, Editing
    <3>4. Answer(t) = redis[r].revision + 1
      BY <3>1 DEF Answer
    <3>5. Answer(task[p]) <= task[p].state.revision + 1
      BY <3>3 DEF Answer
    <3>6. Answer(task[p]) \in Nat
      BY <3>3 DEF Answer
    <3>7. Answer(task[p]) <= Answer(t)
      BY <1>1, <3>3, <3>4, <3>5, <3>6
    <3> QED BY <3>2, <3>7
  <2> QED BY <2>1, <2>2 DEF Precedes
<1> QED BY <1>2, <1>3, <1>4

LEMMA QueueCurrent ==
    ASSUME TypeOK, NEW r \in Rooms, OrderInv(r), NEW p \in Procs,
           task[p].pc \in RedisAwaits => redisQ # <<>> /\ Head(redisQ) = p
    PROVE  \A i \in 1 .. Len(Left(p)) :
              /\ Left(p)[i] \in Procs
              /\ Current(task[Left(p)[i]], r, redis[r].revision, lastAck[r])
BY LeftInOrder DEF InOrder

\* p sends GET and reads the live canvas of its room.
LEMMA GetInOrder ==
    ASSUME TypeOK, NEW r \in Rooms, OrderInv(r), redis[r] # Nil, NEW p \in Procs, NEW t,
           task[p].pc \in RedisAwaits => redisQ # <<>> /\ Head(redisQ) = p,
           task' = [task EXCEPT ![p] = t], redisQ' = Append(Left(p), p),
           redis'[r] = redis[r], lastAck'[r] = lastAck[r],
           t.pc \in {"op:get", "join:get", "flush:get", "restore:get", "snapshot:get"},
           t.room = r => t.state = redis[r]
    PROVE  OrderInv(r)'
PROOF
<1>1. t.pc \in RedisAwaits
  BY DEF RedisAwaits
<1>2. \A i \in 1 .. Len(Left(p)) : Precedes(task[Left(p)[i]], t, r)
  BY QueueCurrent, ReadInOrder
<1>3. Hit(t, r) /\ Current(t, r, redis[r].revision, lastAck[r])
  BY ReadInOrder
<1> QED BY <1>1, <1>2, <1>3, OnInOrder

LEMMA StartWithGetInOrder ==
    ASSUME TypeOK, NEW r \in Rooms, OrderInv(r), redis[r] # Nil, NEW p \in Procs,
           NEW pc \in {"op:get", "join:get", "flush:get", "restore:get", "snapshot:get"},
           NEW s \in Rooms, NEW a, StartWithGet(p, pc, s, a),
           redis'[r] = redis[r], lastAck'[r] = lastAck[r]
    PROVE  OrderInv(r)'
PROOF
<1> DEFINE t == Handler(pc, s, a, redis[s], {})
<1>1. t.pc = pc /\ t.room = s /\ t.state = redis[s]
  BY DEF Handler
<1>2. task' = [task EXCEPT ![p] = t] /\ task[p].pc \notin RedisAwaits
  BY IdleType DEF StartWithGet, RedisAwaits
<1>3. redisQ' = Append(Left(p), p)
  BY <1>2 DEF StartWithGet, Left
<1> HIDE DEF t
<1> QED BY <1>1, <1>2, <1>3, GetInOrder

\* A handler that leaves.
LEMMA ReturnInOrder ==
    ASSUME TypeOK, NEW r \in Rooms, OrderInv(r), NEW p \in Procs,
           task[p].pc \in RedisAwaits => redisQ # <<>> /\ Head(redisQ) = p,
           Return(p), redisQ' = Left(p),
           redis'[r] = redis[r], lastAck'[r] = lastAck[r]
    PROVE  OrderInv(r)'
PROOF
<1>1. Hit(Idle, r)
  BY IdleType DEF Hit
<1> QED BY <1>1, AwayInOrder DEF Return

LEMMA FlushNextInOrder ==
    ASSUME TypeOK, NEW r \in Rooms, OrderInv(r), redis[r] # Nil, NEW p \in Procs,
           task[p].pc \in RedisAwaits => redisQ # <<>> /\ Head(redisQ) = p,
           NEW todo \in SUBSET Rooms, FlushNext(p, todo, Left(p)),
           redis'[r] = redis[r], lastAck'[r] = lastAck[r]
    PROVE  OrderInv(r)'
PROOF
<1>1. CASE todo = {}
  BY <1>1, ReturnInOrder DEF FlushNext
<1>2. CASE todo # {}
  <2>1. PICK s \in todo :
           task' = [task EXCEPT ![p] = Handler("flush:get", s, Nil, redis[s], Rest(todo, s))]
    BY <1>2 DEF FlushNext
  <2> DEFINE t == Handler("flush:get", s, Nil, redis[s], Rest(todo, s))
  <2>2. t.pc = "flush:get" /\ t.room = s /\ t.state = redis[s]
    BY DEF Handler
  <2>3. task' = [task EXCEPT ![p] = t] /\ redisQ' = Append(Left(p), p)
    BY <1>2, <2>1 DEF FlushNext
  <2> HIDE DEF t
  <2> QED BY <2>2, <2>3, GetInOrder
<1> QED BY <1>1, <1>2

\* A handler that neither reads nor edits the room, before or after.
LEMMA AwaitAwayInOrder ==
    ASSUME TypeOK, NEW r \in Rooms, OrderInv(r), NEW p \in Procs, NEW pc, NEW s,
           Resumes(p, task[p].pc), Await(p, pc, s), redisQ' = Left(p),
           pc \notin RedisAwaits,
           task[p].room = r => pc \notin {"join:row", "join:reply"},
           redis'[r] = redis[r], lastAck'[r] = lastAck[r]
    PROVE  OrderInv(r)'
PROOF
<1> DEFINE t == [task[p] EXCEPT !.pc = pc, !.state = s]
<1>1. task' = [task EXCEPT ![p] = t] /\ task[p] \in Task
  BY DEF Await, TypeOK
<1>2. t.pc = pc /\ t.room = task[p].room
  BY <1>1 DEF Task
<1> HIDE DEF t
<1>3. Hit(t, r)
  BY <1>2 DEF Hit, RedisAwaits
<1> QED BY <1>1, <1>3, AwayInOrder DEF Resumes

LEMMA AwaitOnInOrder ==
    ASSUME TypeOK, NEW r \in Rooms, OrderInv(r), NEW p \in Procs, NEW pc, NEW s,
           Resumes(p, task[p].pc), Await(p, pc, s), redisQ' = Append(Left(p), p),
           \/ pc \in {"restore:set", "restore:expire"}
           \/ pc \in {"op:set", "op:expire", "join:set"} /\ task[p].room # r,
           redis'[r] = redis[r], lastAck'[r] = lastAck[r]
    PROVE  OrderInv(r)'
PROOF
<1> DEFINE t == [task[p] EXCEPT !.pc = pc, !.state = s]
<1>1. task' = [task EXCEPT ![p] = t] /\ task[p] \in Task
  BY DEF Await, TypeOK
<1>2. t.pc = pc /\ t.room = task[p].room
  BY <1>1 DEF Task
<1> HIDE DEF t
<1>3. Hit(t, r) /\ t.pc \in RedisAwaits
  BY <1>2 DEF Hit, RedisAwaits
<1>4. ~Reading(t, r) /\ ~Editing(t, r)
  BY <1>2 DEF Reading, Editing
<1>5. Current(t, r, redis[r].revision, lastAck[r]) /\ \A u : Precedes(u, t, r)
  BY <1>4, BesideInOrder
<1> QED BY <1>1, <1>3, <1>5, OnInOrder DEF Resumes

\* The command of a handler is rejected, or the process ends.
LEMMA RestartInOrder ==
    ASSUME TypeOK, NEW r \in Rooms, OrderInv(r), Restart
    PROVE  OrderInv(r)'
PROOF
<1>1. \A p \in Procs : Hit(task'[p], r)
  BY IdleType DEF Restart, Hit
<1>2. InOrder(redisQ', task', r, redis'[r].revision, lastAck'[r])
  BY EmptyInOrder DEF Restart
<1>3. lastAck'[r] <= redis'[r].revision
  BY DEF Restart, stores, OrderInv
<1> QED BY <1>1, <1>2, <1>3 DEF OrderInv

LEMMA RejectedInOrder ==
    ASSUME TypeOK, NEW r \in Rooms, OrderInv(r), NEW p \in Procs,
           Resumes(p, task[p].pc), Rejected(p)
    PROVE  OrderInv(r)'
PROOF
<1>1. CASE task[p].pc \in FlushAwaits
  BY <1>1, RestartInOrder DEF Rejected
<1>2. CASE task[p].pc \notin FlushAwaits
  <2>1. Return(p) /\ redisQ' = Left(p) /\ UNCHANGED <<stores, lastAck>>
    BY <1>2 DEF Rejected, Left
  <2> QED BY <2>1, ReturnInOrder DEF Resumes, stores
<1> QED BY <1>1, <1>2

-----------------------------------------------------------------------------
(* The three commands of an operation.                                     *)

\* An operation that goes on to its next command passes those behind it.
LEMMA NextStage ==
    ASSUME NEW t, NEW u, NEW v, NEW r, Precedes(t, u, r),
           Editing(v, r) => Editing(t, r) /\ Stage(v) = Stage(t) + 1 /\ Answer(v) = Answer(t),
           ~Reading(v, r),
           Editing(t, r) => Answer(t) \in Nat,
           Editing(u, r) => Answer(u) \in Nat
    PROVE  Precedes(u, v, r)
PROOF
<1>1. Stage(t) \in 1 .. 3 /\ Stage(u) \in 1 .. 3
  BY DEF Stage
<1>2. ASSUME Editing(u, r), Editing(v, r)
      PROVE  IF Stage(u) >= Stage(v) THEN Answer(u) <= Answer(v) ELSE Answer(v) <= Answer(u)
  <2>1. Editing(t, r) /\ Stage(v) = Stage(t) + 1 /\ Answer(v) = Answer(t)
    BY <1>2
  <2>2. IF Stage(t) >= Stage(u) THEN Answer(t) <= Answer(u) ELSE Answer(u) <= Answer(t)
    BY <1>2, <2>1 DEF Precedes
  <2>3. CASE Stage(t) >= Stage(u)
    <3>1. ~(Stage(u) >= Stage(v))
      BY <1>1, <2>1, <2>3
    <3> QED BY <2>1, <2>2, <2>3, <3>1
  <2>4. CASE ~(Stage(t) >= Stage(u))
    <3>1. Stage(u) >= Stage(v)
      BY <1>1, <2>1, <2>4
    <3> QED BY <2>1, <2>2, <2>4, <3>1
  <2> QED BY <2>3, <2>4
<1> QED BY <1>2 DEF Precedes

LEMMA AnswerType ==
    ASSUME TypeOK, NEW r \in Rooms, OrderInv(r), NEW p \in Procs
    PROVE  Editing(task[p], r) => Answer(task[p]) \in Nat
BY HeldRevision DEF Answer

\* A room whose canvas is replaced by its successor: n + 1 follows what p read,
\* and nobody in the queue has read more than p.
LEMMA WriteInOrder ==
    ASSUME TypeOK, NEW r \in Rooms, OrderInv(r), redis[r] # Nil, NEW p \in Procs, NEW s,
           Resumes(p, task[p].pc), Reading(task[p], r),
           s.revision = task[p].state.revision + 1,
           NEW pc, pc \in IF task[p].pc = "op:get" THEN {"op:set"} ELSE {"restore:set"},
           Await(p, pc, s), ToRedis(p), redis'[r] = s, lastAck'[r] = lastAck[r]
    PROVE  OrderInv(r)' /\ s.revision >= redis[r].revision
PROOF
<1> DEFINE t == [task[p] EXCEPT !.pc = pc, !.state = s]
           n == redis[r].revision
           a == lastAck[r]
<1>1. task' = [task EXCEPT ![p] = t] /\ task[p] \in Task
  BY DEF Await, TypeOK
<1>2. t.pc = pc /\ t.room = r /\ t.state = s
  BY <1>1 DEF Task, Reading
<1>3. /\ task[p].pc \in RedisAwaits /\ redisQ # <<>> /\ Head(redisQ) = p
      /\ redisQ' = Append(Left(p), p)
  BY DEF Resumes, Reading, RedisAwaits, ToRedis, Left
<1>4. /\ n \in Nat /\ a \in Nat /\ a <= n
  BY DEF TypeOK, CanvasOrNil, CanvasStateData, OrderInv
<1>5. task[p].state.revision \in Nat
  BY HeldRevision
<1>6. Current(task[p], r, n, a)
  BY <1>3, LeftInOrder
<1> HIDE DEF t
<1>7. n <= s.revision /\ s.revision \in Nat
  BY <1>4, <1>5, <1>6 DEF Current
<1>8. DOMAIN task = Procs
  BY DEF TypeOK
<1>9. Left(p) \in Seq(Procs) /\ InOrder(Left(p), task, r, n, a)
      /\ \A i \in 1 .. Len(Left(p)) : Left(p)[i] # p /\ Precedes(task[p], task[Left(p)[i]], r)
  BY <1>3, LeftInOrder
<1>10. ASSUME NEW q \in Procs, Current(task[q], r, n, a), Precedes(task[p], task[q], r)
       PROVE  Current(task[q], r, s.revision, a) /\ Precedes(task[q], t, r)
  <2>1. Reading(task[q], r) \/ Editing(task[q], r) => task[q].state.revision \in Nat
    BY HeldRevision
  <2>2. Reading(task[q], r) => task[p].state.revision <= task[q].state.revision
    BY <1>10 DEF Precedes
  <2>3. Reading(task[q], r) => task[q].state.revision <= s.revision /\ s.revision <= task[q].state.revision + 1
    BY <1>4, <1>5, <1>7, <1>10, <2>1, <2>2 DEF Current
  <2>4. Editing(task[q], r) => a <= Answer(task[q])
             /\ (task[q].pc # "op:get" => task[q].state.revision <= s.revision)
    BY <1>4, <1>7, <1>10, <2>1 DEF Current
  <2>5. Current(task[q], r, s.revision, a)
    BY <2>3, <2>4 DEF Current
  <2>6. ~Reading(t, r)
    BY <1>2 DEF Reading
  <2>7. Editing(t, r) => Editing(task[p], r) /\ Stage(t) = Stage(task[p]) + 1 /\ Answer(t) = Answer(task[p])
    <3> SUFFICES ASSUME Editing(t, r)
                 PROVE  Editing(task[p], r) /\ Stage(t) = Stage(task[p]) + 1 /\ Answer(t) = Answer(task[p])
      OBVIOUS
    <3>1. pc = "op:set" /\ task[p].pc = "op:get"
      BY <1>2 DEF Editing
    <3> QED BY <1>2, <3>1 DEF Editing, Reading, Stage, Answer
  <2>8. Precedes(task[q], t, r)
    BY <1>10, <2>6, <2>7, AnswerType, NextStage
  <2> QED BY <2>5, <2>8
<1>11. InOrder(Left(p), task, r, s.revision, a)
       /\ \A i \in 1 .. Len(Left(p)) : Precedes(task[Left(p)[i]], t, r)
  <2>1. \A i \in 1 .. Len(Left(p)) : Left(p)[i] \in Procs /\ Current(task[Left(p)[i]], r, n, a)
    BY <1>9 DEF InOrder
  <2>2. \A i \in 1 .. Len(Left(p)) : Current(task[Left(p)[i]], r, s.revision, a)
                                     /\ Precedes(task[Left(p)[i]], t, r)
    BY <1>9, <1>10, <2>1
  <2> QED BY <1>9, <2>2 DEF InOrder
<1>12. InOrder(Left(p), task', r, s.revision, a)
  BY <1>1, <1>8, <1>9, <1>11, ElsewhereInOrder
<1>13. /\ task'[p] = t
       /\ \A i \in 1 .. Len(Left(p)) : Left(p)[i] # p /\ task'[Left(p)[i]] = task[Left(p)[i]]
  <2>1. \A i \in 1 .. Len(Left(p)) : Left(p)[i] \in Procs
    BY <1>9
  <2> QED BY <1>1, <1>8, <1>9, <2>1
<1>14. t.pc \in RedisAwaits /\ Current(t, r, s.revision, a) /\ Hit(t, r)
  <2>1. ~Reading(t, r) /\ t.pc \in RedisAwaits /\ Hit(t, r)
    BY <1>2 DEF Reading, RedisAwaits, Hit
  <2>2. Editing(t, r) => a <= Answer(t) /\ t.state.revision <= s.revision
    BY <1>2, <1>4, <1>7 DEF Editing, Answer
  <2> QED BY <2>1, <2>2 DEF Current
<1>15. InOrder(redisQ', task', r, s.revision, a)
  BY <1>3, <1>9, <1>11, <1>12, <1>13, <1>14, AppendInOrder
<1>16. \A q \in Procs : Hit(task'[q], r)
  BY <1>1, <1>8, <1>14 DEF OrderInv
<1>17. InOrder(redisQ', task', r, redis'[r].revision, lastAck'[r])
  BY <1>15
<1>18. lastAck'[r] <= redis'[r].revision
  BY <1>4, <1>7
<1> QED BY <1>7, <1>16, <1>17, <1>18 DEF OrderInv

LEMMA RefreshInOrder ==
    ASSUME TypeOK, NEW r \in Rooms, OrderInv(r), NEW p \in Procs, OpRefreshTTL(p),
           task[p].room = r
    PROVE  OrderInv(r)'
PROOF
<1> DEFINE t == [task[p] EXCEPT !.pc = "op:expire", !.state = task[p].state]
<1>1. task' = [task EXCEPT ![p] = t] /\ task[p] \in Task
  BY DEF OpRefreshTTL, Await, TypeOK
<1>2. t.pc = "op:expire" /\ t.room = r /\ t.state = task[p].state
  BY <1>1 DEF Task
<1>3. /\ task[p].pc = "op:set" /\ task[p].pc \in RedisAwaits /\ redisQ # <<>> /\ Head(redisQ) = p
      /\ redisQ' = Append(Left(p), p)
  BY DEF OpRefreshTTL, Resumes, RedisAwaits, ToRedis, Left
<1>4. Current(task[p], r, redis[r].revision, lastAck[r])
  BY <1>3, LeftInOrder
<1> HIDE DEF t
<1>5. Editing(task[p], r) /\ Editing(t, r) /\ ~Reading(t, r) /\ Stage(t) = Stage(task[p]) + 1
      /\ Answer(t) = Answer(task[p])
  BY <1>2, <1>3 DEF Editing, Reading, Stage, Answer
<1>6. Current(t, r, redis[r].revision, lastAck[r])
  BY <1>2, <1>3, <1>4, <1>5 DEF Current
<1>7. Hit(t, r) /\ t.pc \in RedisAwaits
  BY <1>2 DEF Hit, RedisAwaits
<1>8. \A i \in 1 .. Len(Left(p)) : Precedes(task[Left(p)[i]], t, r)
  <2> SUFFICES ASSUME NEW i \in 1 .. Len(Left(p)) PROVE Precedes(task[Left(p)[i]], t, r)
    OBVIOUS
  <2>1. Left(p)[i] \in Procs /\ Precedes(task[p], task[Left(p)[i]], r)
    BY <1>3, LeftInOrder
  <2> QED BY <1>5, <2>1, AnswerType, NextStage
<1>9. redis'[r] = redis[r] /\ lastAck'[r] = lastAck[r]
  BY DEF OpRefreshTTL, stores
<1> QED BY <1>1, <1>3, <1>6, <1>7, <1>8, <1>9, OnInOrder

\* What is acknowledged is no higher than what remains to be.
LEMMA DoneInOrder ==
    ASSUME TypeOK, NEW r \in Rooms, OrderInv(r), NEW p \in Procs, OpDone(p),
           task[p].room = r
    PROVE  OrderInv(r)' /\ lastAck'[r] >= lastAck[r]
PROOF
<1> DEFINE n == redis[r].revision
           a == task[p].state.revision
<1>1. /\ task' = [task EXCEPT ![p] = Idle] /\ DOMAIN task = Procs
      /\ redis' = redis /\ lastAck' = [lastAck EXCEPT ![r] = a] /\ lastAck \in [Rooms -> Nat]
  BY DEF OpDone, Return, stores, TypeOK
<1>2. /\ task[p].pc = "op:expire" /\ task[p].pc \in RedisAwaits /\ redisQ # <<>>
      /\ Head(redisQ) = p /\ redisQ' = Left(p)
  BY DEF OpDone, Resumes, RedisAwaits, Replied, Left
<1>3. /\ Left(p) \in Seq(Procs) /\ InOrder(Left(p), task, r, n, lastAck[r])
      /\ Current(task[p], r, n, lastAck[r])
      /\ \A i \in 1 .. Len(Left(p)) : Left(p)[i] # p /\ Precedes(task[p], task[Left(p)[i]], r)
  BY <1>2, LeftInOrder
<1>4. Editing(task[p], r) /\ Stage(task[p]) = 3 /\ Answer(task[p]) = a /\ a \in Nat
  BY <1>2, HeldRevision DEF Editing, Stage, Answer
<1>5. lastAck[r] <= a /\ a <= n
  BY <1>2, <1>3, <1>4 DEF Current
<1>6. ASSUME NEW q \in Procs, Precedes(task[p], task[q], r), Current(task[q], r, n, lastAck[r])
      PROVE  Current(task[q], r, n, a)
  <2>1. Stage(task[q]) \in 1 .. 3
    BY DEF Stage
  <2>2. Editing(task[q], r) => a <= Answer(task[q])
    BY <1>4, <1>6, <2>1 DEF Precedes
  <2> QED BY <1>6, <2>2 DEF Current
<1> HIDE DEF a
<1>7. InOrder(Left(p), task, r, n, a)
  <2>1. \A i \in 1 .. Len(Left(p)) : Left(p)[i] \in Procs /\ Current(task[Left(p)[i]], r, n, lastAck[r])
    BY <1>3 DEF InOrder
  <2>2. \A i \in 1 .. Len(Left(p)) : Current(task[Left(p)[i]], r, n, a)
    BY <1>3, <1>6, <2>1
  <2> QED BY <1>3, <2>2 DEF InOrder
<1>8. InOrder(Left(p), task', r, n, a)
  BY <1>1, <1>3, <1>7, ElsewhereInOrder
<1>9. InOrder(redisQ', task', r, redis'[r].revision, lastAck'[r])
  BY <1>1, <1>2, <1>8
<1>10. \A q \in Procs : Hit(task'[q], r)
  BY <1>1, IdleType DEF OrderInv, Hit
<1>11. lastAck'[r] <= redis'[r].revision
  BY <1>1, <1>5
<1> QED BY <1>1, <1>5, <1>9, <1>10, <1>11 DEF OrderInv

-----------------------------------------------------------------------------
(* Handler by handler.                                                     *)

OrderKept(r) ==
    /\ OrderInv(r)'
    /\ redis'[r].revision >= redis[r].revision
    /\ lastAck'[r] >= lastAck[r]

\* A step that leaves the live canvas and the acknowledgements of r alone.
StillIn(r) == redis'[r] = redis[r] /\ lastAck'[r] = lastAck[r]

LEMMA StillKept ==
    ASSUME TypeOK, NEW r \in Rooms, redis[r] # Nil, StillIn(r), OrderInv(r)'
    PROVE  OrderKept(r)
PROOF
<1>1. redis[r].revision \in Nat /\ lastAck[r] \in Nat
  BY DEF TypeOK, CanvasOrNil, CanvasStateData
<1> QED BY <1>1 DEF OrderKept, StillIn

LEMMA RequestOrder ==
    ASSUME TypeOK, NEW r \in Rooms, OrderInv(r), redis[r] # Nil, NEW p \in Procs,
           Request(p) \/ FlushTick(p)
    PROVE  OrderKept(r)
PROOF
<1>1. StillIn(r)
  BY DEF Request, OpRequest, JoinRequest, LeaveRequest, RestoreRequest, SaveRequest,
         SnapshotRequest, FlushTick, stores, StillIn
<1>2. task[p] = Idle
  BY DEF Request, OpRequest, JoinRequest, LeaveRequest, RestoreRequest, SaveRequest,
         SnapshotRequest, FlushTick, StartWithGet
<1>3. task[p].pc \notin RedisAwaits /\ Left(p) = redisQ
  BY <1>2, IdleType DEF RedisAwaits, Left
<1>4. CASE FlushTick(p)
  <2>1. FlushNext(p, dirtyRooms, Left(p)) /\ dirtyRooms \in SUBSET Rooms
    BY <1>3, <1>4 DEF FlushTick, TypeOK
  <2> QED BY <1>1, <1>3, <2>1, FlushNextInOrder, StillKept DEF StillIn
<1>5. CASE SaveRequest(p)
  <2>1. PICK s \in Rooms, c \in Drafts :
           task' = [task EXCEPT ![p] = Handler("save:row", s, c, Nil, {})]
    BY <1>5 DEF SaveRequest
  <2> DEFINE t == Handler("save:row", s, c, Nil, {})
  <2>2. Hit(t, r)
    BY DEF Hit, Handler
  <2>3. task' = [task EXCEPT ![p] = t] /\ redisQ' = Left(p)
    BY <1>3, <1>5, <2>1 DEF SaveRequest
  <2> HIDE DEF t
  <2>4. OrderInv(r)'
    BY <1>1, <1>3, <2>2, <2>3, AwayInOrder DEF StillIn
  <2> QED BY <1>1, <2>4, StillKept
<1>6. ASSUME NEW pc \in {"op:get", "join:get", "flush:get", "restore:get", "snapshot:get"},
             NEW s \in Rooms, NEW a, StartWithGet(p, pc, s, a)
      PROVE  OrderKept(r)
  BY <1>1, <1>6, StartWithGetInOrder, StillKept DEF StillIn
<1> QED BY <1>4, <1>5, <1>6 DEF Request, OpRequest, JoinRequest, LeaveRequest,
           RestoreRequest, SnapshotRequest

\* The queue after the two ways a handler answers a reply of Redis.
LEMMA LeftBy ==
    ASSUME NEW p \in Procs
    PROVE  /\ task[p].pc \in RedisAwaits /\ Replied => redisQ' = Left(p)
           /\ task[p].pc \in RedisAwaits /\ ToRedis(p) => redisQ' = Append(Left(p), p)
           /\ task[p].pc \notin RedisAwaits /\ redisQ' = redisQ => redisQ' = Left(p)
BY DEF Left, Replied, ToRedis

LEMMA OpStepOrder ==
    ASSUME TypeOK, NEW r \in Rooms, OrderInv(r), redis[r] # Nil, NEW p \in Procs, OpStep(p)
    PROVE  OrderKept(r)
PROOF
<1>1. task[p].pc \in RedisAwaits /\ Resumes(p, task[p].pc) /\ task[p].room \in Rooms
  BY HeldType DEF OpStep, OpNotFound, OpWrite, OpRefreshTTL, OpDone, Resumes, RedisAwaits
<1>2. CASE OpNotFound(p)
  <2>1. StillIn(r) /\ Return(p) /\ redisQ' = Left(p)
    BY <1>1, <1>2, LeftBy DEF OpNotFound, stores, StillIn
  <2> QED BY <1>1, <2>1, ReturnInOrder, StillKept DEF StillIn, Resumes
<1>3. CASE OpWrite(p)
  <2> DEFINE new == AtRevision(ApplyOperation(task[p].state, task[p].arg),
                               task[p].state.revision + 1)
  <2>1. /\ new.revision = task[p].state.revision + 1
        /\ SetRedis(task[p].room, new) /\ Await(p, "op:set", new) /\ ToRedis(p)
        /\ lastAck' = lastAck /\ task[p].pc = "op:get"
    BY <1>3 DEF OpWrite, AtRevision, Resumes
  <2> HIDE DEF new
  <2>2. redis \in [Rooms -> CanvasOrNil] /\ redis' = [redis EXCEPT ![task[p].room] = new]
    BY <2>1 DEF SetRedis, TypeOK
  <2>3. CASE task[p].room = r
    <3>1. redis'[r] = new /\ lastAck'[r] = lastAck[r] /\ lastAck[r] \in Nat
      BY <2>1, <2>2, <2>3 DEF TypeOK
    <3>2. Reading(task[p], r)
      BY <2>1, <2>3 DEF Reading
    <3>3. OrderInv(r)' /\ new.revision >= redis[r].revision
      BY <1>1, <2>1, <3>1, <3>2, WriteInOrder
    <3> QED BY <3>1, <3>3 DEF OrderKept
  <2>4. CASE task[p].room # r
    <3>1. StillIn(r)
      BY <1>1, <2>1, <2>2, <2>4 DEF StillIn
    <3>2. OrderInv(r)'
      BY <1>1, <2>1, <2>4, <3>1, LeftBy, AwaitOnInOrder DEF StillIn
    <3> QED BY <3>1, <3>2, StillKept
  <2> QED BY <2>3, <2>4
<1>4. CASE OpRefreshTTL(p)
  <2>1. StillIn(r)
    BY <1>4 DEF OpRefreshTTL, stores, StillIn
  <2>2. CASE task[p].room = r
    BY <1>4, <2>1, <2>2, RefreshInOrder, StillKept
  <2>3. CASE task[p].room # r
    <3>1. OrderInv(r)'
      BY <1>1, <1>4, <2>1, <2>3, LeftBy, AwaitOnInOrder DEF StillIn, OpRefreshTTL
    <3> QED BY <2>1, <3>1, StillKept
  <2> QED BY <2>2, <2>3
<1>5. CASE OpDone(p)
  <2>1. CASE task[p].room = r
    <3>1. redis'[r] = redis[r] /\ redis[r].revision \in Nat
      BY <1>5 DEF OpDone, stores, TypeOK, CanvasOrNil, CanvasStateData
    <3> QED BY <1>5, <2>1, <3>1, DoneInOrder DEF OrderKept
  <2>2. CASE task[p].room # r
    <3>1. StillIn(r) /\ Return(p) /\ redisQ' = Left(p)
      BY <1>1, <1>5, <2>2, LeftBy DEF OpDone, stores, StillIn, TypeOK
    <3> QED BY <1>1, <3>1, ReturnInOrder, StillKept DEF StillIn, Resumes
  <2> QED BY <2>1, <2>2
<1> QED BY <1>2, <1>3, <1>4, <1>5 DEF OpStep

LEMMA WarmStepOrder ==
    ASSUME TypeOK, NEW r \in Rooms, OrderInv(r), redis[r] # Nil, NEW p \in Procs, WarmStep(p)
    PROVE  OrderKept(r)
PROOF
<1>1. Resumes(p, task[p].pc) /\ task[p].room \in Rooms
  BY HeldType DEF WarmStep, WarmHit, WarmMiss, WarmSelect, WarmStore, WarmDone, Resumes
<1>2. CASE WarmHit(p) \/ WarmDone(p)
  <2>1. task[p].pc \in RedisAwaits /\ StillIn(r) /\ Return(p) /\ Replied
    BY <1>2 DEF WarmHit, WarmDone, stores, StillIn, Resumes, RedisAwaits
  <2> QED BY <1>1, <2>1, LeftBy, ReturnInOrder, StillKept DEF StillIn, Resumes
<1>3. CASE WarmMiss(p)
  <2>1. task[p].pc \in RedisAwaits /\ StillIn(r) /\ Await(p, "join:row", Nil) /\ Replied
    BY <1>3 DEF WarmMiss, stores, StillIn, Resumes, RedisAwaits
  <2>2. task[p].room # r
    BY <1>3 DEF WarmMiss, Resumes, OrderInv, Hit
  <2>3. OrderInv(r)'
    BY <1>1, <2>1, <2>2, LeftBy, AwaitAwayInOrder DEF StillIn, RedisAwaits
  <2> QED BY <2>1, <2>3, StillKept
<1>4. CASE WarmSelect(p)
  <2>1. /\ task[p].pc \notin RedisAwaits /\ StillIn(r) /\ redisQ' = redisQ
        /\ Await(p, "join:reply", CanvasOr(pg[task[p].room]))
    BY <1>4 DEF WarmSelect, stores, StillIn, Resumes, RedisAwaits
  <2>2. task[p].room # r
    BY <1>4 DEF WarmSelect, Resumes, OrderInv, Hit
  <2>3. OrderInv(r)'
    BY <1>1, <2>1, <2>2, LeftBy, AwaitAwayInOrder DEF StillIn, RedisAwaits
  <2> QED BY <2>1, <2>3, StillKept
<1>5. CASE WarmStore(p)
  <2>1. task[p].room # r
    BY <1>5 DEF WarmStore, Resumes, OrderInv, Hit
  <2>2. /\ task[p].pc \notin RedisAwaits /\ redisQ' = Append(Left(p), p)
        /\ Await(p, "join:set", task[p].state) /\ lastAck' = lastAck
        /\ redis' = [redis EXCEPT ![task[p].room] = task[p].state]
    BY <1>5 DEF WarmStore, Resumes, RedisAwaits, Left, SetRedis
  <2>3. StillIn(r)
    BY <1>1, <2>1, <2>2 DEF StillIn, TypeOK
  <2>4. OrderInv(r)'
    BY <1>1, <2>1, <2>2, <2>3, AwaitOnInOrder DEF StillIn
  <2> QED BY <2>3, <2>4, StillKept
<1> QED BY <1>2, <1>3, <1>4, <1>5 DEF WarmStep

\* A step of p that sends nothing to Redis: to a wait of PostgreSQL with all it
\* had, but what it read there.
LEMMA RowStepOrder ==
    ASSUME TypeOK, NEW r \in Rooms, OrderInv(r), redis[r] # Nil, NEW p \in Procs,
           task[p].pc \notin RedisAwaits, redisQ' = redisQ, StillIn(r),
           NEW t, task' = [task EXCEPT ![p] = t],
           t.pc \in WriteAwaits \cup {"flush:saved", "restore:saved"}
    PROVE  OrderKept(r)
PROOF
<1>1. Hit(t, r)
  BY DEF Hit, WriteAwaits
<1>2. OrderInv(r)'
  BY <1>1, LeftBy, AwayInOrder DEF StillIn
<1> QED BY <1>2, StillKept

LEMMA ReadRowOrder ==
    ASSUME TypeOK, NEW r \in Rooms, OrderInv(r), redis[r] # Nil, NEW p \in Procs,
           task[p].pc \notin RedisAwaits, redisQ' = redisQ, StillIn(r),
           NEW pc \in WriteAwaits, ReadRow(p, pc)
    PROVE  OrderKept(r)
PROOF
<1> DEFINE t == [task[p] EXCEPT !.pc = pc, !.base = pg[task[p].room]]
<1>1. task' = [task EXCEPT ![p] = t] /\ task[p] \in Task
  BY DEF ReadRow, TypeOK
<1>2. t.pc = pc
  BY <1>1 DEF Task
<1> HIDE DEF t
<1> QED BY <1>1, <1>2, RowStepOrder

LEMMA SavedOrder ==
    ASSUME TypeOK, NEW r \in Rooms, OrderInv(r), redis[r] # Nil, NEW p \in Procs,
           task[p].pc \notin RedisAwaits, redisQ' = redisQ, StillIn(r),
           NEW pc \in {"flush:saved", "restore:saved"},
           task' = [task EXCEPT ![p].pc = pc, ![p].base = Nil]
    PROVE  OrderKept(r)
PROOF
<1> DEFINE t == [task[p] EXCEPT !.pc = pc, !.base = Nil]
<1>1. task' = [task EXCEPT ![p] = t] /\ task[p] \in Task
  BY DEF TypeOK
<1>2. t.pc = pc
  BY <1>1 DEF Task
<1> HIDE DEF t
<1> QED BY <1>1, <1>2, RowStepOrder

LEMMA FlushStepOrder ==
    ASSUME TypeOK, NEW r \in Rooms, OrderInv(r), redis[r] # Nil, NEW p \in Procs, FlushStep(p)
    PROVE  OrderKept(r)
PROOF
<1>0. StillIn(r)
  BY DEF FlushStep, FlushMiss, FlushPersist, FlushRead, FlushSave, FlushDone, stores, StillIn
<1>1. Resumes(p, task[p].pc) /\ task[p].todo \in SUBSET Rooms
  BY HeldType DEF FlushStep, FlushMiss, FlushPersist, FlushRead, FlushSave, FlushDone, Resumes
<1>2. CASE FlushMiss(p)
  <2>1. task[p].pc \in RedisAwaits /\ FlushNext(p, task[p].todo, Left(p))
    BY <1>2 DEF FlushMiss, Resumes, RedisAwaits, Left
  <2> QED BY <1>0, <1>1, <2>1, FlushNextInOrder, StillKept DEF StillIn, Resumes
<1>3. CASE FlushPersist(p)
  <2>1. task[p].pc \in RedisAwaits /\ Await(p, "flush:save", task[p].state) /\ Replied
    BY <1>3 DEF FlushPersist, Resumes, RedisAwaits
  <2>2. OrderInv(r)'
    BY <1>0, <1>1, <2>1, LeftBy, AwaitAwayInOrder DEF StillIn, RedisAwaits
  <2> QED BY <1>0, <2>2, StillKept
<1>4. CASE FlushRead(p)
  BY <1>0, <1>4, ReadRowOrder DEF FlushRead, Resumes, RedisAwaits, WriteAwaits
<1>5. CASE FlushSave(p)
  BY <1>0, <1>5, SavedOrder DEF FlushSave, Resumes, RedisAwaits
<1>6. CASE FlushDone(p)
  <2>1. task[p].pc \notin RedisAwaits /\ FlushNext(p, task[p].todo, Left(p))
    BY <1>6 DEF FlushDone, Resumes, RedisAwaits, Left
  <2> QED BY <1>0, <1>1, <2>1, FlushNextInOrder, StillKept DEF StillIn
<1> QED BY <1>2, <1>3, <1>4, <1>5, <1>6 DEF FlushStep

LEMMA RestoreStepOrder ==
    ASSUME TypeOK, NEW r \in Rooms, OrderInv(r), redis[r] # Nil, NEW p \in Procs,
           RestoreStep(p)
    PROVE  OrderKept(r)
PROOF
<1>1. Resumes(p, task[p].pc) /\ task[p].room \in Rooms
  BY HeldType DEF RestoreStep, RestoreWrite, RestoreRefreshTTL, RestorePersist, RestoreRead,
     RestoreSave, RestoreDone, Resumes
<1>2. CASE RestoreWrite(p)
  <2> DEFINE new == Restored(task[p].arg, task[p].state)
  <2>1. /\ SetRedis(task[p].room, new) /\ Await(p, "restore:set", new) /\ ToRedis(p)
        /\ lastAck' = lastAck /\ task[p].pc = "restore:get" /\ task[p].pc \in RedisAwaits
    BY <1>2 DEF RestoreWrite, Resumes, RedisAwaits
  <2>2. new.revision = CanvasOr(task[p].state).revision + 1
    BY DEF Restored, AtRevision
  <2> HIDE DEF new
  <2>3. redis \in [Rooms -> CanvasOrNil] /\ redis' = [redis EXCEPT ![task[p].room] = new]
    BY <2>1 DEF SetRedis, TypeOK
  <2>4. CASE task[p].room = r
    <3>1. redis'[r] = new /\ lastAck'[r] = lastAck[r] /\ lastAck[r] \in Nat
      BY <2>1, <2>3, <2>4 DEF TypeOK
    <3>2. Reading(task[p], r)
      BY <2>1, <2>4 DEF Reading
    <3>3. task[p].state # Nil
      BY <2>1, <2>4 DEF OrderInv, Hit
    <3>4. new.revision = task[p].state.revision + 1
      BY <2>2, <3>3 DEF CanvasOr
    <3>5. OrderInv(r)' /\ new.revision >= redis[r].revision
      BY <1>1, <2>1, <3>1, <3>2, <3>4, WriteInOrder
    <3> QED BY <3>1, <3>5 DEF OrderKept
  <2>5. CASE task[p].room # r
    <3>1. StillIn(r)
      BY <1>1, <2>1, <2>3, <2>5 DEF StillIn
    <3>2. OrderInv(r)'
      BY <1>1, <2>1, <3>1, LeftBy, AwaitOnInOrder DEF StillIn
    <3> QED BY <3>1, <3>2, StillKept
  <2> QED BY <2>4, <2>5
<1>3. CASE RestoreRefreshTTL(p)
  <2>1. /\ StillIn(r) /\ task[p].pc \in RedisAwaits
        /\ Await(p, "restore:expire", task[p].state) /\ ToRedis(p)
    BY <1>3 DEF RestoreRefreshTTL, stores, StillIn, Resumes, RedisAwaits
  <2>2. OrderInv(r)'
    BY <1>1, <2>1, LeftBy, AwaitOnInOrder DEF StillIn
  <2> QED BY <2>1, <2>2, StillKept
<1>4. CASE RestorePersist(p)
  <2>1. /\ StillIn(r) /\ task[p].pc \in RedisAwaits
        /\ Await(p, "restore:save", task[p].state) /\ Replied
    BY <1>4 DEF RestorePersist, stores, StillIn, Resumes, RedisAwaits
  <2>2. OrderInv(r)'
    BY <1>1, <2>1, LeftBy, AwaitAwayInOrder DEF StillIn, RedisAwaits
  <2> QED BY <2>1, <2>2, StillKept
<1>5. CASE RestoreRead(p)
  BY <1>5, ReadRowOrder DEF RestoreRead, Resumes, RedisAwaits, WriteAwaits, StillIn, stores
<1>6. CASE RestoreSave(p)
  BY <1>6, SavedOrder DEF RestoreSave, Resumes, RedisAwaits, StillIn, stores
<1>7. CASE RestoreDone(p)
  <2>1. StillIn(r) /\ task[p].pc \notin RedisAwaits /\ Return(p) /\ redisQ' = redisQ
    BY <1>7 DEF RestoreDone, stores, StillIn, Resumes, RedisAwaits
  <2> QED BY <1>1, <2>1, LeftBy, ReturnInOrder, StillKept DEF StillIn
<1> QED BY <1>2, <1>3, <1>4, <1>5, <1>6, <1>7 DEF RestoreStep

LEMMA SaveStepOrder ==
    ASSUME TypeOK, NEW r \in Rooms, OrderInv(r), redis[r] # Nil, NEW p \in Procs, SaveStep(p)
    PROVE  OrderKept(r)
PROOF
<1>0. StillIn(r) /\ redisQ' = redisQ /\ task[p].pc \notin RedisAwaits
      /\ Resumes(p, task[p].pc)
  BY DEF SaveStep, SaveSelect, SaveRead, SaveWrite, stores, StillIn, Resumes, RedisAwaits
<1>1. CASE SaveSelect(p)
  <2>1. PICK s : Await(p, "save:save", s)
    BY <1>1 DEF SaveSelect
  <2>2. OrderInv(r)'
    BY <1>0, <2>1, LeftBy, AwaitAwayInOrder DEF StillIn, RedisAwaits
  <2> QED BY <1>0, <2>2, StillKept
<1>2. CASE SaveRead(p)
  BY <1>0, <1>2, ReadRowOrder DEF SaveRead, WriteAwaits
<1>3. CASE SaveWrite(p)
  BY <1>0, <1>3, LeftBy, ReturnInOrder, StillKept DEF SaveWrite, StillIn
<1> QED BY <1>1, <1>2, <1>3 DEF SaveStep

LEMMA SnapshotStepOrder ==
    ASSUME TypeOK, NEW r \in Rooms, OrderInv(r), redis[r] # Nil, NEW p \in Procs,
           SnapshotStep(p)
    PROVE  OrderKept(r)
PROOF
<1>0. StillIn(r) /\ Resumes(p, task[p].pc)
  BY DEF SnapshotStep, SnapshotLive, SnapshotCold, SnapshotInsert, stores, StillIn, Resumes
<1>1. CASE SnapshotLive(p)
  <2>1. PICK pc \in {"snapshot:row", "snapshot:save"} : Await(p, pc, task[p].state)
    BY <1>1 DEF SnapshotLive
  <2>2. task[p].pc \in RedisAwaits /\ Replied
    BY <1>1 DEF SnapshotLive, Resumes, RedisAwaits
  <2>3. OrderInv(r)'
    BY <1>0, <2>1, <2>2, LeftBy, AwaitAwayInOrder DEF StillIn, RedisAwaits
  <2> QED BY <1>0, <2>3, StillKept
<1>2. CASE SnapshotCold(p)
  <2>1. PICK s : Await(p, "snapshot:save", s)
    BY <1>2 DEF SnapshotCold
  <2>2. task[p].pc \notin RedisAwaits /\ redisQ' = redisQ
    BY <1>2 DEF SnapshotCold, Resumes, RedisAwaits
  <2>3. OrderInv(r)'
    BY <1>0, <2>1, <2>2, LeftBy, AwaitAwayInOrder DEF StillIn, RedisAwaits
  <2> QED BY <1>0, <2>3, StillKept
<1>3. CASE SnapshotInsert(p)
  <2>1. task[p].pc \notin RedisAwaits /\ redisQ' = redisQ /\ Return(p)
    BY <1>3 DEF SnapshotInsert, Resumes, RedisAwaits
  <2> QED BY <1>0, <2>1, LeftBy, ReturnInOrder, StillKept DEF StillIn
<1> QED BY <1>1, <1>2, <1>3 DEF SnapshotStep

LEMMA EnvironmentOrder ==
    ASSUME TypeOK, NEW r \in Rooms, OrderInv(r), redis[r] # Nil, redis'[r] # Nil,
           \/ Crash
           \/ \E s \in Rooms : Expire(s)
           \/ \E p \in Procs : Fault(p) \/ Collide(p)
    PROVE  OrderKept(r)
PROOF
<1>1. CASE Crash
  BY <1>1, RestartInOrder, StillKept DEF Crash, Restart, stores, StillIn
<1>2. ASSUME NEW s \in Rooms, Expire(s) PROVE OrderKept(r)
  <2>1. /\ redis' = [redis EXCEPT ![s] = Nil] /\ redis \in [Rooms -> CanvasOrNil]
        /\ UNCHANGED <<task, redisQ, lastAck>>
    BY <1>2 DEF Expire, TypeOK
  <2>2. StillIn(r)
    BY <2>1 DEF StillIn
  <2>3. OrderInv(r)'
    BY <2>1, <2>2 DEF StillIn, OrderInv
  <2> QED BY <2>2, <2>3, StillKept
<1>3. ASSUME NEW p \in Procs, Fault(p) \/ Collide(p) PROVE OrderKept(r)
  <2>1. Rejected(p) /\ Resumes(p, task[p].pc)
    BY <1>3 DEF Fault, Collide, Resumes, WriteAwaits, RedisAwaits
  <2>2. StillIn(r)
    BY <2>1 DEF Rejected, Restart, stores, StillIn
  <2> QED BY <2>1, <2>2, RejectedInOrder, StillKept
<1> QED BY <1>1, <1>2, <1>3

LEMMA NextOrder ==
    ASSUME TypeOK, NEW r \in Rooms, OrderInv(r), redis[r] # Nil, redis'[r] # Nil, [Next]_vars
    PROVE  OrderKept(r)
PROOF
<1>1. ASSUME NEW p \in Procs, Step(p) PROVE OrderKept(r)
  BY <1>1, OpStepOrder, WarmStepOrder, FlushStepOrder, RestoreStepOrder, SaveStepOrder,
     SnapshotStepOrder, EnvironmentOrder DEF Step
<1>2. CASE UNCHANGED vars
  <2>1. OrderInv(r)' /\ StillIn(r)
    BY <1>2 DEF vars, OrderInv, InOrder, StillIn
  <2> QED BY <2>1, StillKept
<1> QED BY <1>1, <1>2, RequestOrder, EnvironmentOrder DEF Next

LEMMA InitOrder ==
    ASSUME NEW r \in Rooms, Init, redis[r] # Nil
    PROVE  OrderInv(r)
PROOF
<1>1. TypeOK
  BY InitType
<1>2. task = [p \in Procs |-> Idle] /\ redisQ = <<>> /\ lastAck = [q \in Rooms |-> 0]
  BY Zenon DEF Init
<1>3. redis[r].revision \in Nat
  BY <1>1 DEF TypeOK, CanvasOrNil, CanvasStateData
<1>4. InOrder(redisQ, task, r, redis[r].revision, lastAck[r])
  BY <1>2, EmptyInOrder
<1>5. \A p \in Procs : Hit(task[p], r)
  BY <1>2, IdleType DEF Hit
<1> QED BY <1>2, <1>3, <1>4, <1>5 DEF OrderInv

\* Every room has a live canvas.
Warm == \A r \in Rooms : redis[r] # Nil
OrderHolds == \A r \in Rooms : OrderInv(r)

LEMMA OrderInvariant == Spec /\ []Warm => []OrderHolds
PROOF
<1>1. Init /\ Warm => OrderHolds
  BY InitOrder DEF Warm, OrderHolds
<1>2. TypeOK /\ OrderHolds /\ Warm /\ Warm' /\ [Next]_vars => OrderHolds'
  BY NextOrder DEF Warm, OrderHolds, OrderKept
<1> QED BY <1>1, <1>2, TypeCorrect, PTL DEF Spec

\* While the rooms stay warm, no write takes the live canvas of a room back to
\* an earlier revision, however many edits and restores overlap and whatever
\* fails or crashes (canvas-sync.service.ts:79, 105, 129).
THEOREM RevisionsInOrder == Spec /\ []Warm => RevisionNeverGoesBack
PROOF
<1>1. TypeOK /\ OrderHolds /\ Warm /\ Warm' /\ [Next]_vars
        => [\A r \in Rooms : redis[r] # Nil /\ redis'[r] # Nil
                => redis'[r].revision >= redis[r].revision]_vars
  BY NextOrder DEF Warm, OrderHolds, OrderKept
<1> QED BY <1>1, OrderInvariant, TypeCorrect, PTL DEF Spec, RevisionNeverGoesBack

\* And operations are acknowledged, and so broadcast, in the order of their
\* revisions, although each takes three commands and they interleave with one
\* another (canvas-sync.service.ts:105-115, canvas.gateway.ts:208-223).
THEOREM AcknowledgementsInOrder == Spec /\ []Warm => AcksInOrder
PROOF
<1>1. TypeOK /\ OrderHolds /\ Warm /\ Warm' /\ [Next]_vars
        => [\A r \in Rooms : lastAck'[r] >= lastAck[r]]_vars
  BY NextOrder DEF Warm, OrderHolds, OrderKept
<1> QED BY <1>1, OrderInvariant, TypeCorrect, PTL DEF Spec, AcksInOrder

\* Rooms that start warm stay so while no key expires, as in the run.
LEMMA StaysWarm ==
    Budget["expire"] = 0 /\ (\A start \in Starts : start.live # Nil) => (Spec => []Warm)
PROOF
<1> SUFFICES ASSUME Budget["expire"] = 0, \A start \in Starts : start.live # Nil
             PROVE  Spec => []Warm
  OBVIOUS
<1> DEFINE Inv == Warm /\ budget["expire"] = 0
<1>1. Init => Inv
  <2> SUFFICES ASSUME Init PROVE Inv
    OBVIOUS
  <2>1. PICK start \in [Rooms -> Starts] : redis = [r \in Rooms |-> start[r].live]
    BY DEF Init
  <2>2. budget = Budget
    BY Zenon DEF Init
  <2> QED BY <2>1, <2>2 DEF Warm
<1>2. TypeOK /\ Inv /\ [Next]_vars => Inv'
  <2> SUFFICES ASSUME TypeOK, Inv, [Next]_vars PROVE Inv'
    OBVIOUS
  <2>0. budget \in [Kinds -> Nat] /\ redis \in [Rooms -> CanvasOrNil]
    BY DEF TypeOK
  <2>1. ASSUME NEW kind \in Kinds, Spend(kind) \/ (kind \in Requests /\ SpendRequest(kind))
        PROVE  budget'["expire"] = 0 /\ kind # "expire"
    BY <2>0, <2>1 DEF Spend, SpendRequest, Requests, Kinds
  <2>2. ASSUME NEW p \in Procs, Request(p) PROVE Inv'
    BY <2>1, <2>2 DEF Request, OpRequest, JoinRequest, LeaveRequest, RestoreRequest,
       SaveRequest, SnapshotRequest, stores, Warm, Kinds, Requests
  <2>3. ASSUME NEW p \in Procs, NEW s, task[p].room \in Rooms, s # Nil,
               SetRedis(task[p].room, s), budget' = budget
        PROVE  Inv'
    BY <2>0, <2>3 DEF SetRedis, Warm
  <2>4. ASSUME NEW p \in Procs, OpWrite(p) PROVE Inv'
    <3>1. task[p].state.revision + 1 \in Nat /\ task[p].room \in Rooms
          /\ task[p].state \in CanvasStateData /\ task[p].arg \in Operation
      BY <2>4, HeldType, CanvasSyncAssumption DEF OpWrite, Resumes, CanvasStateData
    <3>2. AtRevision(ApplyOperation(task[p].state, task[p].arg), task[p].state.revision + 1)
             \in CanvasStateData
      BY <3>1, ApplyOperationType, AtRevisionType DEF CanvasStateData
    <3> QED BY <2>3, <2>4, <3>1, <3>2, NilIsNoData DEF OpWrite
  <2>5. ASSUME NEW p \in Procs, WarmStore(p) PROVE Inv'
    <3>1. task[p].room \in Rooms /\ task[p].state # Nil
      BY <2>5, HeldType, NilIsNoData DEF WarmStore, Resumes, HoldsCanvas
    <3> QED BY <2>3, <2>5, <3>1 DEF WarmStore
  <2>6. ASSUME NEW p \in Procs, RestoreWrite(p) PROVE Inv'
    <3>1. task[p].room \in Rooms /\ Restored(task[p].arg, task[p].state) # Nil
      BY <2>6, HeldType, SuccessorType, NilIsNoData DEF RestoreWrite, Resumes, Restored
    <3> QED BY <2>3, <2>6, <3>1 DEF RestoreWrite
  <2>7. ASSUME UNCHANGED redis, UNCHANGED budget PROVE Inv'
    BY <2>7 DEF Warm
  <2>8. ASSUME NEW p \in Procs, Step(p) \/ FlushTick(p) PROVE Inv'
    BY <2>4, <2>5, <2>6, <2>7, <2>8 DEF FlushTick, Step, OpStep, OpNotFound, OpRefreshTTL,
       OpDone, WarmStep, WarmHit, WarmMiss, WarmSelect, WarmDone, FlushStep, FlushMiss,
       FlushPersist, FlushRead, FlushSave, FlushDone, RestoreStep, RestoreRefreshTTL,
       RestorePersist, RestoreRead, RestoreSave, RestoreDone, SaveStep, SaveSelect, SaveRead,
       SaveWrite, SnapshotStep, SnapshotLive, SnapshotCold, SnapshotInsert, Collide, Rejected,
       Restart, stores
  <2>9. ASSUME NEW p \in Procs, Fault(p) PROVE Inv'
    BY <2>1, <2>9 DEF Fault, Rejected, Restart, stores, Warm, Kinds
  <2>10. CASE Crash \/ \E r \in Rooms : Expire(r)
    BY <2>1, <2>10 DEF Crash, Restart, Expire, stores, Warm, Kinds
  <2>11. CASE UNCHANGED vars
    BY <2>11 DEF vars, Warm
  <2> QED BY <2>2, <2>8, <2>9, <2>10, <2>11 DEF Next
<1> QED BY <1>1, <1>2, TypeCorrect, PTL DEF Spec

-----------------------------------------------------------------------------
(* One request after another in a room, whatever goes on in other rooms.   *)
(* Without saves by PUT, failed commands and crashes, what a handler holds *)
(* is then what the stores hold, however long it awaits.                   *)

Undisturbed ==
    /\ Budget["save"] = 0
    /\ Budget["crash"] = 0
    /\ Budget["fault"] = 0
    /\ \A start \in Starts :
          start.live # Nil => ContentOf(start.live) = ContentOf(CanvasOr(start.durable))

OneAtATime == \A p, q \in Procs :
    p # q /\ task[p].room \in Rooms => task[q].room # task[p].room

\* Awaits of a handler that holds the live canvas, of one that found none, of
\* one that is about to write a row it has read, and of one that has written it.
HoldsLive == {"op:get", "join:get", "flush:get", "restore:get", "snapshot:get",
              "op:set", "op:expire", "restore:set", "restore:expire", "restore:save",
              "restore:write", "flush:save", "flush:write"}
FoundNone == {"join:row", "join:reply", "snapshot:row"}
HasRead == {"restore:write", "flush:write"}
HasWritten == {"restore:saved", "flush:saved"}
Saving == {"save:row", "save:save", "save:write"}

\* What t holds is what the stores hold.
HeldIsCurrent(t, live, durable, kept) ==
    /\ t.pc \in HoldsLive => t.state = live[t.room]
    /\ t.pc \in FoundNone => live[t.room] = Nil
    /\ t.pc = "join:reply" => t.state = CanvasOr(durable[t.room])
    /\ t.pc = "snapshot:save" =>
          t.state = IF live[t.room] = Nil THEN CanvasOr(durable[t.room]) ELSE live[t.room]
    /\ t.pc \in HasRead => t.base = durable[t.room]
    /\ t.pc \in HasWritten => durable[t.room] = live[t.room]
    /\ t.pc = "restore:get" => t.arg \in kept
    /\ t.pc \notin FlushAwaits => t.todo = {}
    /\ t.pc \notin Saving

\* The handler of t will mark room r, or write its row.
Tracking == {"op:set", "op:expire", "restore:set", "restore:expire", "restore:save",
             "restore:write", "flush:get", "flush:save", "flush:write"}
Covers(t, r) == (t.room = r /\ t.pc \in Tracking) \/ r \in t.todo
Tracked(r) == r \in dirtyRooms \/ \E p \in Procs : Covers(task[p], r)
OthersCover(p, r) == \E q \in Procs \ {p} : Covers(task[q], r)

NothingSpare == \A kind \in {"save", "crash", "fault"} : budget[kind] = 0

SequentialInv ==
    /\ NothingSpare
    /\ \A p \in Procs : HeldIsCurrent(task[p], redis, pg, snapshots)
    /\ \A r \in Rooms : Unsaved(r) => Tracked(r)

-----------------------------------------------------------------------------
(* One step of the only handler.                                           *)

\* A step the abstract canvas makes too, or does not notice.
Follows == Promise!Next \/ UNCHANGED <<redis, pg, snapshots>>

\* p goes on as t.
LEMMA HandlerSequential ==
    ASSUME TypeOK, OneAtATime, SequentialInv, NothingSpare', NEW p \in Procs, NEW t,
           task' = [task EXCEPT ![p] = t],
           HeldIsCurrent(t, redis', pg', snapshots'), snapshots \subseteq snapshots',
           \A s \in Rooms \ {task[p].room} :
              /\ redis'[s] = redis[s] /\ pg'[s] = pg[s]
              /\ s \in dirtyRooms \cup task[p].todo => s \in dirtyRooms' \/ Covers(t, s),
           \A s \in Rooms : s = task[p].room /\ Unsaved(s)'
              => s \in dirtyRooms' \/ Covers(t, s) \/ OthersCover(p, s)
    PROVE  SequentialInv'
PROOF
<1>1. task'[p] = t /\ \A q \in Procs \ {p} : task'[q] = task[q]
  BY DEF TypeOK
<1>2. ASSUME NEW q \in Procs PROVE HeldIsCurrent(task'[q], redis', pg', snapshots')
  <2>1. CASE q = p
    BY <1>1, <2>1
  <2>2. CASE q # p /\ task[q].room \in Rooms
    <3>1. task[q].room # task[p].room
      BY <2>2 DEF OneAtATime
    <3>2. /\ redis'[task[q].room] = redis[task[q].room]
          /\ pg'[task[q].room] = pg[task[q].room]
      BY <2>2, <3>1
    <3>3. HeldIsCurrent(task[q], redis, pg, snapshots)
      BY DEF SequentialInv
    <3> QED BY <1>1, <2>2, <3>2, <3>3 DEF HeldIsCurrent
  <2>3. CASE q # p /\ task[q].room \notin Rooms
    <3>1. task[q].pc = "idle" /\ HeldIsCurrent(task[q], redis, pg, snapshots)
      BY <2>3, HeldType DEF SequentialInv
    <3> QED BY <1>1, <2>3, <3>1 DEF HeldIsCurrent, HoldsLive, FoundNone, HasRead, HasWritten
  <2> QED BY <2>1, <2>2, <2>3
<1>3. ASSUME NEW s \in Rooms, s \in dirtyRooms' \/ Covers(t, s) \/ OthersCover(p, s)
      PROVE  Tracked(s)'
  BY <1>1, <1>3 DEF Tracked, OthersCover
<1>4. ASSUME NEW s \in Rooms, Unsaved(s)' PROVE Tracked(s)'
  <2>1. CASE s = task[p].room
    BY <1>3, <1>4, <2>1
  <2>2. CASE s # task[p].room
    <3>1. redis'[s] = redis[s] /\ pg'[s] = pg[s]
      BY <2>2
    <3>2. Unsaved(s)
      BY <1>4, <3>1 DEF Unsaved
    <3>3. s \in dirtyRooms \/ Covers(task[p], s) \/ OthersCover(p, s)
      BY <3>2 DEF SequentialInv, Tracked, OthersCover
    <3>4. s \in dirtyRooms' \/ Covers(t, s) \/ OthersCover(p, s)
      BY <2>2, <3>3 DEF Covers
    <3> QED BY <1>3, <3>4
  <2> QED BY <2>1, <2>2
<1> QED BY <1>2, <1>4 DEF SequentialInv

\* What p holds before the step.
LEMMA HeldNow ==
    ASSUME TypeOK, SequentialInv, NEW p \in Procs
    PROVE  HeldIsCurrent(task[p], redis, pg, snapshots)
BY DEF SequentialInv

\* A room with unsaved changes is marked, or p or another handler tracks it.
LEMMA TrackedNow ==
    ASSUME TypeOK, SequentialInv, NEW p \in Procs, NEW s \in Rooms, Unsaved(s)
    PROVE  s \in dirtyRooms \/ Covers(task[p], s) \/ OthersCover(p, s)
BY DEF SequentialInv, Tracked, OthersCover

\* A handler that starts, with nothing to flush.
LEMMA StartSequential ==
    ASSUME TypeOK, OneAtATime, SequentialInv, NothingSpare', NEW p \in Procs, NEW t,
           task[p] = Idle, task' = [task EXCEPT ![p] = t],
           HeldIsCurrent(t, redis, pg, snapshots),
           UNCHANGED <<redis, pg, snapshots, dirtyRooms>>
    PROVE  SequentialInv'
PROOF
<1>1. task[p].room = Nil /\ task[p].todo = {}
  BY DEF Idle, Handler
<1> QED BY <1>1, HandlerSequential, NilIsNoData

\* t goes on from u, awaiting at pc with s in its hands, all else being as it was.
GoesOn(t, u, pc, s) ==
    /\ t.pc = pc /\ t.state = s
    /\ t.room = u.room /\ t.arg = u.arg /\ t.base = u.base /\ t.todo = u.todo

LEMMA AwaitFields ==
    ASSUME TypeOK, NEW p \in Procs, NEW pc, NEW s, Await(p, pc, s)
    PROVE  \E t : task' = [task EXCEPT ![p] = t] /\ GoesOn(t, task[p], pc, s)
PROOF
<1> DEFINE t == [task[p] EXCEPT !.pc = pc, !.state = s]
<1>1. task' = [task EXCEPT ![p] = t] /\ task[p] \in Task
  BY DEF Await, TypeOK
<1>2. GoesOn(t, task[p], pc, s)
  BY <1>1 DEF Task, GoesOn
<1> HIDE DEF t
<1> QED BY <1>1, <1>2

LEMMA AwaitSequential ==
    ASSUME TypeOK, OneAtATime, SequentialInv, NothingSpare', NEW p \in Procs, NEW pc, NEW s,
           Await(p, pc, s), UNCHANGED <<redis, pg, snapshots, dirtyRooms>>,
           \A t : GoesOn(t, task[p], pc, s) => HeldIsCurrent(t, redis, pg, snapshots),
           task[p].pc \in Tracking => pc \in Tracking
    PROVE  SequentialInv'
PROOF
<1>1. PICK t : task' = [task EXCEPT ![p] = t] /\ GoesOn(t, task[p], pc, s)
  BY AwaitFields
<1>2. HeldIsCurrent(t, redis', pg', snapshots')
  BY <1>1
<1>3. \A r \in Rooms : Covers(task[p], r) => Covers(t, r)
  BY <1>1 DEF Covers, GoesOn
<1>4. \A r \in Rooms : Unsaved(r)'
          => r \in dirtyRooms \/ Covers(task[p], r) \/ OthersCover(p, r)
  <2> SUFFICES ASSUME NEW r \in Rooms, Unsaved(r)'
               PROVE  r \in dirtyRooms \/ Covers(task[p], r) \/ OthersCover(p, r)
    OBVIOUS
  <2>1. Unsaved(r)
    BY DEF Unsaved
  <2> QED BY <2>1, TrackedNow
<1>5. \A r \in Rooms : r \in task[p].todo => Covers(t, r)
  BY <1>1 DEF Covers, GoesOn
<1> QED BY <1>1, <1>2, <1>3, <1>4, <1>5, HandlerSequential

\* A handler that returns, its room saved or marked.
LEMMA ReturnSequential ==
    ASSUME TypeOK, OneAtATime, SequentialInv, NothingSpare', NEW p \in Procs, Return(p),
           task[p].pc \notin FlushAwaits, snapshots \subseteq snapshots',
           \A s \in Rooms : s # task[p].room
              => redis'[s] = redis[s] /\ pg'[s] = pg[s] /\ (s \in dirtyRooms => s \in dirtyRooms'),
           \A s \in Rooms : s = task[p].room /\ Unsaved(s)'
              => s \in dirtyRooms' \/ OthersCover(p, s)
    PROVE  SequentialInv'
PROOF
<1>1. HeldIsCurrent(Idle, redis', pg', snapshots')
  BY DEF HeldIsCurrent, Idle, Handler, HoldsLive, FoundNone, HasRead, HasWritten, Saving
<1>2. task[p].todo = {}
  BY HeldNow DEF HeldIsCurrent
<1>3. task' = [task EXCEPT ![p] = Idle]
  BY DEF Return
<1> QED BY <1>1, <1>2, <1>3, HandlerSequential

\* A handler that returns having changed nothing.
LEMMA ReturnUnchanged ==
    ASSUME TypeOK, OneAtATime, SequentialInv, NothingSpare', NEW p \in Procs, Return(p),
           task[p].pc \notin FlushAwaits, UNCHANGED <<redis, pg, dirtyRooms>>,
           snapshots \subseteq snapshots',
           \A s \in Rooms : s = task[p].room /\ Unsaved(s)
              => s \in dirtyRooms \/ OthersCover(p, s)
    PROVE  SequentialInv'
PROOF
<1>1. \A s \in Rooms : Unsaved(s)' => Unsaved(s)
  BY DEF Unsaved
<1> QED BY <1>1, ReturnSequential

\* The next room of a flush, or the end of it.
LEMMA FlushNextSequential ==
    ASSUME TypeOK, OneAtATime, SequentialInv, NothingSpare', NEW p \in Procs, NEW q,
           NEW todo \in SUBSET Rooms, FlushNext(p, todo, q), UNCHANGED <<redis, pg, snapshots>>,
           \A s \in Rooms : s # task[p].room /\ s \in dirtyRooms \cup task[p].todo
                => s \in dirtyRooms' \cup todo,
           \A s \in Rooms : s = task[p].room /\ Unsaved(s) => s \in dirtyRooms' \cup todo
    PROVE  SequentialInv'
PROOF
<1>0. \A s \in Rooms : Unsaved(s)' => Unsaved(s)
  BY DEF Unsaved
<1>1. CASE todo = {}
  <2>1. task' = [task EXCEPT ![p] = Idle]
    BY <1>1 DEF FlushNext, Return
  <2>2. HeldIsCurrent(Idle, redis', pg', snapshots')
    BY DEF HeldIsCurrent, Idle, Handler, HoldsLive, FoundNone, HasRead, HasWritten, Saving
  <2> QED BY <1>0, <1>1, <2>1, <2>2, HandlerSequential
<1>2. CASE todo # {}
  <2>1. PICK s \in todo :
           task' = [task EXCEPT ![p] = Handler("flush:get", s, Nil, redis[s], Rest(todo, s))]
    BY <1>2 DEF FlushNext
  <2> DEFINE t == Handler("flush:get", s, Nil, redis[s], Rest(todo, s))
  <2>2. t.pc = "flush:get" /\ t.room = s /\ t.state = redis[s] /\ t.todo = todo \ {s}
    BY DEF Handler, Rest
  <2>3. task' = [task EXCEPT ![p] = t]
    BY <2>1
  <2> HIDE DEF t
  <2>4. HeldIsCurrent(t, redis, pg, snapshots)
    BY <2>2 DEF HeldIsCurrent, FoundNone, HasRead, HasWritten, FlushAwaits, Saving
  <2>5. HeldIsCurrent(t, redis', pg', snapshots')
    BY <2>4
  <2>6. \A u \in Rooms : u \in todo => Covers(t, u)
    BY <2>2 DEF Covers, Tracking
  <2> QED BY <1>0, <2>3, <2>5, <2>6, HandlerSequential
<1> QED BY <1>1, <1>2

-----------------------------------------------------------------------------
(* The operators of the abstract canvas are those of the server.           *)

LEMMA PromiseOperators ==
    /\ \A s, op : Promise!ApplyOperation(s, op) = ApplyOperation(s, op)
    /\ \A c, n : Promise!AtRevision(c, n) = AtRevision(c, n)
    /\ \A s : Promise!CanvasOr(s) = CanvasOr(s)
    /\ \A s : Promise!ContentOf(s) = ContentOf(s)
BY DEF Promise!ApplyOperation, ApplyOperation, Promise!AddNode, AddNode, Promise!DeleteNode,
       DeleteNode, Promise!MoveNode, MoveNode, Promise!UpdateNode, UpdateNode,
       Promise!AddEdge, AddEdge, Promise!DeleteEdge, DeleteEdge, Promise!HasNode, HasNode,
       Promise!HasEdge, HasEdge, Promise!AtRevision, AtRevision, Promise!CanvasOr, CanvasOr,
       Promise!EmptyCanvas, EmptyCanvas, Promise!ContentOf, ContentOf

\* A step of the server that is a step of the abstract canvas.
LEMMA EditStep ==
    ASSUME NEW r \in Rooms, NEW op \in Ops, redis[r] # Nil,
           redis' = [redis EXCEPT ![r] = AtRevision(ApplyOperation(redis[r], op),
                                                    redis[r].revision + 1)],
           UNCHANGED <<pg, snapshots>>
    PROVE  Follows
PROOF
<1>1. Promise!Edit(r)
  BY PromiseOperators DEF Promise!Edit
<1> QED BY <1>1 DEF Follows, Promise!Next

LEMMA RestoreAStep ==
    ASSUME NEW r \in Rooms, NEW c \in snapshots,
           redis' = [redis EXCEPT ![r] = Restored(c, redis[r])],
           UNCHANGED <<pg, snapshots>>
    PROVE  Follows
PROOF
<1>1. Promise!Restore(r)
  BY PromiseOperators DEF Promise!Restore, Restored
<1> QED BY <1>1 DEF Follows, Promise!Next

LEMMA LoadStep ==
    ASSUME NEW r \in Rooms, redis[r] = Nil,
           redis' = [redis EXCEPT ![r] = CanvasOr(pg[r])],
           UNCHANGED <<pg, snapshots>>
    PROVE  Follows
PROOF
<1>1. Promise!Load(r)
  BY PromiseOperators DEF Promise!Load
<1> QED BY <1>1 DEF Follows, Promise!Next

LEMMA FlushAStep ==
    ASSUME NEW r \in Rooms, redis[r] # Nil, pg' = [pg EXCEPT ![r] = redis[r]],
           UNCHANGED <<redis, snapshots>>
    PROVE  Follows
PROOF
<1>1. Promise!Flush(r)
  BY DEF Promise!Flush
<1> QED BY <1>1 DEF Follows, Promise!Next

LEMMA TakeSnapshotStep ==
    ASSUME NEW r \in Rooms,
           snapshots' = snapshots \cup
              {ContentOf(IF redis[r] = Nil THEN CanvasOr(pg[r]) ELSE redis[r])},
           UNCHANGED <<redis, pg>>
    PROVE  Follows
PROOF
<1>1. Promise!TakeSnapshot(r)
  BY PromiseOperators DEF Promise!TakeSnapshot
<1> QED BY <1>1 DEF Follows, Promise!Next

LEMMA EvictStep ==
    ASSUME NEW r \in Rooms, redis[r] # Nil, ~Unsaved(r),
           redis' = [redis EXCEPT ![r] = Nil], UNCHANGED <<pg, snapshots>>
    PROVE  Follows
PROOF
<1>1. Promise!Evict(r)
  BY PromiseOperators DEF Promise!Evict, Unsaved
<1> QED BY <1>1 DEF Follows, Promise!Next

-----------------------------------------------------------------------------
(* Handler by handler.                                                     *)

SequentialKept == SequentialInv' /\ Follows

\* No command fails, no process ends and nobody saves by PUT.
LEMMA SpareStays ==
    ASSUME TypeOK, NothingSpare, NEW kind \in Kinds,
           Spend(kind) \/ (kind \in Requests /\ SpendRequest(kind))
    PROVE  NothingSpare' /\ kind \notin {"save", "crash", "fault"}
PROOF
<1>1. budget \in [Kinds -> Nat] /\ budget[kind] > 0
  BY DEF TypeOK, Spend, SpendRequest
<1>2. kind \notin {"save", "crash", "fault"}
  BY <1>1 DEF NothingSpare
<1>3. \A k \in {"save", "crash", "fault"} : budget'[k] = budget[k]
  BY <1>1, <1>2 DEF Spend, SpendRequest, Kinds, Requests
<1> QED BY <1>2, <1>3 DEF NothingSpare

LEMMA RequestSequential ==
    ASSUME TypeOK, OneAtATime, SequentialInv, NEW p \in Procs, Request(p)
    PROVE  SequentialKept
PROOF
<1>0. NothingSpare' /\ ~SaveRequest(p)
  BY SpareStays DEF Request, OpRequest, JoinRequest, LeaveRequest, RestoreRequest,
     SaveRequest, SnapshotRequest, SequentialInv, Requests, Kinds
<1>1. UNCHANGED <<redis, pg, snapshots, dirtyRooms>>
  BY DEF Request, OpRequest, JoinRequest, LeaveRequest, RestoreRequest, SaveRequest,
         SnapshotRequest, stores
<1>2. ASSUME NEW r \in Rooms, NEW a,
             NEW pc \in {"op:get", "join:get", "flush:get", "restore:get", "snapshot:get"},
             StartWithGet(p, pc, r, a), pc = "restore:get" => a \in snapshots
      PROVE  SequentialInv'
  <2> DEFINE t == Handler(pc, r, a, redis[r], {})
  <2>1. t.pc = pc /\ t.room = r /\ t.arg = a /\ t.state = redis[r] /\ t.todo = {}
    BY DEF Handler
  <2>2. task' = [task EXCEPT ![p] = t] /\ task[p] = Idle
    BY <1>2 DEF StartWithGet
  <2> HIDE DEF t
  <2>3. HeldIsCurrent(t, redis, pg, snapshots)
    BY <1>2, <2>1 DEF HeldIsCurrent, FoundNone, HasRead, HasWritten, Saving
  <2> QED BY <1>0, <1>1, <2>2, <2>3, StartSequential
<1>3. SequentialInv'
  <2>1. CASE OpRequest(p)
    BY <1>2, <2>1 DEF OpRequest
  <2>2. CASE JoinRequest(p)
    BY <1>2, <2>2 DEF JoinRequest
  <2>3. CASE LeaveRequest(p)
    BY <1>2, <2>3 DEF LeaveRequest
  <2>4. CASE RestoreRequest(p)
    BY <1>2, <2>4 DEF RestoreRequest
  <2>5. CASE SnapshotRequest(p)
    BY <1>2, <2>5 DEF SnapshotRequest
  <2> QED BY <1>0, <2>1, <2>2, <2>3, <2>4, <2>5 DEF Request
<1> QED BY <1>1, <1>3 DEF SequentialKept, Follows

LEMMA FlushTickSequential ==
    ASSUME TypeOK, OneAtATime, SequentialInv, NEW p \in Procs, FlushTick(p)
    PROVE  SequentialKept
PROOF
<1>1. NothingSpare'
  BY DEF FlushTick, SequentialInv, NothingSpare
<1>2. task[p].room = Nil /\ task[p].todo = {}
  BY DEF FlushTick, Idle, Handler
<1>3. FlushNext(p, dirtyRooms, redisQ) /\ dirtyRooms \in SUBSET Rooms
      /\ UNCHANGED <<redis, pg, snapshots>>
  BY DEF FlushTick, TypeOK, stores
<1>4. SequentialInv'
  BY <1>1, <1>2, <1>3, NilIsNoData, FlushNextSequential
<1> QED BY <1>3, <1>4 DEF SequentialKept, Follows

LEMMA OpStepSequential ==
    ASSUME TypeOK, OneAtATime, SequentialInv, NEW p \in Procs, OpStep(p)
    PROVE  SequentialKept
PROOF
<1>0. NothingSpare'
  BY DEF OpStep, OpNotFound, OpWrite, OpRefreshTTL, OpDone, SequentialInv, NothingSpare
<1>1. task[p].pc \in {"op:get", "op:set", "op:expire"} /\ task[p].arg \in Ops
  BY HeldType DEF OpStep, OpNotFound, OpWrite, OpRefreshTTL, OpDone, Resumes
<1>2. PICK r \in Rooms : r = task[p].room
  BY <1>1, HeldType
<1>3. task[p].state = redis[r] /\ task[p].todo = {} /\ task[p].pc \notin FlushAwaits
  BY <1>1, <1>2, HeldNow DEF HeldIsCurrent, HoldsLive, FlushAwaits
<1>4. CASE OpNotFound(p)
  <2>1. ~Unsaved(r)
    BY <1>3, <1>4 DEF OpNotFound, Unsaved
  <2>2. SequentialInv'
    BY <1>0, <1>2, <1>3, <1>4, <2>1, ReturnUnchanged DEF OpNotFound, stores
  <2> QED BY <1>4, <2>2 DEF OpNotFound, stores, SequentialKept, Follows
<1>5. CASE OpWrite(p)
  <2>1. PICK new : new = AtRevision(ApplyOperation(redis[r], task[p].arg), redis[r].revision + 1)
    OBVIOUS
  <2>2. /\ redis' = [redis EXCEPT ![r] = new] /\ Await(p, "op:set", new)
        /\ redis[r] # Nil /\ UNCHANGED <<pg, snapshots, dirtyRooms>>
    BY <1>2, <1>3, <1>5, <2>1 DEF OpWrite, SetRedis
  <2>3. Follows
    BY <1>1, <2>1, <2>2, EditStep
  <2>4. PICK t : task' = [task EXCEPT ![p] = t] /\ GoesOn(t, task[p], "op:set", new)
    BY <2>2, AwaitFields
  <2>5. redis'[r] = new /\ \A s \in Rooms \ {r} : redis'[s] = redis[s]
    BY <2>2 DEF TypeOK
  <2>6. HeldIsCurrent(t, redis', pg', snapshots')
    BY <1>2, <1>3, <2>4, <2>5 DEF GoesOn, HeldIsCurrent, FoundNone, HasRead, HasWritten,
       FlushAwaits, Saving
  <2>7. Covers(t, r)
    BY <1>2, <2>4 DEF GoesOn, Covers, Tracking
  <2>8. SequentialInv'
    BY <1>0, <1>2, <1>3, <2>2, <2>4, <2>5, <2>6, <2>7, HandlerSequential
  <2> QED BY <2>3, <2>8 DEF SequentialKept
<1>6. CASE OpRefreshTTL(p)
  <2>1. \A t : GoesOn(t, task[p], "op:expire", task[p].state)
                 => HeldIsCurrent(t, redis, pg, snapshots)
    BY <1>2, <1>3 DEF GoesOn, HeldIsCurrent, FoundNone, HasRead, HasWritten, Saving
  <2>2. SequentialInv'
    BY <1>0, <1>6, <2>1, AwaitSequential DEF OpRefreshTTL, stores, Tracking
  <2> QED BY <1>6, <2>2 DEF OpRefreshTTL, stores, SequentialKept, Follows
<1>7. CASE OpDone(p)
  <2>1. /\ Return(p) /\ dirtyRooms' = dirtyRooms \cup {r}
        /\ UNCHANGED <<redis, pg, snapshots>>
    BY <1>2, <1>7 DEF OpDone, MarkDirty, stores
  <2>2. SequentialInv'
    BY <1>0, <1>2, <1>3, <2>1, ReturnSequential
  <2> QED BY <2>1, <2>2 DEF SequentialKept, Follows
<1> QED BY <1>4, <1>5, <1>6, <1>7 DEF OpStep

LEMMA WarmStepSequential ==
    ASSUME TypeOK, OneAtATime, SequentialInv, NEW p \in Procs, WarmStep(p)
    PROVE  SequentialKept
PROOF
<1>0. NothingSpare'
  BY DEF WarmStep, WarmHit, WarmMiss, WarmSelect, WarmStore, WarmDone, SequentialInv,
         NothingSpare
<1>1. task[p].pc \in {"join:get", "join:row", "join:reply", "join:set"}
  BY DEF WarmStep, WarmHit, WarmMiss, WarmSelect, WarmStore, WarmDone, Resumes
<1>2. PICK r \in Rooms : r = task[p].room
  BY <1>1, HeldType
<1>3. /\ task[p].todo = {} /\ task[p].pc \notin FlushAwaits /\ task[p].pc \notin Tracking
      /\ task[p].pc = "join:get" => task[p].state = redis[r]
      /\ task[p].pc \in {"join:row", "join:reply"} => redis[r] = Nil
      /\ task[p].pc = "join:reply" => task[p].state = CanvasOr(pg[r])
  BY <1>1, <1>2, HeldNow DEF HeldIsCurrent, HoldsLive, FoundNone, FlushAwaits, Tracking
<1>4. Unsaved(r) => r \in dirtyRooms \/ OthersCover(p, r)
  BY <1>3, TrackedNow DEF Covers
<1>5. CASE WarmHit(p) \/ WarmDone(p)
  <2>1. Return(p) /\ UNCHANGED <<redis, pg, snapshots, dirtyRooms>>
    BY <1>5 DEF WarmHit, WarmDone, stores
  <2>2. SequentialInv'
    BY <1>0, <1>2, <1>3, <1>4, <2>1, ReturnUnchanged
  <2> QED BY <2>1, <2>2 DEF SequentialKept, Follows
<1>6. CASE WarmMiss(p) \/ WarmSelect(p)
  <2>1. PICK pc \in {"join:row", "join:reply"}, s \in {Nil, CanvasOr(pg[r])} :
           Await(p, pc, s) /\ (pc = "join:reply" => s = CanvasOr(pg[r]))
    BY <1>2, <1>6 DEF WarmMiss, WarmSelect
  <2>2. UNCHANGED <<redis, pg, snapshots, dirtyRooms>> /\ redis[r] = Nil
    BY <1>3, <1>6 DEF WarmMiss, WarmSelect, Resumes, stores
  <2>3. \A t : GoesOn(t, task[p], pc, s) => HeldIsCurrent(t, redis, pg, snapshots)
    BY <1>2, <1>3, <2>1, <2>2 DEF GoesOn, HeldIsCurrent, HoldsLive, HasRead, HasWritten, Saving
  <2>4. SequentialInv'
    BY <1>0, <1>3, <2>1, <2>2, <2>3, AwaitSequential
  <2> QED BY <2>2, <2>4 DEF SequentialKept, Follows
<1>7. CASE WarmStore(p)
  <2>1. PICK new : new = CanvasOr(pg[r])
    OBVIOUS
  <2>2. /\ redis' = [redis EXCEPT ![r] = new] /\ Await(p, "join:set", new) /\ redis[r] = Nil
        /\ UNCHANGED <<pg, snapshots, dirtyRooms>>
    BY <1>2, <1>3, <1>7, <2>1 DEF WarmStore, SetRedis, Resumes
  <2>3. Follows
    BY <2>1, <2>2, LoadStep
  <2>4. PICK t : task' = [task EXCEPT ![p] = t] /\ GoesOn(t, task[p], "join:set", new)
    BY <2>2, AwaitFields
  <2>5. redis'[r] = new /\ \A s \in Rooms \ {r} : redis'[s] = redis[s]
    BY <2>2 DEF TypeOK
  <2>6. HeldIsCurrent(t, redis', pg', snapshots')
    BY <1>2, <1>3, <2>4 DEF GoesOn, HeldIsCurrent, HoldsLive, FoundNone, HasRead, HasWritten,
       Saving
  <2>7. ~Unsaved(r)'
    BY <2>1, <2>2, <2>5 DEF Unsaved
  <2>8. SequentialInv'
    BY <1>0, <1>2, <1>3, <2>2, <2>4, <2>5, <2>6, <2>7, HandlerSequential
  <2> QED BY <2>3, <2>8 DEF SequentialKept
<1> QED BY <1>5, <1>6, <1>7 DEF WarmStep

\* The writing half of repository.save, and what it leaves p with.
LEMMA SavedSequential ==
    ASSUME TypeOK, OneAtATime, SequentialInv, NothingSpare', NEW p \in Procs,
           NEW r \in Rooms, r = task[p].room, task[p].pc \in HasRead,
           NEW pc \in HasWritten, task[p].pc = "restore:write" <=> pc = "restore:saved",
           WriteRow(p), task' = [task EXCEPT ![p].pc = pc, ![p].base = Nil],
           UNCHANGED <<redis, snapshots, dirtyRooms>>
    PROVE  SequentialKept
PROOF
<1> DEFINE t == [task[p] EXCEPT !.pc = pc, !.base = Nil]
<1>1. task' = [task EXCEPT ![p] = t] /\ task[p] \in Task
  BY DEF TypeOK
<1>2. t.pc = pc /\ t.room = r /\ t.todo = task[p].todo
  BY <1>1 DEF Task
<1> HIDE DEF t
<1>3. /\ task[p].state = redis[r] /\ task[p].base = pg[r]
      /\ task[p].pc \notin FlushAwaits => task[p].todo = {}
  BY HeldNow DEF HeldIsCurrent, HoldsLive, HasRead
<1>4. task[p].state \in CanvasStateData /\ pg[r] \in CanvasOrNil
  BY HeldType DEF HasRead, HoldsCanvas, TypeOK
<1>5. Written(pg[r], task[p].base, task[p].state) = redis[r]
  BY <1>3, <1>4, WrittenType
<1>6. pg' = [pg EXCEPT ![r] = redis[r]] /\ redis[r] # Nil
  BY <1>3, <1>4, <1>5, NilIsNoData DEF WriteRow
<1>7. Follows
  BY <1>6, FlushAStep
<1>8. pg'[r] = redis'[r] /\ \A s \in Rooms \ {r} : pg'[s] = pg[s]
  BY <1>6 DEF TypeOK
<1>9. HeldIsCurrent(t, redis', pg', snapshots')
  BY <1>2, <1>3, <1>8 DEF HeldIsCurrent, HoldsLive, FoundNone, HasRead, HasWritten,
     FlushAwaits, Saving
<1>10. ~Unsaved(r)'
  BY <1>8 DEF Unsaved, CanvasOr
<1>11. \A s \in Rooms : s \in task[p].todo => Covers(t, s)
  BY <1>2 DEF Covers
<1>12. SequentialInv'
  BY <1>1, <1>8, <1>9, <1>10, <1>11, HandlerSequential
<1> QED BY <1>7, <1>12 DEF SequentialKept

\* The reading half: the row is as p read it, until p writes it.
LEMMA ReadRowSequential ==
    ASSUME TypeOK, OneAtATime, SequentialInv, NothingSpare', NEW p \in Procs,
           task[p].pc \in {"flush:save", "restore:save"},
           NEW pc \in HasRead, task[p].pc = "restore:save" <=> pc = "restore:write",
           ReadRow(p, pc), UNCHANGED <<redis, pg, snapshots, dirtyRooms>>
    PROVE  SequentialInv'
PROOF
<1> DEFINE t == [task[p] EXCEPT !.pc = pc, !.base = pg[task[p].room]]
<1>1. task' = [task EXCEPT ![p] = t] /\ task[p] \in Task
  BY DEF ReadRow, TypeOK
<1>2. /\ t.pc = pc /\ t.room = task[p].room /\ t.todo = task[p].todo
      /\ t.state = task[p].state /\ t.base = pg[task[p].room]
  BY <1>1 DEF Task
<1> HIDE DEF t
<1>3. /\ task[p].state = redis[task[p].room]
      /\ task[p].pc \notin FlushAwaits => task[p].todo = {}
  BY HeldNow DEF HeldIsCurrent, HoldsLive
<1>4. HeldIsCurrent(t, redis, pg, snapshots)
  BY <1>2, <1>3 DEF HeldIsCurrent, HoldsLive, FoundNone, HasRead, HasWritten, FlushAwaits, Saving
<1>5. HeldIsCurrent(t, redis', pg', snapshots')
  BY <1>4
<1>6. \A s \in Rooms : s \in task[p].todo \/ s = task[p].room => Covers(t, s)
  BY <1>2 DEF Covers, HasRead, Tracking
<1> QED BY <1>1, <1>5, <1>6, HandlerSequential

LEMMA FlushStepSequential ==
    ASSUME TypeOK, OneAtATime, SequentialInv, NEW p \in Procs, FlushStep(p)
    PROVE  SequentialKept
PROOF
<1>0. NothingSpare'
  BY DEF FlushStep, FlushMiss, FlushPersist, FlushRead, FlushSave, FlushDone, SequentialInv,
         NothingSpare
<1>1. task[p].pc \in {"flush:get", "flush:save", "flush:write", "flush:saved"}
  BY DEF FlushStep, FlushMiss, FlushPersist, FlushRead, FlushSave, FlushDone, Resumes
<1>2. PICK r \in Rooms : r = task[p].room
  BY <1>1, HeldType
<1>3. /\ task[p].pc = "flush:get" => task[p].state = redis[r]
      /\ task[p].pc = "flush:saved" => pg[r] = redis[r]
      /\ task[p].todo \in SUBSET Rooms
  BY <1>2, HeldNow, HeldType DEF HeldIsCurrent, HoldsLive, HasWritten
<1>4. CASE FlushMiss(p)
  <2>1. ~Unsaved(r)
    BY <1>3, <1>4 DEF FlushMiss, Resumes, Unsaved
  <2>2. /\ FlushNext(p, task[p].todo, Tail(redisQ))
        /\ UNCHANGED <<redis, pg, snapshots, dirtyRooms>>
    BY <1>4 DEF FlushMiss, stores
  <2>3. SequentialInv'
    BY <1>0, <1>2, <1>3, <2>1, <2>2, FlushNextSequential
  <2> QED BY <2>2, <2>3 DEF SequentialKept, Follows
<1>5. CASE FlushPersist(p)
  <2>1. \A t : GoesOn(t, task[p], "flush:save", task[p].state)
                 => HeldIsCurrent(t, redis, pg, snapshots)
    BY <1>2, <1>3, <1>5 DEF FlushPersist, Resumes, GoesOn, HeldIsCurrent, FoundNone, HasRead,
       HasWritten, FlushAwaits, Saving
  <2>2. SequentialInv'
    BY <1>0, <1>5, <2>1, AwaitSequential DEF FlushPersist, stores, Tracking
  <2> QED BY <1>5, <2>2 DEF FlushPersist, stores, SequentialKept, Follows
<1>6. CASE FlushRead(p)
  <2>1. SequentialInv'
    BY <1>0, <1>6, ReadRowSequential DEF FlushRead, stores, Resumes, HasRead
  <2> QED BY <1>6, <2>1 DEF FlushRead, stores, SequentialKept, Follows
<1>7. CASE FlushSave(p)
  BY <1>0, <1>2, <1>7, SavedSequential DEF FlushSave, Resumes, HasRead, HasWritten
<1>8. CASE FlushDone(p)
  <2>1. ~Unsaved(r)
    BY <1>3, <1>8 DEF FlushDone, Resumes, Unsaved, CanvasOr
  <2>2. /\ FlushNext(p, task[p].todo, redisQ) /\ dirtyRooms' = dirtyRooms \ {r}
        /\ UNCHANGED <<redis, pg, snapshots>>
    BY <1>2, <1>8 DEF FlushDone, Unmark, stores
  <2>3. SequentialInv'
    BY <1>0, <1>2, <1>3, <2>1, <2>2, FlushNextSequential
  <2> QED BY <2>2, <2>3 DEF SequentialKept, Follows
<1> QED BY <1>4, <1>5, <1>6, <1>7, <1>8 DEF FlushStep

LEMMA RestoreStepSequential ==
    ASSUME TypeOK, OneAtATime, SequentialInv, NEW p \in Procs, RestoreStep(p)
    PROVE  SequentialKept
PROOF
<1>0. NothingSpare'
  BY DEF RestoreStep, RestoreWrite, RestoreRefreshTTL, RestorePersist, RestoreRead,
         RestoreSave, RestoreDone, SequentialInv, NothingSpare
<1>1. task[p].pc \in {"restore:get", "restore:set", "restore:expire", "restore:save",
                      "restore:write", "restore:saved"}
  BY DEF RestoreStep, RestoreWrite, RestoreRefreshTTL, RestorePersist, RestoreRead,
         RestoreSave, RestoreDone, Resumes
<1>2. PICK r \in Rooms : r = task[p].room
  BY <1>1, HeldType
<1>3. /\ task[p].todo = {} /\ task[p].pc \notin FlushAwaits
      /\ task[p].pc # "restore:saved" => task[p].state = redis[r]
      /\ task[p].pc = "restore:get" => task[p].arg \in snapshots
      /\ task[p].pc = "restore:saved" => pg[r] = redis[r]
  BY <1>1, <1>2, HeldNow DEF HeldIsCurrent, HoldsLive, HasWritten, FlushAwaits
<1>4. CASE RestoreWrite(p)
  <2>1. PICK new : new = Restored(task[p].arg, redis[r])
    OBVIOUS
  <2>2. /\ redis' = [redis EXCEPT ![r] = new] /\ Await(p, "restore:set", new)
        /\ task[p].arg \in snapshots /\ UNCHANGED <<pg, snapshots, dirtyRooms>>
    BY <1>2, <1>3, <1>4, <2>1 DEF RestoreWrite, SetRedis, Resumes
  <2>3. Follows
    BY <2>1, <2>2, RestoreAStep
  <2>4. PICK t : task' = [task EXCEPT ![p] = t] /\ GoesOn(t, task[p], "restore:set", new)
    BY <2>2, AwaitFields
  <2>5. redis'[r] = new /\ \A s \in Rooms \ {r} : redis'[s] = redis[s]
    BY <2>2 DEF TypeOK
  <2>6. HeldIsCurrent(t, redis', pg', snapshots')
    BY <1>2, <1>3, <2>4, <2>5 DEF GoesOn, HeldIsCurrent, FoundNone, HasRead, HasWritten,
       FlushAwaits, Saving
  <2>7. Covers(t, r)
    BY <1>2, <2>4 DEF GoesOn, Covers, Tracking
  <2>8. SequentialInv'
    BY <1>0, <1>2, <1>3, <2>2, <2>4, <2>5, <2>6, <2>7, HandlerSequential
  <2> QED BY <2>3, <2>8 DEF SequentialKept
<1>5. CASE RestoreRefreshTTL(p) \/ RestorePersist(p)
  <2>1. PICK pc \in {"restore:expire", "restore:save"} : Await(p, pc, task[p].state)
    BY <1>5 DEF RestoreRefreshTTL, RestorePersist
  <2>2. task[p].state = redis[r] /\ UNCHANGED <<redis, pg, snapshots, dirtyRooms>>
    BY <1>3, <1>5 DEF RestoreRefreshTTL, RestorePersist, Resumes, stores
  <2>3. \A t : GoesOn(t, task[p], pc, task[p].state) => HeldIsCurrent(t, redis, pg, snapshots)
    BY <1>2, <1>3, <2>2 DEF GoesOn, HeldIsCurrent, FoundNone, HasRead, HasWritten, Saving
  <2>4. SequentialInv'
    BY <1>0, <2>1, <2>2, <2>3, AwaitSequential DEF Tracking
  <2> QED BY <2>2, <2>4 DEF SequentialKept, Follows
<1>6. CASE RestoreRead(p)
  <2>1. SequentialInv'
    BY <1>0, <1>6, ReadRowSequential DEF RestoreRead, stores, Resumes, HasRead
  <2> QED BY <1>6, <2>1 DEF RestoreRead, stores, SequentialKept, Follows
<1>7. CASE RestoreSave(p)
  BY <1>0, <1>2, <1>7, SavedSequential DEF RestoreSave, Resumes, HasRead, HasWritten
<1>8. CASE RestoreDone(p)
  <2>1. ~Unsaved(r)
    BY <1>3, <1>8 DEF RestoreDone, Resumes, Unsaved, CanvasOr
  <2>2. /\ Return(p) /\ dirtyRooms' = dirtyRooms \ {r} /\ UNCHANGED <<redis, pg, snapshots>>
    BY <1>2, <1>8 DEF RestoreDone, Unmark, stores
  <2>3. ~Unsaved(r)'
    BY <2>1, <2>2 DEF Unsaved
  <2>4. SequentialInv'
    BY <1>0, <1>2, <1>3, <2>2, <2>3, ReturnSequential
  <2> QED BY <2>2, <2>4 DEF SequentialKept, Follows
<1> QED BY <1>4, <1>5, <1>6, <1>7, <1>8 DEF RestoreStep

LEMMA SnapshotStepSequential ==
    ASSUME TypeOK, OneAtATime, SequentialInv, NEW p \in Procs, SnapshotStep(p)
    PROVE  SequentialKept
PROOF
<1>0. NothingSpare'
  BY DEF SnapshotStep, SnapshotLive, SnapshotCold, SnapshotInsert, SequentialInv, NothingSpare
<1>1. task[p].pc \in {"snapshot:get", "snapshot:row", "snapshot:save"}
  BY DEF SnapshotStep, SnapshotLive, SnapshotCold, SnapshotInsert, Resumes
<1>2. PICK r \in Rooms : r = task[p].room
  BY <1>1, HeldType
<1>3. /\ task[p].todo = {} /\ task[p].pc \notin FlushAwaits /\ task[p].pc \notin Tracking
      /\ task[p].pc = "snapshot:get" => task[p].state = redis[r]
      /\ task[p].pc = "snapshot:row" => redis[r] = Nil
      /\ task[p].pc = "snapshot:save" =>
            task[p].state = IF redis[r] = Nil THEN CanvasOr(pg[r]) ELSE redis[r]
  BY <1>1, <1>2, HeldNow DEF HeldIsCurrent, HoldsLive, FoundNone, FlushAwaits, Tracking
<1>4. Unsaved(r) => r \in dirtyRooms \/ OthersCover(p, r)
  BY <1>3, TrackedNow DEF Covers
<1>5. CASE SnapshotLive(p)
  <2>1. PICK pc \in {"snapshot:row", "snapshot:save"} :
           /\ Await(p, pc, task[p].state)
           /\ pc = "snapshot:row" <=> task[p].state = Nil
    BY <1>5 DEF SnapshotLive
  <2>2. task[p].state = redis[r] /\ UNCHANGED <<redis, pg, snapshots, dirtyRooms>>
    BY <1>3, <1>5 DEF SnapshotLive, Resumes, stores
  <2>3. \A t : GoesOn(t, task[p], pc, task[p].state) => HeldIsCurrent(t, redis, pg, snapshots)
    BY <1>2, <1>3, <2>1, <2>2 DEF GoesOn, HeldIsCurrent, HoldsLive, FoundNone, HasRead,
       HasWritten, Saving
  <2>4. SequentialInv'
    BY <1>0, <1>3, <2>1, <2>2, <2>3, AwaitSequential
  <2> QED BY <2>2, <2>4 DEF SequentialKept, Follows
<1>6. CASE SnapshotCold(p)
  <2>1. /\ Await(p, "snapshot:save", CanvasOr(pg[r])) /\ redis[r] = Nil
        /\ UNCHANGED <<redis, pg, snapshots, dirtyRooms>>
    BY <1>2, <1>3, <1>6 DEF SnapshotCold, Resumes, stores
  <2>2. \A t : GoesOn(t, task[p], "snapshot:save", CanvasOr(pg[r]))
                 => HeldIsCurrent(t, redis, pg, snapshots)
    BY <1>2, <1>3, <2>1 DEF GoesOn, HeldIsCurrent, HoldsLive, FoundNone, HasRead,
       HasWritten, Saving
  <2>3. SequentialInv'
    BY <1>0, <1>3, <2>1, <2>2, AwaitSequential
  <2> QED BY <2>1, <2>3 DEF SequentialKept, Follows
<1>7. CASE SnapshotInsert(p)
  <2>1. /\ Return(p) /\ UNCHANGED <<redis, pg, dirtyRooms>>
        /\ snapshots' = snapshots \cup
              {ContentOf(IF redis[r] = Nil THEN CanvasOr(pg[r]) ELSE redis[r])}
    BY <1>3, <1>7 DEF SnapshotInsert, Resumes
  <2>2. Follows
    BY <2>1, TakeSnapshotStep
  <2>3. SequentialInv'
    BY <1>0, <1>2, <1>3, <1>4, <2>1, ReturnUnchanged
  <2> QED BY <2>2, <2>3 DEF SequentialKept
<1> QED BY <1>5, <1>6, <1>7 DEF SnapshotStep

LEMMA ExpireSequential ==
    ASSUME TypeOK, OneAtATime, SequentialInv, NEW r \in Rooms, Expire(r)
    PROVE  SequentialKept
PROOF
<1>0. NothingSpare'
  BY SpareStays DEF Expire, SequentialInv, Kinds
<1>1. /\ redis' = [redis EXCEPT ![r] = Nil] /\ redis[r] # Nil
      /\ \A p \in Procs : task[p].room # r /\ r \notin task[p].todo
      /\ UNCHANGED <<pg, snapshots, task, dirtyRooms>> /\ r \notin dirtyRooms
  BY DEF Expire, InFlight
<1>2. ~Unsaved(r)
  BY <1>1 DEF SequentialInv, Tracked, Covers
<1>3. Follows
  BY <1>1, <1>2, EvictStep
<1>4. redis'[r] = Nil /\ \A s : s # r => redis'[s] = redis[s]
  BY <1>1 DEF TypeOK
<1>5. \A p \in Procs : HeldIsCurrent(task'[p], redis', pg', snapshots')
  BY <1>1, <1>4, HeldNow DEF HeldIsCurrent
<1>6. ASSUME NEW s \in Rooms, Unsaved(s)' PROVE Tracked(s)'
  <2>1. Unsaved(s)
    BY <1>1, <1>4, <1>6 DEF Unsaved
  <2> QED BY <1>1, <2>1 DEF SequentialInv, Tracked
<1>7. SequentialInv'
  BY <1>0, <1>5, <1>6 DEF SequentialInv
<1> QED BY <1>3, <1>7 DEF SequentialKept

\* The rest does not happen: nothing fails, and no row changes under a save.
LEMMA NothingElse ==
    ASSUME TypeOK, SequentialInv
    PROVE  ~Crash /\ \A p \in Procs : ~Fault(p) /\ ~SaveStep(p) /\ ~Collide(p)
PROOF
<1>0. ~Crash
  BY DEF Crash, Spend, SequentialInv, NothingSpare
<1> SUFFICES ASSUME NEW p \in Procs PROVE ~Fault(p) /\ ~SaveStep(p) /\ ~Collide(p)
  BY <1>0
<1>1. ~Fault(p)
  BY DEF Fault, Spend, SequentialInv, NothingSpare
<1>2. HeldIsCurrent(task[p], redis, pg, snapshots)
  BY HeldNow
<1>3. ~SaveStep(p)
  BY <1>2 DEF SaveStep, SaveSelect, SaveRead, SaveWrite, Resumes, HeldIsCurrent, Saving
<1>4. ~Collide(p)
  BY <1>2 DEF Collide, Collides, WriteAwaits, HeldIsCurrent, HasRead, Saving
<1> QED BY <1>1, <1>3, <1>4

LEMMA NextSequential ==
    ASSUME TypeOK, OneAtATime, SequentialInv, [Next]_vars
    PROVE  SequentialKept
PROOF
<1>1. ASSUME NEW p \in Procs, Step(p) PROVE SequentialKept
  BY <1>1, OpStepSequential, WarmStepSequential, FlushStepSequential, RestoreStepSequential,
     SnapshotStepSequential, NothingElse DEF Step
<1>2. CASE UNCHANGED vars
  BY <1>2 DEF vars, SequentialInv, NothingSpare, HeldIsCurrent, Unsaved, Tracked, Covers,
     SequentialKept, Follows
<1> QED BY <1>1, <1>2, RequestSequential, FlushTickSequential, ExpireSequential,
           NothingElse DEF Next

LEMMA InitSequential ==
    ASSUME Undisturbed, Init
    PROVE  SequentialInv
PROOF
<1>1. PICK start \in [Rooms -> Starts] :
         /\ redis = [r \in Rooms |-> start[r].live]
         /\ pg = [r \in Rooms |-> start[r].durable]
  BY DEF Init
<1>2. task = [p \in Procs |-> Idle] /\ budget = Budget
  BY Zenon DEF Init
<1>3. \A r \in Rooms : ~Unsaved(r)
  <2> SUFFICES ASSUME NEW r \in Rooms PROVE ~Unsaved(r)
    OBVIOUS
  <2>1. start[r] \in Starts /\ redis[r] = start[r].live /\ pg[r] = start[r].durable
    BY <1>1
  <2> QED BY <2>1 DEF Undisturbed, Unsaved
<1>4. \A p \in Procs : HeldIsCurrent(task[p], redis, pg, snapshots)
  BY <1>2 DEF HeldIsCurrent, Idle, Handler, HoldsLive, FoundNone, HasRead, HasWritten, Saving
<1>5. NothingSpare
  BY <1>2 DEF NothingSpare, Undisturbed
<1> QED BY <1>3, <1>4, <1>5 DEF SequentialInv

LEMMA SequentialInvHolds == Undisturbed => (Spec /\ []OneAtATime => []SequentialInv)
PROOF
<1> SUFFICES ASSUME Undisturbed PROVE Spec /\ []OneAtATime => []SequentialInv
  OBVIOUS
<1>1. TypeOK /\ OneAtATime /\ SequentialInv /\ [Next]_vars => SequentialInv'
  BY NextSequential DEF SequentialKept
<1>2. Init => SequentialInv
  BY InitSequential
<1> QED BY <1>1, <1>2, TypeCorrect, PTL DEF Spec

\* With one slot for handlers, as in the run, no two are ever in one room.
LEMMA OneSlot == (\A p, q \in Procs : p = q) => OneAtATime
BY DEF OneAtATime

\* One request after another in a room, a room with unsaved changes is marked for the
\* next flush or a handler is still at work on it (canvas-sync.service.ts:18).
THEOREM UnsavedIsTrackedInSequence == Undisturbed => (Spec /\ []OneAtATime => []UnsavedIsTracked)
PROOF
<1>1. SequentialInv => UnsavedIsTracked
  BY DEF SequentialInv, UnsavedIsTracked, Tracked, Covers, InFlight
<1> QED BY <1>1, SequentialInvHolds, PTL

\* One request after another in a room, every step of the server is a step of the
\* abstract canvas or goes unnoticed: no live canvas goes away before its
\* content is durable, no row is written that is not the live canvas
\* (README.md:49 "Two-layer storage").
THEOREM PromiseKeptInSequence == Undisturbed => (Spec /\ []OneAtATime => KeepsPromise)
PROOF
<1> SUFFICES ASSUME Undisturbed PROVE Spec /\ []OneAtATime => KeepsPromise
  OBVIOUS
<1>1. TypeOK /\ OneAtATime /\ SequentialInv /\ [Next]_vars => [Promise!Next]_(Promise!vars)
  BY NextSequential DEF SequentialKept, Follows, Promise!vars
<1> QED BY <1>1, SequentialInvHolds, TypeCorrect, PTL DEF Spec, KeepsPromise, Promise!Spec
=============================================================================
