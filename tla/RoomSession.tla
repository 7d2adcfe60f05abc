---------------------------- MODULE RoomSession -----------------------------
(***************************************************************************)
(* A room's session: the tabs of its users with their sockets              *)
(* (socketService.ts, useCollaboration.ts), the gateway's handlers for     *)
(* connections, joins and leaves with the presence hash in Redis, the      *)
(* debounced warnings, and the lists of comments and snapshots that are    *)
(* fetched over HTTP and kept up to date by broadcasts.                    *)
(*                                                                         *)
(* A canvas is the set of the edits it holds, and the warnings are the     *)
(* canvas that was analyzed.  An operation takes effect in one step here:  *)
(* CanvasSync has the interleavings of its commands.                       *)
(***************************************************************************)
EXTENDS Naturals, Sequences, FiniteSets

CONSTANTS
    Users, Tabs,
    UserOf,             \* whose tab it is
    MaxConnections,     \* connections of a tab
    Workloads           \* which tabs there are in a behaviour, which of them are in
                        \* the room at its start, and how often each thing may happen

Lists == {"comments", "snapshots"}
Events == {"opens", "leaves", "drops", "edits", "cursors", "posts", "removals", "panels",
           "expiries", "tokens", "deletions"}

ASSUME TabsAssumption == UserOf \in [Tabs -> Users]
ASSUME MaxConnectionsAssumption == MaxConnections \in Nat \ {0}
ASSUME WorkloadsAssumption ==
    \A w \in Workloads :
        /\ w = [what \in Events \cup {"tabs", "present"} |-> w[what]]
        /\ w.present \subseteq w.tabs /\ w.tabs \subseteq Tabs
        /\ \A what \in Events : w[what] \in Nat

VARIABLES
    tab,                            \* the tabs: their page and the stores behind it
    up, down,                       \* messages on each socket
    alive, inRoom, meta,            \* the server's sockets, those in the room, socketMeta
    joins, leaves,                  \* handleJoinRoom and handleDisconnect in flight
    room, live, active, timer,      \* the room's row, Redis, and the debounce timer
    lists, announce, fetches,       \* the rows, the broadcasts and the replies to come
    budget, past                    \* what may still happen, and what went on at once

page == <<tab, up, down>>
sockets == <<alive, inRoom, meta, joins, leaves>>
redis == <<room, live, active, timer>>
panels == <<lists, announce, fetches>>
vars == <<page, sockets, redis, panels, budget, past>>

-----------------------------------------------------------------------------

Sids == Tabs \X (1..MaxConnections)
Sid(t) == <<t, tab[t].link>>
UserAt(s) == UserOf[s[1]]
Linked(s) == tab[s[1]].page = "room" /\ tab[s[1]].link = s[2]

None == [at |-> "none"]
Spend(what) == budget[what] > 0 /\ budget' = [budget EXCEPT ![what] = @ - 1]
Note(what, happened) == past' = IF happened THEN past \cup {what} ELSE past

JoinMsg == [kind |-> "joinRoom"]
Op(e) == [kind |-> "operation", edit |-> e]
Cursor(u) == [kind |-> "cursor", user |-> u]
RoomState(c, users) == [kind |-> "roomState", canvas |-> c, users |-> users]
WarningUpdate(c) == [kind |-> "warningUpdate", canvas |-> c]
Presence(kind, u) == [kind |-> kind, user |-> u]
ItemMsg(list, item, gone, by) ==
    [kind |-> "item", list |-> list, item |-> item, gone |-> gone, by |-> by]
Notice(kind) == [kind |-> kind]

\* What a page starts from, and what leaving it clears.
Blank == [page |-> "away", link |-> 0, connections |-> 0, once |-> FALSE, valid |-> TRUE,
          pending |-> <<>>, joined |-> FALSE, awaiting |-> FALSE, canvas |-> {}, users |-> {},
          cursors |-> {}, warnings |-> {}, shown |-> [l \in Lists |-> {}], panel |-> FALSE,
          made |-> {}]

Left(t) == [Blank EXCEPT !.connections = tab[t].connections, !.valid = tab[t].valid,
                         !.made = tab[t].made]

\* emit: over the socket, or into pendingEmits until there is one.
Emit(t, new, m) ==
    IF tab[t].link # 0
    THEN tab' = [tab EXCEPT ![t] = new] /\ up' = [up EXCEPT ![Sid(t)] = Append(@, m)]
    ELSE tab' = [tab EXCEPT ![t] = [new EXCEPT !.pending = Append(@, m)]] /\ UNCHANGED up

\* What happens to messages that will not arrive.
Loses(messages) ==
    IF \E i \in DOMAIN messages : messages[i].kind = "operation" THEN {"lost edit"} ELSE {}

CutOff(t) == tab[t].link = 0 \/ Sid(t) \notin inRoom

\* The server sends; what it sends to a socket that lost its client is lost.
Send(S, m) == down' = [s \in Sids |-> IF s \in S /\ Linked(s) THEN Append(down[s], m) ELSE down[s]]

-----------------------------------------------------------------------------
(* Connections.                                                            *)

\* The page is mounted: connect, and joinRoom is buffered until it is up.
Open(t) ==
    /\ tab[t].page = "away" /\ tab[t].valid /\ t \in budget.tabs
    /\ Spend("opens")
    /\ tab' = [tab EXCEPT ![t].page = "room", ![t].pending = <<JoinMsg>>, ![t].awaiting = TRUE]
    /\ UNCHANGED <<up, down, sockets, redis, panels, past>>

\* What the client emits as soon as it is connected: when it was before, joinRoom
\* goes first, then what was buffered.
JoinOnly(t) == IF tab[t].once THEN <<JoinMsg>> ELSE tab[t].pending
OnConnect(t) == (IF tab[t].once THEN <<JoinMsg>> ELSE <<>>) \o tab[t].pending

\* handleConnection turns a token that is no longer valid away.
Connect(t) ==
    /\ tab[t].page = "room" /\ tab[t].link = 0 /\ tab[t].connections < MaxConnections
    /\ LET n == tab[t].connections + 1
       IN  /\ tab' = [tab EXCEPT ![t].link = n, ![t].connections = n, ![t].once = TRUE,
                                 ![t].pending = <<>>]
           /\ IF tab[t].valid
              THEN /\ alive' = alive \cup {<<t, n>>}
                   /\ up' = [up EXCEPT ![<<t, n>>] = OnConnect(t)]
                   /\ UNCHANGED down
              ELSE /\ down' = [down EXCEPT ![<<t, n>>] = <<Notice("unauthorized")>>]
                   /\ UNCHANGED <<alive, up>>
    /\ past' = past \cup (IF tab[t].valid THEN {} ELSE Loses(tab[t].pending))
    /\ UNCHANGED <<inRoom, meta, joins, leaves, redis, panels, budget>>

OnWire(t, kind) == \E i \in DOMAIN down[Sid(t)] : down[Sid(t)][i].kind = kind

\* The connection is lost with what was on it.  The client notices at once.
Drop(t) ==
    /\ tab[t].link # 0
    /\ Spend("drops")
    /\ past' = past \cup Loses(up[Sid(t)])
                    \cup (IF tab[t].panel /\ OnWire(t, "item") THEN {"missed"} ELSE {})
                    \cup (IF OnWire(t, "userLeft") THEN {"unseen leave"} ELSE {})
    /\ up' = [up EXCEPT ![Sid(t)] = <<>>]
    /\ down' = [down EXCEPT ![Sid(t)] = <<>>]
    /\ tab' = [tab EXCEPT ![t].link = 0, ![t].awaiting = TRUE]
    /\ UNCHANGED <<sockets, redis, panels>>

ExpireToken(t) ==
    /\ tab[t].page = "room" /\ tab[t].valid
    /\ Spend("tokens")
    /\ tab' = [tab EXCEPT ![t].valid = FALSE]
    /\ UNCHANGED <<up, down, sockets, redis, panels, past>>

\* A panel that is closed cancels its fetch, and the reply to a deletion finds it gone.
ForgetPanel(t) == fetches' = [fetches EXCEPT ![t] = {f \in @ : f.list # "snapshots"}]

\* The page is unmounted, and its panel with it; what was sent before still arrives.
Unmount(t) ==
    /\ tab' = [tab EXCEPT ![t] = Left(t)]
    /\ down' = [s \in Sids |-> IF s[1] = t THEN <<>> ELSE down[s]]
    /\ ForgetPanel(t)
    /\ UNCHANGED <<up, lists, announce>>

Leave(t) ==
    /\ tab[t].page = "room"
    /\ Spend("leaves")
    /\ Unmount(t)
    /\ past' = past \cup Loses(tab[t].pending)
    /\ UNCHANGED <<sockets, redis>>

-----------------------------------------------------------------------------
(* The gateway: joins.                                                     *)

Take(s, kind) ==
    /\ s \in alive
    /\ up[s] # <<>> /\ Head(up[s]).kind = kind
    /\ up' = [up EXCEPT ![s] = Tail(@)]

HandleJoinRoom(s) ==
    /\ Take(s, "joinRoom")
    /\ joins' = [joins EXCEPT ![s] = [at |-> "access", read |-> {}]]
    /\ UNCHANGED <<tab, down, alive, inRoom, meta, leaves, redis, panels, budget, past>>

JoinGoes(s, at) == joins' = [joins EXCEPT ![s].at = at]

\* socket.join: a socket that is gone meanwhile enters no room.
EnteredAnyway(s) == inRoom \cup {s}
Entered(s) == inRoom \cup ({s} \cap alive)

\* The access check, then socket.join and socketMeta.
JoinAccess(s) ==
    /\ joins[s].at = "access"
    /\ IF room \in {"open", "closing"}
       THEN /\ JoinGoes(s, "warm")
            /\ inRoom' = Entered(s)
            /\ meta' = meta \cup {s}
            /\ past' = past
                 \cup (IF room = "closing" THEN {"late entry"} ELSE {})
                 \cup (IF \E x \in Sids : leaves[x] # None /\ UserAt(x) = UserAt(s)
                       THEN {"crossed"} ELSE {})
       ELSE JoinGoes(s, "exists") /\ UNCHANGED <<inRoom, meta, past>>
    /\ UNCHANGED <<page, alive, leaves, redis, panels, budget>>

AlwaysDenied == "denied"
Refusal == IF room = "gone" THEN "roomNotFound" ELSE "denied"

\* A room that is half deleted still exists.
JoinExists(s) ==
    /\ joins[s].at = "exists"
    /\ Send({s}, Notice(Refusal))
    /\ joins' = [joins EXCEPT ![s] = None]
    /\ Note("denied", room # "gone")
    /\ UNCHANGED <<tab, up, alive, inRoom, meta, leaves, redis, panels, budget>>

JoinWarm(s) ==
    /\ joins[s].at = "warm"
    /\ joins' = [joins EXCEPT ![s] = [at |-> "add", read |-> live]]
    /\ UNCHANGED <<page, alive, inRoom, meta, leaves, redis, panels, budget, past>>

JoinAdd(s) ==
    /\ joins[s].at = "add"
    /\ active' = active \cup {UserAt(s)}
    /\ JoinGoes(s, "get")
    /\ UNCHANGED <<page, alive, inRoom, meta, leaves, room, live, timer, panels, budget, past>>

\* The canvas that was read, the users and the warnings to the joiner, the
\* joiner's name to the others.
JoinReplyAlone(s, users) ==
    Send({s}, RoomState(joins[s].read, users))

JoinReply(s, users) ==
    down' = [x \in Sids |->
        IF ~Linked(x) THEN down[x]
        ELSE IF x = s THEN down[x] \o <<RoomState(joins[s].read, users), WarningUpdate(joins[s].read)>>
        ELSE IF x \in inRoom THEN Append(down[x], Presence("userJoined", UserAt(s)))
        ELSE down[x]]

JoinGet(s) ==
    /\ joins[s].at = "get"
    /\ JoinReply(s, active)
    /\ joins' = [joins EXCEPT ![s] = None]
    /\ UNCHANGED <<tab, up, alive, inRoom, meta, leaves, redis, panels, budget, past>>

-----------------------------------------------------------------------------
(* The gateway: leaves, operations, cursors, warnings, the room's deletion. *)

\* The server finds a socket gone, which leaves the room at once; without
\* metadata there is nothing to clean up.
HandleDisconnect(s) ==
    /\ s \in alive /\ ~Linked(s) /\ up[s] = <<>>
    /\ alive' = alive \ {s}
    /\ inRoom' = inRoom \ {s}
    /\ leaves' = IF s \in meta THEN [leaves EXCEPT ![s] = [at |-> "remove"]] ELSE leaves
    /\ Note("crossed", \/ joins[s] # None
                       \/ \E x \in Sids : x # s /\ UserAt(x) = UserAt(s) /\ {x, s} \subseteq meta)
    /\ UNCHANGED <<page, meta, joins, redis, panels, budget>>

LeaveRemove(s) ==
    /\ leaves[s].at = "remove"
    /\ active' = active \ {UserAt(s)}
    /\ meta' = meta \ {s}
    /\ leaves' = [leaves EXCEPT ![s].at = "notify"]
    /\ UNCHANGED <<page, alive, inRoom, joins, room, live, timer, panels, budget, past>>

\* After the count of those who remain, and the flush if there are none.
LeaveNotify(s) ==
    /\ leaves[s].at = "notify"
    /\ Send(inRoom, Presence("userLeft", UserAt(s)))
    /\ leaves' = [leaves EXCEPT ![s] = None]
    /\ Note("unseen leave", \E t \in Tabs : /\ UserAt(s) \in tab[t].cursors
                                           /\ CutOff(t))
    /\ UNCHANGED <<tab, up, alive, inRoom, meta, joins, redis, panels, budget>>

WhenPending == timer
Scheduled == TRUE

\* An operation needs the live canvas; it reaches the others and starts the
\* debounce again.
HandleOperation(s) ==
    /\ Take(s, "operation")
    /\ IF room = "gone" THEN UNCHANGED <<down, live, timer, past>>
       ELSE /\ live' = live \cup {Head(up[s]).edit}
            /\ Send(inRoom \ {s}, Op(Head(up[s]).edit))
            /\ timer' = Scheduled
            /\ Note("edited meanwhile", \E x \in Sids : joins[x].at \in {"add", "get"})
    /\ UNCHANGED <<tab, sockets, room, active, panels, budget>>

\* At most one cursor position in 16 ms goes on.
HandleCursor(s) ==
    /\ Take(s, "cursor")
    /\ IF s \in meta THEN Send(inRoom \ {s}, Cursor(UserAt(s))) \/ UNCHANGED down
       ELSE UNCHANGED down
    /\ UNCHANGED <<tab, sockets, redis, panels, budget, past>>

RunAnalysis ==
    /\ timer
    /\ timer' = FALSE
    /\ IF room = "gone" THEN UNCHANGED down ELSE Send(inRoom, WarningUpdate(live))
    /\ Note("overtaken", \E s \in Sids : joins[s].at \in {"add", "get"} /\ joins[s].read # live)
    /\ UNCHANGED <<tab, up, sockets, room, live, active, panels, budget>>

\* The presence hash expires an hour after the last join.
ExpireUsers ==
    /\ Spend("expiries")
    /\ active' = {}
    /\ past' = past \cup {"expired"}
    /\ UNCHANGED <<page, sockets, room, live, timer, panels>>

\* The broadcast, the members' rows, then the room's row and its keys.
BroadcastRoomDeleted ==
    /\ room = "open"
    /\ Spend("deletions")
    /\ room' = "closing"
    /\ Send(inRoom, Notice("roomDeleted"))
    /\ UNCHANGED <<tab, up, sockets, live, active, timer, panels, past>>

DeleteMembers ==
    /\ room = "closing"
    /\ room' = "half gone"
    /\ lists' = [l \in Lists |-> {}]
    /\ UNCHANGED <<page, sockets, live, active, timer, announce, fetches, budget, past>>

DeleteRow ==
    /\ room = "half gone"
    /\ room' = "gone" /\ live' = {} /\ active' = {}
    /\ UNCHANGED <<page, sockets, timer, panels, budget, past>>

-----------------------------------------------------------------------------
(* The client's handlers (useCollaboration.ts).                             *)

Receive(t, kind) ==
    /\ tab[t].link # 0
    /\ down[Sid(t)] # <<>> /\ Head(down[Sid(t)]).kind = kind
    /\ down' = [down EXCEPT ![Sid(t)] = Tail(@)]

Received(t) == Head(down[Sid(t)])
Unmoved == <<sockets, redis, budget>>

\* The comments are fetched anew; two fetches may be answered in any order.
Fetch(t, list) ==
    [list |-> list, connection |-> tab[t].connections, read |-> FALSE, items |-> {}, gone |-> {}]

\* The reply to a deletion.
Deleted(m) ==
    [list |-> m.list, connection |-> 0, read |-> TRUE, items |-> {}, gone |-> {m.item}]

Fetching(t, list) == \E f \in fetches[t] : f.list = list

OnRoomState(t) ==
    /\ Receive(t, "roomState")
    /\ tab' = [tab EXCEPT ![t].canvas = Received(t).canvas, ![t].users = Received(t).users,
                          ![t].joined = TRUE, ![t].awaiting = FALSE]
    /\ fetches' = [fetches EXCEPT ![t] = @ \cup {Fetch(t, "comments")}]
    /\ Note("two fetches", Fetching(t, "comments"))
    /\ UNCHANGED <<up, lists, announce, Unmoved>>

OnOperationBroadcast(t) ==
    /\ Receive(t, "operation")
    /\ tab' = [tab EXCEPT ![t].canvas = @ \cup {Received(t).edit}]
    /\ UNCHANGED <<up, panels, past, Unmoved>>

OnWarningUpdate(t) ==
    /\ Receive(t, "warningUpdate")
    /\ tab' = [tab EXCEPT ![t].warnings = Received(t).canvas]
    /\ UNCHANGED <<up, panels, past, Unmoved>>

OnUserJoined(t) ==
    /\ Receive(t, "userJoined")
    /\ tab' = [tab EXCEPT ![t].users = @ \cup {Received(t).user}]
    /\ UNCHANGED <<up, panels, past, Unmoved>>

OnUserLeftOnly(t) ==
    /\ Receive(t, "userLeft")
    /\ tab' = [tab EXCEPT ![t].users = @ \ {Received(t).user}]
    /\ UNCHANGED <<up, panels, past, Unmoved>>

OnUserLeft(t) ==
    /\ Receive(t, "userLeft")
    /\ tab' = [tab EXCEPT ![t].users = @ \ {Received(t).user},
                          ![t].cursors = @ \ {Received(t).user}]
    /\ UNCHANGED <<up, panels, past, Unmoved>>

OnCursorBroadcast(t) ==
    /\ Receive(t, "cursor")
    /\ tab' = [tab EXCEPT ![t].cursors = @ \cup {Received(t).user}]
    /\ UNCHANGED <<up, panels, past, Unmoved>>

\* The room is gone, or the token: the page is left.
OnLeaveOrder(t) ==
    /\ \E kind \in {"roomDeleted", "roomNotFound", "unauthorized"} :
          tab[t].link # 0 /\ down[Sid(t)] # <<>> /\ Head(down[Sid(t)]).kind = kind
    /\ Unmount(t)
    /\ UNCHANGED <<past, Unmoved>>

\* An access error is not shown: the page goes on waiting.
OnDenied(t) ==
    /\ Receive(t, "denied")
    /\ UNCHANGED <<tab, up, panels, past, Unmoved>>

\* The lists take a new item once, and drop a deleted one; the snapshots only
\* while their panel is open.
Listens(t, list) == list = "comments" \/ tab[t].panel
Updated(items, m) == IF m.gone THEN items \ {m.item} ELSE items \cup {m.item}

\* A reply that was read before the change and arrives after its broadcast.
Overtakes(t, m) ==
    \E f \in fetches[t] : f.list = m.list /\ f.read /\ f.gone = {} /\ (m.item \in f.items <=> m.gone)

OnItem(t) ==
    /\ Receive(t, "item")
    /\ LET m == Received(t)
       IN  IF Listens(t, m.list)
           THEN /\ tab' = [tab EXCEPT ![t].shown[m.list] = Updated(@, m)]
                /\ Note("overtaken reply", Overtakes(t, m))
           ELSE UNCHANGED <<tab, past>>
    /\ UNCHANGED <<up, panels, Unmoved>>

-----------------------------------------------------------------------------
(* What users do on the page.                                               *)

\* The page shows the canvas once it has joined, and goes on doing so offline.
EditCanvas(t) ==
    /\ tab[t].page = "room" /\ tab[t].joined
    /\ Spend("edits")
    /\ Emit(t, [tab[t] EXCEPT !.canvas = @ \cup {budget.edits}, !.made = @ \cup {budget.edits}],
            Op(budget.edits))
    /\ Note("edited while joining", tab[t].awaiting)
    /\ UNCHANGED <<down, sockets, redis, panels>>

MoveCursor(t) ==
    /\ tab[t].page = "room" /\ tab[t].joined
    /\ Spend("cursors")
    /\ Emit(t, tab[t], [kind |-> "cursor"])
    /\ UNCHANGED <<down, sockets, redis, panels, past>>

OpenPanel(t) ==
    /\ tab[t].joined /\ ~tab[t].panel
    /\ Spend("panels")
    /\ tab' = [tab EXCEPT ![t].panel = TRUE]
    /\ fetches' = [fetches EXCEPT ![t] = @ \cup {Fetch(t, "snapshots")}]
    /\ UNCHANGED <<up, down, sockets, redis, lists, announce, past>>

\* A panel that is closed forgets its list.
ClosePanel(t) ==
    /\ tab[t].panel
    /\ tab' = [tab EXCEPT ![t].panel = FALSE, ![t].shown["snapshots"] = {}]
    /\ ForgetPanel(t)
    /\ UNCHANGED <<up, down, lists, announce, past, Unmoved>>

PostItem(t, list) ==
    /\ tab[t].joined /\ Listens(t, list) /\ room \in {"open", "closing"}
    /\ Spend("posts")
    /\ LET item == <<budget.posts, UserOf[t]>>
       IN  /\ lists' = [lists EXCEPT ![list] = @ \cup {item}]
           /\ announce' = announce \cup {ItemMsg(list, item, FALSE, t)}
    /\ UNCHANGED <<page, sockets, redis, fetches, past>>

\* Comments are deleted by their authors, snapshots by any member; nobody is as
\* quick as to delete what has not been announced yet.
RemoveItem(t, list) ==
    /\ Listens(t, list)
    /\ Spend("removals")
    /\ \E item \in tab[t].shown[list] \cap lists[list] :
          /\ list = "comments" => item[2] = UserOf[t]
          /\ \A m \in announce : m.item # item
          /\ lists' = [lists EXCEPT ![list] = @ \ {item}]
          /\ announce' = announce \cup {ItemMsg(list, item, TRUE, t)}
    /\ UNCHANGED <<page, sockets, redis, fetches, past>>

CommentsOnly(list) == {s \in inRoom : list = "comments"}
Audience(list) == inRoom

\* The broadcast that follows the query, and the reply to a panel that deleted; a
\* panel whose tab is cut off misses the broadcast.
Announce(m) ==
    /\ m \in announce
    /\ announce' = announce \ {m}
    /\ Send(Audience(m.list), m)
    /\ fetches' = IF m.gone /\ m.list = "snapshots" /\ tab[m.by].panel
                  THEN [fetches EXCEPT ![m.by] = @ \cup {Deleted(m)}] ELSE fetches
    /\ Note("missed", \E t \in Tabs : tab[t].panel /\ CutOff(t))
    /\ UNCHANGED <<tab, up, lists, Unmoved>>

\* A fetch is answered with the rows there are, or refused.
ReadRows(t, f) ==
    /\ f \in fetches[t] /\ ~f.read
    /\ fetches' = [fetches EXCEPT ![t] = (@ \ {f}) \cup
                      (IF room \in {"half gone", "gone"} THEN {}
                       ELSE {[f EXCEPT !.read = TRUE, !.items = lists[f.list]]})]
    /\ UNCHANGED <<page, lists, announce, past, Unmoved>>

OnRows(t, f) ==
    /\ f \in fetches[t] /\ f.read
    /\ fetches' = [fetches EXCEPT ![t] = @ \ {f}]
    /\ tab' = [tab EXCEPT ![t].shown[f.list] = IF f.gone # {} THEN @ \ f.gone ELSE f.items]
    /\ UNCHANGED <<up, down, lists, announce, past, Unmoved>>

-----------------------------------------------------------------------------

\* Some tabs are in the room, the others are elsewhere.
Init ==
    /\ budget \in Workloads /\ past = {}
    /\ alive = budget.present \X {1} /\ inRoom = alive /\ meta = alive
    /\ room = "open" /\ live = {} /\ active = {UserAt(s) : s \in alive} /\ timer = FALSE
    /\ tab = [t \in Tabs |-> IF t \notin budget.present THEN Blank
                             ELSE [Blank EXCEPT !.page = "room", !.link = 1, !.connections = 1,
                                       !.once = TRUE, !.joined = TRUE, !.users = active]]
    /\ up = [s \in Sids |-> <<>>] /\ down = [s \in Sids |-> <<>>]
    /\ joins = [s \in Sids |-> None] /\ leaves = [s \in Sids |-> None]
    /\ lists = [l \in Lists |-> {}] /\ announce = {} /\ fetches = [t \in Tabs |-> {}]

ClientNext(t) ==
    \/ Open(t) \/ Connect(t) \/ Drop(t) \/ ExpireToken(t) \/ Leave(t)
    \/ OnRoomState(t) \/ OnOperationBroadcast(t) \/ OnWarningUpdate(t) \/ OnUserJoined(t)
    \/ OnUserLeft(t) \/ OnCursorBroadcast(t) \/ OnLeaveOrder(t) \/ OnDenied(t) \/ OnItem(t)
    \/ EditCanvas(t) \/ MoveCursor(t) \/ OpenPanel(t) \/ ClosePanel(t)
    \/ \E l \in Lists : PostItem(t, l) \/ RemoveItem(t, l)
    \/ \E f \in fetches[t] : OnRows(t, f)

GatewayNext(s) ==
    \/ HandleJoinRoom(s) \/ JoinAccess(s) \/ JoinExists(s)
    \/ JoinWarm(s) \/ JoinAdd(s) \/ JoinGet(s)
    \/ HandleDisconnect(s) \/ LeaveRemove(s) \/ LeaveNotify(s)
    \/ HandleOperation(s) \/ HandleCursor(s)

ServerNext ==
    \/ RunAnalysis \/ ExpireUsers \/ BroadcastRoomDeleted \/ DeleteMembers \/ DeleteRow
    \/ \E m \in announce : Announce(m)
    \/ \E t \in Tabs : \E f \in fetches[t] : ReadRows(t, f)

Next ==
    \/ \E t \in Tabs : ClientNext(t)
    \/ \E s \in Sids : GatewayNext(s)
    \/ ServerNext

Spec == Init /\ [][Next]_vars

-----------------------------------------------------------------------------
(* Properties.                                                             *)

Kinds == {"joinRoom", "operation", "cursor", "roomState", "warningUpdate", "userJoined",
          "userLeft", "item", "unauthorized", "roomDeleted", "roomNotFound", "denied"}

\* The sockets have their types, a socket in the room has metadata until its
\* leave removes them, and a tab listens on one connection.
TypeOK ==
    /\ \A s \in Sids : \A m \in {up[s][i] : i \in DOMAIN up[s]} \cup
                                {down[s][i] : i \in DOMAIN down[s]} : m.kind \in Kinds
    /\ inRoom \subseteq alive \cap meta
    /\ \A s \in Sids : down[s] # <<>> => Linked(s)
    /\ live \cup UNION {tab[t].canvas : t \in Tabs} \subseteq Nat
    /\ active \subseteq Users

\* Nothing is on its way, and every page is connected.
Quiet ==
    /\ \A s \in Sids : /\ up[s] = <<>> /\ down[s] = <<>>
                       /\ joins[s] = None /\ leaves[s] = None
                       /\ s \in alive => Linked(s)
    /\ ~timer /\ announce = {} /\ room \in {"open", "gone"}
    /\ \A t \in Tabs : fetches[t] = {} /\ (tab[t].page = "room" => tab[t].link # 0)

InSession == {t \in Tabs : tab[t].page = "room" /\ tab[t].joined}
Without(happened) == Quiet /\ room = "open" /\ past \cap happened = {}

\* Once nothing is on its way, every tab lists exactly the users who are in the
\* room, through joins, leaves and reconnects in any order.  It can fail only
\* when the disconnect of a user's socket meets another socket of theirs or its
\* own join (canvas.gateway.ts:107), or when the presence hash expires.
EveryoneListsEveryone ==
    Without({"crossed", "expired"}) =>
        \A t \in InSession : tab[t].users = {UserOf[x] : x \in InSession} /\ active = tab[t].users

\* No cursor outlives its user's stay, unless the tab that shows it was cut off
\* when they left: a reconnect refreshes the users and not the cursors.
CursorsBelongToUsers ==
    Without({"crossed", "expired", "unseen leave"}) =>
        \A t \in InSession : tab[t].cursors \subseteq tab[t].users

\* "Running the warning engine on the server ensures all users see identical
\* warnings" (README.md:162): those of the live canvas, unless an analysis
\* overtook a join that had already read the canvas.
WarningsAreCurrent ==
    Without({"overtaken"}) => \A t \in InSession : tab[t].warnings = live

\* Edits made offline survive the reconnect: every edit reaches the live canvas
\* unless it was on the wire when the connection was lost or its page was left
\* before it was sent, and every page shows the live canvas again, unless an edit
\* was made before the room's state arrived or between its reading and sending.
EditsSurviveReconnect ==
    /\ Without({"lost edit"}) => UNION {tab[t].made : t \in Tabs} \subseteq live
    /\ Without({"edited while joining", "edited meanwhile"}) =>
          \A t \in InSession : tab[t].canvas = live

\* Comments and snapshots sync in real time (README.md:22-23): every page shows
\* the rows there are, unless a broadcast overtook a fetch, two fetches of the
\* comments overlapped, or a tab was cut off with its panel of snapshots open:
\* the panel does not fetch again (SnapshotsPanel.tsx:28).
ListsAreCurrent ==
    \A t \in InSession :
        /\ Without({"overtaken reply", "two fetches"}) =>
              tab[t].shown["comments"] = lists["comments"]
        /\ Without({"overtaken reply", "missed"}) /\ tab[t].panel =>
              tab[t].shown["snapshots"] = lists["snapshots"]

\* Nobody stays in a room that was deleted (canvas.gateway.ts:142): whoever was
\* in it is told, and whoever comes back to it is turned away, unless they came
\* between the broadcast and the end of the deletion.
NobodyIsStranded ==
    Quiet /\ room = "gone" /\ past \cap {"late entry", "denied"} = {} =>
        \A t \in Tabs : tab[t].page # "room"
=============================================================================
