--------------------------- MODULE SessionProofs ---------------------------
(***************************************************************************)
(* Theorems about RoomSession, for any number of users, tabs, connections  *)
(* and whatever happens in the room, as often as it may.                   *)
(***************************************************************************)
EXTENDS RoomSession, SequenceTheorems, WellFoundedInduction, TLAPS

-----------------------------------------------------------------------------
(* What the variables hold.                                                *)

Item == Nat \X Users
ClientMsg == [kind : {"joinRoom", "cursor"}] \cup [kind : {"operation"}, edit : Nat]
ItemMsgs == [kind : {"item"}, list : Lists, item : Item, gone : BOOLEAN, by : Tabs]
Orders == {"unauthorized", "roomDeleted", "roomNotFound"}
ServerMsg ==
    [kind : {"operation"}, edit : Nat]
    \cup [kind : {"cursor", "userJoined", "userLeft"}, user : Users]
    \cup [kind : {"roomState"}, canvas : SUBSET Nat, users : SUBSET Users]
    \cup [kind : {"warningUpdate"}, canvas : SUBSET Nat]
    \cup ItemMsgs
    \cup [kind : Orders \cup {"denied"}]

TabType ==
    [page : {"away", "room"}, link : Nat, connections : 0..MaxConnections, once : BOOLEAN,
     valid : BOOLEAN, pending : Seq(ClientMsg), joined : BOOLEAN, awaiting : BOOLEAN,
     canvas : SUBSET Nat, users : SUBSET Users, cursors : SUBSET Users, warnings : SUBSET Nat,
     shown : [Lists -> SUBSET Item], panel : BOOLEAN, made : SUBSET Nat]

JoinType == [at : {"access", "exists", "warm", "add", "get"}, read : SUBSET Nat] \cup {None}
LeaveType == [at : {"remove", "notify"}] \cup {None}
FetchType ==
    [list : Lists, connection : Nat, read : BOOLEAN, items : SUBSET Item, gone : SUBSET Item]

PagesTyped ==
    /\ tab \in [Tabs -> TabType]
    /\ up \in [Sids -> Seq(ClientMsg)]
    /\ down \in [Sids -> Seq(ServerMsg)]
SocketsTyped ==
    /\ alive \subseteq Sids /\ meta \subseteq Sids /\ inRoom \subseteq alive \cap meta
    /\ joins \in [Sids -> JoinType]
    /\ leaves \in [Sids -> LeaveType]
RoomTyped ==
    /\ room \in {"open", "closing", "half gone", "gone"}
    /\ live \in SUBSET Nat /\ active \in SUBSET Users /\ timer \in BOOLEAN
PanelsTyped ==
    /\ lists \in [Lists -> SUBSET Item]
    /\ announce \subseteq ItemMsgs
    /\ fetches \in [Tabs -> SUBSET FetchType]
BudgetTyped ==
    /\ budget = [what \in Events \cup {"tabs", "present"} |-> budget[what]]
    /\ \A what \in Events : budget[what] \in Nat

\* A page that is away has no socket, a socket nothing that waits for it.
PageSound(T) ==
    /\ T.page = "away" => T.link = 0 /\ T.pending = <<>> /\ ~T.joined /\ ~T.panel
    /\ T.link <= T.connections
    /\ T.link # 0 => T.pending = <<>> /\ T.once

\* Something is known of s, or on its way from it.
Seen(s) ==
    s \in alive \cup meta \/ joins[s] # None \/ leaves[s] # None \/ up[s] # <<>>

\* A client that listens was let in, or is about to learn that it was not.
Heard(s) ==
    /\ down[s] # <<>> => Linked(s)
    /\ Linked(s) /\ s \notin alive =>
          down[s] = <<Notice("unauthorized")>> /\ joins[s] = None

\* TypeOK is not inductive.  The sockets a tab had and will have are different
\* ones, and a socket that is gone comes back in no way.
SessionInv ==
    /\ PagesTyped /\ SocketsTyped /\ RoomTyped /\ PanelsTyped /\ BudgetTyped
    /\ \A t \in Tabs : PageSound(tab[t])
    /\ \A s \in Sids : Seen(s) => s[2] <= tab[s[1]].connections
    /\ \A s \in Sids : leaves[s] # None => s \notin alive
    /\ \A s \in Sids : Heard(s)

-----------------------------------------------------------------------------
(* Messages, sockets, and what is sent.                                    *)

LEMMA SidsFacts ==
    ASSUME NEW s \in Sids
    PROVE  /\ s = <<s[1], s[2]>> /\ s[1] \in Tabs
           /\ s[2] \in 1..MaxConnections /\ s[2] \in Nat /\ s[2] # 0
           /\ UserAt(s) \in Users
BY MaxConnectionsAssumption, TabsAssumption DEF Sids, UserAt

LEMMA SidFacts ==
    ASSUME PagesTyped, NEW t \in Tabs, tab[t].link # 0, PageSound(tab[t])
    PROVE  Sid(t) \in Sids /\ Sid(t)[1] = t /\ Sid(t)[2] = tab[t].link /\ Linked(Sid(t))
PROOF
<1>1. tab[t] \in TabType
  BY DEF PagesTyped
<1>2. tab[t].link \in 1..MaxConnections /\ tab[t].page = "room"
  BY <1>1, MaxConnectionsAssumption DEF TabType, PageSound
<1> QED BY <1>2 DEF Sid, Sids, Linked

LEMMA LinkedFacts ==
    ASSUME NEW s \in Sids, Linked(s)
    PROVE  s = Sid(s[1]) /\ tab[s[1]].link = s[2] /\ tab[s[1]].link # 0 /\ tab[s[1]].page = "room"
BY SidsFacts DEF Linked, Sid

LEMMA ServerMsgFields ==
    ASSUME NEW m \in ServerMsg
    PROVE  /\ m.kind \in Kinds
           /\ m.kind = "operation" => m.edit \in Nat
           /\ m.kind \in {"cursor", "userJoined", "userLeft"} => m.user \in Users
           /\ m.kind = "roomState" => m.canvas \in SUBSET Nat /\ m.users \in SUBSET Users
           /\ m.kind = "warningUpdate" => m.canvas \in SUBSET Nat
           /\ m.kind = "item" => m \in ItemMsgs
BY DEF ServerMsg, ItemMsgs, Orders, Kinds

LEMMA ClientMsgFields ==
    ASSUME NEW m \in ClientMsg
    PROVE  m.kind \in Kinds /\ (m.kind = "operation" => m.edit \in Nat)
BY DEF ClientMsg, Kinds

LEMMA ClientMsgs ==
    /\ JoinMsg \in ClientMsg
    /\ \A e \in Nat : Op(e) \in ClientMsg /\ Op(e) \in ServerMsg
    /\ [kind |-> "cursor"] \in ClientMsg
BY DEF ClientMsg, ServerMsg, JoinMsg, Op

LEMMA ServerMsgs ==
    /\ \A u \in Users : /\ Cursor(u) \in ServerMsg
                        /\ Presence("userJoined", u) \in ServerMsg
                        /\ Presence("userLeft", u) \in ServerMsg
    /\ \A c \in SUBSET Nat : WarningUpdate(c) \in ServerMsg
    /\ \A c \in SUBSET Nat, us \in SUBSET Users : RoomState(c, us) \in ServerMsg
    /\ \A kind \in Orders \cup {"denied"} : Notice(kind) \in ServerMsg
    /\ ItemMsgs \subseteq ServerMsg
BY DEF ServerMsg, Cursor, Presence, WarningUpdate, RoomState, Notice, ItemMsgs

LEMMA QueueFacts ==
    ASSUME NEW S, NEW q \in Seq(S)
    PROVE  /\ q # <<>> => Head(q) \in S /\ Tail(q) \in Seq(S)
           /\ \A m \in S : Append(q, m) \in Seq(S) /\ Append(q, m) # <<>>
           /\ \A m, n \in S : q \o <<m, n>> \in Seq(S) /\ q \o <<m, n>> # <<>>
PROOF
<1>1. ASSUME NEW m \in S, NEW n \in S PROVE q \o <<m, n>> \in Seq(S) /\ q \o <<m, n>> # <<>>
  <2>1. <<m, n>> \in Seq(S) /\ Len(<<m, n>>) = 2
    OBVIOUS
  <2>2. q \o <<m, n>> \in Seq(S) /\ Len(q \o <<m, n>>) = Len(q) + 2
    BY <2>1, ConcatProperties
  <2> QED BY <2>2, LenProperties
<1>2. ASSUME NEW m \in S PROVE Append(q, m) \in Seq(S) /\ Append(q, m) # <<>>
  BY AppendProperties
<1>3. q # <<>> => Head(q) \in S /\ Tail(q) \in Seq(S)
  OBVIOUS
<1> QED BY <1>1, <1>2, <1>3


LEMMA SendEffect ==
    ASSUME SessionInv, NEW S, NEW m \in ServerMsg, Send(S, m)
    PROVE  /\ down' \in [Sids -> Seq(ServerMsg)]
           /\ \A s \in Sids : down'[s] = IF s \in S /\ Linked(s) THEN Append(down[s], m) ELSE down[s]
PROOF
<1>1. \A s \in Sids : down'[s] = IF s \in S /\ Linked(s) THEN Append(down[s], m) ELSE down[s]
  BY DEF Send
<1>2. \A s \in Sids : down[s] \in Seq(ServerMsg)
  BY DEF SessionInv, PagesTyped
<1>3. \A s \in Sids : Append(down[s], m) \in Seq(ServerMsg)
  BY <1>2, QueueFacts
<1>4. down' = [s \in Sids |-> down'[s]]
  BY DEF Send
<1> QED BY <1>1, <1>2, <1>3, <1>4
-----------------------------------------------------------------------------
(* Pages.                                                                  *)

\* Only tab t changes, and neither its socket nor what waits for it.
Redrawn(t, T) ==
    /\ T \in TabType /\ tab' = [tab EXCEPT ![t] = T]
    /\ T.page = tab[t].page /\ T.link = tab[t].link /\ T.connections = tab[t].connections
    /\ T.once = tab[t].once /\ T.pending = tab[t].pending
    /\ tab[t].page = "away" => ~T.joined /\ ~T.panel

LEMMA RedrawnEffect ==
    ASSUME SessionInv, NEW t \in Tabs, NEW T, Redrawn(t, T)
    PROVE  /\ tab' \in [Tabs -> TabType] /\ tab'[t] = T
           /\ \A u \in Tabs \ {t} : tab'[u] = tab[u]
           /\ \A u \in Tabs : /\ PageSound(tab'[u]) /\ tab'[u].connections = tab[u].connections
                              /\ tab'[u].page = tab[u].page /\ tab'[u].link = tab[u].link
           /\ \A s \in Sids : Linked(s)' <=> Linked(s)
PROOF
<1>1. tab \in [Tabs -> TabType] /\ \A u \in Tabs : PageSound(tab[u])
  BY DEF SessionInv, PagesTyped
<1>2. tab' \in [Tabs -> TabType] /\ tab'[t] = T /\ \A u \in Tabs \ {t} : tab'[u] = tab[u]
  BY <1>1 DEF Redrawn
<1>3. PageSound(T)
  BY <1>1 DEF PageSound, Redrawn
<1>4. \A u \in Tabs : /\ PageSound(tab'[u]) /\ tab'[u].connections = tab[u].connections
                      /\ tab'[u].page = tab[u].page /\ tab'[u].link = tab[u].link
  BY <1>1, <1>2, <1>3 DEF Redrawn
<1>5. \A s \in Sids : Linked(s)' <=> Linked(s)
  BY <1>4, SidsFacts DEF Linked
<1> QED BY <1>2, <1>4, <1>5

\* A message is taken off a socket whose client listens.
LEMMA ReceiveEffect ==
    ASSUME SessionInv, NEW t \in Tabs, tab[t].link # 0, down[Sid(t)] # <<>>,
           down' = [down EXCEPT ![Sid(t)] = Tail(@)]
    PROVE  /\ down' \in [Sids -> Seq(ServerMsg)]
           /\ Received(t) \in ServerMsg
           /\ Sid(t) \in Sids /\ Linked(Sid(t))
           /\ down'[Sid(t)] = Tail(down[Sid(t)])
           /\ \A s \in Sids \ {Sid(t)} : down'[s] = down[s]
PROOF
<1>1. Sid(t) \in Sids /\ Linked(Sid(t))
  BY SidFacts DEF SessionInv
<1>2. down \in [Sids -> Seq(ServerMsg)]
  BY DEF SessionInv, PagesTyped
<1>3. Tail(down[Sid(t)]) \in Seq(ServerMsg) /\ Head(down[Sid(t)]) \in ServerMsg
  BY <1>1, <1>2, QueueFacts
<1> QED BY <1>1, <1>2, <1>3 DEF Received

\* A listening client that is not alive only ever learns that it is not let in.
LEMMA AliveWhenHearing ==
    ASSUME SessionInv, NEW t \in Tabs, tab[t].link # 0, down[Sid(t)] # <<>>,
           Received(t).kind # "unauthorized"
    PROVE  Sid(t) \in alive
PROOF
<1>1. Sid(t) \in Sids /\ Linked(Sid(t))
  BY SidFacts DEF SessionInv
<1>2. Head(<<Notice("unauthorized")>>).kind = "unauthorized"
  BY DEF Notice
<1> QED BY <1>1, <1>2 DEF SessionInv, Heard, Received

LEMMA FetchTyped ==
    ASSUME SessionInv, NEW t \in Tabs, NEW list \in Lists
    PROVE  Fetch(t, list) \in FetchType
PROOF
<1>1. tab[t].connections \in Nat
  BY MaxConnectionsAssumption DEF SessionInv, PagesTyped, TabType
<1> QED BY <1>1 DEF Fetch, FetchType

\* A page shows what it has received.
LEMMA ShowSession ==
    ASSUME SessionInv, NEW t \in Tabs, NEW T, NEW kind,
           Receive(t, kind), kind # "unauthorized", Redrawn(t, T), UNCHANGED <<up, lists, announce, Unmoved>>,
           fetches' \in [Tabs -> SUBSET FetchType]
    PROVE  SessionInv'
PROOF
<1>1. down' \in [Sids -> Seq(ServerMsg)] /\ \A s \in Sids \ {Sid(t)} : down'[s] = down[s]
  BY ReceiveEffect DEF Receive
<1>2. Sid(t) \in alive /\ Sid(t) \in Sids /\ Linked(Sid(t))
  BY ReceiveEffect, AliveWhenHearing DEF Receive, Received
<1>3. \A s \in Sids : Heard(s)'
  BY <1>1, <1>2, RedrawnEffect DEF SessionInv, Heard, Unmoved, sockets
<1>4. \A s \in Sids : (Seen(s) => s[2] <= tab[s[1]].connections)'
  BY <1>1, RedrawnEffect, SidsFacts DEF SessionInv, Seen, Unmoved, sockets
<1>5. \A s \in Sids : (leaves[s] # None => s \notin alive)'
  BY DEF SessionInv, Unmoved, sockets
<1>6. PagesTyped'
  BY <1>1, RedrawnEffect DEF SessionInv, PagesTyped
<1>7. SocketsTyped' /\ RoomTyped' /\ PanelsTyped' /\ BudgetTyped'
  BY DEF SessionInv, SocketsTyped, RoomTyped, PanelsTyped, BudgetTyped, Unmoved, sockets, redis
<1>8. \A u \in Tabs : PageSound(tab[u])'
  BY RedrawnEffect
<1> QED BY <1>3, <1>4, <1>5, <1>6, <1>7, <1>8 DEF SessionInv

LEMMA OnRoomStateSession ==
    ASSUME SessionInv, NEW t \in Tabs, OnRoomState(t)
    PROVE  SessionInv'
PROOF
<1> DEFINE T == [tab[t] EXCEPT !.canvas = Received(t).canvas, !.users = Received(t).users,
                          !.joined = TRUE, !.awaiting = FALSE]
<1>1. tab[t] \in TabType /\ tab \in [Tabs -> TabType] /\ PageSound(tab[t])
  BY DEF SessionInv, PagesTyped
<1>2. Received(t) \in ServerMsg /\ Received(t).kind = "roomState"
  BY ReceiveEffect DEF OnRoomState, Receive, Received
<1>3. T \in TabType
  BY <1>1, <1>2, ServerMsgFields DEF TabType
<1>4. tab' = [tab EXCEPT ![t] = T]
  BY <1>1 DEF OnRoomState
<1>5. Redrawn(t, T)
  BY <1>1, <1>3, <1>4 DEF Redrawn, TabType, PageSound, OnRoomState, Receive
<1>6. Fetch(t, "comments") \in FetchType
  BY FetchTyped DEF Lists
<1>7. fetches' \in [Tabs -> SUBSET FetchType]
  BY <1>6 DEF SessionInv, PanelsTyped, OnRoomState
<1> QED BY <1>5, <1>7, ShowSession DEF OnRoomState

LEMMA OnOperationBroadcastSession ==
    ASSUME SessionInv, NEW t \in Tabs, OnOperationBroadcast(t)
    PROVE  SessionInv'
PROOF
<1> DEFINE T == [tab[t] EXCEPT !.canvas = @ \cup {Received(t).edit}]
<1>1. tab[t] \in TabType /\ tab \in [Tabs -> TabType] /\ PageSound(tab[t])
  BY DEF SessionInv, PagesTyped
<1>2. Received(t) \in ServerMsg /\ Received(t).kind = "operation"
  BY ReceiveEffect DEF OnOperationBroadcast, Receive, Received
<1>3. T \in TabType
  BY <1>1, <1>2, ServerMsgFields DEF TabType
<1>4. tab' = [tab EXCEPT ![t] = T]
  BY <1>1 DEF OnOperationBroadcast
<1>5. Redrawn(t, T)
  BY <1>1, <1>3, <1>4 DEF Redrawn, TabType, PageSound
<1>6. fetches' \in [Tabs -> SUBSET FetchType]
  BY DEF SessionInv, PanelsTyped, OnOperationBroadcast, panels
<1> QED BY <1>5, <1>6, ShowSession DEF OnOperationBroadcast, panels

LEMMA OnWarningUpdateSession ==
    ASSUME SessionInv, NEW t \in Tabs, OnWarningUpdate(t)
    PROVE  SessionInv'
PROOF
<1> DEFINE T == [tab[t] EXCEPT !.warnings = Received(t).canvas]
<1>1. tab[t] \in TabType /\ tab \in [Tabs -> TabType] /\ PageSound(tab[t])
  BY DEF SessionInv, PagesTyped
<1>2. Received(t) \in ServerMsg /\ Received(t).kind = "warningUpdate"
  BY ReceiveEffect DEF OnWarningUpdate, Receive, Received
<1>3. T \in TabType
  BY <1>1, <1>2, ServerMsgFields DEF TabType
<1>4. tab' = [tab EXCEPT ![t] = T]
  BY <1>1 DEF OnWarningUpdate
<1>5. Redrawn(t, T)
  BY <1>1, <1>3, <1>4 DEF Redrawn, TabType, PageSound
<1>6. fetches' \in [Tabs -> SUBSET FetchType]
  BY DEF SessionInv, PanelsTyped, OnWarningUpdate, panels
<1> QED BY <1>5, <1>6, ShowSession DEF OnWarningUpdate, panels

LEMMA OnUserJoinedSession ==
    ASSUME SessionInv, NEW t \in Tabs, OnUserJoined(t)
    PROVE  SessionInv'
PROOF
<1> DEFINE T == [tab[t] EXCEPT !.users = @ \cup {Received(t).user}]
<1>1. tab[t] \in TabType /\ tab \in [Tabs -> TabType] /\ PageSound(tab[t])
  BY DEF SessionInv, PagesTyped
<1>2. Received(t) \in ServerMsg /\ Received(t).kind = "userJoined"
  BY ReceiveEffect DEF OnUserJoined, Receive, Received
<1>3. T \in TabType
  BY <1>1, <1>2, ServerMsgFields DEF TabType
<1>4. tab' = [tab EXCEPT ![t] = T]
  BY <1>1 DEF OnUserJoined
<1>5. Redrawn(t, T)
  BY <1>1, <1>3, <1>4 DEF Redrawn, TabType, PageSound
<1>6. fetches' \in [Tabs -> SUBSET FetchType]
  BY DEF SessionInv, PanelsTyped, OnUserJoined, panels
<1> QED BY <1>5, <1>6, ShowSession DEF OnUserJoined, panels

LEMMA OnUserLeftSession ==
    ASSUME SessionInv, NEW t \in Tabs, OnUserLeft(t)
    PROVE  SessionInv'
PROOF
<1> DEFINE T == [tab[t] EXCEPT !.users = @ \ {Received(t).user},
                               !.cursors = @ \ {Received(t).user}]
<1>1. tab[t] \in TabType /\ tab \in [Tabs -> TabType] /\ PageSound(tab[t])
  BY DEF SessionInv, PagesTyped
<1>2. Received(t) \in ServerMsg /\ Received(t).kind = "userLeft"
  BY ReceiveEffect DEF OnUserLeft, Receive, Received
<1>3. T \in TabType
  BY <1>1, <1>2, ServerMsgFields DEF TabType
<1>4. tab' = [tab EXCEPT ![t] = T]
  BY <1>1 DEF OnUserLeft
<1>5. Redrawn(t, T)
  BY <1>1, <1>3, <1>4 DEF Redrawn, TabType, PageSound
<1>6. fetches' \in [Tabs -> SUBSET FetchType]
  BY DEF SessionInv, PanelsTyped, OnUserLeft, panels
<1> QED BY <1>5, <1>6, ShowSession DEF OnUserLeft, panels

LEMMA OnCursorBroadcastSession ==
    ASSUME SessionInv, NEW t \in Tabs, OnCursorBroadcast(t)
    PROVE  SessionInv'
PROOF
<1> DEFINE T == [tab[t] EXCEPT !.cursors = @ \cup {Received(t).user}]
<1>1. tab[t] \in TabType /\ tab \in [Tabs -> TabType] /\ PageSound(tab[t])
  BY DEF SessionInv, PagesTyped
<1>2. Received(t) \in ServerMsg /\ Received(t).kind = "cursor"
  BY ReceiveEffect DEF OnCursorBroadcast, Receive, Received
<1>3. T \in TabType
  BY <1>1, <1>2, ServerMsgFields DEF TabType
<1>4. tab' = [tab EXCEPT ![t] = T]
  BY <1>1 DEF OnCursorBroadcast
<1>5. Redrawn(t, T)
  BY <1>1, <1>3, <1>4 DEF Redrawn, TabType, PageSound
<1>6. fetches' \in [Tabs -> SUBSET FetchType]
  BY DEF SessionInv, PanelsTyped, OnCursorBroadcast, panels
<1> QED BY <1>5, <1>6, ShowSession DEF OnCursorBroadcast, panels

LEMMA OnDeniedSession ==
    ASSUME SessionInv, NEW t \in Tabs, OnDenied(t)
    PROVE  SessionInv'
PROOF
<1> DEFINE T == tab[t]
<1>1. tab[t] \in TabType /\ tab \in [Tabs -> TabType] /\ PageSound(tab[t])
  BY DEF SessionInv, PagesTyped
<1>2. Received(t) \in ServerMsg /\ Received(t).kind = "denied"
  BY ReceiveEffect DEF OnDenied, Receive, Received
<1>3. T \in TabType
  BY <1>1, <1>2, ServerMsgFields DEF TabType
<1>4. tab' = [tab EXCEPT ![t] = T]
  BY <1>1 DEF OnDenied
<1>5. Redrawn(t, T)
  BY <1>1, <1>3, <1>4 DEF Redrawn, TabType, PageSound
<1>6. fetches' \in [Tabs -> SUBSET FetchType]
  BY DEF SessionInv, PanelsTyped, OnDenied, panels
<1> QED BY <1>5, <1>6, ShowSession DEF OnDenied, panels

LEMMA OnItemSession ==
    ASSUME SessionInv, NEW t \in Tabs, OnItem(t)
    PROVE  SessionInv'
PROOF
<1> DEFINE m == Received(t)
           T == IF Listens(t, m.list) THEN [tab[t] EXCEPT !.shown[m.list] = Updated(@, m)]
                ELSE tab[t]
<1>1. tab[t] \in TabType /\ tab \in [Tabs -> TabType] /\ PageSound(tab[t])
  BY DEF SessionInv, PagesTyped
<1>2. m \in ItemMsgs /\ m.kind = "item"
  BY ReceiveEffect, ServerMsgFields DEF OnItem, Receive, Received
<1>3. Updated(tab[t].shown[m.list], m) \in SUBSET Item
  BY <1>1, <1>2 DEF Updated, ItemMsgs, TabType
<1>4. T \in TabType
  BY <1>1, <1>2, <1>3 DEF TabType
<1>5. tab' = [tab EXCEPT ![t] = T]
  BY <1>1 DEF OnItem
<1>6. Redrawn(t, T)
  BY <1>1, <1>4, <1>5 DEF Redrawn, TabType, PageSound
<1>7. fetches' \in [Tabs -> SUBSET FetchType]
  BY DEF SessionInv, PanelsTyped, OnItem, panels
<1> QED BY <1>6, <1>7, ShowSession DEF OnItem, panels

\* A page changes by itself.
LEMMA PageSession ==
    ASSUME SessionInv, NEW t \in Tabs, NEW T, Redrawn(t, T),
           UNCHANGED <<up, down, sockets, redis, lists, announce>>,
           fetches' \in [Tabs -> SUBSET FetchType], BudgetTyped'
    PROVE  SessionInv'
PROOF
<1>1. \A s \in Sids : Heard(s)'
  BY RedrawnEffect DEF SessionInv, Heard, sockets
<1>2. \A s \in Sids : (Seen(s) => s[2] <= tab[s[1]].connections)'
  BY RedrawnEffect, SidsFacts DEF SessionInv, Seen, sockets
<1>3. \A s \in Sids : (leaves[s] # None => s \notin alive)'
  BY DEF SessionInv, sockets
<1>4. PagesTyped'
  BY RedrawnEffect DEF SessionInv, PagesTyped
<1>5. SocketsTyped' /\ RoomTyped' /\ PanelsTyped'
  BY DEF SessionInv, SocketsTyped, RoomTyped, PanelsTyped, sockets, redis
<1>6. \A u \in Tabs : PageSound(tab[u])'
  BY RedrawnEffect
<1> QED BY <1>1, <1>2, <1>3, <1>4, <1>5, <1>6 DEF SessionInv

LEMMA SpendTyped ==
    ASSUME BudgetTyped, NEW what \in Events, Spend(what)
    PROVE  BudgetTyped' /\ budget.tabs' = budget.tabs /\ budget[what] \in Nat
PROOF
<1>1. DOMAIN budget = Events \cup {"tabs", "present"}
  BY DEF BudgetTyped
<1>2. budget' = [k \in Events \cup {"tabs", "present"} |-> IF k = what THEN budget[what] - 1 ELSE budget[k]]
  BY <1>1 DEF Spend, BudgetTyped
<1>3. \A k \in Events : budget'[k] \in Nat
  BY <1>2 DEF BudgetTyped, Spend
<1>4. budget' = [k \in Events \cup {"tabs", "present"} |-> budget'[k]]
  BY <1>2
<1>5. budget.tabs' = budget.tabs
  BY <1>2 DEF Events
<1> QED BY <1>3, <1>4, <1>5 DEF BudgetTyped

LEMMA ExpireTokenSession ==
    ASSUME SessionInv, NEW t \in Tabs, ExpireToken(t)
    PROVE  SessionInv'
PROOF
<1> DEFINE T == [tab[t] EXCEPT !.valid = FALSE]
<1>1. tab[t] \in TabType /\ tab \in [Tabs -> TabType] /\ PageSound(tab[t])
  BY DEF SessionInv, PagesTyped
<1>2. T \in TabType
  BY <1>1 DEF TabType
<1>3. Redrawn(t, T)
  BY <1>1, <1>2 DEF Redrawn, TabType, PageSound, ExpireToken
<1>4. BudgetTyped'
  BY SpendTyped DEF SessionInv, ExpireToken, Events
<1> QED BY <1>3, <1>4, PageSession DEF ExpireToken, panels, SessionInv, PanelsTyped

LEMMA OpenPanelSession ==
    ASSUME SessionInv, NEW t \in Tabs, OpenPanel(t)
    PROVE  SessionInv'
PROOF
<1> DEFINE T == [tab[t] EXCEPT !.panel = TRUE]
<1>1. tab[t] \in TabType /\ tab \in [Tabs -> TabType] /\ PageSound(tab[t])
  BY DEF SessionInv, PagesTyped
<1>2. T \in TabType
  BY <1>1 DEF TabType
<1>3. Redrawn(t, T)
  BY <1>1, <1>2 DEF Redrawn, TabType, PageSound, OpenPanel
<1>4. BudgetTyped'
  BY SpendTyped DEF SessionInv, OpenPanel, Events
<1>5. Fetch(t, "snapshots") \in FetchType
  BY FetchTyped DEF Lists
<1>6. fetches' \in [Tabs -> SUBSET FetchType]
  BY <1>5 DEF SessionInv, PanelsTyped, OpenPanel
<1> QED BY <1>3, <1>4, <1>6, PageSession DEF OpenPanel

LEMMA ForgetTyped ==
    ASSUME SessionInv, NEW t \in Tabs, ForgetPanel(t)
    PROVE  fetches' \in [Tabs -> SUBSET FetchType]
BY DEF SessionInv, PanelsTyped, ForgetPanel

LEMMA ClosePanelSession ==
    ASSUME SessionInv, NEW t \in Tabs, ClosePanel(t)
    PROVE  SessionInv'
PROOF
<1> DEFINE T == [tab[t] EXCEPT !.panel = FALSE, !.shown["snapshots"] = {}]
<1>1. tab[t] \in TabType /\ tab \in [Tabs -> TabType] /\ PageSound(tab[t])
  BY DEF SessionInv, PagesTyped
<1>2. T \in TabType
  BY <1>1 DEF TabType
<1>3. Redrawn(t, T)
  BY <1>1, <1>2 DEF Redrawn, TabType, PageSound, ClosePanel
<1>4. BudgetTyped'
  BY DEF SessionInv, ClosePanel, Unmoved, BudgetTyped
<1>5. fetches' \in [Tabs -> SUBSET FetchType]
  BY ForgetTyped DEF ClosePanel
<1> QED BY <1>3, <1>4, <1>5, PageSession DEF ClosePanel, Unmoved

LEMMA OnRowsSession ==
    ASSUME SessionInv, NEW t \in Tabs, NEW f \in fetches[t], OnRows(t, f)
    PROVE  SessionInv'
PROOF
<1> DEFINE T == [tab[t] EXCEPT !.shown[f.list] = IF f.gone # {} THEN @ \ f.gone ELSE f.items]
<1>1. tab[t] \in TabType /\ tab \in [Tabs -> TabType] /\ PageSound(tab[t])
  BY DEF SessionInv, PagesTyped
<1>2. f \in FetchType /\ f.list \in Lists /\ f.items \subseteq Item
  BY DEF SessionInv, PanelsTyped, FetchType
<1>3. T \in TabType
  BY <1>1, <1>2 DEF TabType
<1>4. tab' = [tab EXCEPT ![t] = T]
  BY <1>1 DEF OnRows
<1>5. Redrawn(t, T)
  BY <1>1, <1>3, <1>4 DEF Redrawn, TabType, PageSound
<1>6. BudgetTyped'
  BY DEF SessionInv, OnRows, Unmoved, BudgetTyped
<1>7. fetches' \in [Tabs -> SUBSET FetchType]
  BY DEF SessionInv, PanelsTyped, OnRows
<1> QED BY <1>5, <1>6, <1>7, PageSession DEF OnRows, Unmoved

\* Nothing but the rows and what is asked of them changes.
LEMMA PanelsSession ==
    ASSUME SessionInv, UNCHANGED <<page, sockets, redis>>, PanelsTyped', BudgetTyped'
    PROVE  SessionInv'
PROOF
<1>1. \A s \in Sids : Heard(s)'
  BY DEF SessionInv, Heard, sockets, page, Linked
<1>2. \A s \in Sids : (Seen(s) => s[2] <= tab[s[1]].connections)'
  BY DEF SessionInv, Seen, sockets, page
<1>3. \A s \in Sids : (leaves[s] # None => s \notin alive)'
  BY DEF SessionInv, sockets
<1>4. PagesTyped' /\ SocketsTyped' /\ RoomTyped'
  BY DEF SessionInv, PagesTyped, SocketsTyped, RoomTyped, sockets, redis, page
<1>5. \A u \in Tabs : PageSound(tab[u])'
  BY DEF SessionInv, page
<1> QED BY <1>1, <1>2, <1>3, <1>4, <1>5 DEF SessionInv

LEMMA ReadRowsSession ==
    ASSUME SessionInv, NEW t \in Tabs, NEW f \in fetches[t], ReadRows(t, f)
    PROVE  SessionInv'
PROOF
<1>1. f \in FetchType /\ f.list \in Lists
  BY DEF SessionInv, PanelsTyped, FetchType
<1>2. [f EXCEPT !.read = TRUE, !.items = lists[f.list]] \in FetchType
  BY <1>1 DEF SessionInv, PanelsTyped, FetchType
<1>3. fetches' \in [Tabs -> SUBSET FetchType]
  BY <1>2 DEF SessionInv, PanelsTyped, ReadRows
<1>4. BudgetTyped' /\ PanelsTyped'
  BY <1>3 DEF SessionInv, ReadRows, Unmoved, BudgetTyped, PanelsTyped
<1> QED BY <1>4, PanelsSession DEF ReadRows, Unmoved

LEMMA PostItemSession ==
    ASSUME SessionInv, NEW t \in Tabs, NEW list \in Lists, PostItem(t, list)
    PROVE  SessionInv'
PROOF
<1> DEFINE item == <<budget.posts, UserOf[t]>>
<1>1. BudgetTyped' /\ budget.posts \in Nat
  BY SpendTyped DEF SessionInv, PostItem, Events
<1>2. item \in Item
  BY <1>1, TabsAssumption DEF Item
<1>3. ItemMsg(list, item, FALSE, t) \in ItemMsgs
  BY <1>2 DEF ItemMsg, ItemMsgs
<1>4. PanelsTyped'
  BY <1>2, <1>3 DEF SessionInv, PanelsTyped, PostItem
<1> QED BY <1>1, <1>4, PanelsSession DEF PostItem

LEMMA RemoveItemSession ==
    ASSUME SessionInv, NEW t \in Tabs, NEW list \in Lists, RemoveItem(t, list)
    PROVE  SessionInv'
PROOF
<1>1. BudgetTyped'
  BY SpendTyped DEF SessionInv, RemoveItem, Events
<1>2. PICK item \in lists[list] : /\ lists' = [lists EXCEPT ![list] = @ \ {item}]
                                  /\ announce' = announce \cup {ItemMsg(list, item, TRUE, t)}
  BY DEF RemoveItem
<1>3. ItemMsg(list, item, TRUE, t) \in ItemMsgs
  BY <1>2 DEF ItemMsg, ItemMsgs, SessionInv, PanelsTyped
<1>4. PanelsTyped'
  BY <1>2, <1>3 DEF SessionInv, PanelsTyped, RemoveItem
<1> QED BY <1>1, <1>4, PanelsSession DEF RemoveItem

-----------------------------------------------------------------------------
(* Connections.                                                            *)

LEMMA PageFacts ==
    ASSUME SessionInv, NEW t \in Tabs
    PROVE  /\ tab \in [Tabs -> TabType] /\ tab[t] \in TabType /\ PageSound(tab[t])
           /\ tab[t].connections \in Nat /\ tab[t].link \in Nat
BY MaxConnectionsAssumption DEF SessionInv, PagesTyped, TabType

LEMMA OpenSession ==
    ASSUME SessionInv, NEW t \in Tabs, Open(t)
    PROVE  SessionInv'
PROOF
<1> DEFINE T == [tab[t] EXCEPT !.page = "room", !.pending = <<JoinMsg>>, !.awaiting = TRUE]
<1>1. tab \in [Tabs -> TabType] /\ tab[t] \in TabType /\ PageSound(tab[t])
  BY PageFacts
<1>2. <<JoinMsg>> \in Seq(ClientMsg)
  BY ClientMsgs
<1>3. T \in TabType /\ T.link = 0 /\ T.connections = tab[t].connections /\ PageSound(T)
  BY <1>1, <1>2 DEF TabType, Open, PageSound
<1>4. tab' = [tab EXCEPT ![t] = T]
  BY <1>1 DEF Open
<1>5. /\ tab' \in [Tabs -> TabType]
      /\ \A u \in Tabs : PageSound(tab'[u]) /\ tab'[u].connections = tab[u].connections
  BY <1>1, <1>3, <1>4 DEF SessionInv
<1>6. \A s \in Sids : Linked(s)' <=> Linked(s)
  BY <1>1, <1>3, <1>4, SidsFacts DEF Linked, PageSound, Open
<1>7. \A s \in Sids : Heard(s)'
  BY <1>6 DEF SessionInv, Heard, sockets, Open
<1>8. \A s \in Sids : (Seen(s) => s[2] <= tab[s[1]].connections)'
  BY <1>5, SidsFacts DEF SessionInv, Seen, sockets, Open
<1>9. BudgetTyped'
  BY SpendTyped DEF SessionInv, Open, Events
<1>10. SocketsTyped' /\ RoomTyped' /\ PanelsTyped' /\ \A s \in Sids : (leaves[s] # None => s \notin alive)'
  BY DEF SessionInv, SocketsTyped, RoomTyped, PanelsTyped, sockets, redis, panels, Open
<1> QED BY <1>5, <1>7, <1>8, <1>9, <1>10 DEF SessionInv, PagesTyped, Open

LEMMA Pair ==
    ASSUME NEW a, NEW b
    PROVE  <<a, b>>[1] = a /\ <<a, b>>[2] = b
OBVIOUS

\* The socket of a new connection.
LEMMA NewSocket ==
    ASSUME SessionInv, NEW t \in Tabs, tab[t].link = 0, tab[t].connections < MaxConnections
    PROVE  \E x \in Sids :
               /\ x = <<t, tab[t].connections + 1>>
               /\ x[1] = t /\ x[2] = tab[t].connections + 1 /\ ~Linked(x)
               /\ down[x] = <<>> /\ up[x] = <<>> /\ x \notin alive /\ x \notin meta /\ x \notin inRoom
               /\ joins[x] = None /\ leaves[x] = None
PROOF
<1>0. tab[t].connections + 1 \in 1..MaxConnections
  BY PageFacts, MaxConnectionsAssumption
<1>0a. <<t, tab[t].connections + 1>> \in Sids
  BY <1>0 DEF Sids
<1>1. PICK x \in Sids : /\ x = <<t, tab[t].connections + 1>>
                       /\ x[1] = t /\ x[2] = tab[t].connections + 1
  BY <1>0a, Pair, Zenon
<1>2. ~(x[2] <= tab[x[1]].connections)
  BY <1>1, PageFacts
<1>3. ~Seen(x)
  BY <1>1, <1>2 DEF SessionInv
<1>4. ~Linked(x)
  BY <1>1, PageFacts DEF Linked
<1>5. down[x] = <<>>
  BY <1>1, <1>4 DEF SessionInv, Heard
<1> QED BY <1>1, <1>3, <1>4, <1>5 DEF Seen, SessionInv, SocketsTyped

LEMMA OnConnectType ==
    ASSUME SessionInv, NEW t \in Tabs
    PROVE  OnConnect(t) \in Seq(ClientMsg)
PROOF
<1>1. tab[t].pending \in Seq(ClientMsg)
  BY PageFacts DEF TabType
<1>2. (IF tab[t].once THEN <<JoinMsg>> ELSE <<>>) \in Seq(ClientMsg)
  BY ClientMsgs
<1> QED BY <1>1, <1>2, ConcatProperties DEF OnConnect

LEMMA ConnectSession ==
    ASSUME SessionInv, NEW t \in Tabs, Connect(t)
    PROVE  SessionInv'
PROOF
<1> DEFINE n == tab[t].connections + 1
           T == [tab[t] EXCEPT !.link = n, !.connections = n, !.once = TRUE, !.pending = <<>>]
<1>1. tab \in [Tabs -> TabType] /\ tab[t] \in TabType /\ PageSound(tab[t]) /\ tab[t].connections \in Nat
  BY PageFacts
<1>2. PICK x \in Sids : /\ x = <<t, n>> /\ x[1] = t /\ x[2] = n /\ ~Linked(x)
                       /\ down[x] = <<>> /\ up[x] = <<>>
                       /\ x \notin alive /\ x \notin meta /\ x \notin inRoom
                       /\ joins[x] = None /\ leaves[x] = None
  BY NewSocket DEF Connect
<1>3. T \in TabType /\ PageSound(T)
  BY <1>1, MaxConnectionsAssumption DEF TabType, PageSound, Connect
<1>4. tab' = [tab EXCEPT ![t] = T]
  BY <1>1 DEF Connect
<1>5. tab' \in [Tabs -> TabType] /\ \A u \in Tabs : PageSound(tab'[u])
  BY <1>1, <1>3, <1>4 DEF SessionInv
<1>6. tab'[t].connections = n /\ \A u \in Tabs \ {t} : tab'[u] = tab[u]
  BY <1>1, <1>4
<1>7. Linked(x)' /\ \A s \in Sids \ {x} : Linked(s)' <=> Linked(s)
  <2>1. tab'[t].page = "room" /\ tab'[t].link = n
    BY <1>1, <1>4 DEF Connect
  <2>2. Linked(x)'
    BY <1>2, <2>1 DEF Linked
  <2>3. ASSUME NEW s \in Sids \ {x} PROVE Linked(s)' <=> Linked(s)
    <3>1. CASE s[1] = t
      <4>1. s[2] # n
        BY <3>1, <1>2, SidsFacts
      <4>2. ~Linked(s)
        BY <3>1, SidsFacts DEF Linked, Connect
      <4> QED BY <3>1, <2>1, <4>1, <4>2 DEF Linked
    <3>2. CASE s[1] # t
      BY <3>2, <1>6, SidsFacts DEF Linked
    <3> QED BY <3>1, <3>2
  <2> QED BY <2>2, <2>3
<1>8. /\ up' \in [Sids -> Seq(ClientMsg)] /\ down' \in [Sids -> Seq(ServerMsg)]
      /\ \A s \in Sids \ {x} : up'[s] = up[s] /\ down'[s] = down[s]
      /\ alive' \subseteq Sids /\ alive \subseteq alive' /\ alive' \subseteq alive \cup {x}
      /\ x \in alive' \/ down'[x] = <<Notice("unauthorized")>>
  <2>1. CASE tab[t].valid
    <3>1. /\ up' = [up EXCEPT ![x] = OnConnect(t)] /\ down' = down
          /\ alive' = alive \cup {x}
      BY <1>2, <2>1 DEF Connect
    <3> QED BY <1>2, <3>1, OnConnectType DEF SessionInv, PagesTyped, SocketsTyped
  <2>2. CASE ~tab[t].valid
    <3>1. <<Notice("unauthorized")>> \in Seq(ServerMsg)
      BY ServerMsgs DEF Orders
    <3> QED BY <1>2, <2>2, <3>1 DEF Connect, SessionInv, PagesTyped, SocketsTyped
  <2> QED BY <2>1, <2>2
<1>9. \A s \in Sids : Heard(s)'
  <2>1. Heard(x)'
    BY <1>2, <1>7, <1>8 DEF Heard, Connect
  <2>2. ASSUME NEW s \in Sids \ {x} PROVE Heard(s)'
    BY <1>7, <1>8 DEF Heard, Connect, SessionInv
  <2> QED BY <2>1, <2>2
<1>10. \A s \in Sids : (Seen(s) => s[2] <= tab[s[1]].connections)'
  <2>1. ASSUME NEW s \in Sids, s # x, Seen(s)' PROVE s[2] <= tab'[s[1]].connections
    <3>1. s[2] <= tab[s[1]].connections
      BY <2>1, <1>8 DEF Seen, Connect, SessionInv
    <3>2. CASE s[1] = t
      BY <3>1, <3>2, <1>1, <1>6, SidsFacts
    <3>3. CASE s[1] # t
      BY <3>1, <3>3, <1>6, SidsFacts
    <3> QED BY <3>2, <3>3
  <2> QED BY <2>1, <1>1, <1>2, <1>6
<1>11. \A s \in Sids : (leaves[s] # None => s \notin alive)'
  BY <1>2, <1>8 DEF Connect, SessionInv
<1>12. SocketsTyped'
  BY <1>8 DEF SessionInv, SocketsTyped, Connect
<1>13. RoomTyped' /\ PanelsTyped' /\ BudgetTyped'
  BY DEF SessionInv, RoomTyped, PanelsTyped, BudgetTyped, redis, panels, Connect
<1> QED BY <1>5, <1>8, <1>9, <1>10, <1>11, <1>12, <1>13 DEF SessionInv, PagesTyped

\* The client of a socket stops to listen.
Unlinks(t, T) ==
    /\ T \in TabType /\ PageSound(T) /\ T.link = 0 /\ T.connections = tab[t].connections
    /\ tab' = [tab EXCEPT ![t] = T]
    /\ \A s \in Sids : down'[s] = IF s[1] = t THEN <<>> ELSE down[s]
    /\ down' = [s \in Sids |-> down'[s]]

LEMMA UnlinksEffect ==
    ASSUME SessionInv, NEW t \in Tabs, NEW T, Unlinks(t, T)
    PROVE  /\ tab' \in [Tabs -> TabType] /\ tab'[t] = T
           /\ \A u \in Tabs \ {t} : tab'[u] = tab[u]
           /\ \A u \in Tabs : PageSound(tab'[u]) /\ tab'[u].connections = tab[u].connections
           /\ \A s \in Sids : Linked(s)' <=> Linked(s) /\ s[1] # t
           /\ down' \in [Sids -> Seq(ServerMsg)]
PROOF
<1>1. tab \in [Tabs -> TabType] /\ \A u \in Tabs : PageSound(tab[u])
  BY DEF SessionInv, PagesTyped
<1>2. tab' \in [Tabs -> TabType] /\ tab'[t] = T /\ \A u \in Tabs \ {t} : tab'[u] = tab[u]
  BY <1>1 DEF Unlinks
<1>3. \A u \in Tabs : PageSound(tab'[u]) /\ tab'[u].connections = tab[u].connections
  BY <1>1, <1>2 DEF Unlinks
<1>4. \A s \in Sids : Linked(s)' <=> Linked(s) /\ s[1] # t
  BY <1>2, SidsFacts DEF Linked, Unlinks
<1>5. \A s \in Sids : down'[s] \in Seq(ServerMsg)
  BY EmptySeq DEF Unlinks, SessionInv, PagesTyped
<1>6. down' \in [Sids -> Seq(ServerMsg)]
  BY <1>5 DEF Unlinks
<1> QED BY <1>2, <1>3, <1>4, <1>6

LEMMA UnlinksSession ==
    ASSUME SessionInv, NEW t \in Tabs, NEW T, Unlinks(t, T), up' \in [Sids -> Seq(ClientMsg)],
           \A s \in Sids : up'[s] = up[s] \/ up'[s] = <<>>,
           UNCHANGED <<sockets, redis, lists, announce>>,
           fetches' \in [Tabs -> SUBSET FetchType], BudgetTyped'
    PROVE  SessionInv'
PROOF
<1>1. ASSUME NEW s \in Sids PROVE Heard(s)'
  <2>1. Heard(s) /\ (Linked(s)' <=> Linked(s) /\ s[1] # t)
    BY UnlinksEffect DEF SessionInv
  <2>2. down'[s] = IF s[1] = t THEN <<>> ELSE down[s]
    BY DEF Unlinks
  <2> QED BY <2>1, <2>2 DEF Heard, sockets
<1>2. \A s \in Sids : (Seen(s) => s[2] <= tab[s[1]].connections)'
  BY UnlinksEffect, SidsFacts DEF SessionInv, Seen, sockets
<1>3. \A s \in Sids : (leaves[s] # None => s \notin alive)'
  BY DEF SessionInv, sockets
<1>4. PagesTyped'
  BY UnlinksEffect DEF PagesTyped
<1>5. SocketsTyped' /\ RoomTyped' /\ PanelsTyped'
  BY DEF SessionInv, SocketsTyped, RoomTyped, PanelsTyped, sockets, redis
<1>6. \A u \in Tabs : PageSound(tab[u])'
  BY UnlinksEffect
<1> QED BY <1>1, <1>2, <1>3, <1>4, <1>5, <1>6 DEF SessionInv

LEMMA DropUnlinks ==
    ASSUME SessionInv, NEW t \in Tabs, Drop(t)
    PROVE  Unlinks(t, [tab[t] EXCEPT !.link = 0, !.awaiting = TRUE])
PROOF
<1> DEFINE T == [tab[t] EXCEPT !.link = 0, !.awaiting = TRUE]
<1>1. tab \in [Tabs -> TabType] /\ tab[t] \in TabType /\ PageSound(tab[t]) /\ tab[t].connections \in Nat
  BY PageFacts
<1>2. T \in TabType
  BY <1>1 DEF TabType
<1>3a. PageSound(T) /\ T.link = 0 /\ T.connections = tab[t].connections
  BY <1>1, <1>2 DEF TabType, PageSound
<1>3. tab' = [tab EXCEPT ![t] = T]
  BY <1>1 DEF Drop
<1>4. Sid(t) \in Sids /\ Sid(t)[1] = t /\ down' = [down EXCEPT ![Sid(t)] = <<>>]
  BY <1>1, SidFacts DEF Drop, SessionInv
<1>5. \A s \in Sids : s[1] = t /\ s # Sid(t) => down[s] = <<>>
  BY LinkedFacts DEF SessionInv, Heard
<1>6. \A s \in Sids : down'[s] = IF s[1] = t THEN <<>> ELSE down[s]
  BY <1>4, <1>5 DEF SessionInv, PagesTyped
<1>7. down' = [s \in Sids |-> down'[s]]
  BY <1>4 DEF SessionInv, PagesTyped
<1> QED BY <1>2, <1>3, <1>3a, <1>6, <1>7 DEF Unlinks

LEMMA DropSession ==
    ASSUME SessionInv, NEW t \in Tabs, Drop(t)
    PROVE  SessionInv'
PROOF
<1>1. Sid(t) \in Sids
  BY PageFacts, SidFacts DEF Drop, SessionInv
<1>2. up' \in [Sids -> Seq(ClientMsg)] /\ \A s \in Sids : up'[s] = up[s] \/ up'[s] = <<>>
  BY <1>1, EmptySeq DEF Drop, SessionInv, PagesTyped
<1>3. BudgetTyped'
  BY SpendTyped DEF SessionInv, Drop, Events
<1>4. fetches' \in [Tabs -> SUBSET FetchType]
  BY DEF SessionInv, PanelsTyped, Drop, panels
<1> QED BY <1>2, <1>3, <1>4, DropUnlinks, UnlinksSession DEF Drop, panels

LEMMA UnmountUnlinks ==
    ASSUME SessionInv, NEW t \in Tabs, Unmount(t)
    PROVE  Unlinks(t, Left(t))
PROOF
<1>1. tab \in [Tabs -> TabType] /\ tab[t] \in TabType /\ PageSound(tab[t]) /\ tab[t].connections \in Nat
  BY PageFacts
<1>2a. <<>> \in Seq(ClientMsg) /\ [l \in Lists |-> {}] \in [Lists -> SUBSET Item]
  BY EmptySeq
<1>2b. Blank \in TabType
  BY <1>2a, MaxConnectionsAssumption DEF TabType, Blank
<1>2c. Left(t) = [Blank EXCEPT !.connections = tab[t].connections, !.valid = tab[t].valid,
                         !.made = tab[t].made]
  BY DEF Left
<1>2d. Left(t) \in TabType
  BY <1>1, <1>2b, <1>2c DEF TabType
<1>2e. Left(t).link = 0 /\ Left(t).connections = tab[t].connections /\ Left(t).pending = <<>>
       /\ ~Left(t).joined /\ ~Left(t).panel
  BY <1>2b, <1>2c DEF TabType, Blank
<1>2. Left(t) \in TabType /\ PageSound(Left(t)) /\ Left(t).link = 0 /\ Left(t).connections = tab[t].connections
  BY <1>1, <1>2d, <1>2e DEF PageSound
<1>3. \A s \in Sids : down'[s] = IF s[1] = t THEN <<>> ELSE down[s]
  BY DEF Unmount
<1>4. down' = [s \in Sids |-> down'[s]]
  BY DEF Unmount
<1> QED BY <1>2, <1>3, <1>4 DEF Unlinks, Unmount

LEMMA LeaveSession ==
    ASSUME SessionInv, NEW t \in Tabs, Leave(t)
    PROVE  SessionInv'
PROOF
<1>1. BudgetTyped'
  BY SpendTyped DEF SessionInv, Leave, Events
<1> QED BY <1>1, ForgetTyped, UnmountUnlinks, UnlinksSession
        DEF Leave, Unmount, SessionInv, PagesTyped

LEMMA OnLeaveOrderSession ==
    ASSUME SessionInv, NEW t \in Tabs, OnLeaveOrder(t)
    PROVE  SessionInv'
PROOF
<1>1. BudgetTyped'
  BY DEF SessionInv, OnLeaveOrder, Unmoved, BudgetTyped
<1> QED BY <1>1, ForgetTyped, UnmountUnlinks, UnlinksSession
        DEF OnLeaveOrder, Unmount, SessionInv, PagesTyped, Unmoved

\* What a user does goes over the socket, or waits for one.
LEMMA EmitEffect ==
    ASSUME SessionInv, NEW t \in Tabs, NEW new \in TabType, NEW m \in ClientMsg, Emit(t, new, m),
           tab[t].page = "room", new.page = "room", new.link = tab[t].link,
           new.connections = tab[t].connections,
           new.once = tab[t].once, new.pending = tab[t].pending
    PROVE  /\ tab' \in [Tabs -> TabType] /\ up' \in [Sids -> Seq(ClientMsg)]
           /\ \A u \in Tabs \ {t} : tab'[u] = tab[u]
           /\ \A u \in Tabs : /\ PageSound(tab'[u]) /\ tab'[u].connections = tab[u].connections
                              /\ tab'[u].page = tab[u].page /\ tab'[u].link = tab[u].link
           /\ \A s \in Sids : Linked(s)' <=> Linked(s)
           /\ tab[t].link # 0 =>
                 /\ tab'[t] = new /\ Sid(t) \in Sids /\ Sid(t)[1] = t /\ Sid(t)[2] = tab[t].link
                 /\ up'[Sid(t)] = Append(up[Sid(t)], m)
                 /\ \A s \in Sids \ {Sid(t)} : up'[s] = up[s]
           /\ tab[t].link = 0 =>
                 /\ tab'[t] = [new EXCEPT !.pending = Append(new.pending, m)]
                 /\ up' = up
PROOF
<1>1. tab \in [Tabs -> TabType] /\ tab[t] \in TabType /\ PageSound(tab[t])
  BY PageFacts
<1>2. PageSound(new)
  BY <1>1 DEF PageSound
<1>3. CASE tab[t].link # 0
  <2>1. tab' = [tab EXCEPT ![t] = new] /\ up' = [up EXCEPT ![Sid(t)] = Append(@, m)]
    BY <1>3 DEF Emit
  <2>2. Sid(t) \in Sids /\ Sid(t)[1] = t /\ Sid(t)[2] = tab[t].link
    BY <1>1, <1>3, SidFacts DEF SessionInv
  <2>3. up[Sid(t)] \in Seq(ClientMsg) /\ Append(up[Sid(t)], m) \in Seq(ClientMsg)
    BY <2>2, QueueFacts DEF SessionInv, PagesTyped
  <2>4. /\ up' \in [Sids -> Seq(ClientMsg)] /\ up'[Sid(t)] = Append(up[Sid(t)], m)
        /\ \A s \in Sids \ {Sid(t)} : up'[s] = up[s]
    BY <2>1, <2>2, <2>3 DEF SessionInv, PagesTyped
  <2>5. /\ tab' \in [Tabs -> TabType] /\ tab'[t] = new /\ \A u \in Tabs \ {t} : tab'[u] = tab[u]
    BY <1>1, <2>1
  <2>6. \A u \in Tabs : /\ PageSound(tab'[u]) /\ tab'[u].connections = tab[u].connections
                        /\ tab'[u].page = tab[u].page /\ tab'[u].link = tab[u].link
    BY <1>2, <2>5 DEF SessionInv
  <2>7. \A s \in Sids : Linked(s)' <=> Linked(s)
    BY <2>6, SidsFacts DEF Linked
  <2> QED BY <1>3, <2>2, <2>4, <2>5, <2>6, <2>7
<1>4. CASE tab[t].link = 0
  <2> DEFINE T == [new EXCEPT !.pending = Append(new.pending, m)]
  <2>1. tab' = [tab EXCEPT ![t] = [new EXCEPT !.pending = Append(@, m)]] /\ up' = up
    BY <1>4 DEF Emit
  <2>2. new.pending \in Seq(ClientMsg) /\ Append(new.pending, m) \in Seq(ClientMsg)
    BY QueueFacts DEF TabType
  <2>3. T \in TabType /\ T.link = 0 /\ T.page = "room" /\ T.connections = tab[t].connections
    BY <1>4, <2>2 DEF TabType
  <2>4. PageSound(T)
    BY <1>2, <2>3, <1>1, <1>4 DEF PageSound
  <2>5. /\ tab' \in [Tabs -> TabType] /\ tab'[t] = T /\ \A u \in Tabs \ {t} : tab'[u] = tab[u]
    BY <1>1, <2>1, <2>3
  <2>6. \A u \in Tabs : /\ PageSound(tab'[u]) /\ tab'[u].connections = tab[u].connections
                        /\ tab'[u].page = tab[u].page /\ tab'[u].link = tab[u].link
    BY <1>4, <2>3, <2>4, <2>5 DEF SessionInv
  <2>7. \A s \in Sids : Linked(s)' <=> Linked(s)
    BY <2>6, SidsFacts DEF Linked
  <2> QED BY <1>4, <2>1, <2>5, <2>6, <2>7 DEF SessionInv, PagesTyped
<1> QED BY <1>3, <1>4

LEMMA EmitSession ==
    ASSUME SessionInv, NEW t \in Tabs, NEW new \in TabType, NEW m \in ClientMsg, Emit(t, new, m),
           tab[t].page = "room", new.page = "room", new.link = tab[t].link,
           new.connections = tab[t].connections,
           new.once = tab[t].once, new.pending = tab[t].pending,
           UNCHANGED <<down, sockets, redis, panels>>, BudgetTyped'
    PROVE  SessionInv'
PROOF
<1>1. \A s \in Sids : Heard(s)'
  BY EmitEffect DEF SessionInv, Heard, sockets
<1>2. ASSUME NEW s \in Sids, Seen(s)' PROVE s[2] <= tab'[s[1]].connections
  <2>1. tab'[s[1]].connections = tab[s[1]].connections
    BY EmitEffect, SidsFacts
  <2>2. CASE Seen(s)
    BY <2>1, <2>2 DEF SessionInv
  <2>3. CASE ~Seen(s)
    <3>1. up'[s] # up[s]
      BY <1>2, <2>3 DEF Seen, sockets
    <3>2. tab[t].link # 0 /\ s[1] = t /\ s[2] = tab[t].link
      BY <3>1, EmitEffect
    <3> QED BY <2>1, <3>2, PageFacts DEF PageSound
  <2> QED BY <2>2, <2>3
<1>3. \A s \in Sids : (leaves[s] # None => s \notin alive)'
  BY DEF SessionInv, sockets
<1>4. PagesTyped' /\ \A u \in Tabs : PageSound(tab'[u])
  BY EmitEffect DEF SessionInv, PagesTyped
<1>5. SocketsTyped' /\ RoomTyped' /\ PanelsTyped'
  BY DEF SessionInv, SocketsTyped, RoomTyped, PanelsTyped, sockets, redis, panels
<1> QED BY <1>1, <1>2, <1>3, <1>4, <1>5 DEF SessionInv

LEMMA EditCanvasSession ==
    ASSUME SessionInv, NEW t \in Tabs, EditCanvas(t)
    PROVE  SessionInv'
PROOF
<1> DEFINE new == [tab[t] EXCEPT !.canvas = @ \cup {budget.edits}, !.made = @ \cup {budget.edits}]
<1>1. tab[t] \in TabType
  BY PageFacts
<1>2. BudgetTyped' /\ budget.edits \in Nat
  BY SpendTyped DEF SessionInv, EditCanvas, Events
<1>3. new \in TabType
  BY <1>1, <1>2 DEF TabType
<1>4. /\ new.page = tab[t].page /\ new.link = tab[t].link /\ new.connections = tab[t].connections
      /\ new.once = tab[t].once /\ new.pending = tab[t].pending
  BY <1>1 DEF TabType
<1>5. Op(budget.edits) \in ClientMsg /\ Emit(t, new, Op(budget.edits)) /\ tab[t].page = "room"
  BY <1>2, ClientMsgs DEF EditCanvas
<1> HIDE DEF new
<1> QED BY <1>2, <1>3, <1>4, <1>5, EmitSession DEF EditCanvas

LEMMA MoveCursorSession ==
    ASSUME SessionInv, NEW t \in Tabs, MoveCursor(t)
    PROVE  SessionInv'
PROOF
<1>1. tab[t] \in TabType
  BY PageFacts
<1>2. BudgetTyped'
  BY SpendTyped DEF SessionInv, MoveCursor, Events
<1> QED BY <1>1, <1>2, ClientMsgs, EmitSession DEF MoveCursor

-----------------------------------------------------------------------------
(* The server.                                                             *)

\* What a step of the server leaves alone, and what it may add.
ServerKeeps ==
    /\ tab' = tab
    /\ up' \in [Sids -> Seq(ClientMsg)] /\ \A s \in Sids : up'[s] = up[s] \/ up[s] # <<>>
    /\ down' \in [Sids -> Seq(ServerMsg)]
    /\ \A s \in Sids : down'[s] = down[s] \/ (Linked(s) /\ s \in alive)

LEMMA ServerSession ==
    ASSUME SessionInv, ServerKeeps, SocketsTyped', RoomTyped', PanelsTyped', BudgetTyped',
           \A s \in Sids : /\ s \in alive' => s \in alive
                           /\ s \in alive /\ s \notin alive' => ~Linked(s)
                           /\ s \in meta' \/ joins'[s] # None \/ leaves'[s] # None => Seen(s)
                           /\ leaves'[s] # None => s \notin alive'
                           /\ joins'[s] # None => joins[s] # None \/ s \in alive
    PROVE  SessionInv'
PROOF
<1>1. \A s \in Sids : Linked(s)' <=> Linked(s)
  BY DEF ServerKeeps, Linked
<1>2. ASSUME NEW s \in Sids PROVE Heard(s)'
  <2>1. Heard(s) /\ (Linked(s)' <=> Linked(s))
    BY <1>1 DEF SessionInv
  <2>2. down'[s] # <<>> => Linked(s)
    BY <2>1 DEF ServerKeeps, Heard
  <2>3. Linked(s) /\ s \notin alive' => down'[s] = <<Notice("unauthorized")>> /\ joins'[s] = None
    BY <2>1 DEF ServerKeeps, Heard
  <2> QED BY <2>1, <2>2, <2>3 DEF Heard
<1>3. ASSUME NEW s \in Sids, Seen(s)' PROVE s[2] <= tab'[s[1]].connections
  <2>1. Seen(s)
    BY <1>3 DEF Seen, ServerKeeps
  <2> QED BY <2>1 DEF SessionInv, ServerKeeps
<1>4. PagesTyped' /\ \A u \in Tabs : PageSound(tab'[u])
  BY DEF SessionInv, PagesTyped, ServerKeeps
<1> QED BY <1>2, <1>3, <1>4 DEF SessionInv

\* A broadcast to the room.
LEMMA BroadcastKeeps ==
    ASSUME SessionInv, NEW S, S \subseteq alive, NEW m \in ServerMsg, Send(S, m), tab' = tab, up' = up
    PROVE  ServerKeeps
BY SendEffect DEF SessionInv, PagesTyped, ServerKeeps

LEMMA StillKeeps ==
    ASSUME SessionInv, UNCHANGED page
    PROVE  ServerKeeps
BY DEF SessionInv, PagesTyped, ServerKeeps, page

\* The sockets stay as they are.
LEMMA StillSession ==
    ASSUME SessionInv, ServerKeeps, UNCHANGED sockets, RoomTyped', PanelsTyped', BudgetTyped'
    PROVE  SessionInv'
PROOF
<1>1. SocketsTyped'
  BY DEF SessionInv, SocketsTyped, sockets
<1>2. \A s \in Sids : /\ s \in alive' => s \in alive
                      /\ s \in alive /\ s \notin alive' => ~Linked(s)
                      /\ s \in meta' \/ joins'[s] # None \/ leaves'[s] # None => Seen(s)
                      /\ leaves'[s] # None => s \notin alive'
                      /\ joins'[s] # None => joins[s] # None \/ s \in alive
  BY DEF sockets, SessionInv, Seen
<1> QED BY <1>1, <1>2, ServerSession

LEMMA RoomIsAlive ==
    ASSUME SessionInv
    PROVE  inRoom \subseteq alive /\ inRoom \subseteq Sids /\ \A S : S \subseteq inRoom => S \subseteq alive
BY DEF SessionInv, SocketsTyped

LEMMA AnnounceSession ==
    ASSUME SessionInv, NEW m \in announce, Announce(m)
    PROVE  SessionInv'
PROOF
<1>1. m \in ItemMsgs /\ m \in ServerMsg /\ m.by \in Tabs /\ m.item \in Item /\ m.list \in Lists
  BY ServerMsgs DEF SessionInv, PanelsTyped, ItemMsgs
<1>2. ServerKeeps
  BY <1>1, BroadcastKeeps, RoomIsAlive DEF Announce, Audience
<1>3. Deleted(m) \in FetchType
  BY <1>1 DEF Deleted, FetchType
<1>4. PanelsTyped'
  BY <1>1, <1>3 DEF SessionInv, PanelsTyped, Announce
<1>5. RoomTyped' /\ BudgetTyped' /\ UNCHANGED sockets
  BY DEF SessionInv, RoomTyped, BudgetTyped, Announce, Unmoved, redis
<1> QED BY <1>2, <1>4, <1>5, StillSession

LEMMA RunAnalysisSession ==
    ASSUME SessionInv, RunAnalysis
    PROVE  SessionInv'
PROOF
<1>1. WarningUpdate(live) \in ServerMsg
  BY ServerMsgs DEF SessionInv, RoomTyped
<1>2. ServerKeeps
  BY <1>1, BroadcastKeeps, StillKeeps, RoomIsAlive DEF RunAnalysis, page
<1>3. RoomTyped' /\ PanelsTyped' /\ BudgetTyped' /\ UNCHANGED sockets
  BY DEF SessionInv, RoomTyped, PanelsTyped, panels, BudgetTyped, RunAnalysis
<1> QED BY <1>2, <1>3, StillSession

LEMMA DeletionSession ==
    ASSUME SessionInv, BroadcastRoomDeleted \/ DeleteMembers \/ DeleteRow \/ ExpireUsers
    PROVE  SessionInv'
PROOF
<1>1. CASE BroadcastRoomDeleted
  <2>1. ServerKeeps
    BY <1>1, ServerMsgs, BroadcastKeeps, RoomIsAlive DEF BroadcastRoomDeleted, Orders
  <2>2. BudgetTyped'
    BY <1>1, SpendTyped DEF SessionInv, BroadcastRoomDeleted, Events
  <2>3. RoomTyped' /\ PanelsTyped' /\ UNCHANGED sockets
    BY <1>1 DEF SessionInv, RoomTyped, PanelsTyped, panels, BroadcastRoomDeleted
  <2> QED BY <2>1, <2>2, <2>3, StillSession
<1>2. CASE DeleteMembers
  <2>1. PanelsTyped'
    BY <1>2 DEF SessionInv, PanelsTyped, DeleteMembers
  <2>2. RoomTyped' /\ BudgetTyped' /\ UNCHANGED sockets
    BY <1>2 DEF SessionInv, RoomTyped, BudgetTyped, DeleteMembers
  <2> QED BY <1>2, <2>1, <2>2, StillKeeps, StillSession DEF DeleteMembers
<1>3. CASE DeleteRow
  <2>2. RoomTyped' /\ BudgetTyped' /\ PanelsTyped' /\ UNCHANGED sockets
    BY <1>3 DEF SessionInv, RoomTyped, BudgetTyped, DeleteRow, PanelsTyped, panels
  <2> QED BY <1>3, <2>2, StillKeeps, StillSession DEF DeleteRow
<1>4. CASE ExpireUsers
  <2>1. BudgetTyped'
    BY <1>4, SpendTyped DEF SessionInv, ExpireUsers, Events
  <2>2. RoomTyped' /\ PanelsTyped' /\ UNCHANGED sockets
    BY <1>4 DEF SessionInv, RoomTyped, ExpireUsers, PanelsTyped, panels
  <2> QED BY <1>4, <2>1, <2>2, StillKeeps, StillSession DEF ExpireUsers
<1> QED BY <1>1, <1>2, <1>3, <1>4

\* The server takes a message of a socket.
LEMMA TakeEffect ==
    ASSUME SessionInv, NEW s \in Sids, NEW kind, Take(s, kind)
    PROVE  /\ s \in alive /\ up[s] # <<>> /\ Head(up[s]) \in ClientMsg /\ Head(up[s]).kind = kind
           /\ up' \in [Sids -> Seq(ClientMsg)] /\ up'[s] = Tail(up[s])
           /\ \A x \in Sids \ {s} : up'[x] = up[x]
           /\ \A x \in Sids : up'[x] = up[x] \/ up[x] # <<>>
PROOF
<1>1. up \in [Sids -> Seq(ClientMsg)] /\ up[s] # <<>>
  BY DEF SessionInv, PagesTyped, Take
<1>2. Tail(up[s]) \in Seq(ClientMsg) /\ Head(up[s]) \in ClientMsg
  BY <1>1, QueueFacts
<1> QED BY <1>1, <1>2 DEF Take

LEMMA HandleOperationSession ==
    ASSUME SessionInv, NEW s \in Sids, HandleOperation(s)
    PROVE  SessionInv'
PROOF
<1> DEFINE m == Op(Head(up[s]).edit)
<1>1. Head(up[s]).edit \in Nat /\ m \in ServerMsg
  BY TakeEffect, ClientMsgFields, ClientMsgs DEF HandleOperation
<1>2. ServerKeeps
  <2>1. CASE room = "gone"
    BY <2>1, TakeEffect DEF HandleOperation, ServerKeeps, SessionInv, PagesTyped
  <2>2. CASE room # "gone"
    <3>1. Send(inRoom \ {s}, m)
      BY <2>2 DEF HandleOperation
    <3>2. /\ down' \in [Sids -> Seq(ServerMsg)]
          /\ \A x \in Sids : down'[x] = IF x \in inRoom \ {s} /\ Linked(x) THEN Append(down[x], m) ELSE down[x]
      BY <1>1, <3>1, SendEffect
    <3> QED BY <3>2, TakeEffect, RoomIsAlive DEF HandleOperation, ServerKeeps
  <2> QED BY <2>1, <2>2
<1>3. RoomTyped'
  BY <1>1 DEF HandleOperation, SessionInv, RoomTyped, Scheduled
<1>4. PanelsTyped' /\ BudgetTyped' /\ UNCHANGED sockets
  BY DEF SessionInv, PanelsTyped, panels, BudgetTyped, HandleOperation
<1> QED BY <1>2, <1>3, <1>4, StillSession

LEMMA HandleCursorSession ==
    ASSUME SessionInv, NEW s \in Sids, HandleCursor(s)
    PROVE  SessionInv'
PROOF
<1>1. Cursor(UserAt(s)) \in ServerMsg
  BY SidsFacts, ServerMsgs
<1>2. ServerKeeps
  <2>1. CASE down' = down
    BY <2>1, TakeEffect DEF HandleCursor, ServerKeeps, SessionInv, PagesTyped
  <2>2. CASE Send(inRoom \ {s}, Cursor(UserAt(s)))
    <3>1. /\ down' \in [Sids -> Seq(ServerMsg)]
          /\ \A x \in Sids : down'[x] = IF x \in inRoom \ {s} /\ Linked(x)
                                        THEN Append(down[x], Cursor(UserAt(s))) ELSE down[x]
      BY <1>1, <2>2, SendEffect
    <3> QED BY <3>1, TakeEffect, RoomIsAlive DEF HandleCursor, ServerKeeps
  <2> QED BY <2>1, <2>2 DEF HandleCursor
<1>3. RoomTyped' /\ PanelsTyped' /\ BudgetTyped' /\ UNCHANGED sockets
  BY DEF SessionInv, RoomTyped, redis, PanelsTyped, panels, BudgetTyped, HandleCursor
<1> QED BY <1>2, <1>3, StillSession

\* One socket's join moves on to j.
LEMMA JoinSession ==
    ASSUME SessionInv, ServerKeeps, NEW s \in Sids, NEW j \in JoinType,
           joins' = [joins EXCEPT ![s] = j], joins[s] # None \/ s \in alive,
           inRoom' \subseteq alive, inRoom' \subseteq meta', meta' \subseteq meta \cup {s},
           UNCHANGED <<alive, leaves>>, RoomTyped', PanelsTyped', BudgetTyped'
    PROVE  SessionInv'
PROOF
<1>1. /\ joins' \in [Sids -> JoinType] /\ joins'[s] = j
      /\ \A x \in Sids \ {s} : joins'[x] = joins[x]
  BY DEF SessionInv, SocketsTyped
<1>2. SocketsTyped'
  BY <1>1 DEF SessionInv, SocketsTyped
<1>3. \A x \in Sids : /\ x \in alive' => x \in alive
                      /\ x \in alive /\ x \notin alive' => ~Linked(x)
                      /\ x \in meta' \/ joins'[x] # None \/ leaves'[x] # None => Seen(x)
                      /\ leaves'[x] # None => x \notin alive'
                      /\ joins'[x] # None => joins[x] # None \/ x \in alive
  BY <1>1 DEF Seen, SessionInv
<1> QED BY <1>2, <1>3, ServerSession

LEMMA JoinTypes ==
    ASSUME SessionInv, NEW s \in Sids
    PROVE  /\ None \in JoinType /\ [at |-> "access", read |-> {}] \in JoinType
           /\ [at |-> "add", read |-> live] \in JoinType
           /\ joins[s].at # "none" => joins[s] # None
           /\ joins[s].at \in {"access", "exists", "warm", "add", "get"} =>
                 /\ joins[s].read \in SUBSET Nat
                 /\ \A at \in {"access", "exists", "warm", "add", "get"} :
                        [joins[s] EXCEPT !.at = at] \in JoinType
PROOF
<1>1. joins[s] \in JoinType /\ live \in SUBSET Nat
  BY DEF SessionInv, SocketsTyped, RoomTyped
<1>2. joins[s].at # "none" => joins[s] # None
  BY DEF None
<1>3. ASSUME joins[s].at \in {"access", "exists", "warm", "add", "get"}
      PROVE  joins[s] \in [at : {"access", "exists", "warm", "add", "get"}, read : SUBSET Nat]
  BY <1>1, <1>3 DEF JoinType, None
<1> QED BY <1>1, <1>2, <1>3 DEF JoinType

LEMMA HandleJoinRoomSession ==
    ASSUME SessionInv, NEW s \in Sids, HandleJoinRoom(s)
    PROVE  SessionInv'
PROOF
<1>1. ServerKeeps
  BY TakeEffect DEF HandleJoinRoom, ServerKeeps, SessionInv, PagesTyped
<1>2. RoomTyped' /\ PanelsTyped' /\ BudgetTyped'
  BY DEF SessionInv, RoomTyped, redis, PanelsTyped, panels, BudgetTyped, HandleJoinRoom
<1> QED BY <1>1, <1>2, JoinTypes, JoinSession, TakeEffect
        DEF HandleJoinRoom, SessionInv, SocketsTyped

LEMMA JoinAccessSession ==
    ASSUME SessionInv, NEW s \in Sids, JoinAccess(s)
    PROVE  SessionInv'
PROOF
<1>1. ServerKeeps /\ RoomTyped' /\ PanelsTyped' /\ BudgetTyped'
  BY StillKeeps
     DEF SessionInv, RoomTyped, redis, PanelsTyped, panels, BudgetTyped, JoinAccess
<1>2. PICK at \in {"warm", "exists"} : joins' = [joins EXCEPT ![s].at = at]
  BY DEF JoinAccess, JoinGoes
<1>3. joins' = [joins EXCEPT ![s] = [joins[s] EXCEPT !.at = at]]
  BY <1>2
<1>4. inRoom' \subseteq alive /\ inRoom' \subseteq meta' /\ meta' \subseteq meta \cup {s}
  BY DEF JoinAccess, Entered, SessionInv, SocketsTyped
<1> QED BY <1>1, <1>3, <1>4, JoinTypes, JoinSession DEF JoinAccess

LEMMA JoinExistsSession ==
    ASSUME SessionInv, NEW s \in Sids, JoinExists(s)
    PROVE  SessionInv'
PROOF
<1>1. Notice(Refusal) \in ServerMsg
  BY ServerMsgs DEF Refusal, Orders
<1>2. joins[s] # None
  BY JoinTypes DEF JoinExists
<1>3. \A x \in Sids : x \in {s} /\ Linked(x) => x \in alive
  BY <1>2 DEF SessionInv, Heard
<1>4. ServerKeeps
  BY <1>1, <1>3, SendEffect DEF JoinExists, ServerKeeps, SessionInv, PagesTyped
<1>5. RoomTyped' /\ PanelsTyped' /\ BudgetTyped'
  BY DEF SessionInv, RoomTyped, redis, PanelsTyped, panels, BudgetTyped, JoinExists
<1> QED BY <1>2, <1>4, <1>5, JoinTypes, JoinSession DEF JoinExists, SessionInv, SocketsTyped

LEMMA JoinWarmSession ==
    ASSUME SessionInv, NEW s \in Sids, JoinWarm(s)
    PROVE  SessionInv'
PROOF
<1>1. ServerKeeps /\ RoomTyped' /\ PanelsTyped' /\ BudgetTyped'
  BY StillKeeps
     DEF SessionInv, RoomTyped, redis, PanelsTyped, panels, BudgetTyped, JoinWarm
<1> QED BY <1>1, JoinTypes, JoinSession DEF JoinWarm, SessionInv, SocketsTyped

LEMMA JoinAddSession ==
    ASSUME SessionInv, NEW s \in Sids, JoinAdd(s)
    PROVE  SessionInv'
PROOF
<1>1. ServerKeeps /\ PanelsTyped' /\ BudgetTyped'
  BY StillKeeps DEF SessionInv, PanelsTyped, panels, BudgetTyped, JoinAdd
<1>2. RoomTyped'
  BY SidsFacts DEF SessionInv, RoomTyped, JoinAdd
<1>3. joins' = [joins EXCEPT ![s] = [joins[s] EXCEPT !.at = "get"]]
  BY DEF JoinAdd, JoinGoes
<1> QED BY <1>1, <1>2, <1>3, JoinTypes, JoinSession DEF JoinAdd, SessionInv, SocketsTyped

\* What a join that is over sends.
LEMMA JoinReplyEffect ==
    ASSUME SessionInv, NEW s \in Sids, JoinGet(s)
    PROVE  LET m == RoomState(joins[s].read, active)
               n == WarningUpdate(joins[s].read)
               j == Presence("userJoined", UserAt(s))
           IN  /\ m \in ServerMsg /\ n \in ServerMsg /\ j \in ServerMsg
               /\ down' \in [Sids -> Seq(ServerMsg)]
               /\ \A x \in Sids : ~Linked(x) => down'[x] = down[x]
               /\ Linked(s) => down'[s] = down[s] \o <<m, n>> /\ s \in alive
               /\ \A x \in Sids \ {s} : Linked(x) =>
                     down'[x] = IF x \in inRoom THEN Append(down[x], j) ELSE down[x]
PROOF
<1> DEFINE m == RoomState(joins[s].read, active)
           n == WarningUpdate(joins[s].read)
           j == Presence("userJoined", UserAt(s))
<1>1. joins[s].read \in SUBSET Nat /\ joins[s] # None
  BY JoinTypes DEF JoinGet
<1>2. m \in ServerMsg /\ n \in ServerMsg /\ j \in ServerMsg
  BY <1>1, SidsFacts, ServerMsgs DEF SessionInv, RoomTyped
<1>3. Linked(s) => s \in alive
  BY <1>1 DEF SessionInv, Heard
<1>4. down \in [Sids -> Seq(ServerMsg)]
  BY DEF SessionInv, PagesTyped
<1>5. \A x \in Sids : down'[x] = IF ~Linked(x) THEN down[x]
                                 ELSE IF x = s THEN down[x] \o <<m, n>>
                                 ELSE IF x \in inRoom THEN Append(down[x], j)
                                 ELSE down[x]
  BY DEF JoinGet, JoinReply
<1>6. ASSUME NEW x \in Sids PROVE down'[x] \in Seq(ServerMsg)
  <2> HIDE DEF m, n, j
  <2>1. down[x] \in Seq(ServerMsg)
    BY <1>4
  <2>2. down[x] \o <<m, n>> \in Seq(ServerMsg) /\ Append(down[x], j) \in Seq(ServerMsg)
    BY <1>2, <2>1, QueueFacts
  <2> QED BY <1>5, <2>1, <2>2
<1>7. down' = [x \in Sids |-> down'[x]]
  BY DEF JoinGet, JoinReply
<1>8. down' \in [Sids -> Seq(ServerMsg)]
  BY <1>6, <1>7
<1> QED BY <1>2, <1>3, <1>5, <1>8

LEMMA JoinGetSession ==
    ASSUME SessionInv, NEW s \in Sids, JoinGet(s)
    PROVE  SessionInv'
PROOF
<1>1. joins[s] # None
  BY JoinTypes DEF JoinGet
<1>2. down' \in [Sids -> Seq(ServerMsg)]
  BY JoinReplyEffect
<1>3. \A x \in Sids : down'[x] = down[x] \/ (Linked(x) /\ x \in alive)
  BY JoinReplyEffect, RoomIsAlive
<1>4. ServerKeeps
  BY <1>2, <1>3 DEF JoinGet, ServerKeeps, SessionInv, PagesTyped
<1>5. RoomTyped' /\ PanelsTyped' /\ BudgetTyped'
  BY DEF SessionInv, RoomTyped, redis, PanelsTyped, panels, BudgetTyped, JoinGet
<1> QED BY <1>1, <1>4, <1>5, JoinTypes, JoinSession DEF JoinGet, SessionInv, SocketsTyped

LEMMA LeaveTypes ==
    ASSUME SessionInv, NEW s \in Sids
    PROVE  /\ None \in LeaveType /\ [at |-> "remove"] \in LeaveType
           /\ leaves[s].at # "none" => leaves[s] # None
           /\ leaves[s].at \in {"remove", "notify"} => [leaves[s] EXCEPT !.at = "notify"] \in LeaveType
PROOF
<1>1. leaves[s] \in LeaveType
  BY DEF SessionInv, SocketsTyped
<1>2. leaves[s].at # "none" => leaves[s] # None
  BY DEF None
<1>3. ASSUME leaves[s].at \in {"remove", "notify"} PROVE leaves[s] \in [at : {"remove", "notify"}]
  BY <1>1, <1>3 DEF LeaveType, None
<1> QED BY <1>1, <1>2, <1>3 DEF LeaveType

LEMMA HandleDisconnectSession ==
    ASSUME SessionInv, NEW s \in Sids, HandleDisconnect(s)
    PROVE  SessionInv'
PROOF
<1>1. ServerKeeps /\ RoomTyped' /\ PanelsTyped' /\ BudgetTyped'
  BY StillKeeps
     DEF SessionInv, RoomTyped, redis, PanelsTyped, panels, BudgetTyped, HandleDisconnect
<1>2. /\ leaves' \in [Sids -> LeaveType]
      /\ \A x \in Sids : leaves'[x] # None => leaves[x] # None \/ (x = s /\ s \in meta)
  BY LeaveTypes DEF HandleDisconnect, SessionInv, SocketsTyped
<1>3. SocketsTyped'
  BY <1>2 DEF SessionInv, SocketsTyped, HandleDisconnect
<1>4. \A x \in Sids : /\ x \in alive' => x \in alive
                      /\ x \in alive /\ x \notin alive' => ~Linked(x)
                      /\ x \in meta' \/ joins'[x] # None \/ leaves'[x] # None => Seen(x)
                      /\ leaves'[x] # None => x \notin alive'
                      /\ joins'[x] # None => joins[x] # None \/ x \in alive
  BY <1>2 DEF Seen, SessionInv, HandleDisconnect
<1> QED BY <1>1, <1>3, <1>4, ServerSession

LEMMA LeaveRemoveSession ==
    ASSUME SessionInv, NEW s \in Sids, LeaveRemove(s)
    PROVE  SessionInv'
PROOF
<1>1. ServerKeeps /\ PanelsTyped' /\ BudgetTyped'
  BY StillKeeps DEF SessionInv, PanelsTyped, panels, BudgetTyped, LeaveRemove
<1>2. RoomTyped'
  BY DEF SessionInv, RoomTyped, LeaveRemove
<1>3. /\ leaves' \in [Sids -> LeaveType] /\ leaves[s] # None
      /\ \A x \in Sids : leaves'[x] # None => leaves[x] # None
  BY LeaveTypes DEF LeaveRemove, SessionInv, SocketsTyped
<1>4. s \notin inRoom
  BY <1>3 DEF SessionInv, SocketsTyped
<1>5. SocketsTyped'
  BY <1>3, <1>4 DEF SessionInv, SocketsTyped, LeaveRemove
<1>6. \A x \in Sids : /\ x \in alive' => x \in alive
                      /\ x \in alive /\ x \notin alive' => ~Linked(x)
                      /\ x \in meta' \/ joins'[x] # None \/ leaves'[x] # None => Seen(x)
                      /\ leaves'[x] # None => x \notin alive'
                      /\ joins'[x] # None => joins[x] # None \/ x \in alive
  BY <1>3 DEF Seen, SessionInv, LeaveRemove
<1> QED BY <1>1, <1>2, <1>5, <1>6, ServerSession

LEMMA LeaveNotifySession ==
    ASSUME SessionInv, NEW s \in Sids, LeaveNotify(s)
    PROVE  SessionInv'
PROOF
<1>1. Presence("userLeft", UserAt(s)) \in ServerMsg
  BY SidsFacts, ServerMsgs
<1>2. ServerKeeps
  BY <1>1, BroadcastKeeps, RoomIsAlive DEF LeaveNotify
<1>3. RoomTyped' /\ PanelsTyped' /\ BudgetTyped'
  BY DEF SessionInv, RoomTyped, redis, PanelsTyped, panels, BudgetTyped, LeaveNotify
<1>4. /\ leaves' \in [Sids -> LeaveType]
      /\ \A x \in Sids : leaves'[x] # None => leaves[x] # None
  BY LeaveTypes DEF LeaveNotify, SessionInv, SocketsTyped
<1>5. SocketsTyped'
  BY <1>4 DEF SessionInv, SocketsTyped, LeaveNotify
<1>6. \A x \in Sids : /\ x \in alive' => x \in alive
                      /\ x \in alive /\ x \notin alive' => ~Linked(x)
                      /\ x \in meta' \/ joins'[x] # None \/ leaves'[x] # None => Seen(x)
                      /\ leaves'[x] # None => x \notin alive'
                      /\ joins'[x] # None => joins[x] # None \/ x \in alive
  BY <1>4 DEF Seen, SessionInv, LeaveNotify
<1> QED BY <1>2, <1>3, <1>5, <1>6, ServerSession

-----------------------------------------------------------------------------

LEMMA ClientSession ==
    ASSUME SessionInv, NEW t \in Tabs, ClientNext(t)
    PROVE  SessionInv'
BY OpenSession, ConnectSession, DropSession, ExpireTokenSession, LeaveSession, OnRoomStateSession,
   OnOperationBroadcastSession, OnWarningUpdateSession, OnUserJoinedSession, OnUserLeftSession,
   OnCursorBroadcastSession, OnLeaveOrderSession, OnDeniedSession, OnItemSession,
   EditCanvasSession, MoveCursorSession, OpenPanelSession, ClosePanelSession, PostItemSession,
   RemoveItemSession, OnRowsSession
   DEF ClientNext

LEMMA GatewaySession ==
    ASSUME SessionInv, NEW s \in Sids, GatewayNext(s)
    PROVE  SessionInv'
BY HandleJoinRoomSession, JoinAccessSession, JoinExistsSession, JoinWarmSession, JoinAddSession,
   JoinGetSession, HandleDisconnectSession, LeaveRemoveSession, LeaveNotifySession,
   HandleOperationSession, HandleCursorSession
   DEF GatewayNext

LEMMA ServerNextSession ==
    ASSUME SessionInv, ServerNext
    PROVE  SessionInv'
BY RunAnalysisSession, DeletionSession, AnnounceSession, ReadRowsSession DEF ServerNext

LEMMA InitSession == Init => SessionInv
PROOF
<1> SUFFICES ASSUME Init PROVE SessionInv
  OBVIOUS
<1>1. /\ budget = [what \in Events \cup {"tabs", "present"} |-> budget[what]]
      /\ budget.present \subseteq Tabs /\ \A what \in Events : budget[what] \in Nat
  BY WorkloadsAssumption DEF Init
<1>0. 1 \in 1..MaxConnections /\ 1 \in 0..MaxConnections
  BY MaxConnectionsAssumption
<1>2. alive \subseteq Sids /\ inRoom = alive /\ meta = alive /\ \A s \in alive : s[2] = 1 /\ s[1] \in budget.present
  <2>1. alive = budget.present \X {1} /\ inRoom = alive /\ meta = alive
    BY DEF Init
  <2>2. ASSUME NEW s \in alive PROVE s \in Sids /\ s[2] = 1 /\ s[1] \in budget.present
    <3>1. PICK t \in budget.present : s = <<t, 1>>
      BY <2>1
    <3>2. <<t, 1>> \in Sids
      BY <1>0, <1>1, <3>1 DEF Sids
    <3> QED BY <3>1, <3>2, Pair
  <2> QED BY <2>1, <2>2
<1>3. active \in SUBSET Users
  BY <1>2, SidsFacts DEF Init
<1>4. Blank \in TabType
  <2>1. <<>> \in Seq(ClientMsg) /\ [l \in Lists |-> {}] \in [Lists -> SUBSET Item]
    BY EmptySeq
  <2> QED BY <2>1, MaxConnectionsAssumption DEF TabType, Blank
<1> DEFINE T == [Blank EXCEPT !.page = "room", !.link = 1, !.connections = 1,
                              !.once = TRUE, !.joined = TRUE, !.users = active]
<1>5. T \in TabType /\ T.page = "room" /\ T.link = 1 /\ T.connections = 1 /\ T.once
      /\ T.pending = <<>>
  BY <1>0, <1>3, <1>4 DEF TabType, Blank
<1>6. PageSound(T)
  BY <1>5 DEF PageSound
<1>7. PageSound(Blank) /\ Blank.link = 0
  BY DEF PageSound, Blank
<1>8. tab = [t \in Tabs |-> IF t \notin budget.present THEN Blank ELSE T]
  BY DEF Init
<1> HIDE DEF T
<1>9. tab \in [Tabs -> TabType] /\ \A t \in Tabs : PageSound(tab[t])
  BY <1>4, <1>5, <1>6, <1>7, <1>8
<1>10. PagesTyped
  <2>1. <<>> \in Seq(ClientMsg) /\ <<>> \in Seq(ServerMsg)
    BY EmptySeq
  <2> QED BY <1>9, <2>1 DEF PagesTyped, Init
<1>11. SocketsTyped
  BY <1>2 DEF SocketsTyped, Init, JoinType, LeaveType
<1>12. RoomTyped
  BY <1>3 DEF RoomTyped, Init
<1>13. PanelsTyped
  BY DEF PanelsTyped, Init
<1>14. BudgetTyped
  BY <1>1 DEF BudgetTyped
<1>15. ASSUME NEW s \in Sids, Seen(s) PROVE s[2] <= tab[s[1]].connections
  <2>1. s \in alive
    BY <1>2, <1>15 DEF Seen, Init
  <2> QED BY <1>1, <1>2, <1>5, <1>8, <2>1
<1>16. ASSUME NEW s \in Sids PROVE (leaves[s] # None => s \notin alive) /\ Heard(s)
  <2>1. down[s] = <<>> /\ leaves[s] = None /\ joins[s] = None
    BY DEF Init
  <2>2. Linked(s) => s \in alive
    <3> SUFFICES ASSUME Linked(s) PROVE s \in alive
      OBVIOUS
    <3>1. s[1] \in budget.present /\ s[2] = 1
      BY <1>5, <1>7, <1>8, SidsFacts DEF Linked
    <3>2. <<s[1], s[2]>> \in budget.present \X {1}
      BY <3>1
    <3> QED BY <3>2, SidsFacts DEF Init
  <2> QED BY <2>1, <2>2 DEF Heard
<1> QED BY <1>9, <1>10, <1>11, <1>12, <1>13, <1>14, <1>15, <1>16 DEF SessionInv

LEMMA NextSession == SessionInv /\ [Next]_vars => SessionInv'
PROOF
<1> SUFFICES ASSUME SessionInv, [Next]_vars PROVE SessionInv'
  OBVIOUS
<1>1. CASE Next
  BY <1>1, ClientSession, GatewaySession, ServerNextSession DEF Next
<1>2. CASE UNCHANGED vars
  BY <1>2, PanelsSession DEF vars, page, sockets, redis, panels, SessionInv, PanelsTyped, BudgetTyped
<1> QED BY <1>1, <1>2

LEMMA SessionInvariant == Spec => []SessionInv
BY InitSession, NextSession, PTL DEF Spec

\* However often tabs come, go, lose their connections and come back, the sockets
\* have their types, a socket in the room has metadata until its leave removes
\* them, and a tab listens on one connection (canvas.gateway.ts:101-191,
\* socketService.ts:46-103).
THEOREM SessionTypes == Spec => []TypeOK
PROOF
<1>1. SessionInv => TypeOK
  <2> SUFFICES ASSUME SessionInv PROVE TypeOK
    OBVIOUS
  <2>1. ASSUME NEW s \in Sids, NEW i \in DOMAIN up[s] PROVE up[s][i].kind \in Kinds
    <3>1. up[s] \in Seq(ClientMsg)
      BY DEF SessionInv, PagesTyped
    <3>2. up[s][i] \in ClientMsg
      BY <3>1
    <3> QED BY <3>2, ClientMsgFields
  <2>2. ASSUME NEW s \in Sids, NEW i \in DOMAIN down[s] PROVE down[s][i].kind \in Kinds
    <3>1. down[s] \in Seq(ServerMsg)
      BY DEF SessionInv, PagesTyped
    <3>2. down[s][i] \in ServerMsg
      BY <3>1
    <3> QED BY <3>2, ServerMsgFields
  <2>3. inRoom \subseteq alive \cap meta /\ active \subseteq Users /\ live \subseteq Nat
    BY DEF SessionInv, SocketsTyped, RoomTyped
  <2>4. \A s \in Sids : down[s] # <<>> => Linked(s)
    BY DEF SessionInv, Heard
  <2>5. \A t \in Tabs : tab[t].canvas \subseteq Nat
    BY DEF SessionInv, PagesTyped, TabType
  <2> QED BY <2>1, <2>2, <2>3, <2>4, <2>5 DEF TypeOK
<1> QED BY <1>1, SessionInvariant, PTL

-----------------------------------------------------------------------------
(* What is on its way.                                                     *)

Has(q, kinds) == \E i \in DOMAIN q : q[i].kind \in kinds
Carries(q, e) == \E i \in DOMAIN q : q[i].kind = "operation" /\ q[i].edit = e
Single(q, kind) == \A i, j \in DOMAIN q : q[i].kind = kind /\ q[j].kind = kind => i = j

Join == {"joinRoom"}
State == {"roomState"}

\* A message decides whether v is in what the page shows of kind k, and puts it there.
Tells(m, k, v) ==
    \/ k = "warnings" /\ m.kind = "warningUpdate"
    \/ k = "canvas" /\ (m.kind = "roomState" \/ (m.kind = "operation" /\ m.edit = v))
    \/ k = "users" /\ (m.kind = "roomState" \/ (m.kind \in {"userJoined", "userLeft"} /\ m.user = v))
    \/ k = "cursors" /\ m.kind \in {"cursor", "userLeft"} /\ m.user = v
    \/ k \in {"comments", "snapshots"} /\ m.kind = "item" /\ m.list = k /\ m.item = v
Puts(m, k, v) ==
    \/ k = "warnings" /\ m.kind = "warningUpdate" /\ v \in m.canvas
    \/ k = "canvas" /\ m.kind = "roomState" /\ v \in m.canvas
    \/ k = "canvas" /\ m.kind = "operation" /\ m.edit = v
    \/ k = "users" /\ m.kind = "roomState" /\ v \in m.users
    \/ k = "users" /\ m.kind = "userJoined" /\ m.user = v
    \/ k = "cursors" /\ m.kind = "cursor" /\ m.user = v
    \/ k \in {"comments", "snapshots"} /\ m.kind = "item" /\ m.list = k /\ m.item = v /\ ~m.gone

\* v is shown after all messages of q, if b says whether it is shown before.
After(q, k, v, b) ==
    \/ b /\ \A i \in DOMAIN q : ~Tells(q[i], k, v)
    \/ \E i \in DOMAIN q : /\ Puts(q[i], k, v)
                           /\ \A j \in DOMAIN q : j > i => ~Tells(q[j], k, v)

\* v will be shown to the client of s, once it has heard everything.
WillShow(s, k, v) == After(down[s], k, v, v \in tab[s[1]][k])

-----------------------------------------------------------------------------
(* One connection joins once, and its client waits for the answer.         *)

Waits(T) ==
    /\ T.page = "room" /\ ~T.once => Has(T.pending, Join)
    /\ T.once => ~Has(T.pending, Join)
    /\ Single(T.pending, "joinRoom")
    /\ T.page = "room" /\ T.link = 0 => T.awaiting
    /\ T.page = "away" => ~T.once

JoinsOnce(u, d, j, known) ==
    /\ Single(u, "joinRoom") /\ Single(d, "roomState")
    /\ Has(u, Join) => j = None /\ ~Has(d, State) /\ ~known
    /\ j # None => ~Has(d, State)
    /\ j.at \in {"access", "exists"} => ~known

Listening(T, u, d, j, known, inside) ==
    /\ Has(u, Join) \/ j # None \/ Has(d, State) => T.awaiting
    /\ ~inside => ~known /\ \A i \in DOMAIN d : d[i].kind \in Orders \cup {"denied"}
    /\ known => T.joined \/ j # None \/ Has(d, State)
    /\ j.at \in {"warm", "add", "get"} => inside

WireOK(T, n, u, d, j, known, inside) ==
    /\ JoinsOnce(u, d, j, known)
    /\ T.page = "room" /\ T.link = n => Listening(T, u, d, j, known, inside)

Reached(u, d, j, inside, r) ==
    \/ Has(d, Orders) \/ Has(u, Join) \/ j.at \in {"access", "exists"}
    \/ inside /\ r = "open"

AllWait == \A t \in Tabs : Waits(tab[t])
Wired(s) == WireOK(tab[s[1]], s[2], up[s], down[s], joins[s], s \in meta, s \in inRoom)
InTime ==
    room = "open" => past \cap {"late entry", "denied"} = {} /\ \A s \in Sids : joins[s].at # "exists"

WireInv == AllWait /\ (\A s \in Sids : Wired(s)) /\ InTime

\* Whoever is on the page is in the room, on the way there, or told to leave.
Reaching(s) == Linked(s) => Reached(up[s], down[s], joins[s], s \in inRoom, room)
ReachNow == \A s \in Sids : Reaching(s)
StrandedInv == past \cap {"late entry", "denied"} = {} => ReachNow

\* The join of s is over.
Settled(s) == Linked(s) /\ s \in inRoom /\ joins[s] = None /\ ~Has(up[s], Join)
Calm(happened) == room = "open" /\ past \cap happened = {}

-----------------------------------------------------------------------------
(* What a queue holds after a message was added, or taken.                 *)

LEMMA Appended ==
    ASSUME NEW S, NEW q \in Seq(S), NEW m \in S
    PROVE  /\ \A i \in DOMAIN q : i \in DOMAIN Append(q, m) /\ Append(q, m)[i] = q[i]
           /\ Len(q) + 1 \in DOMAIN Append(q, m) /\ Append(q, m)[Len(q) + 1] = m
           /\ \A i \in DOMAIN Append(q, m) : i \in DOMAIN q \/ i = Len(q) + 1
           /\ \A i \in DOMAIN q : i \in Nat /\ i < Len(q) + 1
           /\ Len(q) \in Nat
OBVIOUS

LEMMA Taken ==
    ASSUME NEW S, NEW q \in Seq(S), q # <<>>
    PROVE  /\ 1 \in DOMAIN q /\ q[1] = Head(q)
           /\ \A i \in DOMAIN Tail(q) : i \in Nat /\ i + 1 \in DOMAIN q /\ Tail(q)[i] = q[i + 1]
           /\ \A i \in DOMAIN q : i = 1 \/ (i - 1 \in DOMAIN Tail(q) /\ Tail(q)[i - 1] = q[i])
           /\ \A i \in DOMAIN q : i \in Nat /\ i >= 1
OBVIOUS

LEMMA HasNothing ==
    ASSUME NEW K
    PROVE  ~Has(<<>>, K)
BY DEF Has

LEMMA HasAppended ==
    ASSUME NEW S, NEW q \in Seq(S), NEW m \in S, NEW K
    PROVE  Has(Append(q, m), K) <=> Has(q, K) \/ m.kind \in K
BY Appended DEF Has

LEMMA HasTaken ==
    ASSUME NEW S, NEW q \in Seq(S), q # <<>>, NEW K
    PROVE  Has(q, K) <=> Head(q).kind \in K \/ Has(Tail(q), K)
PROOF
<1>1. Has(Tail(q), K) => Has(q, K)
  BY Taken DEF Has
<1>2. Head(q).kind \in K => Has(q, K)
  BY Taken DEF Has
<1>3. Has(q, K) => Head(q).kind \in K \/ Has(Tail(q), K)
  BY Taken DEF Has
<1> QED BY <1>1, <1>2, <1>3

LEMMA CarriesNothing ==
    ASSUME NEW e
    PROVE  ~Carries(<<>>, e)
BY DEF Carries

LEMMA CarriesAppended ==
    ASSUME NEW S, NEW q \in Seq(S), NEW m \in S, NEW e
    PROVE  Carries(Append(q, m), e) <=> Carries(q, e) \/ (m.kind = "operation" /\ m.edit = e)
BY Appended DEF Carries

LEMMA CarriesTaken ==
    ASSUME NEW S, NEW q \in Seq(S), q # <<>>, NEW e
    PROVE  Carries(q, e) <=> (Head(q).kind = "operation" /\ Head(q).edit = e) \/ Carries(Tail(q), e)
PROOF
<1>1. Carries(Tail(q), e) => Carries(q, e)
  BY Taken DEF Carries
<1>2. Head(q).kind = "operation" /\ Head(q).edit = e => Carries(q, e)
  BY Taken DEF Carries
<1>3. ASSUME NEW i \in DOMAIN q, q[i].kind = "operation", q[i].edit = e
      PROVE  (Head(q).kind = "operation" /\ Head(q).edit = e) \/ Carries(Tail(q), e)
  <2>1. CASE i = 1
    BY <1>3, <2>1, Taken
  <2>2. CASE i - 1 \in DOMAIN Tail(q) /\ Tail(q)[i - 1] = q[i]
    BY <1>3, <2>2 DEF Carries
  <2> QED BY <2>1, <2>2, Taken
<1> QED BY <1>1, <1>2, <1>3 DEF Carries

LEMMA SingleAppended ==
    ASSUME NEW S, NEW q \in Seq(S), NEW m \in S, NEW kind, Single(q, kind),
           m.kind = kind => ~Has(q, {kind})
    PROVE  Single(Append(q, m), kind)
PROOF
<1> SUFFICES ASSUME NEW i \in DOMAIN Append(q, m), NEW j \in DOMAIN Append(q, m),
                    Append(q, m)[i].kind = kind, Append(q, m)[j].kind = kind
             PROVE  i = j
  BY DEF Single
<1>1. CASE i \in DOMAIN q /\ j \in DOMAIN q
  BY <1>1, Appended DEF Single
<1>2. CASE i \in DOMAIN q /\ j = Len(q) + 1
  BY <1>2, Appended DEF Has
<1>3. CASE i = Len(q) + 1 /\ j \in DOMAIN q
  BY <1>3, Appended DEF Has
<1> QED BY <1>1, <1>2, <1>3, Appended

LEMMA SingleTaken ==
    ASSUME NEW S, NEW q \in Seq(S), q # <<>>, NEW kind, Single(q, kind)
    PROVE  Single(Tail(q), kind) /\ (Head(q).kind = kind => ~Has(Tail(q), {kind}))
PROOF
<1>1. ASSUME NEW i \in DOMAIN Tail(q), NEW j \in DOMAIN Tail(q),
             Tail(q)[i].kind = kind, Tail(q)[j].kind = kind
      PROVE  i = j
  <2>1. i + 1 = j + 1
    BY <1>1, Taken DEF Single
  <2> QED BY <2>1, Taken
<1>2. ASSUME Head(q).kind = kind, NEW i \in DOMAIN Tail(q), Tail(q)[i].kind = kind
      PROVE  FALSE
  <2>1. 1 = i + 1
    BY <1>2, Taken DEF Single
  <2> QED BY <2>1, <1>2, Taken, LenProperties
<1> QED BY <1>1, <1>2 DEF Single, Has

LEMMA PutsTells ==
    ASSUME NEW m, NEW k, NEW v
    PROVE  Puts(m, k, v) => Tells(m, k, v)
BY DEF Puts, Tells

LEMMA AfterNothing ==
    ASSUME NEW k, NEW v, NEW b \in BOOLEAN
    PROVE  After(<<>>, k, v, b) <=> b
BY DEF After

LEMMA AfterAppended ==
    ASSUME NEW S, NEW q \in Seq(S), NEW m \in S, NEW k, NEW v, NEW b \in BOOLEAN
    PROVE  /\ Tells(m, k, v) => (After(Append(q, m), k, v, b) <=> Puts(m, k, v))
           /\ ~Tells(m, k, v) => (After(Append(q, m), k, v, b) <=> After(q, k, v, b))
PROOF
<1> DEFINE p == Append(q, m)
           n == Len(q) + 1
<1>1. /\ \A i \in DOMAIN q : i \in DOMAIN p /\ p[i] = q[i] /\ i \in Nat /\ i < n
      /\ n \in DOMAIN p /\ n \in Nat /\ p[n] = m
      /\ \A i \in DOMAIN p : i \in DOMAIN q \/ i = n
  BY Appended
<1> HIDE DEF p, n
<1>2. ASSUME Tells(m, k, v), After(p, k, v, b)
      PROVE  Puts(m, k, v)
  <2>1. PICK i \in DOMAIN p : Puts(p[i], k, v) /\ \A j \in DOMAIN p : j > i => ~Tells(p[j], k, v)
    BY <1>1, <1>2 DEF After
  <2> QED BY <1>1, <1>2, <2>1
<1>3. ASSUME Tells(m, k, v), Puts(m, k, v)
      PROVE  After(p, k, v, b)
  <2>1. \A j \in DOMAIN p : ~(j > n)
    BY <1>1
  <2> QED BY <1>1, <1>3, <2>1 DEF After
<1>4. ASSUME ~Tells(m, k, v), After(p, k, v, b)
      PROVE  After(q, k, v, b)
  <2>1. CASE b /\ \A i \in DOMAIN p : ~Tells(p[i], k, v)
    BY <1>1, <2>1 DEF After
  <2>2. ASSUME NEW i \in DOMAIN p, Puts(p[i], k, v), \A j \in DOMAIN p : j > i => ~Tells(p[j], k, v)
        PROVE  After(q, k, v, b)
    <3>1. i \in DOMAIN q
      BY <1>1, <1>4, <2>2, PutsTells
    <3> QED BY <1>1, <2>2, <3>1 DEF After
  <2> QED BY <1>4, <2>1, <2>2 DEF After
<1>5. ASSUME ~Tells(m, k, v), After(q, k, v, b)
      PROVE  After(p, k, v, b)
  <2>1. CASE b /\ \A i \in DOMAIN q : ~Tells(q[i], k, v)
    BY <1>1, <1>5, <2>1 DEF After
  <2>2. ASSUME NEW i \in DOMAIN q, Puts(q[i], k, v), \A j \in DOMAIN q : j > i => ~Tells(q[j], k, v)
        PROVE  After(p, k, v, b)
    <3>1. \A j \in DOMAIN p : j > i => ~Tells(p[j], k, v)
      BY <1>1, <1>5, <2>2
    <3> QED BY <1>1, <2>2, <3>1 DEF After
  <2> QED BY <1>5, <2>1, <2>2 DEF After
<1>6. After(p, k, v, b) \in BOOLEAN /\ After(q, k, v, b) \in BOOLEAN /\ Puts(m, k, v) \in BOOLEAN
  BY DEF After, Puts
<1> QED BY <1>2, <1>3, <1>4, <1>5, <1>6 DEF p

LEMMA AfterTaken ==
    ASSUME NEW S, NEW q \in Seq(S), q # <<>>, NEW k, NEW v, NEW b \in BOOLEAN, NEW c \in BOOLEAN,
           Tells(Head(q), k, v) => (c <=> Puts(Head(q), k, v)),
           ~Tells(Head(q), k, v) => (c <=> b)
    PROVE  After(Tail(q), k, v, c) <=> After(q, k, v, b)
PROOF
<1> DEFINE p == Tail(q)
           m == Head(q)
<1>1. /\ 1 \in DOMAIN q /\ q[1] = m
      /\ \A i \in DOMAIN p : i \in Nat /\ i >= 1 /\ i + 1 \in DOMAIN q /\ p[i] = q[i + 1]
      /\ \A i \in DOMAIN q : i = 1 \/ (i - 1 \in DOMAIN p /\ p[i - 1] = q[i])
      /\ \A i \in DOMAIN q : i \in Nat /\ i >= 1
  <2>1. \A i \in DOMAIN p : i >= 1
    BY LenProperties
  <2> QED BY <2>1, Taken
<1>2. Tells(m, k, v) => (c <=> Puts(m, k, v))
  OBVIOUS
<1>3. ~Tells(m, k, v) => (c <=> b)
  OBVIOUS
<1> HIDE DEF p, m
<1>4. ASSUME NEW i \in DOMAIN p
      PROVE  /\ Puts(q[i + 1], k, v) /\ (\A j \in DOMAIN q : j > i + 1 => ~Tells(q[j], k, v))
                => Puts(p[i], k, v) /\ \A j \in DOMAIN p : j > i => ~Tells(p[j], k, v)
             /\ Puts(p[i], k, v) /\ (\A j \in DOMAIN p : j > i => ~Tells(p[j], k, v))
                => Puts(q[i + 1], k, v) /\ \A j \in DOMAIN q : j > i + 1 => ~Tells(q[j], k, v)
  <2>1. p[i] = q[i + 1]
    BY <1>1
  <2>2. ASSUME \A j \in DOMAIN q : j > i + 1 => ~Tells(q[j], k, v), NEW j \in DOMAIN p, j > i
        PROVE  ~Tells(p[j], k, v)
    <3>1. j + 1 \in DOMAIN q /\ j + 1 > i + 1 /\ p[j] = q[j + 1]
      BY <1>1, <2>2
    <3> QED BY <2>2, <3>1
  <2>3. ASSUME \A j \in DOMAIN p : j > i => ~Tells(p[j], k, v), NEW j \in DOMAIN q, j > i + 1
        PROVE  ~Tells(q[j], k, v)
    <3>1. j - 1 \in DOMAIN p /\ j - 1 > i /\ p[j - 1] = q[j]
      BY <1>1, <2>3
    <3> QED BY <2>3, <3>1
  <2> QED BY <2>1, <2>2, <2>3
<1>5. (\A i \in DOMAIN q : ~Tells(q[i], k, v)) <=> ~Tells(m, k, v) /\ \A i \in DOMAIN p : ~Tells(p[i], k, v)
  BY <1>1
<1>6. (\A j \in DOMAIN q : j > 1 => ~Tells(q[j], k, v)) <=> \A i \in DOMAIN p : ~Tells(p[i], k, v)
  <2>1. ASSUME \A j \in DOMAIN q : j > 1 => ~Tells(q[j], k, v), NEW i \in DOMAIN p
        PROVE  ~Tells(p[i], k, v)
    <3>1. i + 1 \in DOMAIN q /\ i + 1 > 1 /\ p[i] = q[i + 1]
      BY <1>1
    <3> QED BY <2>1, <3>1
  <2>2. ASSUME \A i \in DOMAIN p : ~Tells(p[i], k, v), NEW j \in DOMAIN q, j > 1
        PROVE  ~Tells(q[j], k, v)
    <3>1. j - 1 \in DOMAIN p /\ p[j - 1] = q[j]
      BY <1>1, <2>2
    <3> QED BY <2>2, <3>1
  <2> QED BY <2>1, <2>2
<1>7. ASSUME After(p, k, v, c)
      PROVE  After(q, k, v, b)
  <2>1. CASE c /\ \A i \in DOMAIN p : ~Tells(p[i], k, v)
    <3>1. CASE Tells(m, k, v)
      BY <1>1, <1>2, <1>6, <2>1, <3>1 DEF After
    <3>2. CASE ~Tells(m, k, v)
      BY <1>3, <1>5, <2>1, <3>2 DEF After
    <3> QED BY <3>1, <3>2
  <2>2. ASSUME NEW i \in DOMAIN p, Puts(p[i], k, v), \A j \in DOMAIN p : j > i => ~Tells(p[j], k, v)
        PROVE  After(q, k, v, b)
    <3>1. i + 1 \in DOMAIN q
      BY <1>1
    <3> QED BY <1>4, <2>2, <3>1 DEF After
  <2> QED BY <1>7, <2>1, <2>2 DEF After
<1>8. ASSUME After(q, k, v, b)
      PROVE  After(p, k, v, c)
  <2>1. CASE b /\ \A i \in DOMAIN q : ~Tells(q[i], k, v)
    BY <1>3, <1>5, <2>1 DEF After
  <2>2. ASSUME NEW i \in DOMAIN q, Puts(q[i], k, v), \A j \in DOMAIN q : j > i => ~Tells(q[j], k, v)
        PROVE  After(p, k, v, c)
    <3>1. CASE i = 1
      <4>1. Puts(m, k, v) /\ Tells(m, k, v)
        BY <1>1, <2>2, <3>1, PutsTells
      <4>2. \A j \in DOMAIN p : ~Tells(p[j], k, v)
        BY <1>6, <2>2, <3>1
      <4> QED BY <1>2, <4>1, <4>2 DEF After
    <3>2. CASE i # 1
      <4>1. i - 1 \in DOMAIN p /\ (i - 1) + 1 = i
        BY <1>1, <3>2
      <4>2. Puts(p[i - 1], k, v) /\ \A j \in DOMAIN p : j > i - 1 => ~Tells(p[j], k, v)
        BY <1>4, <2>2, <4>1
      <4> QED BY <4>1, <4>2 DEF After
    <3> QED BY <3>1, <3>2
  <2> QED BY <1>8, <2>1, <2>2 DEF After
<1> QED BY <1>7, <1>8 DEF p, After

-----------------------------------------------------------------------------
(* What a step means for the messages, the sockets and the room.           *)

\* Time does not go back.
Onward == past \subseteq past' /\ (room' = "open" => room = "open")

LEMMA CalmBefore ==
    ASSUME Onward, NEW h, Calm(h)'
    PROVE  Calm(h)
BY DEF Onward, Calm

LEMMA NotNoted ==
    ASSUME NEW h, NEW what \in h, NEW happened, Note(what, happened), past' \cap h = {}
    PROVE  ~happened
BY DEF Note

\* Two pages that differ in their lists, their panel or their token.
Alike(T, U) ==
    /\ T.page = U.page /\ T.link = U.link /\ T.connections = U.connections /\ T.once = U.once
    /\ T.pending = U.pending /\ T.joined = U.joined /\ T.awaiting = U.awaiting
    /\ T.canvas = U.canvas /\ T.users = U.users /\ T.cursors = U.cursors
    /\ T.warnings = U.warnings /\ T.made = U.made

\* Only lists, panels and tokens change.
Aside ==
    /\ \A t \in Tabs : Alike(tab'[t], tab[t])
    /\ UNCHANGED <<up, down, sockets, redis>>

\* The page of t shows what it has received.
Kept == {"canvas", "users", "cursors", "warnings"}
Shows(t) ==
    /\ tab[t].link # 0 /\ down[Sid(t)] # <<>> /\ Received(t).kind \notin Orders
    /\ Sid(t) \in Sids /\ Linked(Sid(t)) /\ Received(t) \in ServerMsg
    /\ down'[Sid(t)] = Tail(down[Sid(t)])
    /\ \A s \in Sids \ {Sid(t)} : down'[s] = down[s]
    /\ \A u \in Tabs \ {t} : tab'[u] = tab[u]
    /\ tab'[t].page = tab[t].page /\ tab'[t].link = tab[t].link /\ tab'[t].once = tab[t].once
    /\ tab'[t].connections = tab[t].connections
    /\ tab'[t].pending = tab[t].pending /\ tab'[t].made = tab[t].made
    /\ tab'[t].joined <=> tab[t].joined \/ Received(t).kind = "roomState"
    /\ tab'[t].awaiting <=> tab[t].awaiting /\ Received(t).kind # "roomState"
    /\ \A k \in Kept : \A v :
          v \in tab'[t][k] <=> IF Tells(Received(t), k, v) THEN Puts(Received(t), k, v)
                               ELSE v \in tab[t][k]
    /\ UNCHANGED <<up, sockets, redis>>

\* The page of t is left.
Quits(t) ==
    /\ tab[t].page = "room" /\ Unmount(t)
    /\ UNCHANGED <<sockets, redis>>
    /\ past \cup Loses(tab[t].pending) \subseteq past'

LEMMA AlikeRedrawn ==
    ASSUME SessionInv, NEW t \in Tabs, NEW T, Redrawn(t, T), Alike(T, tab[t]),
           UNCHANGED <<up, down, sockets, redis>>
    PROVE  Aside
PROOF
<1>1. \A u \in Tabs : Alike(tab'[u], tab[u])
  BY RedrawnEffect DEF Alike
<1> QED BY <1>1 DEF Aside

LEMMA AsideSteps ==
    ASSUME SessionInv, NEW t \in Tabs,
           \/ ExpireToken(t) \/ OpenPanel(t) \/ ClosePanel(t)
           \/ \E f \in fetches[t] : OnRows(t, f) \/ ReadRows(t, f)
           \/ \E l \in Lists : PostItem(t, l) \/ RemoveItem(t, l)
    PROVE  Aside
PROOF
<1>1. tab \in [Tabs -> TabType] /\ tab[t] \in TabType
  BY PageFacts
<1>2. CASE ExpireToken(t)
  <2>1. tab' = [tab EXCEPT ![t] = [tab[t] EXCEPT !.valid = FALSE]] /\ UNCHANGED <<up, down, sockets, redis>>
    BY <1>1, <1>2 DEF ExpireToken
  <2>2. \A u \in Tabs : Alike(tab'[u], tab[u])
    BY <1>1, <2>1 DEF TabType, Alike
  <2> QED BY <2>1, <2>2 DEF Aside
<1>3. CASE OpenPanel(t)
  <2>1. tab' = [tab EXCEPT ![t] = [tab[t] EXCEPT !.panel = TRUE]] /\ UNCHANGED <<up, down, sockets, redis>>
    BY <1>1, <1>3 DEF OpenPanel
  <2>2. \A u \in Tabs : Alike(tab'[u], tab[u])
    BY <1>1, <2>1 DEF TabType, Alike
  <2> QED BY <2>1, <2>2 DEF Aside
<1>4. CASE ClosePanel(t)
  <2>1. /\ tab' = [tab EXCEPT ![t] = [tab[t] EXCEPT !.panel = FALSE, !.shown["snapshots"] = {}]]
        /\ UNCHANGED <<up, down, sockets, redis>>
    BY <1>1, <1>4 DEF ClosePanel, Unmoved
  <2>2. \A u \in Tabs : Alike(tab'[u], tab[u])
    BY <1>1, <2>1 DEF TabType, Alike
  <2> QED BY <2>1, <2>2 DEF Aside
<1>5. ASSUME NEW f \in fetches[t], OnRows(t, f) PROVE Aside
  <2>1. PICK F : /\ tab' = [tab EXCEPT ![t] = [tab[t] EXCEPT !.shown = F]]
                 /\ UNCHANGED <<up, down, sockets, redis>>
    <3>1. PICK v : tab' = [tab EXCEPT ![t] = [tab[t] EXCEPT !.shown[f.list] = v]]
      BY <1>1, <1>5 DEF OnRows
    <3> QED BY <3>1, <1>5 DEF OnRows, Unmoved
  <2>2. \A u \in Tabs : Alike(tab'[u], tab[u])
    BY <1>1, <2>1 DEF TabType, Alike
  <2> QED BY <2>1, <2>2 DEF Aside
<1>6. ASSUME UNCHANGED <<page, sockets, redis>> PROVE Aside
  BY <1>6 DEF Aside, Alike, page
<1> QED BY <1>2, <1>3, <1>4, <1>5, <1>6 DEF ReadRows, PostItem, RemoveItem, Unmoved

LEMMA StillAside == UNCHANGED vars => Aside
BY DEF vars, page, Aside, Alike

\* What the page of t shows of kind k goes from "was" to "is" with a message.
Follows(m, k, was, is) ==
    \A v : v \in is <=> IF Tells(m, k, v) THEN Puts(m, k, v) ELSE v \in was

LEMMA ShowsRedrawn ==
    ASSUME SessionInv, NEW t \in Tabs, NEW T, NEW kind, Receive(t, kind), kind \notin Orders, Redrawn(t, T),
           T.made = tab[t].made,
           T.joined <=> tab[t].joined \/ kind = "roomState",
           T.awaiting <=> tab[t].awaiting /\ kind # "roomState",
           Follows(Received(t), "canvas", tab[t].canvas, T.canvas),
           Follows(Received(t), "users", tab[t].users, T.users),
           Follows(Received(t), "cursors", tab[t].cursors, T.cursors),
           Follows(Received(t), "warnings", tab[t].warnings, T.warnings),
           UNCHANGED <<up, sockets, redis>>
    PROVE  Shows(t)
PROOF
<1>1. /\ tab[t].link # 0 /\ down[Sid(t)] # <<>> /\ Received(t).kind = kind
      /\ down' = [down EXCEPT ![Sid(t)] = Tail(@)]
  BY DEF Receive, Received
<1>2. /\ Received(t) \in ServerMsg /\ Sid(t) \in Sids /\ Linked(Sid(t))
      /\ down'[Sid(t)] = Tail(down[Sid(t)]) /\ \A s \in Sids \ {Sid(t)} : down'[s] = down[s]
  BY <1>1, ReceiveEffect
<1>3. tab'[t] = T /\ \A u \in Tabs \ {t} : tab'[u] = tab[u]
  BY RedrawnEffect
<1>4. \A k \in Kept : \A v :
          v \in tab'[t][k] <=> IF Tells(Received(t), k, v) THEN Puts(Received(t), k, v)
                               ELSE v \in tab[t][k]
  <2> SUFFICES ASSUME NEW k \in Kept PROVE Follows(Received(t), k, tab[t][k], T[k])
    BY <1>3 DEF Follows
  <2> QED BY DEF Kept
<1> QED BY <1>1, <1>2, <1>3, <1>4 DEF Shows, Redrawn

LEMMA ShowOnRoomState ==
    ASSUME SessionInv, NEW t \in Tabs, OnRoomState(t)
    PROVE  Shows(t)
PROOF
<1> DEFINE m == Received(t)
           T == [tab[t] EXCEPT !.canvas = m.canvas, !.users = m.users, !.joined = TRUE, !.awaiting = FALSE]
<1>1. tab \in [Tabs -> TabType] /\ tab[t] \in TabType /\ PageSound(tab[t])
  BY PageFacts
<1>2. m \in ServerMsg /\ m.kind = "roomState" /\ m.canvas \in SUBSET Nat /\ m.users \in SUBSET Users
  BY ReceiveEffect, ServerMsgFields DEF OnRoomState, Receive, Received
<1> HIDE DEF m
<1>3. tab' = [tab EXCEPT ![t] = T] /\ T \in TabType /\ tab[t].page # "away"
  BY <1>1, <1>2 DEF OnRoomState, Receive, PageSound, TabType, m
<1>4. /\ T.page = tab[t].page /\ T.link = tab[t].link /\ T.connections = tab[t].connections
      /\ T.once = tab[t].once /\ T.pending = tab[t].pending /\ T.made = tab[t].made
      /\ T.joined /\ ~T.awaiting /\ T.canvas = m.canvas /\ T.users = m.users
      /\ T.cursors = tab[t].cursors /\ T.warnings = tab[t].warnings
  BY <1>1 DEF TabType
<1> HIDE DEF T
<1>5. /\ Follows(m, "canvas", tab[t].canvas, T.canvas) /\ Follows(m, "users", tab[t].users, T.users)
      /\ Follows(m, "cursors", tab[t].cursors, T.cursors) /\ Follows(m, "warnings", tab[t].warnings, T.warnings)
  BY <1>2, <1>4 DEF Follows, Tells, Puts
<1> QED BY <1>3, <1>4, <1>5, ShowsRedrawn DEF OnRoomState, Redrawn, Orders, m, Unmoved

LEMMA ShowOnOperation ==
    ASSUME SessionInv, NEW t \in Tabs, OnOperationBroadcast(t)
    PROVE  Shows(t)
PROOF
<1> DEFINE m == Received(t)
           T == [tab[t] EXCEPT !.canvas = @ \cup {m.edit}]
<1>1. tab \in [Tabs -> TabType] /\ tab[t] \in TabType /\ PageSound(tab[t])
  BY PageFacts
<1>2. m \in ServerMsg /\ m.kind = "operation" /\ m.edit \in Nat
  BY ReceiveEffect, ServerMsgFields DEF OnOperationBroadcast, Receive, Received
<1> HIDE DEF m
<1>3. tab' = [tab EXCEPT ![t] = T] /\ T \in TabType /\ tab[t].page # "away"
  BY <1>1, <1>2 DEF OnOperationBroadcast, Receive, PageSound, TabType, m
<1>4. /\ T.page = tab[t].page /\ T.link = tab[t].link /\ T.connections = tab[t].connections
      /\ T.once = tab[t].once /\ T.pending = tab[t].pending /\ T.made = tab[t].made
      /\ T.joined <=> tab[t].joined
      /\ T.awaiting <=> tab[t].awaiting
      /\ T.canvas = tab[t].canvas \cup {m.edit} /\ T.users = tab[t].users
      /\ T.cursors = tab[t].cursors /\ T.warnings = tab[t].warnings
  BY <1>1 DEF TabType
<1> HIDE DEF T
<1>5. /\ Follows(m, "canvas", tab[t].canvas, T.canvas) /\ Follows(m, "users", tab[t].users, T.users)
      /\ Follows(m, "cursors", tab[t].cursors, T.cursors) /\ Follows(m, "warnings", tab[t].warnings, T.warnings)
  BY <1>2, <1>4 DEF Follows, Tells, Puts
<1>6. Redrawn(t, T)
  BY <1>3, <1>4 DEF Redrawn
<1> QED BY <1>4, <1>5, <1>6, ShowsRedrawn DEF OnOperationBroadcast, Orders, m, Unmoved

LEMMA ShowOnWarning ==
    ASSUME SessionInv, NEW t \in Tabs, OnWarningUpdate(t)
    PROVE  Shows(t)
PROOF
<1> DEFINE m == Received(t)
           T == [tab[t] EXCEPT !.warnings = m.canvas]
<1>1. tab \in [Tabs -> TabType] /\ tab[t] \in TabType /\ PageSound(tab[t])
  BY PageFacts
<1>2. m \in ServerMsg /\ m.kind = "warningUpdate" /\ m.canvas \in SUBSET Nat
  BY ReceiveEffect, ServerMsgFields DEF OnWarningUpdate, Receive, Received
<1> HIDE DEF m
<1>3. tab' = [tab EXCEPT ![t] = T] /\ T \in TabType /\ tab[t].page # "away"
  BY <1>1, <1>2 DEF OnWarningUpdate, Receive, PageSound, TabType, m
<1>4. /\ T.page = tab[t].page /\ T.link = tab[t].link /\ T.connections = tab[t].connections
      /\ T.once = tab[t].once /\ T.pending = tab[t].pending /\ T.made = tab[t].made
      /\ T.joined <=> tab[t].joined
      /\ T.awaiting <=> tab[t].awaiting
      /\ T.canvas = tab[t].canvas /\ T.users = tab[t].users
      /\ T.cursors = tab[t].cursors /\ T.warnings = m.canvas
  BY <1>1 DEF TabType
<1> HIDE DEF T
<1>5. /\ Follows(m, "canvas", tab[t].canvas, T.canvas) /\ Follows(m, "users", tab[t].users, T.users)
      /\ Follows(m, "cursors", tab[t].cursors, T.cursors) /\ Follows(m, "warnings", tab[t].warnings, T.warnings)
  BY <1>2, <1>4 DEF Follows, Tells, Puts
<1>6. Redrawn(t, T)
  BY <1>3, <1>4 DEF Redrawn
<1> QED BY <1>4, <1>5, <1>6, ShowsRedrawn DEF OnWarningUpdate, Orders, m, Unmoved

LEMMA ShowOnUserJoined ==
    ASSUME SessionInv, NEW t \in Tabs, OnUserJoined(t)
    PROVE  Shows(t)
PROOF
<1> DEFINE m == Received(t)
           T == [tab[t] EXCEPT !.users = @ \cup {m.user}]
<1>1. tab \in [Tabs -> TabType] /\ tab[t] \in TabType /\ PageSound(tab[t])
  BY PageFacts
<1>2. m \in ServerMsg /\ m.kind = "userJoined" /\ m.user \in Users
  BY ReceiveEffect, ServerMsgFields DEF OnUserJoined, Receive, Received
<1> HIDE DEF m
<1>3. tab' = [tab EXCEPT ![t] = T] /\ T \in TabType /\ tab[t].page # "away"
  BY <1>1, <1>2 DEF OnUserJoined, Receive, PageSound, TabType, m
<1>4. /\ T.page = tab[t].page /\ T.link = tab[t].link /\ T.connections = tab[t].connections
      /\ T.once = tab[t].once /\ T.pending = tab[t].pending /\ T.made = tab[t].made
      /\ T.joined <=> tab[t].joined
      /\ T.awaiting <=> tab[t].awaiting
      /\ T.canvas = tab[t].canvas /\ T.users = tab[t].users \cup {m.user}
      /\ T.cursors = tab[t].cursors /\ T.warnings = tab[t].warnings
  BY <1>1 DEF TabType
<1> HIDE DEF T
<1>5. /\ Follows(m, "canvas", tab[t].canvas, T.canvas) /\ Follows(m, "users", tab[t].users, T.users)
      /\ Follows(m, "cursors", tab[t].cursors, T.cursors) /\ Follows(m, "warnings", tab[t].warnings, T.warnings)
  BY <1>2, <1>4 DEF Follows, Tells, Puts
<1>6. Redrawn(t, T)
  BY <1>3, <1>4 DEF Redrawn
<1> QED BY <1>4, <1>5, <1>6, ShowsRedrawn DEF OnUserJoined, Orders, m, Unmoved

LEMMA ShowOnUserLeft ==
    ASSUME SessionInv, NEW t \in Tabs, OnUserLeft(t)
    PROVE  Shows(t)
PROOF
<1> DEFINE m == Received(t)
           T == [tab[t] EXCEPT !.users = @ \ {m.user}, !.cursors = @ \ {m.user}]
<1>1. tab \in [Tabs -> TabType] /\ tab[t] \in TabType /\ PageSound(tab[t])
  BY PageFacts
<1>2. m \in ServerMsg /\ m.kind = "userLeft" /\ m.user \in Users
  BY ReceiveEffect, ServerMsgFields DEF OnUserLeft, Receive, Received
<1> HIDE DEF m
<1>3. tab' = [tab EXCEPT ![t] = T] /\ T \in TabType /\ tab[t].page # "away"
  BY <1>1, <1>2 DEF OnUserLeft, Receive, PageSound, TabType, m
<1>4. /\ T.page = tab[t].page /\ T.link = tab[t].link /\ T.connections = tab[t].connections
      /\ T.once = tab[t].once /\ T.pending = tab[t].pending /\ T.made = tab[t].made
      /\ T.joined <=> tab[t].joined
      /\ T.awaiting <=> tab[t].awaiting
      /\ T.canvas = tab[t].canvas /\ T.users = tab[t].users \ {m.user}
      /\ T.cursors = tab[t].cursors \ {m.user} /\ T.warnings = tab[t].warnings
  BY <1>1 DEF TabType
<1> HIDE DEF T
<1>5. /\ Follows(m, "canvas", tab[t].canvas, T.canvas) /\ Follows(m, "users", tab[t].users, T.users)
      /\ Follows(m, "cursors", tab[t].cursors, T.cursors) /\ Follows(m, "warnings", tab[t].warnings, T.warnings)
  BY <1>2, <1>4 DEF Follows, Tells, Puts
<1>6. Redrawn(t, T)
  BY <1>3, <1>4 DEF Redrawn
<1> QED BY <1>4, <1>5, <1>6, ShowsRedrawn DEF OnUserLeft, Orders, m, Unmoved

LEMMA ShowOnCursor ==
    ASSUME SessionInv, NEW t \in Tabs, OnCursorBroadcast(t)
    PROVE  Shows(t)
PROOF
<1> DEFINE m == Received(t)
           T == [tab[t] EXCEPT !.cursors = @ \cup {m.user}]
<1>1. tab \in [Tabs -> TabType] /\ tab[t] \in TabType /\ PageSound(tab[t])
  BY PageFacts
<1>2. m \in ServerMsg /\ m.kind = "cursor" /\ m.user \in Users
  BY ReceiveEffect, ServerMsgFields DEF OnCursorBroadcast, Receive, Received
<1> HIDE DEF m
<1>3. tab' = [tab EXCEPT ![t] = T] /\ T \in TabType /\ tab[t].page # "away"
  BY <1>1, <1>2 DEF OnCursorBroadcast, Receive, PageSound, TabType, m
<1>4. /\ T.page = tab[t].page /\ T.link = tab[t].link /\ T.connections = tab[t].connections
      /\ T.once = tab[t].once /\ T.pending = tab[t].pending /\ T.made = tab[t].made
      /\ T.joined <=> tab[t].joined
      /\ T.awaiting <=> tab[t].awaiting
      /\ T.canvas = tab[t].canvas /\ T.users = tab[t].users
      /\ T.cursors = tab[t].cursors \cup {m.user} /\ T.warnings = tab[t].warnings
  BY <1>1 DEF TabType
<1> HIDE DEF T
<1>5. /\ Follows(m, "canvas", tab[t].canvas, T.canvas) /\ Follows(m, "users", tab[t].users, T.users)
      /\ Follows(m, "cursors", tab[t].cursors, T.cursors) /\ Follows(m, "warnings", tab[t].warnings, T.warnings)
  BY <1>2, <1>4 DEF Follows, Tells, Puts
<1>6. Redrawn(t, T)
  BY <1>3, <1>4 DEF Redrawn
<1> QED BY <1>4, <1>5, <1>6, ShowsRedrawn DEF OnCursorBroadcast, Orders, m, Unmoved

LEMMA ShowOnDenied ==
    ASSUME SessionInv, NEW t \in Tabs, OnDenied(t)
    PROVE  Shows(t)
PROOF
<1> DEFINE m == Received(t)
           T == tab[t]
<1>1. tab \in [Tabs -> TabType] /\ tab[t] \in TabType /\ PageSound(tab[t])
  BY PageFacts
<1>2. m.kind = "denied"
  BY DEF OnDenied, Receive, Received
<1>3. Redrawn(t, T)
  BY <1>1 DEF OnDenied, Receive, PageSound, Redrawn
<1> HIDE DEF m
<1>4. /\ Follows(m, "canvas", tab[t].canvas, T.canvas) /\ Follows(m, "users", tab[t].users, T.users)
      /\ Follows(m, "cursors", tab[t].cursors, T.cursors) /\ Follows(m, "warnings", tab[t].warnings, T.warnings)
  BY <1>2 DEF Follows, Tells, Puts
<1> QED BY <1>3, <1>4, ShowsRedrawn DEF OnDenied, Orders, m, Unmoved

LEMMA ShowOnItem ==
    ASSUME SessionInv, NEW t \in Tabs, OnItem(t)
    PROVE  Shows(t)
PROOF
<1> DEFINE m == Received(t)
           T == IF Listens(t, m.list) THEN [tab[t] EXCEPT !.shown[m.list] = Updated(@, m)]
                ELSE tab[t]
<1>1. tab \in [Tabs -> TabType] /\ tab[t] \in TabType /\ PageSound(tab[t])
  BY PageFacts
<1>2. m \in ServerMsg /\ m.kind = "item" /\ m \in ItemMsgs
  BY ReceiveEffect, ServerMsgFields DEF OnItem, Receive, Received
<1>3. tab' = [tab EXCEPT ![t] = T]
  BY <1>1 DEF OnItem
<1>4. T \in TabType /\ tab[t].page # "away"
  BY <1>1, <1>2 DEF OnItem, Receive, PageSound, TabType, ItemMsgs, Updated
<1>5. /\ T.page = tab[t].page /\ T.link = tab[t].link /\ T.connections = tab[t].connections
      /\ T.once = tab[t].once /\ T.pending = tab[t].pending /\ T.made = tab[t].made
      /\ T.joined <=> tab[t].joined
      /\ T.awaiting <=> tab[t].awaiting
      /\ T.canvas = tab[t].canvas /\ T.users = tab[t].users
      /\ T.cursors = tab[t].cursors /\ T.warnings = tab[t].warnings
  BY <1>1 DEF TabType
<1> HIDE DEF m, T
<1>6. /\ Follows(m, "canvas", tab[t].canvas, T.canvas) /\ Follows(m, "users", tab[t].users, T.users)
      /\ Follows(m, "cursors", tab[t].cursors, T.cursors) /\ Follows(m, "warnings", tab[t].warnings, T.warnings)
  BY <1>2, <1>5 DEF Follows, Tells, Puts
<1>7. Redrawn(t, T)
  BY <1>3, <1>4, <1>5 DEF Redrawn
<1> QED BY <1>5, <1>6, <1>7, ShowsRedrawn DEF OnItem, Orders, m, Unmoved

LEMMA ShowSteps ==
    ASSUME SessionInv, NEW t \in Tabs,
           \/ OnRoomState(t) \/ OnOperationBroadcast(t) \/ OnWarningUpdate(t) \/ OnUserJoined(t)
           \/ OnUserLeft(t) \/ OnCursorBroadcast(t) \/ OnDenied(t) \/ OnItem(t)
    PROVE  Shows(t)
BY ShowOnRoomState, ShowOnOperation, ShowOnWarning, ShowOnUserJoined, ShowOnUserLeft, ShowOnCursor,
   ShowOnDenied, ShowOnItem

LEMMA QuitSteps ==
    ASSUME SessionInv, NEW t \in Tabs, Leave(t) \/ OnLeaveOrder(t)
    PROVE  Quits(t)
PROOF
<1>1. tab \in [Tabs -> TabType] /\ tab[t] \in TabType /\ PageSound(tab[t])
  BY PageFacts
<1>2. CASE Leave(t)
  BY <1>2 DEF Leave, Quits
<1>3. CASE OnLeaveOrder(t)
  <2>1. tab[t].link # 0
    BY <1>3 DEF OnLeaveOrder
  <2>2. tab[t].pending = <<>> /\ tab[t].page = "room"
    BY <1>1, <2>1 DEF PageSound, TabType
  <2>3. Loses(tab[t].pending) = {}
    BY <2>2 DEF Loses
  <2> QED BY <1>3, <2>2, <2>3 DEF OnLeaveOrder, Unmoved, Quits
<1> QED BY <1>2, <1>3

\* What a step does, in the cases that matter.
Client(t) ==
    \/ Shows(t) \/ Quits(t)
    \/ Open(t) \/ Connect(t) \/ Drop(t) \/ EditCanvas(t) \/ MoveCursor(t)
Server ==
    \/ RunAnalysis \/ ExpireUsers \/ BroadcastRoomDeleted \/ DeleteMembers \/ DeleteRow
    \/ \E m \in announce : Announce(m)
Step ==
    \/ Aside \/ (\E t \in Tabs : Client(t)) \/ (\E s \in Sids : GatewayNext(s)) \/ Server

LEMMA NextCases ==
    ASSUME SessionInv, [Next]_vars
    PROVE  Step
PROOF
<1>1. ASSUME NEW t \in Tabs, ClientNext(t) PROVE Step
  BY <1>1, AsideSteps, ShowSteps, QuitSteps DEF ClientNext, Client, Step
<1>2. ASSUME ServerNext PROVE Step
  BY <1>2, AsideSteps DEF ServerNext, Server, Step
<1>3. ASSUME NEW s \in Sids, GatewayNext(s) PROVE Step
  BY <1>3 DEF Step
<1> QED BY <1>1, <1>2, <1>3, StillAside DEF Next, Step

LEMMA NoteOnward ==
    ASSUME NEW what, NEW happened, Note(what, happened)
    PROVE  past \subseteq past'
BY DEF Note

LEMMA ClientOnward ==
    ASSUME NEW t \in Tabs, ClientNext(t)
    PROVE  Onward
PROOF
<1>1. CASE Open(t) \/ Connect(t) \/ Drop(t) \/ ExpireToken(t) \/ Leave(t)
  BY <1>1 DEF Open, Connect, Drop, ExpireToken, Leave, Onward, redis
<1>2. CASE OnRoomState(t) \/ OnOperationBroadcast(t) \/ OnWarningUpdate(t) \/ OnUserJoined(t)
  BY <1>2, NoteOnward DEF OnRoomState, OnOperationBroadcast, OnWarningUpdate, OnUserJoined, Onward, redis, Unmoved
<1>3. CASE OnUserLeft(t) \/ OnCursorBroadcast(t) \/ OnLeaveOrder(t) \/ OnDenied(t)
  BY <1>3 DEF OnUserLeft, OnCursorBroadcast, OnLeaveOrder, OnDenied, Onward, redis, Unmoved
<1>4. CASE OnItem(t)
  <2>1. past \subseteq past'
    BY <1>4, NoteOnward DEF OnItem
  <2> QED BY <1>4, <2>1 DEF OnItem, Onward, redis, Unmoved
<1>5. CASE EditCanvas(t) \/ MoveCursor(t) \/ OpenPanel(t) \/ ClosePanel(t)
  BY <1>5, NoteOnward DEF EditCanvas, MoveCursor, OpenPanel, ClosePanel, Onward, redis, Unmoved
<1>6. ASSUME NEW l \in Lists, PostItem(t, l) \/ RemoveItem(t, l) PROVE Onward
  BY <1>6 DEF PostItem, RemoveItem, Onward, redis
<1>7. ASSUME NEW f \in fetches[t], OnRows(t, f) PROVE Onward
  BY <1>7 DEF OnRows, Onward, redis, Unmoved
<1> QED BY <1>1, <1>2, <1>3, <1>4, <1>5, <1>6, <1>7 DEF ClientNext

LEMMA GatewayOnward ==
    ASSUME NEW s \in Sids, GatewayNext(s)
    PROVE  Onward
PROOF
<1>1. CASE HandleJoinRoom(s) \/ JoinAccess(s) \/ JoinExists(s) \/ JoinWarm(s) \/ JoinAdd(s) \/ JoinGet(s)
  BY <1>1, NoteOnward DEF HandleJoinRoom, JoinAccess, JoinExists, JoinWarm, JoinAdd, JoinGet, Onward, redis
<1>2. CASE HandleDisconnect(s) \/ LeaveRemove(s) \/ LeaveNotify(s) \/ HandleCursor(s)
  BY <1>2, NoteOnward DEF HandleDisconnect, LeaveRemove, LeaveNotify, HandleCursor, Onward, redis
<1>3. CASE HandleOperation(s)
  BY <1>3, NoteOnward DEF HandleOperation, Onward
<1> QED BY <1>1, <1>2, <1>3 DEF GatewayNext

LEMMA ServerOnward ==
    ASSUME ServerNext
    PROVE  Onward
PROOF
<1>1. CASE RunAnalysis \/ ExpireUsers \/ BroadcastRoomDeleted \/ DeleteMembers \/ DeleteRow
  BY <1>1, NoteOnward DEF RunAnalysis, ExpireUsers, BroadcastRoomDeleted, DeleteMembers, DeleteRow, Onward
<1>2. ASSUME NEW m \in announce, Announce(m) PROVE Onward
  BY <1>2, NoteOnward DEF Announce, Onward, redis, Unmoved
<1>3. ASSUME NEW t \in Tabs, NEW f \in fetches[t], ReadRows(t, f) PROVE Onward
  BY <1>3 DEF ReadRows, Onward, redis, Unmoved
<1> QED BY <1>1, <1>2, <1>3 DEF ServerNext

LEMMA NextOnward ==
    ASSUME [Next]_vars
    PROVE  Onward
PROOF
<1>1. CASE UNCHANGED vars
  BY <1>1 DEF vars, redis, Onward
<1> QED BY <1>1, ClientOnward, GatewayOnward, ServerOnward DEF Next

LEMMA QuitsEffect ==
    ASSUME SessionInv, NEW t \in Tabs, Quits(t)
    PROVE  /\ tab[t].page = "room"
           /\ tab'[t].page = "away" /\ tab'[t].link = 0 /\ ~tab'[t].once /\ tab'[t].pending = <<>>
           /\ ~tab'[t].joined /\ ~tab'[t].awaiting /\ tab'[t].made = tab[t].made
           /\ tab'[t].cursors = {}
           /\ \A u \in Tabs \ {t} : tab'[u] = tab[u]
           /\ \A s \in Sids : /\ down'[s] = IF s[1] = t THEN <<>> ELSE down[s]
                              /\ Linked(s)' <=> Linked(s) /\ s[1] # t
           /\ up' = up /\ UNCHANGED <<sockets, redis>>
           /\ Loses(tab[t].pending) \subseteq past'
PROOF
<1>1. tab \in [Tabs -> TabType] /\ tab[t] \in TabType
  BY PageFacts
<1>2. Unlinks(t, Left(t))
  BY UnmountUnlinks DEF Quits
<1>3. /\ tab'[t] = Left(t) /\ \A u \in Tabs \ {t} : tab'[u] = tab[u]
      /\ \A s \in Sids : Linked(s)' <=> Linked(s) /\ s[1] # t
  BY <1>2, UnlinksEffect
<1>4. /\ Left(t).page = "away" /\ Left(t).link = 0 /\ ~Left(t).once /\ Left(t).pending = <<>>
      /\ ~Left(t).joined /\ ~Left(t).awaiting /\ Left(t).made = tab[t].made /\ Left(t).cursors = {}
  BY DEF Left, Blank
<1>5. \A s \in Sids : down'[s] = IF s[1] = t THEN <<>> ELSE down[s]
  BY <1>2 DEF Unlinks
<1> QED BY <1>3, <1>4, <1>5 DEF Quits, Unmount

LEMMA DropEffect ==
    ASSUME SessionInv, NEW t \in Tabs, Drop(t)
    PROVE  /\ tab[t].page = "room" /\ tab[t].link # 0 /\ Sid(t) \in Sids /\ Sid(t)[1] = t /\ Linked(Sid(t))
           /\ tab'[t].page = "room" /\ tab'[t].link = 0 /\ tab'[t].awaiting
           /\ tab'[t].once = tab[t].once /\ tab'[t].once /\ tab'[t].pending = <<>> /\ tab[t].pending = <<>>
           /\ tab'[t].joined = tab[t].joined /\ tab'[t].made = tab[t].made
           /\ tab'[t].cursors = tab[t].cursors
           /\ \A u \in Tabs \ {t} : tab'[u] = tab[u]
           /\ \A s \in Sids : Linked(s)' <=> Linked(s) /\ s[1] # t
           /\ \A s \in Sids : s[1] = t => down'[s] = <<>> /\ (up'[s] = up[s] \/ up'[s] = <<>>)
           /\ \A s \in Sids : s[1] # t => down'[s] = down[s]
           /\ \A s \in Sids : s # Sid(t) => up'[s] = up[s]
           /\ up'[Sid(t)] = <<>>
           /\ UNCHANGED <<sockets, redis>>
           /\ Loses(up[Sid(t)]) \subseteq past' /\ (OnWire(t, "userLeft") => "unseen leave" \in past')
PROOF
<1> DEFINE T == [tab[t] EXCEPT !.link = 0, !.awaiting = TRUE]
<1>1. tab \in [Tabs -> TabType] /\ tab[t] \in TabType /\ PageSound(tab[t])
  BY PageFacts
<1>2. Unlinks(t, T)
  BY DropUnlinks
<1>3. /\ tab'[t] = T /\ \A u \in Tabs \ {t} : tab'[u] = tab[u]
      /\ \A s \in Sids : Linked(s)' <=> Linked(s) /\ s[1] # t
  BY <1>2, UnlinksEffect
<1>4. \A s \in Sids : down'[s] = IF s[1] = t THEN <<>> ELSE down[s]
  BY <1>2 DEF Unlinks
<1>5. tab[t].link # 0 /\ Sid(t) \in Sids /\ Sid(t)[1] = t /\ Linked(Sid(t))
  BY <1>1, SidFacts DEF Drop, SessionInv
<1>6. tab[t].page = "room" /\ tab[t].once /\ tab[t].pending = <<>>
  BY <1>1, <1>5 DEF PageSound, TabType
<1>7. \A s \in Sids : up'[s] = IF s = Sid(t) THEN <<>> ELSE up[s]
  BY <1>5 DEF Drop, SessionInv, PagesTyped
<1>8. /\ T.page = tab[t].page /\ T.link = 0 /\ T.awaiting /\ T.once = tab[t].once
      /\ T.pending = tab[t].pending /\ T.joined = tab[t].joined /\ T.made = tab[t].made
      /\ T.cursors = tab[t].cursors
  BY <1>1 DEF TabType
<1>9. UNCHANGED <<sockets, redis>>
  BY DEF Drop
<1>10. Loses(up[Sid(t)]) \subseteq past' /\ (OnWire(t, "userLeft") => "unseen leave" \in past')
  BY DEF Drop
<1> HIDE DEF T
<1> QED BY <1>3, <1>4, <1>5, <1>6, <1>7, <1>8, <1>9, <1>10

LEMMA OpenEffect ==
    ASSUME SessionInv, NEW t \in Tabs, Open(t)
    PROVE  /\ tab[t].page = "away" /\ tab[t].link = 0
           /\ tab'[t].page = "room" /\ tab'[t].link = 0 /\ tab'[t].awaiting
           /\ tab'[t].once = tab[t].once /\ tab'[t].pending = <<JoinMsg>> /\ ~tab'[t].joined
           /\ tab'[t].made = tab[t].made /\ tab'[t].cursors = tab[t].cursors
           /\ \A u \in Tabs \ {t} : tab'[u] = tab[u]
           /\ \A s \in Sids : Linked(s)' <=> Linked(s)
           /\ \A s \in Sids : s[1] = t => ~Linked(s)
           /\ UNCHANGED <<up, down, sockets, redis, past>>
PROOF
<1> DEFINE T == [tab[t] EXCEPT !.page = "room", !.pending = <<JoinMsg>>, !.awaiting = TRUE]
<1>1. tab \in [Tabs -> TabType] /\ tab[t] \in TabType /\ PageSound(tab[t])
  BY PageFacts
<1>2. tab[t].page = "away" /\ tab[t].link = 0 /\ ~tab[t].joined
  BY <1>1 DEF Open, PageSound
<1>3. tab' = [tab EXCEPT ![t] = T]
  BY <1>1 DEF Open
<1>4. tab'[t] = T /\ \A u \in Tabs \ {t} : tab'[u] = tab[u]
  BY <1>1, <1>3
<1>5. /\ T.page = "room" /\ T.link = 0 /\ T.awaiting /\ T.once = tab[t].once /\ T.pending = <<JoinMsg>>
      /\ ~T.joined /\ T.made = tab[t].made /\ T.cursors = tab[t].cursors
  BY <1>1, <1>2 DEF TabType
<1>6. UNCHANGED <<up, down, sockets, redis, past>>
  BY DEF Open
<1> HIDE DEF T
<1>7. \A s \in Sids : s[1] = t => ~Linked(s)
  BY <1>2, LinkedFacts
<1>8. \A s \in Sids : s[1] = t => ~Linked(s)'
  BY <1>4, <1>5, SidsFacts DEF Linked
<1>9. \A s \in Sids : s[1] # t => (Linked(s)' <=> Linked(s))
  BY <1>4, SidsFacts DEF Linked
<1> QED BY <1>2, <1>4, <1>5, <1>6, <1>7, <1>8, <1>9

LEMMA ConnectEffect ==
    ASSUME SessionInv, NEW t \in Tabs, Connect(t)
    PROVE  \E x \in Sids :
             /\ x[1] = t /\ ~Linked(x) /\ Linked(x)' /\ x[2] = tab'[t].link
             /\ \A s \in Sids \ {x} : /\ Linked(s)' <=> Linked(s)
                                      /\ up'[s] = up[s] /\ down'[s] = down[s]
                                      /\ s \in alive' <=> s \in alive
             /\ \A s \in Sids : s[1] = t => ~Linked(s)
             /\ down[x] = <<>> /\ up[x] = <<>> /\ joins[x] = None /\ leaves[x] = None
             /\ x \notin alive /\ x \notin meta /\ x \notin inRoom
             /\ \/ up'[x] = OnConnect(t) /\ down'[x] = <<>> /\ x \in alive'
                \/ /\ up'[x] = <<>> /\ down'[x] = <<Notice("unauthorized")>> /\ x \notin alive'
                   /\ Loses(tab[t].pending) \subseteq past'
             /\ tab[t].page = "room" /\ tab[t].link = 0
             /\ tab'[t].page = "room" /\ tab'[t].once /\ tab'[t].pending = <<>>
             /\ tab'[t].joined = tab[t].joined /\ tab'[t].awaiting = tab[t].awaiting
             /\ tab'[t].made = tab[t].made /\ tab'[t].cursors = tab[t].cursors
             /\ \A u \in Tabs \ {t} : tab'[u] = tab[u]
             /\ UNCHANGED <<inRoom, meta, joins, leaves, redis>>
PROOF
<1> DEFINE n == tab[t].connections + 1
           T == [tab[t] EXCEPT !.link = n, !.connections = n, !.once = TRUE, !.pending = <<>>]
<1>1. tab \in [Tabs -> TabType] /\ tab[t] \in TabType /\ tab[t].connections \in Nat
  BY PageFacts
<1>2. PICK x \in Sids : /\ x = <<t, n>> /\ x[1] = t /\ x[2] = n /\ ~Linked(x)
                       /\ down[x] = <<>> /\ up[x] = <<>>
                       /\ x \notin alive /\ x \notin meta /\ x \notin inRoom
                       /\ joins[x] = None /\ leaves[x] = None
  BY NewSocket DEF Connect
<1>3. tab' = [tab EXCEPT ![t] = T] /\ tab[t].page = "room" /\ tab[t].link = 0
  BY <1>1 DEF Connect
<1>4. tab'[t] = T /\ \A u \in Tabs \ {t} : tab'[u] = tab[u]
  BY <1>1, <1>3
<1>5. /\ T.page = tab[t].page /\ T.link = n /\ T.once /\ T.pending = <<>> /\ T.joined = tab[t].joined
      /\ T.awaiting = tab[t].awaiting /\ T.made = tab[t].made /\ T.cursors = tab[t].cursors
  BY <1>1 DEF TabType
<1>6. /\ \A s \in Sids \ {x} : up'[s] = up[s] /\ down'[s] = down[s] /\ (s \in alive' <=> s \in alive)
      /\ \/ up'[x] = OnConnect(t) /\ down'[x] = <<>> /\ x \in alive'
         \/ /\ up'[x] = <<>> /\ down'[x] = <<Notice("unauthorized")>> /\ x \notin alive'
            /\ Loses(tab[t].pending) \subseteq past'
  <2>1. CASE tab[t].valid
    <3>1. /\ up' = [up EXCEPT ![x] = OnConnect(t)] /\ down' = down
          /\ alive' = alive \cup {x}
      BY <1>2, <2>1 DEF Connect
    <3> QED BY <1>2, <3>1 DEF SessionInv, PagesTyped
  <2>2. CASE ~tab[t].valid
    <3>1. /\ down' = [down EXCEPT ![x] = <<Notice("unauthorized")>>] /\ up' = up /\ alive' = alive
          /\ Loses(tab[t].pending) \subseteq past'
      BY <1>2, <2>2 DEF Connect
    <3> QED BY <1>2, <3>1 DEF SessionInv, PagesTyped
  <2> QED BY <2>1, <2>2
<1> HIDE DEF T
<1>7. \A s \in Sids : s[1] = t => ~Linked(s)
  BY <1>3, LinkedFacts
<1>8. Linked(x)'
  BY <1>2, <1>3, <1>4, <1>5 DEF Linked
<1>9. ASSUME NEW s \in Sids \ {x} PROVE Linked(s)' <=> Linked(s)
  <2>1. CASE s[1] = t
    <3>1. s[2] # n
      BY <2>1, <1>2, SidsFacts
    <3> QED BY <2>1, <3>1, <1>4, <1>5, <1>7 DEF Linked
  <2>2. CASE s[1] # t
    BY <2>2, <1>4, SidsFacts DEF Linked
  <2> QED BY <2>1, <2>2
<1>10. UNCHANGED <<inRoom, meta, joins, leaves, redis>>
  BY DEF Connect
<1> QED BY <1>2, <1>3, <1>4, <1>5, <1>6, <1>7, <1>8, <1>9, <1>10

\* m goes from the page of t onto its socket, or waits for one.
Sends(t, m) ==
    /\ tab[t].page = "room" /\ tab[t].joined
    /\ tab'[t].page = tab[t].page /\ tab'[t].link = tab[t].link /\ tab'[t].once = tab[t].once
    /\ tab'[t].joined = tab[t].joined /\ tab'[t].awaiting = tab[t].awaiting
    /\ tab'[t].users = tab[t].users /\ tab'[t].cursors = tab[t].cursors
    /\ tab'[t].warnings = tab[t].warnings
    /\ \A u \in Tabs \ {t} : tab'[u] = tab[u]
    /\ \A s \in Sids : Linked(s)' <=> Linked(s)
    /\ tab[t].link # 0 =>
          /\ Sid(t) \in Sids /\ Sid(t)[1] = t /\ Linked(Sid(t))
          /\ tab'[t].pending = tab[t].pending
          /\ up'[Sid(t)] = Append(up[Sid(t)], m)
          /\ \A s \in Sids \ {Sid(t)} : up'[s] = up[s]
    /\ tab[t].link = 0 => tab'[t].pending = Append(tab[t].pending, m) /\ up' = up
    /\ UNCHANGED <<down, sockets, redis>>

LEMMA EditEffect ==
    ASSUME SessionInv, NEW t \in Tabs, EditCanvas(t)
    PROVE  \E e \in Nat : /\ Sends(t, Op(e)) /\ Op(e) \in ClientMsg
                          /\ tab'[t].canvas = tab[t].canvas \cup {e}
                          /\ tab'[t].made = tab[t].made \cup {e}
                          /\ Note("edited while joining", tab[t].awaiting)
PROOF
<1>1. PICK e : e = budget.edits
  OBVIOUS
<1> DEFINE new == [tab[t] EXCEPT !.canvas = @ \cup {e}, !.made = @ \cup {e}]
<1>2. tab \in [Tabs -> TabType] /\ tab[t] \in TabType /\ PageSound(tab[t])
  BY PageFacts
<1>3. e \in Nat
  BY <1>1, SpendTyped DEF SessionInv, EditCanvas, Events
<1>4. new \in TabType
  BY <1>2, <1>3 DEF TabType
<1>5. /\ new.page = tab[t].page /\ new.link = tab[t].link /\ new.connections = tab[t].connections
      /\ new.once = tab[t].once /\ new.pending = tab[t].pending
      /\ new.joined = tab[t].joined /\ new.awaiting = tab[t].awaiting
      /\ new.users = tab[t].users /\ new.cursors = tab[t].cursors /\ new.warnings = tab[t].warnings
      /\ new.canvas = tab[t].canvas \cup {e} /\ new.made = tab[t].made \cup {e}
  BY <1>2 DEF TabType
<1>6. Emit(t, new, Op(e)) /\ Op(e) \in ClientMsg /\ tab[t].page = "room" /\ tab[t].joined
  BY <1>1, <1>3, ClientMsgs DEF EditCanvas
<1> HIDE DEF new
<1>7. /\ \A u \in Tabs \ {t} : tab'[u] = tab[u]
      /\ \A s \in Sids : Linked(s)' <=> Linked(s)
      /\ tab[t].link # 0 => /\ tab'[t] = new /\ Sid(t) \in Sids
                            /\ up'[Sid(t)] = Append(up[Sid(t)], Op(e))
                            /\ \A s \in Sids \ {Sid(t)} : up'[s] = up[s]
      /\ tab[t].link = 0 => tab'[t] = [new EXCEPT !.pending = Append(new.pending, Op(e))] /\ up' = up
  BY <1>4, <1>5, <1>6, EmitEffect
<1>8. UNCHANGED <<down, sockets, redis>> /\ Note("edited while joining", tab[t].awaiting)
  BY DEF EditCanvas
<1>9. CASE tab[t].link # 0
  <2>1. Sid(t) \in Sids /\ Sid(t)[1] = t /\ Linked(Sid(t))
    BY <1>2, <1>9, SidFacts DEF SessionInv
  <2> QED BY <1>3, <1>5, <1>6, <1>7, <1>8, <1>9, <2>1 DEF Sends
<1>10. CASE tab[t].link = 0
  <2>1. /\ tab'[t].page = new.page /\ tab'[t].link = new.link
        /\ tab'[t].once = new.once /\ tab'[t].pending = Append(new.pending, Op(e))
        /\ tab'[t].joined = new.joined /\ tab'[t].awaiting = new.awaiting
        /\ tab'[t].users = new.users /\ tab'[t].cursors = new.cursors /\ tab'[t].warnings = new.warnings
        /\ tab'[t].canvas = new.canvas /\ tab'[t].made = new.made
    BY <1>4, <1>7, <1>10 DEF TabType
  <2> QED BY <1>3, <1>5, <1>6, <1>7, <1>8, <1>10, <2>1 DEF Sends
<1> QED BY <1>9, <1>10

LEMMA MoveEffect ==
    ASSUME SessionInv, NEW t \in Tabs, MoveCursor(t)
    PROVE  /\ Sends(t, [kind |-> "cursor"]) /\ [kind |-> "cursor"] \in ClientMsg
           /\ tab'[t].canvas = tab[t].canvas /\ tab'[t].made = tab[t].made
PROOF
<1>1. PICK new, m : new = tab[t] /\ m = [kind |-> "cursor"]
  OBVIOUS
<1>2. tab \in [Tabs -> TabType] /\ tab[t] \in TabType /\ PageSound(tab[t]) /\ new \in TabType
  BY <1>1, PageFacts
<1>3. Emit(t, new, m) /\ m \in ClientMsg /\ tab[t].page = "room" /\ tab[t].joined
  BY <1>1, ClientMsgs DEF MoveCursor
<1>4. /\ new.page = tab[t].page /\ new.link = tab[t].link /\ new.connections = tab[t].connections
      /\ new.once = tab[t].once /\ new.pending = tab[t].pending
  BY <1>1
<1>5. /\ \A u \in Tabs \ {t} : tab'[u] = tab[u]
      /\ \A s \in Sids : Linked(s)' <=> Linked(s)
      /\ tab[t].link # 0 => /\ tab'[t] = new /\ Sid(t) \in Sids
                            /\ up'[Sid(t)] = Append(up[Sid(t)], m)
                            /\ \A s \in Sids \ {Sid(t)} : up'[s] = up[s]
      /\ tab[t].link = 0 => tab'[t] = [new EXCEPT !.pending = Append(new.pending, m)] /\ up' = up
  BY <1>2, <1>3, <1>4, EmitEffect
<1>6. UNCHANGED <<down, sockets, redis>>
  BY DEF MoveCursor
<1>7. CASE tab[t].link # 0
  <2>1. Sid(t) \in Sids /\ Sid(t)[1] = t /\ Linked(Sid(t))
    BY <1>2, <1>7, SidFacts DEF SessionInv
  <2> QED BY <1>1, <1>3, <1>5, <1>6, <1>7, <2>1 DEF Sends
<1>8. CASE tab[t].link = 0
  <2>1. /\ tab'[t].page = new.page /\ tab'[t].link = new.link
        /\ tab'[t].once = new.once /\ tab'[t].pending = Append(new.pending, m)
        /\ tab'[t].joined = new.joined /\ tab'[t].awaiting = new.awaiting
        /\ tab'[t].users = new.users /\ tab'[t].cursors = new.cursors /\ tab'[t].warnings = new.warnings
        /\ tab'[t].canvas = new.canvas /\ tab'[t].made = new.made
    BY <1>2, <1>5, <1>8 DEF TabType
  <2> QED BY <1>1, <1>3, <1>5, <1>6, <1>8, <2>1 DEF Sends
<1> QED BY <1>7, <1>8

\* m is sent to the sockets of S, and arrives where there is a client.
Reaches(S, m) ==
    /\ m \in ServerMsg
    /\ \A s \in Sids : down'[s] = IF s \in S /\ Linked(s) THEN Append(down[s], m) ELSE down[s]

LEMMA ReachesBySend ==
    ASSUME SessionInv, NEW S, NEW m \in ServerMsg, Send(S, m)
    PROVE  Reaches(S, m)
BY SendEffect DEF Reaches

LEMMA StillLinked ==
    ASSUME tab' = tab
    PROVE  \A s \in Sids : Linked(s)' <=> Linked(s)
BY DEF Linked

LEMMA GoesBy ==
    ASSUME SessionInv, NEW s \in Sids, joins[s].at \in {"access", "exists", "warm", "add", "get"}, NEW at, JoinGoes(s, at)
    PROVE  /\ joins[s] # None /\ joins'[s].at = at /\ joins'[s].read = joins[s].read
           /\ \A x \in Sids \ {s} : joins'[x] = joins[x]
PROOF
<1>1. joins \in [Sids -> JoinType] /\ joins[s] # None
  BY JoinTypes DEF SessionInv, SocketsTyped
<1>2. joins[s] \in [at : {"access", "exists", "warm", "add", "get"}, read : SUBSET Nat]
  BY <1>1 DEF JoinType
<1>3. joins' = [joins EXCEPT ![s] = [joins[s] EXCEPT !.at = at]]
  BY <1>1 DEF JoinGoes
<1> QED BY <1>1, <1>2, <1>3

LEMMA NoneAt == None.at = "none"
BY DEF None

LEMMA HandleJoinRoomEffect ==
    ASSUME SessionInv, NEW s \in Sids, HandleJoinRoom(s)
    PROVE  /\ s \in alive /\ up[s] # <<>> /\ Head(up[s]).kind = "joinRoom"
           /\ up'[s] = Tail(up[s]) /\ \A x \in Sids \ {s} : up'[x] = up[x] /\ joins'[x] = joins[x]
           /\ joins'[s].at = "access" /\ joins'[s] # None
           /\ UNCHANGED <<tab, down, alive, inRoom, meta, leaves, redis, past>>
PROOF
<1>1. Take(s, "joinRoom")
  BY DEF HandleJoinRoom
<1>2. /\ s \in alive /\ up[s] # <<>> /\ Head(up[s]).kind = "joinRoom"
      /\ up'[s] = Tail(up[s]) /\ \A x \in Sids \ {s} : up'[x] = up[x]
  BY <1>1, TakeEffect
<1>3. joins'[s].at = "access" /\ \A x \in Sids \ {s} : joins'[x] = joins[x]
  BY DEF HandleJoinRoom, SessionInv, SocketsTyped
<1> QED BY <1>2, <1>3, NoneAt DEF HandleJoinRoom

LEMMA JoinAccessEffect ==
    ASSUME SessionInv, NEW s \in Sids, JoinAccess(s)
    PROVE  /\ joins[s].at = "access" /\ joins[s] # None
           /\ \/ /\ room \in {"open", "closing"}
                 /\ joins'[s].at = "warm" /\ joins'[s] # None
                 /\ inRoom' = inRoom \cup ({s} \cap alive) /\ meta' = meta \cup {s}
                 /\ room = "closing" => "late entry" \in past'
                 /\ (\E x \in Sids : leaves[x] # None /\ UserAt(x) = UserAt(s)) => "crossed" \in past'
              \/ /\ room \notin {"open", "closing"}
                 /\ joins'[s].at = "exists" /\ joins'[s] # None /\ UNCHANGED <<inRoom, meta, past>>
           /\ \A x \in Sids \ {s} : joins'[x] = joins[x]
           /\ UNCHANGED <<tab, up, down, alive, leaves, redis>>
PROOF
<1>1. joins[s].at = "access" /\ joins[s] # None
  BY JoinTypes DEF JoinAccess
<1>2. UNCHANGED <<tab, up, down, alive, leaves, redis>>
  BY DEF JoinAccess, page
<1>3. CASE room \in {"open", "closing"}
  <2>1. JoinGoes(s, "warm") /\ inRoom' = Entered(s) /\ meta' = meta \cup {s}
    BY <1>3 DEF JoinAccess
  <2>2. /\ room = "closing" => "late entry" \in past'
        /\ (\E x \in Sids : leaves[x] # None /\ UserAt(x) = UserAt(s)) => "crossed" \in past'
    BY <1>3 DEF JoinAccess
  <2>3. joins'[s].at = "warm" /\ \A x \in Sids \ {s} : joins'[x] = joins[x]
    BY <1>1, <2>1, GoesBy
  <2> QED BY <1>1, <1>2, <1>3, <2>1, <2>2, <2>3, NoneAt DEF Entered
<1>4. CASE room \notin {"open", "closing"}
  <2>1. JoinGoes(s, "exists") /\ UNCHANGED <<inRoom, meta, past>>
    BY <1>4 DEF JoinAccess
  <2>3. joins'[s].at = "exists" /\ \A x \in Sids \ {s} : joins'[x] = joins[x]
    BY <1>1, <2>1, GoesBy
  <2> QED BY <1>1, <1>2, <1>4, <2>1, <2>3, NoneAt
<1> QED BY <1>3, <1>4

LEMMA JoinExistsEffect ==
    ASSUME SessionInv, NEW s \in Sids, JoinExists(s)
    PROVE  /\ joins[s].at = "exists" /\ joins[s] # None
           /\ Reaches({s}, Notice(Refusal)) /\ Notice(Refusal).kind = Refusal
           /\ room = "gone" => Refusal = "roomNotFound"
           /\ room # "gone" => Refusal = "denied" /\ "denied" \in past'
           /\ joins'[s] = None /\ \A x \in Sids \ {s} : joins'[x] = joins[x]
           /\ UNCHANGED <<tab, up, alive, inRoom, meta, leaves, redis>>
PROOF
<1>1. joins[s].at = "exists" /\ joins[s] # None
  BY JoinTypes DEF JoinExists
<1>2. Notice(Refusal) \in ServerMsg /\ Notice(Refusal).kind = Refusal
  BY ServerMsgs DEF Refusal, Orders, Notice
<1>3. Reaches({s}, Notice(Refusal))
  BY <1>2, ReachesBySend DEF JoinExists
<1>4. joins'[s] = None /\ \A x \in Sids \ {s} : joins'[x] = joins[x]
  BY DEF JoinExists, SessionInv, SocketsTyped
<1> QED BY <1>1, <1>2, <1>3, <1>4 DEF JoinExists, Refusal, Note

LEMMA JoinWarmEffect ==
    ASSUME SessionInv, NEW s \in Sids, JoinWarm(s)
    PROVE  /\ joins[s].at = "warm" /\ joins[s] # None
           /\ joins'[s].at = "add" /\ joins'[s] # None /\ joins'[s].read = live
           /\ \A x \in Sids \ {s} : joins'[x] = joins[x]
           /\ UNCHANGED <<tab, up, down, alive, inRoom, meta, leaves, redis, past>>
PROOF
<1>1. joins[s].at = "warm" /\ joins[s] # None
  BY JoinTypes DEF JoinWarm
<1>2. joins'[s] = [at |-> "add", read |-> live] /\ \A x \in Sids \ {s} : joins'[x] = joins[x]
  BY DEF JoinWarm, SessionInv, SocketsTyped
<1> QED BY <1>1, <1>2, NoneAt DEF JoinWarm, page

LEMMA JoinAddEffect ==
    ASSUME SessionInv, NEW s \in Sids, JoinAdd(s)
    PROVE  /\ joins[s].at = "add" /\ joins[s] # None
           /\ joins'[s].at = "get" /\ joins'[s] # None /\ joins'[s].read = joins[s].read
           /\ \A x \in Sids \ {s} : joins'[x] = joins[x]
           /\ active' = active \cup {UserAt(s)}
           /\ UNCHANGED <<tab, up, down, alive, inRoom, meta, leaves, room, live, timer, past>>
PROOF
<1>1. joins[s].at = "add" /\ joins[s] # None
  BY JoinTypes DEF JoinAdd
<1>2. /\ joins'[s].at = "get" /\ joins'[s].read = joins[s].read
      /\ \A x \in Sids \ {s} : joins'[x] = joins[x]
  BY <1>1, GoesBy DEF JoinAdd
<1> QED BY <1>1, <1>2, NoneAt DEF JoinAdd, page

LEMMA JoinGetEffect ==
    ASSUME SessionInv, NEW s \in Sids, JoinGet(s)
    PROVE  /\ joins[s].at = "get" /\ joins[s] # None
           /\ joins'[s] = None /\ \A x \in Sids \ {s} : joins'[x] = joins[x]
           /\ UNCHANGED <<tab, up, alive, inRoom, meta, leaves, redis, past>>
PROOF
<1>1. joins[s].at = "get" /\ joins[s] # None
  BY JoinTypes DEF JoinGet
<1>2. joins'[s] = None /\ \A x \in Sids \ {s} : joins'[x] = joins[x]
  BY DEF JoinGet, SessionInv, SocketsTyped
<1> QED BY <1>1, <1>2 DEF JoinGet

LEMMA DisconnectEffect ==
    ASSUME SessionInv, NEW s \in Sids, HandleDisconnect(s)
    PROVE  /\ s \in alive /\ ~Linked(s) /\ up[s] = <<>>
           /\ alive' = alive \ {s} /\ inRoom' = inRoom \ {s}
           /\ s \in meta => leaves'[s].at = "remove" /\ leaves'[s] # None
           /\ s \notin meta => leaves'[s] = leaves[s]
           /\ \A x \in Sids \ {s} : leaves'[x] = leaves[x]
           /\ Note("crossed", \/ joins[s] # None
                              \/ \E x \in Sids : x # s /\ UserAt(x) = UserAt(s) /\ {x, s} \subseteq meta)
           /\ UNCHANGED <<tab, up, down, meta, joins, redis>>
PROOF
<1>1. /\ s \in meta => leaves'[s].at = "remove"
      /\ s \notin meta => leaves'[s] = leaves[s]
      /\ \A x \in Sids \ {s} : leaves'[x] = leaves[x]
  BY DEF HandleDisconnect, SessionInv, SocketsTyped
<1> QED BY <1>1, NoneAt DEF HandleDisconnect, page

LEMMA LeaveRemoveEffect ==
    ASSUME SessionInv, NEW s \in Sids, LeaveRemove(s)
    PROVE  /\ leaves[s].at = "remove" /\ leaves[s] # None /\ s \notin alive
           /\ leaves'[s].at = "notify" /\ leaves'[s] # None
           /\ \A x \in Sids \ {s} : leaves'[x] = leaves[x]
           /\ active' = active \ {UserAt(s)} /\ meta' = meta \ {s}
           /\ UNCHANGED <<tab, up, down, alive, inRoom, joins, room, live, timer, past>>
PROOF
<1>1. leaves[s].at = "remove" /\ leaves[s] # None
  BY LeaveTypes DEF LeaveRemove
<1>2. leaves[s] \in [at : {"remove", "notify"}] /\ leaves \in [Sids -> LeaveType]
  BY <1>1 DEF SessionInv, SocketsTyped, LeaveType
<1>3. leaves' = [leaves EXCEPT ![s] = [leaves[s] EXCEPT !.at = "notify"]]
  BY <1>2 DEF LeaveRemove
<1>4. leaves'[s].at = "notify" /\ \A x \in Sids \ {s} : leaves'[x] = leaves[x]
  BY <1>2, <1>3
<1>5. s \notin alive
  BY <1>1 DEF SessionInv
<1> QED BY <1>1, <1>4, <1>5, NoneAt DEF LeaveRemove, page

LEMMA LeaveNotifyEffect ==
    ASSUME SessionInv, NEW s \in Sids, LeaveNotify(s)
    PROVE  /\ leaves[s].at = "notify" /\ leaves[s] # None /\ s \notin alive
           /\ leaves'[s] = None /\ \A x \in Sids \ {s} : leaves'[x] = leaves[x]
           /\ Reaches(inRoom, Presence("userLeft", UserAt(s)))
           /\ Note("unseen leave", \E t \in Tabs : UserAt(s) \in tab[t].cursors /\ CutOff(t))
           /\ UNCHANGED <<tab, up, alive, inRoom, meta, joins, redis>>
PROOF
<1>1. leaves[s].at = "notify" /\ leaves[s] # None
  BY LeaveTypes DEF LeaveNotify
<1>2. leaves'[s] = None /\ \A x \in Sids \ {s} : leaves'[x] = leaves[x]
  BY DEF LeaveNotify, SessionInv, SocketsTyped
<1>3. Presence("userLeft", UserAt(s)) \in ServerMsg
  BY SidsFacts, ServerMsgs
<1>4. Reaches(inRoom, Presence("userLeft", UserAt(s)))
  BY <1>3, ReachesBySend DEF LeaveNotify
<1>5. s \notin alive
  BY <1>1 DEF SessionInv
<1> QED BY <1>1, <1>2, <1>4, <1>5 DEF LeaveNotify

LEMMA HandleOperationEffect ==
    ASSUME SessionInv, NEW s \in Sids, HandleOperation(s)
    PROVE  /\ s \in alive /\ up[s] # <<>> /\ Head(up[s]).kind = "operation" /\ Head(up[s]).edit \in Nat
           /\ up'[s] = Tail(up[s]) /\ \A x \in Sids \ {s} : up'[x] = up[x]
           /\ \/ room = "gone" /\ UNCHANGED <<down, live, timer, past>>
              \/ /\ room # "gone" /\ live' = live \cup {Head(up[s]).edit}
                 /\ Reaches(inRoom \ {s}, Op(Head(up[s]).edit)) /\ timer' = TRUE
                 /\ Note("edited meanwhile", \E x \in Sids : joins[x].at \in {"add", "get"})
           /\ UNCHANGED <<tab, sockets, room, active>>
PROOF
<1>1. Take(s, "operation")
  BY DEF HandleOperation
<1>2. /\ s \in alive /\ up[s] # <<>> /\ Head(up[s]).kind = "operation" /\ Head(up[s]) \in ClientMsg
      /\ up'[s] = Tail(up[s]) /\ \A x \in Sids \ {s} : up'[x] = up[x]
  BY <1>1, TakeEffect
<1>3. Head(up[s]).edit \in Nat /\ Op(Head(up[s]).edit) \in ServerMsg
  BY <1>2, ClientMsgFields, ClientMsgs
<1>4. room # "gone" => Reaches(inRoom \ {s}, Op(Head(up[s]).edit))
  BY <1>3, ReachesBySend DEF HandleOperation
<1> QED BY <1>2, <1>3, <1>4 DEF HandleOperation, Scheduled

LEMMA HandleCursorEffect ==
    ASSUME SessionInv, NEW s \in Sids, HandleCursor(s)
    PROVE  /\ s \in alive /\ up[s] # <<>> /\ Head(up[s]).kind = "cursor"
           /\ up'[s] = Tail(up[s]) /\ \A x \in Sids \ {s} : up'[x] = up[x]
           /\ (s \in meta /\ Reaches(inRoom \ {s}, Cursor(UserAt(s)))) \/ down' = down
           /\ UNCHANGED <<tab, sockets, redis, past>>
PROOF
<1>1. Take(s, "cursor")
  BY DEF HandleCursor
<1>2. /\ s \in alive /\ up[s] # <<>> /\ Head(up[s]).kind = "cursor"
      /\ up'[s] = Tail(up[s]) /\ \A x \in Sids \ {s} : up'[x] = up[x]
  BY <1>1, TakeEffect
<1>3. Cursor(UserAt(s)) \in ServerMsg
  BY SidsFacts, ServerMsgs
<1>4. (s \in meta /\ Reaches(inRoom \ {s}, Cursor(UserAt(s)))) \/ down' = down
  BY <1>3, ReachesBySend DEF HandleCursor
<1> QED BY <1>2, <1>4 DEF HandleCursor

LEMMA RunAnalysisEffect ==
    ASSUME SessionInv, RunAnalysis
    PROVE  /\ ~timer' /\ timer
           /\ IF room = "gone" THEN down' = down ELSE Reaches(inRoom, WarningUpdate(live))
           /\ Note("overtaken", \E s \in Sids : joins[s].at \in {"add", "get"} /\ joins[s].read # live)
           /\ UNCHANGED <<tab, up, sockets, room, live, active>>
PROOF
<1>1. WarningUpdate(live) \in ServerMsg
  BY ServerMsgs DEF SessionInv, RoomTyped
<1>2. room # "gone" => Reaches(inRoom, WarningUpdate(live))
  BY <1>1, ReachesBySend DEF RunAnalysis
<1> QED BY <1>2 DEF RunAnalysis

LEMMA BroadcastDeletedEffect ==
    ASSUME SessionInv, BroadcastRoomDeleted
    PROVE  /\ room = "open" /\ room' = "closing"
           /\ Reaches(inRoom, Notice("roomDeleted")) /\ Notice("roomDeleted").kind = "roomDeleted"
           /\ UNCHANGED <<tab, up, sockets, live, active, timer, past>>
PROOF
<1>1. Notice("roomDeleted") \in ServerMsg /\ Notice("roomDeleted").kind = "roomDeleted"
  BY ServerMsgs DEF Orders, Notice
<1> QED BY <1>1, ReachesBySend DEF BroadcastRoomDeleted

LEMMA AnnounceEffect ==
    ASSUME SessionInv, NEW m \in announce, Announce(m)
    PROVE  Reaches(inRoom, m) /\ m.kind = "item" /\ UNCHANGED <<tab, up, sockets, redis>>
PROOF
<1>1. m \in ServerMsg /\ m.kind = "item"
  BY ServerMsgs DEF SessionInv, PanelsTyped, ItemMsgs
<1> QED BY <1>1, ReachesBySend DEF Announce, Unmoved, Audience

LEMMA DeletionEffect ==
    ASSUME DeleteMembers \/ DeleteRow
    PROVE  room # "open" /\ room' # "open" /\ UNCHANGED <<tab, up, down, sockets>>
BY DEF DeleteMembers, DeleteRow, page

LEMMA ExpireUsersEffect ==
    ASSUME ExpireUsers
    PROVE  "expired" \in past' /\ active' = {} /\ UNCHANGED <<tab, up, down, sockets, room, live, timer>>
BY DEF ExpireUsers, page

LEMMA TwoMore ==
    ASSUME NEW S, NEW q \in Seq(S), NEW m \in S, NEW n \in S
    PROVE  q \o <<m, n>> = Append(Append(q, m), n)
OBVIOUS

LEMMA JoinGetSends ==
    ASSUME SessionInv, NEW s \in Sids, JoinGet(s)
    PROVE  \E m, n, j \in ServerMsg :
             /\ m.kind = "roomState" /\ m.canvas = joins[s].read /\ m.users = active
             /\ n.kind = "warningUpdate" /\ n.canvas = joins[s].read
             /\ j.kind = "userJoined" /\ j.user = UserAt(s)
             /\ Append(down[s], m) \in Seq(ServerMsg)
             /\ Linked(s) => down'[s] = Append(Append(down[s], m), n)
             /\ ~Linked(s) => down'[s] = down[s]
             /\ \A x \in Sids \ {s} : Linked(x) /\ x \in inRoom => down'[x] = Append(down[x], j)
             /\ \A x \in Sids \ {s} : ~Linked(x) \/ x \notin inRoom => down'[x] = down[x]
PROOF
<1>1. PICK m, n, j : /\ m = RoomState(joins[s].read, active)
                     /\ n = WarningUpdate(joins[s].read)
                     /\ j = Presence("userJoined", UserAt(s))
  OBVIOUS
<1>2. /\ m \in ServerMsg /\ n \in ServerMsg /\ j \in ServerMsg
      /\ \A x \in Sids : ~Linked(x) => down'[x] = down[x]
      /\ Linked(s) => down'[s] = down[s] \o <<m, n>>
      /\ \A x \in Sids \ {s} : Linked(x) =>
            down'[x] = IF x \in inRoom THEN Append(down[x], j) ELSE down[x]
  BY <1>1, JoinReplyEffect
<1>3. /\ m.kind = "roomState" /\ m.canvas = joins[s].read /\ m.users = active
      /\ n.kind = "warningUpdate" /\ n.canvas = joins[s].read
      /\ j.kind = "userJoined" /\ j.user = UserAt(s)
  BY <1>1 DEF RoomState, WarningUpdate, Presence
<1>4. down[s] \in Seq(ServerMsg)
  BY DEF SessionInv, PagesTyped
<1>5. Append(down[s], m) \in Seq(ServerMsg)
  BY <1>2, <1>4, QueueFacts
<1>6. down[s] \o <<m, n>> = Append(Append(down[s], m), n)
  BY <1>2, <1>4, TwoMore
<1> QED BY <1>2, <1>3, <1>5, <1>6

-----------------------------------------------------------------------------
(* A client joins once for each connection, and waits for the answer.      *)

\* The joins and the sockets of s stay as they are.
SameAt(s) ==
    /\ joins'[s] = joins[s] /\ (s \in meta' <=> s \in meta) /\ (s \in inRoom' <=> s \in inRoom)

LEMMA WiredStays ==
    ASSUME SessionInv, NEW s \in Sids, Wired(s), SameAt(s), up'[s] = up[s], down'[s] = down[s],
           LET T == tab[s[1]]
               U == tab'[s[1]]
           IN  U.page = "room" /\ U.link = s[2] =>
                  /\ T.page = "room" /\ T.link = s[2]
                  /\ (T.joined => U.joined) /\ (T.awaiting => U.awaiting)
    PROVE  Wired(s)'
BY DEF Wired, WireOK, Listening, SameAt

LEMMA WiredHears ==
    ASSUME SessionInv, NEW s \in Sids, Wired(s), SameAt(s), up'[s] = up[s], tab' = tab,
           NEW S, NEW m, Reaches(S, m), m.kind # "roomState",
           S \subseteq inRoom \/ m.kind \in Orders \cup {"denied"}
    PROVE  Wired(s)'
PROOF
<1>1. m \in ServerMsg /\ down'[s] = IF s \in S /\ Linked(s) THEN Append(down[s], m) ELSE down[s]
  BY DEF Reaches
<1>2. down[s] \in Seq(ServerMsg)
  BY DEF SessionInv, PagesTyped
<1>3. CASE s \in S /\ Linked(s)
  <2>1. Has(down'[s], State) <=> Has(down[s], State)
    BY <1>1, <1>2, <1>3, HasAppended DEF State
  <2>2. Single(down[s], "roomState") => Single(down'[s], "roomState")
    BY <1>1, <1>2, <1>3, SingleAppended
  <2>3. ASSUME \A i \in DOMAIN down[s] : down[s][i].kind \in Orders \cup {"denied"},
               m.kind \in Orders \cup {"denied"}
        PROVE  \A i \in DOMAIN down'[s] : down'[s][i].kind \in Orders \cup {"denied"}
    BY <1>1, <1>2, <1>3, <2>3, Appended
  <2>4. s \in inRoom \/ m.kind \in Orders \cup {"denied"}
    BY <1>3
  <2> QED BY <2>1, <2>2, <2>3, <2>4 DEF Wired, WireOK, JoinsOnce, Listening, SameAt
<1>4. CASE ~(s \in S /\ Linked(s))
  BY <1>1, <1>4 DEF Wired, SameAt
<1> QED BY <1>3, <1>4

LEMMA WiredTakes ==
    ASSUME SessionInv, NEW s \in Sids, Wired(s), up[s] # <<>>, Head(up[s]).kind # "joinRoom"
    PROVE  WireOK(tab[s[1]], s[2], Tail(up[s]), down[s], joins[s], s \in meta, s \in inRoom)
PROOF
<1>1. up[s] \in Seq(ClientMsg)
  BY DEF SessionInv, PagesTyped
<1>2. Has(Tail(up[s]), Join) <=> Has(up[s], Join)
  BY <1>1, HasTaken DEF Join
<1>3. Single(up[s], "joinRoom") => Single(Tail(up[s]), "joinRoom")
  BY <1>1, SingleTaken
<1> QED BY <1>2, <1>3 DEF Wired, WireOK, JoinsOnce, Listening

LEMMA WiredEmits ==
    ASSUME SessionInv, NEW s \in Sids, Wired(s), NEW m \in ClientMsg, m.kind # "joinRoom"
    PROVE  WireOK(tab[s[1]], s[2], Append(up[s], m), down[s], joins[s], s \in meta, s \in inRoom)
PROOF
<1>1. up[s] \in Seq(ClientMsg)
  BY DEF SessionInv, PagesTyped
<1>2. Has(Append(up[s], m), Join) <=> Has(up[s], Join)
  BY <1>1, HasAppended DEF Join
<1>3. Single(up[s], "joinRoom") => Single(Append(up[s], m), "joinRoom")
  BY <1>1, SingleAppended
<1> QED BY <1>2, <1>3 DEF Wired, WireOK, JoinsOnce, Listening

\* As long as the room is open, nobody is turned away.
Timely ==
    /\ past' \cap {"late entry", "denied"} \subseteq past
    /\ \A s \in Sids : joins'[s].at = "exists" => joins[s].at = "exists"

LEMMA TimelyStays ==
    ASSUME InTime, Timely, room' = "open" => room = "open"
    PROVE  InTime'
BY DEF InTime, Timely

LEMMA NoteTimely ==
    ASSUME NEW what, NEW happened, what \notin {"late entry", "denied"}, Note(what, happened)
    PROVE  past' \cap {"late entry", "denied"} \subseteq past
BY DEF Note

LEMMA LosesTimely ==
    ASSUME NEW q
    PROVE  "late entry" \notin Loses(q) /\ "denied" \notin Loses(q)
BY DEF Loses

LEMMA ClientTimely ==
    ASSUME NEW t \in Tabs, ClientNext(t)
    PROVE  Timely
PROOF
<1>1. CASE Open(t) \/ Connect(t) \/ Drop(t) \/ ExpireToken(t) \/ Leave(t)
  <2>1. past' \cap {"late entry", "denied"} \subseteq past
    BY <1>1, LosesTimely DEF Open, Connect, Drop, ExpireToken, Leave
  <2> QED BY <1>1, <2>1 DEF Open, Connect, Drop, ExpireToken, Leave, Timely, sockets
<1>2. CASE OnRoomState(t) \/ OnOperationBroadcast(t) \/ OnWarningUpdate(t) \/ OnUserJoined(t)
  <2>1. past' \cap {"late entry", "denied"} \subseteq past
    BY <1>2, NoteTimely DEF OnRoomState, OnOperationBroadcast, OnWarningUpdate, OnUserJoined
  <2> QED BY <1>2, <2>1 DEF OnRoomState, OnOperationBroadcast, OnWarningUpdate, OnUserJoined, Timely, sockets, Unmoved
<1>3. CASE OnUserLeft(t) \/ OnCursorBroadcast(t) \/ OnLeaveOrder(t) \/ OnDenied(t)
  BY <1>3 DEF OnUserLeft, OnCursorBroadcast, OnLeaveOrder, OnDenied, Timely, sockets, Unmoved
<1>4. CASE OnItem(t)
  <2>1. past' \cap {"late entry", "denied"} \subseteq past
    BY <1>4, NoteTimely DEF OnItem
  <2> QED BY <1>4, <2>1 DEF OnItem, Timely, sockets, Unmoved
<1>5. CASE EditCanvas(t) \/ MoveCursor(t) \/ OpenPanel(t) \/ ClosePanel(t)
  <2>1. past' \cap {"late entry", "denied"} \subseteq past
    BY <1>5 DEF EditCanvas, MoveCursor, OpenPanel, ClosePanel, Unmoved, Note
  <2> QED BY <1>5, <2>1 DEF EditCanvas, MoveCursor, OpenPanel, ClosePanel, Timely, sockets, Unmoved
<1>6. ASSUME NEW l \in Lists, PostItem(t, l) \/ RemoveItem(t, l) PROVE Timely
  BY <1>6 DEF PostItem, RemoveItem, Timely, sockets
<1>7. ASSUME NEW f \in fetches[t], OnRows(t, f) PROVE Timely
  BY <1>7 DEF OnRows, Timely, sockets, Unmoved
<1> QED BY <1>1, <1>2, <1>3, <1>4, <1>5, <1>6, <1>7 DEF ClientNext

LEMMA GatewayInTime ==
    ASSUME SessionInv, InTime, NEW s \in Sids, GatewayNext(s)
    PROVE  InTime'
PROOF
<1>1. room' = "open" => room = "open"
  BY GatewayOnward DEF Onward
<1>2. CASE HandleJoinRoom(s)
  <2>1. Timely
    BY <1>2, HandleJoinRoomEffect DEF Timely
  <2> QED BY <1>1, <2>1, TimelyStays
<1>3. CASE JoinAccess(s)
  <2>1. CASE room = "open"
    <3>1. past' \cap {"late entry", "denied"} \subseteq past
      BY <1>3, <2>1 DEF JoinAccess
    <3>2. joins'[s].at = "warm" /\ \A x \in Sids \ {s} : joins'[x] = joins[x]
      BY <1>3, <2>1, JoinAccessEffect
    <3> QED BY <1>1, <3>1, <3>2, TimelyStays DEF Timely
  <2>2. CASE room # "open"
    BY <1>1, <2>2 DEF InTime
  <2> QED BY <2>1, <2>2
<1>4. CASE JoinExists(s)
  <2>1. room # "open"
    BY <1>4, JoinExistsEffect DEF InTime
  <2> QED BY <1>1, <2>1 DEF InTime
<1>5. CASE JoinWarm(s) \/ JoinAdd(s) \/ JoinGet(s)
  <2>1. Timely
    BY <1>5, JoinWarmEffect, JoinAddEffect, JoinGetEffect, NoneAt DEF Timely
  <2> QED BY <1>1, <2>1, TimelyStays
<1>6. CASE HandleDisconnect(s) \/ LeaveRemove(s) \/ LeaveNotify(s)
  <2>1. past' \cap {"late entry", "denied"} \subseteq past
    BY <1>6, NoteTimely DEF HandleDisconnect, LeaveRemove, LeaveNotify
  <2> QED BY <1>1, <1>6, <2>1, TimelyStays DEF Timely, HandleDisconnect, LeaveRemove, LeaveNotify
<1>7. CASE HandleOperation(s) \/ HandleCursor(s)
  <2>1. past' \cap {"late entry", "denied"} \subseteq past
    BY <1>7, NoteTimely DEF HandleOperation, HandleCursor
  <2> QED BY <1>1, <1>7, <2>1, TimelyStays DEF Timely, HandleOperation, HandleCursor, sockets
<1> QED BY <1>2, <1>3, <1>4, <1>5, <1>6, <1>7 DEF GatewayNext

LEMMA ServerTimely ==
    ASSUME ServerNext
    PROVE  Timely
PROOF
<1>1. CASE RunAnalysis \/ ExpireUsers \/ BroadcastRoomDeleted \/ DeleteMembers \/ DeleteRow
  <2>1. past' \cap {"late entry", "denied"} \subseteq past
    BY <1>1, NoteTimely DEF RunAnalysis, ExpireUsers, BroadcastRoomDeleted, DeleteMembers, DeleteRow
  <2> QED BY <1>1, <2>1 DEF RunAnalysis, ExpireUsers, BroadcastRoomDeleted, DeleteMembers, DeleteRow, Timely, sockets
<1>2. ASSUME NEW m \in announce, Announce(m) PROVE Timely
  <2>1. past' \cap {"late entry", "denied"} \subseteq past
    BY <1>2, NoteTimely DEF Announce
  <2> QED BY <1>2, <2>1 DEF Announce, Timely, sockets, Unmoved
<1>3. ASSUME NEW t \in Tabs, NEW f \in fetches[t], ReadRows(t, f) PROVE Timely
  BY <1>3 DEF ReadRows, Timely, sockets, Unmoved
<1> QED BY <1>1, <1>2, <1>3 DEF ServerNext

LEMMA NextInTime ==
    ASSUME SessionInv, InTime, [Next]_vars
    PROVE  InTime'
PROOF
<1>1. room' = "open" => room = "open"
  BY NextOnward DEF Onward
<1>2. CASE UNCHANGED vars
  BY <1>2 DEF vars, sockets, redis, InTime
<1> QED BY <1>1, <1>2, ClientTimely, GatewayInTime, ServerTimely, TimelyStays DEF Next

WireNow == AllWait /\ \A s \in Sids : Wired(s)

LEMMA QueueTypes ==
    ASSUME SessionInv, NEW s \in Sids
    PROVE  up[s] \in Seq(ClientMsg) /\ down[s] \in Seq(ServerMsg)
BY DEF SessionInv, PagesTyped

LEMMA OneSocket ==
    ASSUME NEW s \in Sids, NEW t \in Tabs, s # Sid(t), s[1] = t
    PROVE  ~Linked(s) /\ tab[t].link # s[2]
BY LinkedFacts, SidsFacts DEF Linked, Sid

LEMMA AsideWire ==
    ASSUME SessionInv, WireNow, Aside
    PROVE  WireNow'
PROOF
<1>1. AllWait'
  BY DEF Aside, Alike, WireNow, AllWait, Waits
<1>2. ASSUME NEW s \in Sids PROVE Wired(s)'
  <2>1. Wired(s) /\ SameAt(s) /\ up'[s] = up[s] /\ down'[s] = down[s] /\ s[1] \in Tabs
    BY SidsFacts DEF Aside, sockets, WireNow, SameAt
  <2> QED BY <2>1, WiredStays DEF Aside, Alike
<1> QED BY <1>1, <1>2 DEF WireNow

LEMMA ShowsWire ==
    ASSUME SessionInv, WireNow, NEW t \in Tabs, Shows(t)
    PROVE  WireNow'
PROOF
<1>1. AllWait'
  BY DEF Shows, WireNow, AllWait, Waits
<1>2. ASSUME NEW s \in Sids, s # Sid(t) PROVE Wired(s)'
  <2>1. Wired(s) /\ SameAt(s) /\ up'[s] = up[s] /\ down'[s] = down[s] /\ s[1] \in Tabs
    BY <1>2, SidsFacts DEF Shows, sockets, WireNow, SameAt
  <2>2. CASE s[1] = t
    <3>1. tab'[s[1]].link # s[2]
      BY <1>2, <2>2, OneSocket DEF Shows
    <3> QED BY <2>1, <3>1, WiredStays
  <2>3. CASE s[1] # t
    <3>1. tab'[s[1]] = tab[s[1]]
      BY <2>1, <2>3 DEF Shows
    <3> QED BY <2>1, <3>1, WiredStays
  <2> QED BY <2>2, <2>3
<1>3. ASSUME NEW s \in Sids, s = Sid(t) PROVE Wired(s)'
  <2>2. /\ Wired(s) /\ up'[s] = up[s] /\ s[1] = t /\ Linked(s)
        /\ meta' = meta /\ inRoom' = inRoom /\ joins' = joins
        /\ down[s] # <<>> /\ down'[s] = Tail(down[s])
    BY <1>3, Pair DEF Shows, sockets, WireNow, Sid
  <2>3. down[s] \in Seq(ServerMsg) /\ Received(t) = Head(down[s])
    BY <1>3, QueueTypes DEF Received
  <2>4. Has(down[s], State) <=> Received(t).kind = "roomState" \/ Has(down'[s], State)
    BY <2>2, <2>3, HasTaken DEF State
  <2>4a. Single(down[s], "roomState") =>
            Single(down'[s], "roomState") /\ (Received(t).kind = "roomState" => ~Has(down'[s], State))
    BY <2>2, <2>3, SingleTaken DEF State
  <2>5. ASSUME \A i \in DOMAIN down[s] : down[s][i].kind \in Orders \cup {"denied"}
        PROVE  /\ \A i \in DOMAIN down'[s] : down'[s][i].kind \in Orders \cup {"denied"}
               /\ Received(t).kind \in Orders \cup {"denied"}
    BY <2>2, <2>3, <2>5, Taken
  <2>6. Listening(tab[t], up[s], down[s], joins[s], s \in meta, s \in inRoom) /\ JoinsOnce(up[s], down[s], joins[s], s \in meta)
    BY <2>2 DEF Wired, WireOK, Linked
  <2>7. JoinsOnce(up[s], down'[s], joins[s], s \in meta)
    BY <2>4, <2>4a, <2>6 DEF JoinsOnce
  <2>8. Listening(tab'[t], up[s], down'[s], joins[s], s \in meta, s \in inRoom)
    <3>1. CASE Received(t).kind = "roomState"
      <4>1. /\ Has(down[s], State) /\ ~Has(down'[s], State) /\ tab'[t].joined /\ ~tab'[t].awaiting
            /\ "roomState" \notin Orders \cup {"denied"}
        BY <2>4, <2>4a, <2>6, <3>1 DEF Shows, JoinsOnce, Orders
      <4>2. ~Has(up[s], Join) /\ joins[s] = None
        BY <2>6, <4>1 DEF JoinsOnce
      <4>3. s \in inRoom
        BY <2>5, <2>6, <3>1, <4>1 DEF Listening
      <4> QED BY <2>6, <4>1, <4>2, <4>3 DEF Listening
    <3>2. CASE Received(t).kind # "roomState"
      <4>1. /\ Has(down[s], State) <=> Has(down'[s], State)
            /\ (tab'[t].joined <=> tab[t].joined) /\ (tab'[t].awaiting <=> tab[t].awaiting)
        BY <2>4, <3>2 DEF Shows
      <4> QED BY <2>5, <2>6, <4>1 DEF Listening
    <3> QED BY <3>1, <3>2
  <2> QED BY <2>2, <2>7, <2>8 DEF Wired, WireOK
<1> QED BY <1>1, <1>2, <1>3 DEF WireNow

LEMMA QuitsWire ==
    ASSUME SessionInv, WireNow, NEW t \in Tabs, Quits(t)
    PROVE  WireNow'
PROOF
<1>1. AllWait'
  BY QuitsEffect, HasNothing DEF WireNow, AllWait, Waits, Single
<1>2. ASSUME NEW s \in Sids PROVE Wired(s)'
  <2>1. Wired(s) /\ SameAt(s) /\ up'[s] = up[s] /\ s[1] \in Tabs
    BY <1>2, SidsFacts, QuitsEffect DEF sockets, WireNow, SameAt
  <2>2. CASE s[1] = t
    <3>1. tab'[s[1]].page # "room" /\ down'[s] = <<>>
      BY <2>2, QuitsEffect
    <3> QED BY <2>1, <3>1, HasNothing DEF Wired, WireOK, JoinsOnce, SameAt, Single
  <2>3. CASE s[1] # t
    <3>1. tab'[s[1]] = tab[s[1]] /\ down'[s] = down[s]
      BY <2>1, <2>3, QuitsEffect
    <3> QED BY <2>1, <3>1, WiredStays
  <2> QED BY <2>2, <2>3
<1> QED BY <1>1, <1>2 DEF WireNow

LEMMA DropWire ==
    ASSUME SessionInv, WireNow, NEW t \in Tabs, Drop(t)
    PROVE  WireNow'
PROOF
<1>a. Sid(t)[1] = t
  BY DropEffect
<1>b. \A u \in Tabs \ {t} : tab'[u] = tab[u]
  BY DropEffect
<1>c. /\ \A s \in Sids : s[1] = t => down'[s] = <<>> /\ (up'[s] = up[s] \/ up'[s] = <<>>)
      /\ \A s \in Sids : s[1] # t => down'[s] = down[s]
      /\ \A s \in Sids : s # Sid(t) => up'[s] = up[s]
  BY DropEffect
<1>d. tab'[t].link = 0
  BY DropEffect
<1>1. ASSUME NEW u \in Tabs PROVE Waits(tab'[u])
  <2>1. CASE u = t
    <3>1. /\ tab'[t].page = "room" /\ tab'[t].link = 0 /\ tab'[t].awaiting
          /\ tab'[t].once /\ tab'[t].pending = <<>>
      BY DropEffect
    <3> QED BY <2>1, <3>1, HasNothing DEF Waits, Single
  <2>2. CASE u # t
    BY <2>2, <1>b DEF WireNow, AllWait
  <2> QED BY <2>1, <2>2
<1>2. ASSUME NEW s \in Sids PROVE Wired(s)'
  <2>1. Wired(s) /\ SameAt(s) /\ s[1] \in Tabs /\ s[2] # 0
    BY <1>2, SidsFacts, DropEffect DEF sockets, WireNow, SameAt
  <2>2. CASE s[1] = t
    <3>1. tab'[s[1]].link # s[2] /\ down'[s] = <<>> /\ (up'[s] = up[s] \/ up'[s] = <<>>)
      BY <2>1, <2>2, <1>c, <1>d
    <3> QED BY <2>1, <3>1, HasNothing DEF Wired, WireOK, JoinsOnce, SameAt, Single
  <2>3. CASE s[1] # t
    <3>1. s # Sid(t)
      BY <2>3, <1>a
    <3>2. tab'[s[1]] = tab[s[1]] /\ down'[s] = down[s] /\ up'[s] = up[s]
      BY <2>1, <2>3, <3>1, <1>b, <1>c
    <3> QED BY <2>1, <3>2, WiredStays
  <2> QED BY <2>2, <2>3
<1> QED BY <1>1, <1>2 DEF WireNow, AllWait

LEMMA OneMessage ==
    ASSUME NEW m
    PROVE  /\ DOMAIN <<m>> = {1} /\ <<m>>[1] = m
           /\ \A K : Has(<<m>>, K) <=> m.kind \in K
           /\ \A kind : Single(<<m>>, kind)
           /\ \A e : Carries(<<m>>, e) <=> m.kind = "operation" /\ m.edit = e
PROOF
<1>1. DOMAIN <<m>> = {1} /\ <<m>>[1] = m
  OBVIOUS
<1> QED BY <1>1 DEF Has, Single, Carries

LEMMA OpenWire ==
    ASSUME SessionInv, WireNow, NEW t \in Tabs, Open(t)
    PROVE  WireNow'
PROOF
<1>1. ASSUME NEW u \in Tabs PROVE Waits(tab'[u])
  <2>1. CASE u = t
    <3>1. /\ tab'[t].page = "room" /\ tab'[t].link = 0 /\ tab'[t].awaiting
          /\ ~tab'[t].once /\ tab'[t].pending = <<JoinMsg>>
      BY OpenEffect DEF WireNow, AllWait, Waits
    <3>2. Has(<<JoinMsg>>, Join) /\ Single(<<JoinMsg>>, "joinRoom")
      BY OneMessage DEF JoinMsg, Join
    <3> QED BY <2>1, <3>1, <3>2 DEF Waits
  <2>2. CASE u # t
    BY <2>2, OpenEffect DEF WireNow, AllWait
  <2> QED BY <2>1, <2>2
<1>2. ASSUME NEW s \in Sids PROVE Wired(s)'
  <2>1. Wired(s) /\ SameAt(s) /\ s[1] \in Tabs /\ s[2] # 0 /\ up'[s] = up[s] /\ down'[s] = down[s]
    BY <1>2, SidsFacts, OpenEffect DEF sockets, WireNow, SameAt
  <2>2. CASE s[1] = t
    <3>1. tab'[s[1]].link # s[2]
      BY <2>1, <2>2, OpenEffect
    <3> QED BY <2>1, <3>1, WiredStays
  <2>3. CASE s[1] # t
    <3>1. tab'[s[1]] = tab[s[1]]
      BY <2>1, <2>3, OpenEffect
    <3> QED BY <2>1, <3>1, WiredStays
  <2> QED BY <2>2, <2>3
<1> QED BY <1>1, <1>2 DEF WireNow, AllWait

\* What is buffered goes behind the join of a client that was connected before.
LEMMA OnConnectHolds ==
    ASSUME SessionInv, NEW t \in Tabs
    PROVE  /\ \A K : Has(OnConnect(t), K) <=> (tab[t].once /\ "joinRoom" \in K) \/ Has(tab[t].pending, K)
           /\ Waits(tab[t]) => Single(OnConnect(t), "joinRoom")
           /\ \A e : Carries(OnConnect(t), e) <=> Carries(tab[t].pending, e)
PROOF
<1>1. tab[t].pending \in Seq(ClientMsg)
  BY PageFacts DEF TabType
<1>2. CASE ~tab[t].once
  <2>1. OnConnect(t) = tab[t].pending
    BY <1>1, <1>2, ConcatEmptySeq DEF OnConnect
  <2> QED BY <1>2, <2>1 DEF Waits
<1>3. CASE tab[t].once
  <2> DEFINE q == tab[t].pending
             p == <<JoinMsg>> \o q
  <2>1. OnConnect(t) = p
    BY <1>3 DEF OnConnect
  <2>2. <<JoinMsg>> \in Seq(ClientMsg) /\ Len(<<JoinMsg>>) = 1 /\ <<JoinMsg>>[1] = JoinMsg
    BY ClientMsgs
  <2>3. /\ p \in Seq(ClientMsg) /\ Len(p) = 1 + Len(q) /\ Len(q) \in Nat
        /\ \A i \in 1..Len(p) : p[i] = IF i <= 1 THEN JoinMsg ELSE q[i - 1]
    BY <1>1, <2>2, ConcatProperties
  <2>4. p # <<>> /\ Head(p) = JoinMsg /\ Tail(p) = q
    <3>1. p # <<>> /\ Head(p) = JoinMsg
      BY <2>3
    <3>2. Tail(p) \in Seq(ClientMsg) /\ Len(Tail(p)) = Len(q) /\ \A i \in 1..Len(q) : Tail(p)[i] = q[i]
      BY <1>1, <2>3, <3>1
    <3>3. Tail(p) = q
      BY <1>1, <3>2, SeqEqual
    <3> QED BY <3>1, <3>3
  <2> HIDE DEF p, q
  <2>5. ASSUME NEW K PROVE Has(p, K) <=> "joinRoom" \in K \/ Has(q, K)
    <3>1. Has(p, K) <=> JoinMsg.kind \in K \/ Has(q, K)
      BY <2>3, <2>4, HasTaken
    <3> QED BY <3>1 DEF JoinMsg
  <2>6. ASSUME NEW e PROVE Carries(p, e) <=> Carries(q, e)
    <3>1. Carries(p, e) <=> (JoinMsg.kind = "operation" /\ JoinMsg.edit = e) \/ Carries(q, e)
      BY <2>3, <2>4, CarriesTaken
    <3>2. JoinMsg.kind # "operation"
      BY DEF JoinMsg
    <3> QED BY <3>1, <3>2
  <2>7. ASSUME Waits(tab[t]) PROVE Single(p, "joinRoom")
    <3>1. ~Has(q, {"joinRoom"})
      BY <1>3, <2>7 DEF Waits, Join, q
    <3>2. \A i \in DOMAIN p : p[i].kind = "joinRoom" => i = 1
      BY <1>1, <2>3, <3>1 DEF Has, q
    <3> QED BY <3>2 DEF Single
  <2> QED BY <1>3, <2>1, <2>5, <2>6, <2>7 DEF q
<1> QED BY <1>2, <1>3

LEMMA ConnectWire ==
    ASSUME SessionInv, WireNow, NEW t \in Tabs, Connect(t)
    PROVE  WireNow'
PROOF
<1>1. PICK x \in Sids :
             /\ x[1] = t /\ x[2] = tab'[t].link
             /\ \A s \in Sids \ {x} : up'[s] = up[s] /\ down'[s] = down[s]
             /\ down[x] = <<>> /\ up[x] = <<>> /\ joins[x] = None
             /\ x \notin meta /\ x \notin inRoom
             /\ \/ up'[x] = OnConnect(t) /\ down'[x] = <<>>
                \/ up'[x] = <<>> /\ down'[x] = <<Notice("unauthorized")>>
             /\ tab[t].page = "room" /\ tab[t].link = 0
             /\ tab'[t].page = "room" /\ tab'[t].once /\ tab'[t].pending = <<>>
             /\ tab'[t].joined = tab[t].joined /\ tab'[t].awaiting = tab[t].awaiting
             /\ \A u \in Tabs \ {t} : tab'[u] = tab[u]
             /\ UNCHANGED <<inRoom, meta, joins>>
  BY ConnectEffect
<1>2. Waits(tab[t]) /\ tab[t].awaiting /\ x[2] # 0
  BY <1>1, SidsFacts DEF WireNow, AllWait, Waits
<1>3. ASSUME NEW u \in Tabs PROVE Waits(tab'[u])
  <2>1. CASE u = t
    BY <1>1, <1>2, <2>1, HasNothing DEF Waits, Single
  <2>2. CASE u # t
    BY <1>1, <2>2 DEF WireNow, AllWait
  <2> QED BY <2>1, <2>2
<1>4. ASSUME NEW s \in Sids, s # x PROVE Wired(s)'
  <2>1. Wired(s) /\ SameAt(s) /\ s[1] \in Tabs /\ up'[s] = up[s] /\ down'[s] = down[s]
    BY <1>1, <1>4, SidsFacts DEF WireNow, SameAt
  <2>2. CASE s[1] = t
    <3>1. s[2] # x[2]
      BY <1>1, <1>4, <2>2, SidsFacts
    <3> QED BY <1>1, <2>1, <2>2, <3>1, WiredStays
  <2>3. CASE s[1] # t
    <3>1. tab'[s[1]] = tab[s[1]]
      BY <1>1, <2>1, <2>3
    <3> QED BY <2>1, <3>1, WiredStays
  <2> QED BY <2>2, <2>3
<1>5. Wired(x)'
  <2>1. ~Has(<<Notice("unauthorized")>>, State) /\ Single(<<Notice("unauthorized")>>, "roomState")
    BY OneMessage DEF Notice, State
  <2>2. \A i \in DOMAIN <<Notice("unauthorized")>> : <<Notice("unauthorized")>>[i].kind \in Orders \cup {"denied"}
    BY OneMessage DEF Notice, Orders
  <2>3. ~Has(<<>>, State) /\ Single(<<>>, "roomState") /\ ~Has(<<>>, Join) /\ Single(<<>>, "joinRoom")
    BY HasNothing DEF Single
  <2>4. Single(OnConnect(t), "joinRoom")
    BY <1>2, OnConnectHolds
  <2>5. Single(up'[x], "joinRoom") /\ Single(down'[x], "roomState") /\ ~Has(down'[x], State)
    BY <1>1, <2>1, <2>3, <2>4
  <2>6. \A i \in DOMAIN down'[x] : down'[x][i].kind \in Orders \cup {"denied"}
    BY <1>1, <2>2
  <2>7. tab'[t].awaiting /\ joins'[x] = None /\ x \notin meta' /\ x \notin inRoom' /\ None.at = "none"
    BY <1>1, <1>2, NoneAt
  <2>8. JoinsOnce(up'[x], down'[x], joins'[x], x \in meta')
    BY <2>5, <2>7 DEF JoinsOnce
  <2>9. Listening(tab'[t], up'[x], down'[x], joins'[x], x \in meta', x \in inRoom')
    BY <2>5, <2>6, <2>7 DEF Listening
  <2> QED BY <1>1, <2>8, <2>9 DEF Wired, WireOK
<1> QED BY <1>3, <1>4, <1>5 DEF WireNow, AllWait

LEMMA SendsWire ==
    ASSUME SessionInv, WireNow, NEW t \in Tabs, NEW m \in ClientMsg, m.kind # "joinRoom", Sends(t, m)
    PROVE  WireNow'
PROOF
<1>1. Waits(tab[t]) /\ tab[t].pending \in Seq(ClientMsg)
  BY PageFacts DEF WireNow, AllWait, TabType
<1>2. ASSUME NEW u \in Tabs PROVE Waits(tab'[u])
  <2>1. CASE u = t
    <3>1. tab'[t].pending = tab[t].pending \/ tab'[t].pending = Append(tab[t].pending, m)
      BY DEF Sends
    <3>2. Has(Append(tab[t].pending, m), Join) <=> Has(tab[t].pending, Join)
      BY <1>1, HasAppended DEF Join
    <3>3. Single(tab[t].pending, "joinRoom") => Single(Append(tab[t].pending, m), "joinRoom")
      BY <1>1, SingleAppended
    <3>4. (Has(tab'[t].pending, Join) <=> Has(tab[t].pending, Join)) /\ Single(tab'[t].pending, "joinRoom")
      BY <1>1, <3>1, <3>2, <3>3 DEF Waits
    <3> QED BY <1>1, <2>1, <3>4 DEF Waits, Sends
  <2>2. CASE u # t
    BY <2>2 DEF WireNow, AllWait, Sends
  <2> QED BY <2>1, <2>2
<1>3. ASSUME NEW s \in Sids PROVE Wired(s)'
  <2>1. /\ Wired(s) /\ SameAt(s) /\ s[1] \in Tabs /\ down'[s] = down[s]
        /\ UNCHANGED <<joins, meta, inRoom>>
    BY SidsFacts DEF WireNow, SameAt, Sends, sockets
  <2>2. /\ tab'[s[1]].page = tab[s[1]].page /\ tab'[s[1]].link = tab[s[1]].link
        /\ tab'[s[1]].joined = tab[s[1]].joined /\ tab'[s[1]].awaiting = tab[s[1]].awaiting
    BY <2>1 DEF Sends
  <2>3. CASE up'[s] = up[s]
    BY <2>1, <2>2, <2>3, WiredStays
  <2>4. CASE up'[s] = Append(up[s], m)
    <3>1. WireOK(tab[s[1]], s[2], up'[s], down'[s], joins'[s], s \in meta', s \in inRoom')
      BY <2>1, <2>4, WiredEmits
    <3> QED BY <2>2, <3>1 DEF Wired, WireOK, Listening
  <2> QED BY <2>3, <2>4 DEF Sends
<1> QED BY <1>2, <1>3 DEF WireNow, AllWait

\* The pages stay as they are, and so does what is known of all sockets but s.
LEMMA OthersWired ==
    ASSUME SessionInv, WireNow, tab' = tab, NEW x \in Sids, SameAt(x),
           up'[x] = up[x], down'[x] = down[x]
    PROVE  Wired(x)'
BY WiredStays DEF WireNow

LEMMA ServerWaits ==
    ASSUME WireNow, tab' = tab
    PROVE  AllWait'
BY DEF WireNow, AllWait

LEMMA HandleJoinRoomWire ==
    ASSUME SessionInv, WireNow, NEW s \in Sids, HandleJoinRoom(s)
    PROVE  WireNow'
PROOF
<1>1. /\ up[s] # <<>> /\ Head(up[s]).kind = "joinRoom"
      /\ up'[s] = Tail(up[s]) /\ \A x \in Sids \ {s} : up'[x] = up[x] /\ joins'[x] = joins[x]
      /\ joins'[s].at = "access" /\ joins'[s] # None
      /\ UNCHANGED <<tab, down, inRoom, meta>>
  BY HandleJoinRoomEffect
<1>2. ASSUME NEW x \in Sids, x # s PROVE Wired(x)'
  BY <1>1, <1>2, OthersWired DEF SameAt
<1>3. Wired(s)'
  <2>1. Wired(s) /\ up[s] \in Seq(ClientMsg)
    BY QueueTypes DEF WireNow
  <2>2. Has(up[s], Join) /\ Single(up[s], "joinRoom")
    BY <1>1, <2>1, HasTaken DEF Join, Wired, WireOK, JoinsOnce
  <2>3. ~Has(up'[s], Join) /\ Single(up'[s], "joinRoom")
    BY <1>1, <2>1, <2>2, SingleTaken DEF Join
  <2> QED BY <1>1, <2>1, <2>2, <2>3 DEF Wired, WireOK, JoinsOnce, Listening
<1> QED BY <1>1, <1>2, <1>3, ServerWaits DEF WireNow

\* A client whose join is not over listens to a socket that lives.
LEMMA JoiningLives ==
    ASSUME SessionInv, NEW s \in Sids, Linked(s), joins[s] # None
    PROVE  s \in alive
BY DEF SessionInv, Heard

LEMMA JoinAccessWire ==
    ASSUME SessionInv, WireNow, NEW s \in Sids, JoinAccess(s)
    PROVE  WireNow'
PROOF
<1>1. /\ joins[s].at = "access" /\ joins[s] # None /\ joins'[s] # None
      /\ \/ /\ joins'[s].at = "warm"
            /\ inRoom' = inRoom \cup ({s} \cap alive) /\ meta' = meta \cup {s}
         \/ joins'[s].at = "exists" /\ UNCHANGED <<inRoom, meta>>
      /\ \A x \in Sids \ {s} : joins'[x] = joins[x]
      /\ UNCHANGED <<tab, up, down>>
  BY JoinAccessEffect
<1>2. ASSUME NEW x \in Sids, x # s PROVE Wired(x)'
  BY <1>1, <1>2, OthersWired DEF SameAt
<1>3. Wired(s)'
  <2>1. Wired(s) /\ (tab[s[1]].page = "room" /\ tab[s[1]].link = s[2] => s \in alive)
    BY <1>1, JoiningLives DEF WireNow, Linked
  <2>2. CASE joins'[s].at = "warm"
    BY <1>1, <2>1, <2>2 DEF Wired, WireOK, JoinsOnce, Listening
  <2>3. CASE joins'[s].at = "exists"
    BY <1>1, <2>1, <2>3 DEF Wired, WireOK, JoinsOnce, Listening
  <2> QED BY <1>1, <2>2, <2>3
<1> QED BY <1>1, <1>2, <1>3, ServerWaits DEF WireNow

LEMMA JoinExistsWire ==
    ASSUME SessionInv, WireNow, NEW s \in Sids, JoinExists(s)
    PROVE  WireNow'
PROOF
<1>1. /\ joins[s].at = "exists" /\ joins[s] # None
      /\ joins'[s] = None /\ \A x \in Sids \ {s} : joins'[x] = joins[x]
      /\ UNCHANGED <<tab, up, inRoom, meta>>
  BY JoinExistsEffect
<1>m. PICK m : m = Notice(Refusal)
  OBVIOUS
<1>r. Reaches({s}, m) /\ m.kind \in {"roomNotFound", "denied"}
  BY <1>m, JoinExistsEffect
<1>2. ASSUME NEW x \in Sids, x # s PROVE Wired(x)'
  BY <1>1, <1>2, <1>r, OthersWired DEF SameAt, Reaches
<1>3. Wired(s)'
  <2>1. /\ m \in ServerMsg /\ m.kind \in Orders \cup {"denied"}
        /\ m.kind # "roomState"
        /\ down'[s] = Append(down[s], m) \/ down'[s] = down[s]
    BY <1>r DEF Reaches, Orders
  <2>2. Wired(s) /\ down[s] \in Seq(ServerMsg)
    BY QueueTypes DEF WireNow
  <2>a. Has(Append(down[s], m), State) <=> Has(down[s], State)
    BY <2>1, <2>2, HasAppended DEF State
  <2>3. Has(down'[s], State) <=> Has(down[s], State)
    BY <2>1, <2>a
  <2>4. Single(down[s], "roomState") => Single(down'[s], "roomState")
    BY <2>1, <2>2, SingleAppended
  <2>5. (\A i \in DOMAIN down[s] : down[s][i].kind \in Orders \cup {"denied"})
        => \A i \in DOMAIN down'[s] : down'[s][i].kind \in Orders \cup {"denied"}
    BY <2>1, <2>2, Appended
  <2> QED BY <1>1, <2>2, <2>3, <2>4, <2>5, NoneAt DEF Wired, WireOK, JoinsOnce, Listening
<1> QED BY <1>1, <1>2, <1>3, ServerWaits DEF WireNow

LEMMA JoinReadsWire ==
    ASSUME SessionInv, WireNow, NEW s \in Sids, JoinWarm(s) \/ JoinAdd(s)
    PROVE  WireNow'
PROOF
<1>1. /\ joins[s].at \in {"warm", "add"} /\ joins[s] # None
      /\ joins'[s].at \in {"add", "get"} /\ joins'[s] # None
      /\ \A x \in Sids \ {s} : joins'[x] = joins[x]
      /\ UNCHANGED <<tab, up, down, inRoom, meta>>
  BY JoinWarmEffect, JoinAddEffect
<1>2. ASSUME NEW x \in Sids, x # s PROVE Wired(x)'
  BY <1>1, <1>2, OthersWired DEF SameAt
<1>3. Wired(s)'
  BY <1>1 DEF WireNow, Wired, WireOK, JoinsOnce, Listening
<1> QED BY <1>1, <1>2, <1>3, ServerWaits DEF WireNow

LEMMA JoinGetWire ==
    ASSUME SessionInv, WireNow, NEW s \in Sids, JoinGet(s)
    PROVE  WireNow'
PROOF
<1>1. /\ joins[s].at = "get" /\ joins[s] # None
      /\ joins'[s] = None /\ \A x \in Sids \ {s} : joins'[x] = joins[x]
      /\ UNCHANGED <<tab, up, inRoom, meta>>
  BY JoinGetEffect
<1>2. PICK m, n, j \in ServerMsg :
         /\ m.kind = "roomState" /\ n.kind = "warningUpdate" /\ j.kind = "userJoined"
         /\ Append(down[s], m) \in Seq(ServerMsg)
         /\ Linked(s) => down'[s] = Append(Append(down[s], m), n)
         /\ ~Linked(s) => down'[s] = down[s]
         /\ \A x \in Sids \ {s} : Linked(x) /\ x \in inRoom => down'[x] = Append(down[x], j)
         /\ \A x \in Sids \ {s} : ~Linked(x) \/ x \notin inRoom => down'[x] = down[x]
  BY JoinGetSends
<1>3. ASSUME NEW x \in Sids, x # s PROVE Wired(x)'
  <2>1. Wired(x) /\ SameAt(x)
    BY <1>1, <1>3 DEF WireNow, SameAt
  <2>2. CASE Linked(x) /\ x \in inRoom
    <3>1. down[x] \in Seq(ServerMsg) /\ down'[x] = Append(down[x], j)
      BY <1>2, <1>3, <2>2, QueueTypes
    <3>2. Has(down'[x], State) <=> Has(down[x], State)
      BY <1>2, <3>1, HasAppended DEF State
    <3>3. Single(down[x], "roomState") => Single(down'[x], "roomState")
      BY <1>2, <3>1, SingleAppended
    <3> QED BY <1>1, <2>1, <2>2, <3>2, <3>3 DEF Wired, WireOK, JoinsOnce, Listening, SameAt
  <2>3. CASE ~Linked(x) \/ x \notin inRoom
    BY <1>1, <1>2, <1>3, <2>1, <2>3, OthersWired
  <2> QED BY <2>2, <2>3
<1>4. Wired(s)'
  <2>1. Wired(s) /\ down[s] \in Seq(ServerMsg) /\ up'[s] = up[s] /\ meta' = meta
    BY <1>1, QueueTypes DEF WireNow
  <2>2. CASE Linked(s)
    <3>1. /\ ~Has(up[s], Join) /\ ~Has(down[s], State) /\ Single(down[s], "roomState")
          /\ tab[s[1]].awaiting /\ s \in inRoom /\ Single(up[s], "joinRoom")
      BY <1>1, <2>1, <2>2 DEF Wired, WireOK, JoinsOnce, Listening, Linked
    <3>2. Single(Append(down[s], m), "roomState")
      BY <1>2, <2>1, <3>1, SingleAppended DEF State
    <3>3. Has(Append(down[s], m), State)
      BY <1>2, <2>1, HasAppended DEF State
    <3>q. PICK q \in Seq(ServerMsg) : q = Append(down[s], m)
      BY <1>2
    <3>r. down'[s] = Append(q, n) /\ Single(q, "roomState") /\ Has(q, State)
      BY <1>2, <2>2, <3>2, <3>3, <3>q
    <3>t. Has(Append(q, n), State)
      BY <3>q, <3>r, HasAppended
    <3>u. n.kind # "roomState"
      BY <1>2
    <3>v. Single(Append(q, n), "roomState")
      BY <3>q, <3>r, <3>u, SingleAppended
    <3>4. Single(down'[s], "roomState") /\ Has(down'[s], State)
      BY <3>r, <3>t, <3>v
    <3>5. ~Has(up'[s], Join) /\ Single(up'[s], "joinRoom") /\ tab'[s[1]].awaiting /\ s \in inRoom'
      BY <1>1, <3>1
    <3>6. JoinsOnce(up'[s], down'[s], joins'[s], s \in meta')
      BY <1>1, <3>4, <3>5, NoneAt DEF JoinsOnce
    <3>7. Listening(tab'[s[1]], up'[s], down'[s], joins'[s], s \in meta', s \in inRoom')
      BY <1>1, <3>4, <3>5, NoneAt DEF Listening
    <3> QED BY <3>6, <3>7 DEF Wired, WireOK
  <2>3. CASE ~Linked(s)
    <3>1. JoinsOnce(up'[s], down'[s], joins'[s], s \in meta')
      BY <1>1, <1>2, <2>1, <2>3, NoneAt DEF Wired, WireOK, JoinsOnce
    <3> QED BY <1>1, <2>3, <3>1 DEF Wired, WireOK, Linked
  <2> QED BY <2>2, <2>3
<1> QED BY <1>1, <1>3, <1>4, ServerWaits DEF WireNow

LEMMA DisconnectWire ==
    ASSUME SessionInv, WireNow, NEW s \in Sids, HandleDisconnect(s)
    PROVE  WireNow'
PROOF
<1>1. /\ ~Linked(s) /\ inRoom' = inRoom \ {s}
      /\ UNCHANGED <<tab, up, down, meta, joins>>
  BY DisconnectEffect
<1>2. ASSUME NEW x \in Sids, x # s PROVE Wired(x)'
  BY <1>1, <1>2, OthersWired DEF SameAt
<1>3. Wired(s)'
  BY <1>1 DEF WireNow, Wired, WireOK, Linked
<1> QED BY <1>1, <1>2, <1>3, ServerWaits DEF WireNow

LEMMA LeaveRemoveWire ==
    ASSUME SessionInv, WireNow, NEW s \in Sids, LeaveRemove(s)
    PROVE  WireNow'
PROOF
<1>1. meta' = meta \ {s} /\ UNCHANGED <<tab, up, down, inRoom, joins>>
  BY LeaveRemoveEffect
<1>2. ASSUME NEW x \in Sids, x # s PROVE Wired(x)'
  BY <1>1, <1>2, OthersWired DEF SameAt
<1>3. Wired(s)'
  <2>1. Wired(s)
    BY DEF WireNow
  <2>2. JoinsOnce(up'[s], down'[s], joins'[s], s \in meta')
    BY <1>1, <2>1 DEF Wired, WireOK, JoinsOnce
  <2> QED BY <1>1, <2>1, <2>2 DEF Wired, WireOK, Listening
<1> QED BY <1>1, <1>2, <1>3, ServerWaits DEF WireNow

\* A step that only sends m to sockets of the room.
LEMMA BroadcastWire ==
    ASSUME SessionInv, WireNow, NEW S, NEW m, Reaches(S, m), S \subseteq inRoom, m.kind # "roomState",
           UNCHANGED <<tab, up, joins, meta, inRoom>>
    PROVE  WireNow'
PROOF
<1>1. ASSUME NEW s \in Sids PROVE Wired(s)'
  BY WiredHears DEF WireNow, SameAt
<1> QED BY <1>1, ServerWaits DEF WireNow

LEMMA TakeWire ==
    ASSUME SessionInv, WireNow, NEW s \in Sids, up[s] # <<>>, Head(up[s]).kind # "joinRoom",
           up'[s] = Tail(up[s]), \A x \in Sids \ {s} : up'[x] = up[x],
           UNCHANGED <<tab, joins, meta, inRoom>>,
           down' = down \/ \E m : Reaches(inRoom \ {s}, m) /\ m.kind # "roomState"
    PROVE  WireNow'
PROOF
<1>1. ASSUME NEW x \in Sids, x # s PROVE Wired(x)'
  <2>1. Wired(x) /\ SameAt(x) /\ up'[x] = up[x]
    BY <1>1 DEF WireNow, SameAt
  <2>2. CASE down' = down
    BY <2>1, <2>2, OthersWired
  <2>3. ASSUME NEW m, Reaches(inRoom \ {s}, m), m.kind # "roomState" PROVE Wired(x)'
    <3>1. inRoom \ {s} \subseteq inRoom
      OBVIOUS
    <3> QED BY <2>1, <2>3, <3>1, WiredHears
  <2> QED BY <2>2, <2>3
<1>2. Wired(s)'
  <2>1. WireOK(tab[s[1]], s[2], Tail(up[s]), down[s], joins[s], s \in meta, s \in inRoom)
    BY WiredTakes DEF WireNow
  <2>2. down'[s] = down[s]
    BY DEF Reaches
  <2> QED BY <2>1, <2>2 DEF Wired
<1> QED BY <1>1, <1>2, ServerWaits DEF WireNow

LEMMA GatewayWire ==
    ASSUME SessionInv, WireNow, NEW s \in Sids, GatewayNext(s)
    PROVE  WireNow'
PROOF
<1>1. CASE LeaveNotify(s)
  <2>1. PICK m : m = Presence("userLeft", UserAt(s))
    OBVIOUS
  <2>2. Reaches(inRoom, m) /\ m.kind # "roomState"
    BY <1>1, <2>1, LeaveNotifyEffect DEF Presence
  <2> QED BY <1>1, <2>2, LeaveNotifyEffect, BroadcastWire
<1>2. CASE HandleOperation(s)
  <2>1. PICK m : m = Op(Head(up[s]).edit)
    OBVIOUS
  <2>2. down' = down \/ Reaches(inRoom \ {s}, m)
    BY <1>2, <2>1, HandleOperationEffect
  <2>3. m.kind # "roomState"
    BY <2>1 DEF Op
  <2>4. /\ up[s] # <<>> /\ Head(up[s]).kind # "joinRoom" /\ UNCHANGED <<tab, joins, meta, inRoom>>
        /\ up'[s] = Tail(up[s]) /\ \A x \in Sids \ {s} : up'[x] = up[x]
    BY <1>2, HandleOperationEffect DEF sockets
  <2> QED BY <2>2, <2>3, <2>4, TakeWire
<1>3. CASE HandleCursor(s)
  <2>1. PICK m : m = Cursor(UserAt(s))
    OBVIOUS
  <2>2. down' = down \/ Reaches(inRoom \ {s}, m)
    BY <1>3, <2>1, HandleCursorEffect
  <2>3. m.kind # "roomState"
    BY <2>1 DEF Cursor
  <2>4. /\ up[s] # <<>> /\ Head(up[s]).kind # "joinRoom" /\ UNCHANGED <<tab, joins, meta, inRoom>>
        /\ up'[s] = Tail(up[s]) /\ \A x \in Sids \ {s} : up'[x] = up[x]
    BY <1>3, HandleCursorEffect DEF sockets
  <2> QED BY <2>2, <2>3, <2>4, TakeWire
<1> QED BY <1>1, <1>2, <1>3, HandleJoinRoomWire, JoinAccessWire, JoinExistsWire, JoinReadsWire,
           JoinGetWire, DisconnectWire, LeaveRemoveWire DEF GatewayNext

LEMMA StillWire ==
    ASSUME SessionInv, WireNow, UNCHANGED <<tab, up, down, sockets>>
    PROVE  WireNow'
PROOF
<1>1. ASSUME NEW s \in Sids PROVE Wired(s)'
  BY OthersWired DEF SameAt, sockets
<1> QED BY <1>1, ServerWaits DEF WireNow

LEMMA ServerWire ==
    ASSUME SessionInv, WireNow, Server
    PROVE  WireNow'
PROOF
<1>1. CASE RunAnalysis
  <2>1. PICK m : m = WarningUpdate(live)
    OBVIOUS
  <2>2. m.kind # "roomState" /\ inRoom \subseteq inRoom
    BY <2>1 DEF WarningUpdate
  <2>3. down' = down \/ Reaches(inRoom, m)
    BY <1>1, <2>1, RunAnalysisEffect
  <2> QED BY <1>1, <2>2, <2>3, RunAnalysisEffect, BroadcastWire, StillWire DEF sockets
<1>2. CASE BroadcastRoomDeleted
  <2>1. PICK m : m = Notice("roomDeleted")
    OBVIOUS
  <2>2. Reaches(inRoom, m) /\ m.kind # "roomState" /\ inRoom \subseteq inRoom
    BY <1>2, <2>1, BroadcastDeletedEffect
  <2> QED BY <1>2, <2>2, BroadcastDeletedEffect, BroadcastWire DEF sockets
<1>3. ASSUME NEW m \in announce, Announce(m) PROVE WireNow'
  <2>1. Reaches(inRoom, m) /\ m.kind # "roomState" /\ inRoom \subseteq inRoom
    BY <1>3, AnnounceEffect
  <2> QED BY <1>3, <2>1, AnnounceEffect, BroadcastWire DEF sockets
<1> QED BY <1>1, <1>2, <1>3, DeletionEffect, ExpireUsersEffect, StillWire DEF Server

LEMMA InitWire == Init => WireInv
PROOF
<1> SUFFICES ASSUME Init PROVE WireInv
  OBVIOUS
<1>1. ASSUME NEW t \in Tabs PROVE Waits(tab[t])
  <2>1. tab[t] = Blank \/ \E T : /\ tab[t] = [T EXCEPT !.page = "room", !.link = 1, !.connections = 1,
                                       !.once = TRUE, !.joined = TRUE, !.users = active] /\ T = Blank
    BY DEF Init
  <2>2. CASE tab[t] = Blank
    BY <2>2, HasNothing DEF Blank, Waits, Single
  <2>3. CASE tab[t] # Blank
    <3>1. tab[t].page = "room" /\ tab[t].link = 1 /\ tab[t].once /\ tab[t].pending = <<>>
      <4>1. PICK T : /\ tab[t] = [T EXCEPT !.page = "room", !.link = 1, !.connections = 1,
                                          !.once = TRUE, !.joined = TRUE, !.users = active]
                     /\ T = Blank
        BY <2>1, <2>3
      <4>2. T = [page |-> "away", link |-> 0, connections |-> 0, once |-> FALSE, valid |-> TRUE,
                 pending |-> <<>>, joined |-> FALSE, awaiting |-> FALSE, canvas |-> {}, users |-> {},
                 cursors |-> {}, warnings |-> {}, shown |-> [l \in Lists |-> {}], panel |-> FALSE,
                 made |-> {}]
        BY <4>1 DEF Blank
      <4> QED BY <4>1, <4>2
    <3> QED BY <3>1, HasNothing DEF Waits, Single
  <2> QED BY <2>2, <2>3
<1>2. ASSUME NEW s \in Sids PROVE Wired(s)
  <2>1. up[s] = <<>> /\ down[s] = <<>> /\ joins[s] = None
    BY DEF Init
  <2>2. s[1] \in Tabs /\ (s \in meta <=> s \in inRoom) /\ (s \in meta => s[1] \in budget.present)
    BY SidsFacts DEF Init
  <2>3. s \in meta => tab[s[1]].joined
    BY <2>2 DEF Init, Blank
  <2>4. JoinsOnce(up[s], down[s], joins[s], s \in meta)
    BY <2>1, HasNothing, NoneAt DEF JoinsOnce, Single
  <2>5. Listening(tab[s[1]], up[s], down[s], joins[s], s \in meta, s \in inRoom)
    BY <2>1, <2>2, <2>3, HasNothing, NoneAt DEF Listening
  <2> QED BY <2>4, <2>5 DEF Wired, WireOK
<1>3. InTime
  BY NoneAt DEF InTime, Init
<1> QED BY <1>1, <1>2, <1>3 DEF WireInv, AllWait

LEMMA NextWire ==
    ASSUME SessionInv, WireInv, [Next]_vars
    PROVE  WireInv'
PROOF
<1>1. WireNow /\ InTime
  BY DEF WireInv, WireNow
<1>2. InTime'
  BY <1>1, NextInTime
<1>3. ASSUME NEW t \in Tabs, Client(t) PROVE WireNow'
  <2>1. CASE EditCanvas(t)
    <3>1. PICK e \in Nat : Sends(t, Op(e)) /\ Op(e) \in ClientMsg
      BY <2>1, EditEffect
    <3>2. PICK m : m = Op(e)
      OBVIOUS
    <3>3. m.kind # "joinRoom"
      BY <3>2 DEF Op
    <3> QED BY <1>1, <3>1, <3>2, <3>3, SendsWire
  <2>2. CASE MoveCursor(t)
    <3>1. PICK m : m = [kind |-> "cursor"]
      OBVIOUS
    <3>2. m \in ClientMsg /\ Sends(t, m) /\ m.kind # "joinRoom"
      BY <2>2, <3>1, MoveEffect
    <3> QED BY <1>1, <3>2, SendsWire
  <2> QED BY <1>1, <1>3, <2>1, <2>2, ShowsWire, QuitsWire, OpenWire, ConnectWire, DropWire DEF Client
<1>4. WireNow'
  BY <1>1, <1>3, NextCases, AsideWire, GatewayWire, ServerWire DEF Step
<1> QED BY <1>2, <1>4 DEF WireInv, WireNow

-----------------------------------------------------------------------------
(* Nobody stays in a room that is gone.                                    *)

LEMMA ReachingStays ==
    ASSUME NEW s \in Sids, Reaching(s), Linked(s)' => Linked(s),
           Has(up[s], Join) => Has(up'[s], Join),
           Has(down[s], Orders) => Has(down'[s], Orders),
           joins'[s] = joins[s], s \in inRoom => s \in inRoom', room = "open" => room' = "open"
    PROVE  Reaching(s)'
BY DEF Reaching, Reached

LEMMA ReachingHears ==
    ASSUME SessionInv, NEW s \in Sids, NEW S, NEW m, Reaches(S, m), NEW K
    PROVE  /\ Has(down[s], K) => Has(down'[s], K)
           /\ s \in S /\ Linked(s) /\ m.kind \in K => Has(down'[s], K)
PROOF
<1>1. m \in ServerMsg /\ down[s] \in Seq(ServerMsg)
  BY QueueTypes DEF Reaches
<1>2. Has(Append(down[s], m), K) <=> Has(down[s], K) \/ m.kind \in K
  BY <1>1, HasAppended
<1>3. CASE s \in S /\ Linked(s)
  <2>1. down'[s] = Append(down[s], m)
    BY <1>3 DEF Reaches
  <2> QED BY <1>2, <2>1
<1>4. CASE ~(s \in S /\ Linked(s))
  <2>1. down'[s] = down[s]
    BY <1>4 DEF Reaches
  <2> QED BY <1>4, <2>1
<1> QED BY <1>3, <1>4

LEMMA AsideReach ==
    ASSUME ReachNow, Aside
    PROVE  ReachNow'
PROOF
<1> SUFFICES ASSUME NEW s \in Sids PROVE Reaching(s)'
  BY DEF ReachNow
<1>1. Linked(s)' <=> Linked(s)
  BY SidsFacts DEF Aside, Alike, Linked
<1> QED BY <1>1 DEF Aside, sockets, redis, ReachNow, Reaching

LEMMA ShowsReach ==
    ASSUME SessionInv, ReachNow, NEW t \in Tabs, Shows(t)
    PROVE  ReachNow'
PROOF
<1> SUFFICES ASSUME NEW s \in Sids PROVE Reaching(s)'
  BY DEF ReachNow
<1>1. Linked(s)' <=> Linked(s)
  BY SidsFacts DEF Shows, Linked
<1>2. Has(down[s], Orders) => Has(down'[s], Orders)
  <2>1. CASE s = Sid(t)
    <3>1. down[s] \in Seq(ServerMsg) /\ down[s] # <<>> /\ down'[s] = Tail(down[s]) /\ Head(down[s]).kind \notin Orders
      BY <2>1, QueueTypes DEF Shows, Received
    <3> QED BY <3>1, HasTaken
  <2>2. CASE s # Sid(t)
    BY <2>2 DEF Shows
  <2> QED BY <2>1, <2>2
<1>3. up' = up /\ joins' = joins /\ inRoom' = inRoom /\ room' = room
  BY DEF Shows, sockets, redis
<1> QED BY <1>1, <1>2, <1>3, ReachingStays DEF ReachNow

LEMMA AwayReach ==
    ASSUME SessionInv, ReachNow, NEW t \in Tabs, Quits(t) \/ Drop(t) \/ Open(t)
    PROVE  ReachNow'
PROOF
<1> SUFFICES ASSUME NEW s \in Sids, Linked(s)' PROVE Reaching(s)'
  BY DEF ReachNow, Reaching
<1>1. UNCHANGED <<sockets, redis>>
  BY QuitsEffect, DropEffect, OpenEffect
<1>2. CASE Quits(t)
  <2>1. Linked(s) /\ up'[s] = up[s] /\ down'[s] = down[s]
    BY <1>2, QuitsEffect
  <2> QED BY <1>1, <2>1 DEF ReachNow, Reaching, sockets, redis
<1>3. CASE Drop(t)
  <2>1. Linked(s) /\ s[1] # t
    BY <1>3, DropEffect
  <2>2. s # Sid(t)
    BY <1>3, <2>1, DropEffect
  <2>3. up'[s] = up[s] /\ down'[s] = down[s]
    BY <1>3, <2>1, <2>2, DropEffect
  <2> QED BY <1>1, <2>1, <2>3 DEF ReachNow, Reaching, sockets, redis
<1>4. CASE Open(t)
  <2>1. Linked(s) /\ up'[s] = up[s] /\ down'[s] = down[s]
    BY <1>4, OpenEffect
  <2> QED BY <1>1, <2>1 DEF ReachNow, Reaching, sockets, redis
<1> QED BY <1>2, <1>3, <1>4

LEMMA ConnectReach ==
    ASSUME SessionInv, AllWait, ReachNow, NEW t \in Tabs, Connect(t)
    PROVE  ReachNow'
PROOF
<1>1. PICK x \in Sids :
             /\ \A s \in Sids \ {x} : /\ Linked(s)' <=> Linked(s)
                                      /\ up'[s] = up[s] /\ down'[s] = down[s]
                                      /\ s \in alive' <=> s \in alive
             /\ \/ up'[x] = OnConnect(t) /\ down'[x] = <<>>
                \/ up'[x] = <<>> /\ down'[x] = <<Notice("unauthorized")>>
             /\ tab[t].page = "room"
             /\ UNCHANGED <<inRoom, joins, redis>>
  BY ConnectEffect DEF Linked
<1>2. ASSUME NEW s \in Sids, s # x PROVE Reaching(s)'
  BY <1>1, <1>2 DEF ReachNow, Reaching, redis
<1>3. Reaching(x)'
  <2>1. Has(OnConnect(t), Join)
    <3>1. tab[t].once \/ Has(tab[t].pending, Join)
      BY <1>1 DEF AllWait, Waits
    <3> QED BY <3>1, OnConnectHolds DEF Join
  <2>2. Has(<<Notice("unauthorized")>>, Orders)
    BY OneMessage DEF Notice, Orders
  <2> QED BY <1>1, <2>1, <2>2 DEF Reaching, Reached
<1> QED BY <1>2, <1>3 DEF ReachNow

LEMMA SendsReach ==
    ASSUME SessionInv, ReachNow, NEW t \in Tabs, NEW m \in ClientMsg, Sends(t, m)
    PROVE  ReachNow'
PROOF
<1> SUFFICES ASSUME NEW s \in Sids PROVE Reaching(s)'
  BY DEF ReachNow
<1>1. Has(up[s], Join) => Has(up'[s], Join)
  <2>1. up'[s] = up[s] \/ up'[s] = Append(up[s], m)
    BY DEF Sends
  <2>2. Has(Append(up[s], m), Join) <=> Has(up[s], Join) \/ m.kind \in Join
    BY QueueTypes, HasAppended
  <2> QED BY <2>1, <2>2
<1>2. (Linked(s)' <=> Linked(s)) /\ down' = down /\ joins' = joins /\ inRoom' = inRoom /\ room' = room
  BY DEF Sends, sockets, redis
<1> QED BY <1>1, <1>2, ReachingStays DEF ReachNow

\* The handlers that leave the joins, the room's sockets and its row alone.
LEMMA TakeReach ==
    ASSUME SessionInv, ReachNow, tab' = tab, joins' = joins, inRoom' = inRoom, room' = room,
           down' = down \/ (\E S : \E m : Reaches(S, m)),
           \A s \in Sids : \/ up'[s] = up[s]
                           \/ up[s] # <<>> /\ Head(up[s]).kind # "joinRoom" /\ up'[s] = Tail(up[s])
    PROVE  ReachNow'
PROOF
<1> SUFFICES ASSUME NEW s \in Sids PROVE Reaching(s)'
  BY DEF ReachNow
<1>1. Has(up[s], Join) => Has(up'[s], Join)
  <2>1. CASE up'[s] = up[s]
    BY <2>1
  <2>2. CASE up[s] # <<>> /\ Head(up[s]).kind # "joinRoom" /\ up'[s] = Tail(up[s])
    BY <2>2, QueueTypes, HasTaken DEF Join
  <2> QED BY <2>1, <2>2
<1>2. Has(down[s], Orders) => Has(down'[s], Orders)
  BY ReachingHears
<1>3. Linked(s)' <=> Linked(s)
  BY StillLinked
<1> QED BY <1>1, <1>2, <1>3, ReachingStays DEF ReachNow

\* What is known of x is the same, the pages and the room are, and x may hear more.
LEMMA OthersReach ==
    ASSUME SessionInv, ReachNow, NEW x \in Sids, tab' = tab, joins'[x] = joins[x], up'[x] = up[x],
           x \in inRoom => x \in inRoom', room' = room,
           down'[x] = down[x] \/ \E m \in ServerMsg : down'[x] = Append(down[x], m)
    PROVE  Reaching(x)'
PROOF
<1>1. Has(down[x], Orders) => Has(down'[x], Orders)
  BY QueueTypes, HasAppended
<1>2. Linked(x)' <=> Linked(x)
  BY StillLinked
<1> QED BY <1>1, <1>2, ReachingStays DEF ReachNow

LEMMA HandleJoinRoomReach ==
    ASSUME SessionInv, ReachNow, NEW s \in Sids, HandleJoinRoom(s)
    PROVE  ReachNow'
PROOF
<1>1. /\ \A x \in Sids \ {s} : up'[x] = up[x] /\ joins'[x] = joins[x]
      /\ joins'[s].at = "access" /\ UNCHANGED <<tab, down, inRoom, redis>>
  BY HandleJoinRoomEffect
<1>2. ASSUME NEW x \in Sids, x # s PROVE Reaching(x)'
  BY <1>1, <1>2, OthersReach DEF redis
<1>3. Reaching(s)'
  BY <1>1 DEF Reaching, Reached
<1> QED BY <1>2, <1>3 DEF ReachNow

LEMMA JoinAccessReach ==
    ASSUME SessionInv, ReachNow, NEW s \in Sids, JoinAccess(s), "late entry" \notin past'
    PROVE  ReachNow'
PROOF
<1>1. /\ joins[s] # None
      /\ \/ /\ room \in {"open", "closing"} /\ inRoom' = inRoom \cup ({s} \cap alive)
            /\ room = "closing" => "late entry" \in past'
         \/ joins'[s].at = "exists" /\ UNCHANGED inRoom
      /\ \A x \in Sids \ {s} : joins'[x] = joins[x]
      /\ UNCHANGED <<tab, up, down, redis>>
  BY JoinAccessEffect
<1>2. ASSUME NEW x \in Sids, x # s PROVE Reaching(x)'
  BY <1>1, <1>2, OthersReach DEF redis
<1>3. Reaching(s)'
  <2>1. Linked(s)' <=> Linked(s)
    BY <1>1, StillLinked
  <2>2. CASE joins'[s].at = "exists"
    BY <2>2 DEF Reaching, Reached
  <2>3. CASE joins'[s].at # "exists"
    <3>1. room = "open" /\ room' = "open" /\ inRoom' = inRoom \cup ({s} \cap alive)
      BY <1>1, <2>3 DEF redis
    <3> QED BY <1>1, <2>1, <3>1, JoiningLives DEF Reaching, Reached
  <2> QED BY <2>2, <2>3
<1> QED BY <1>2, <1>3 DEF ReachNow

LEMMA JoinExistsReach ==
    ASSUME SessionInv, ReachNow, NEW s \in Sids, JoinExists(s), "denied" \notin past'
    PROVE  ReachNow'
PROOF
<1>1. /\ room # "gone" => "denied" \in past'
      /\ \A x \in Sids \ {s} : joins'[x] = joins[x]
      /\ UNCHANGED <<tab, up, inRoom, redis>>
  BY JoinExistsEffect
<1>2. PICK m : m = Notice(Refusal)
  OBVIOUS
<1>3. Reaches({s}, m) /\ (room = "gone" => m.kind = "roomNotFound")
  BY <1>2, JoinExistsEffect
<1>4. ASSUME NEW x \in Sids, x # s PROVE Reaching(x)'
  BY <1>1, <1>3, <1>4, OthersReach DEF redis, Reaches
<1>5. Reaching(s)'
  <2>1. (Linked(s)' <=> Linked(s)) /\ m.kind \in Orders
    BY <1>1, <1>3, StillLinked DEF Orders
  <2>2. Linked(s) => Has(down'[s], Orders)
    BY <1>3, <2>1, ReachingHears
  <2> QED BY <2>1, <2>2 DEF Reaching, Reached
<1> QED BY <1>4, <1>5 DEF ReachNow

\* A join past its check relies on nothing but the room.
LEMMA JoinReadsReach ==
    ASSUME SessionInv, ReachNow, NEW s \in Sids, JoinWarm(s) \/ JoinAdd(s)
    PROVE  ReachNow'
PROOF
<1>1. /\ joins[s].at \in {"warm", "add"} /\ \A x \in Sids \ {s} : joins'[x] = joins[x]
      /\ UNCHANGED <<tab, up, down, inRoom, room>>
  BY JoinWarmEffect, JoinAddEffect DEF redis
<1>2. ASSUME NEW x \in Sids, x # s PROVE Reaching(x)'
  BY <1>1, <1>2, OthersReach
<1>3. Reaching(s)'
  BY <1>1, StillLinked DEF ReachNow, Reaching, Reached
<1> QED BY <1>2, <1>3 DEF ReachNow

LEMMA JoinGetReach ==
    ASSUME SessionInv, ReachNow, NEW s \in Sids, JoinGet(s)
    PROVE  ReachNow'
PROOF
<1>1. /\ joins[s].at = "get" /\ \A x \in Sids \ {s} : joins'[x] = joins[x]
      /\ UNCHANGED <<tab, up, inRoom, redis>>
  BY JoinGetEffect
<1>2. PICK m, n, j \in ServerMsg :
         /\ Append(down[s], m) \in Seq(ServerMsg)
         /\ Linked(s) => down'[s] = Append(Append(down[s], m), n)
         /\ ~Linked(s) => down'[s] = down[s]
         /\ \A x \in Sids \ {s} : Linked(x) /\ x \in inRoom => down'[x] = Append(down[x], j)
         /\ \A x \in Sids \ {s} : ~Linked(x) \/ x \notin inRoom => down'[x] = down[x]
  BY JoinGetSends
<1>3. ASSUME NEW x \in Sids, x # s PROVE Reaching(x)'
  BY <1>1, <1>2, <1>3, OthersReach DEF redis
<1>4. Reaching(s)'
  <2>q. PICK q : q = Append(down[s], m)
    OBVIOUS
  <2>1. Linked(s) /\ Has(down[s], Orders) => Has(q, Orders)
    BY <2>q, QueueTypes, HasAppended
  <2>2. Has(q, Orders) => Has(Append(q, n), Orders)
    BY <1>2, <2>q, HasAppended
  <2>3. Linked(s) /\ Has(down[s], Orders) => Has(down'[s], Orders)
    BY <1>2, <2>q, <2>1, <2>2
  <2>4. (Linked(s)' <=> Linked(s)) /\ Reaching(s)
    BY <1>1, StillLinked DEF ReachNow
  <2> QED BY <1>1, <2>3, <2>4 DEF Reaching, Reached, redis
<1> QED BY <1>3, <1>4 DEF ReachNow

LEMMA DisconnectReach ==
    ASSUME SessionInv, ReachNow, NEW s \in Sids, HandleDisconnect(s)
    PROVE  ReachNow'
PROOF
<1>1. ~Linked(s) /\ inRoom' = inRoom \ {s} /\ UNCHANGED <<tab, up, down, joins, redis>>
  BY DisconnectEffect
<1>2. ASSUME NEW x \in Sids, x # s PROVE Reaching(x)'
  BY <1>1, <1>2, OthersReach DEF redis
<1>3. Reaching(s)'
  BY <1>1, StillLinked DEF Reaching
<1> QED BY <1>2, <1>3 DEF ReachNow

LEMMA GatewayReach ==
    ASSUME SessionInv, ReachNow, NEW s \in Sids, GatewayNext(s), past' \cap {"late entry", "denied"} = {}
    PROVE  ReachNow'
PROOF
<1>1. CASE LeaveRemove(s)
  <2>1. UNCHANGED <<tab, up, down, joins, inRoom, room>>
    BY <1>1, LeaveRemoveEffect
  <2> QED BY <2>1, OthersReach DEF ReachNow
<1>2. CASE LeaveNotify(s)
  <2>1. UNCHANGED <<tab, up, joins, inRoom, room>>
    BY <1>2, LeaveNotifyEffect DEF redis
  <2>2. \E S : \E m : Reaches(S, m)
    BY <1>2, LeaveNotifyEffect
  <2> QED BY <2>1, <2>2, TakeReach
<1>3. CASE HandleOperation(s)
  <2>1. /\ up[s] # <<>> /\ Head(up[s]).kind # "joinRoom"
        /\ up'[s] = Tail(up[s]) /\ \A x \in Sids \ {s} : up'[x] = up[x]
        /\ UNCHANGED <<tab, joins, inRoom, room>>
    BY <1>3, HandleOperationEffect DEF sockets
  <2>2. down' = down \/ \E S : \E m : Reaches(S, m)
    BY <1>3, HandleOperationEffect
  <2> QED BY <2>1, <2>2, TakeReach
<1>4. CASE HandleCursor(s)
  <2>1. /\ up[s] # <<>> /\ Head(up[s]).kind # "joinRoom"
        /\ up'[s] = Tail(up[s]) /\ \A x \in Sids \ {s} : up'[x] = up[x]
        /\ UNCHANGED <<tab, joins, inRoom, room>>
    BY <1>4, HandleCursorEffect DEF sockets, redis
  <2>2. down' = down \/ \E S : \E m : Reaches(S, m)
    BY <1>4, HandleCursorEffect
  <2> QED BY <2>1, <2>2, TakeReach
<1>5. "late entry" \notin past' /\ "denied" \notin past'
  OBVIOUS
<1> QED BY <1>1, <1>2, <1>3, <1>4, <1>5, HandleJoinRoomReach, JoinAccessReach, JoinExistsReach,
           JoinReadsReach, JoinGetReach, DisconnectReach DEF GatewayNext

LEMMA ServerReach ==
    ASSUME SessionInv, ReachNow, Server
    PROVE  ReachNow'
PROOF
<1>1. CASE RunAnalysis
  <2>1. UNCHANGED <<tab, up, joins, inRoom, room>>
    BY <1>1, RunAnalysisEffect DEF sockets
  <2>2. down' = down \/ \E S : \E m : Reaches(S, m)
    BY <1>1, RunAnalysisEffect
  <2> QED BY <2>1, <2>2, TakeReach
<1>2. ASSUME NEW m \in announce, Announce(m) PROVE ReachNow'
  <2>1. UNCHANGED <<tab, up, joins, inRoom, room>> /\ \E S : \E x : Reaches(S, x)
    BY <1>2, AnnounceEffect DEF sockets, redis
  <2> QED BY <2>1, TakeReach
<1>3. CASE BroadcastRoomDeleted
  <2>1. PICK m : m = Notice("roomDeleted")
    OBVIOUS
  <2>2. Reaches(inRoom, m) /\ m.kind \in Orders /\ UNCHANGED <<tab, up, joins, inRoom>>
    BY <1>3, <2>1, BroadcastDeletedEffect DEF Orders, sockets
  <2>3. ASSUME NEW s \in Sids PROVE Reaching(s)'
    <3>1. /\ Has(down[s], Orders) => Has(down'[s], Orders)
          /\ s \in inRoom /\ Linked(s) => Has(down'[s], Orders)
      BY <2>2, ReachingHears
    <3>2. (Linked(s)' <=> Linked(s)) /\ Reaching(s)
      BY <2>2, StillLinked DEF ReachNow
    <3> QED BY <2>2, <3>1, <3>2 DEF Reaching, Reached
  <2> QED BY <2>3 DEF ReachNow
<1>4. CASE DeleteMembers \/ DeleteRow
  <2>1. room # "open" /\ UNCHANGED <<tab, up, down, joins, inRoom>>
    BY <1>4, DeletionEffect DEF sockets
  <2>2. ASSUME NEW s \in Sids PROVE Reaching(s)'
    BY <2>1, StillLinked DEF ReachNow, Reaching, Reached
  <2> QED BY <2>2 DEF ReachNow
<1>5. CASE ExpireUsers
  <2>1. UNCHANGED <<tab, up, down, joins, inRoom, room>>
    BY <1>5, ExpireUsersEffect DEF sockets
  <2> QED BY <2>1, OthersReach DEF ReachNow
<1> QED BY <1>1, <1>2, <1>3, <1>4, <1>5 DEF Server

LEMMA InitStranded == Init => StrandedInv
PROOF
<1> SUFFICES ASSUME Init, NEW s \in Sids, Linked(s) PROVE s \in inRoom /\ room = "open"
  BY DEF StrandedInv, ReachNow, Reaching, Reached
<1>1. tab[s[1]].page = "room" /\ tab[s[1]].link = s[2] /\ s = <<s[1], s[2]>> /\ s[1] \in Tabs
  BY SidsFacts DEF Linked
<1>2. s[1] \in budget.present
  BY <1>1 DEF Init, Blank
<1>3. s[2] = 1
  BY <1>1, <1>2 DEF Init, Blank
<1> QED BY <1>1, <1>2, <1>3 DEF Init

LEMMA NextStranded ==
    ASSUME SessionInv, WireInv, StrandedInv, [Next]_vars
    PROVE  StrandedInv'
PROOF
<1> SUFFICES ASSUME past' \cap {"late entry", "denied"} = {} PROVE ReachNow'
  BY DEF StrandedInv, ReachNow
<1>1. ReachNow /\ AllWait
  BY NextOnward DEF Onward, StrandedInv, ReachNow, WireInv
<1>2. ASSUME NEW t \in Tabs, Client(t) PROVE ReachNow'
  <2>1. CASE EditCanvas(t)
    <3>1. PICK e \in Nat : Sends(t, Op(e)) /\ Op(e) \in ClientMsg
      BY <2>1, EditEffect
    <3> QED BY <1>1, <3>1, SendsReach
  <2>2. CASE MoveCursor(t)
    <3>1. PICK m : m = [kind |-> "cursor"]
      OBVIOUS
    <3>2. m \in ClientMsg /\ Sends(t, m)
      BY <2>2, <3>1, MoveEffect
    <3> QED BY <1>1, <3>2, SendsReach
  <2> QED BY <1>1, <1>2, <2>1, <2>2, ShowsReach, AwayReach, ConnectReach DEF Client
<1> QED BY <1>1, <1>2, NextCases, AsideReach, GatewayReach, ServerReach DEF Step

\* Once nothing is on its way, whoever has not been told to leave is in an open room.
LEMMA QuietReach ==
    ASSUME SessionInv, StrandedInv, Quiet, past \cap {"late entry", "denied"} = {},
           NEW t \in Tabs, tab[t].page = "room"
    PROVE  Sid(t) \in Sids /\ Linked(Sid(t)) /\ Sid(t) \in inRoom /\ room = "open"
PROOF
<1>1. tab[t].link # 0
  BY DEF Quiet
<1>2. Sid(t) \in Sids /\ Linked(Sid(t))
  BY <1>1, SidFacts DEF SessionInv
<1>3. up[Sid(t)] = <<>> /\ down[Sid(t)] = <<>> /\ joins[Sid(t)] = None
  BY <1>2 DEF Quiet
<1>4. Reached(up[Sid(t)], down[Sid(t)], joins[Sid(t)], Sid(t) \in inRoom, room)
  BY <1>2 DEF StrandedInv, ReachNow, Reaching
<1>5. ~Has(<<>>, Orders) /\ ~Has(<<>>, Join) /\ None.at = "none"
  BY HasNothing, NoneAt
<1> QED BY <1>2, <1>3, <1>4, <1>5 DEF Reached

LEMMA StrandedInvariant == Spec => [](SessionInv /\ WireInv /\ StrandedInv)
PROOF
<1>1. Init => SessionInv
  BY InitSession
<1>2. Init => WireInv /\ StrandedInv
  BY InitWire, InitStranded
<1>3. SessionInv /\ (WireInv /\ StrandedInv) /\ [Next]_vars => (WireInv /\ StrandedInv)'
  BY NextWire, NextStranded
<1>4. Spec => []SessionInv
  BY SessionInvariant
<1> QED BY <1>2, <1>3, <1>4, PTL DEF Spec

\* Nobody stays in a room that was deleted: whoever was in it is told
\* (canvas.gateway.ts:351), and whoever comes back is turned away (145-147), for any
\* number of users, tabs and connections, through drops, leaves and reconnects in
\* any order, unless they came between the broadcast and the end of the deletion.
THEOREM NobodyStaysInAGoneRoom == Spec => []NobodyIsStranded
PROOF
<1>1. SessionInv /\ StrandedInv => NobodyIsStranded
  <2> SUFFICES ASSUME SessionInv, StrandedInv, Quiet, room = "gone",
                      past \cap {"late entry", "denied"} = {}, NEW t \in Tabs
               PROVE  tab[t].page # "room"
    BY DEF NobodyIsStranded
  <2> QED BY QuietReach
<1> QED BY <1>1, StrandedInvariant, PTL

-----------------------------------------------------------------------------
(* What a page will show, once it has heard everything.                    *)

LEMMA WillShowSame ==
    ASSUME NEW s \in Sids, NEW k, tab'[s[1]][k] = tab[s[1]][k], down'[s] = down[s]
    PROVE  \A v : WillShow(s, k, v)' <=> WillShow(s, k, v)
BY DEF WillShow

LEMMA WillShowAppends ==
    ASSUME SessionInv, NEW s \in Sids, NEW m \in ServerMsg, NEW k, NEW v,
           down'[s] = Append(down[s], m), tab'[s[1]][k] = tab[s[1]][k]
    PROVE  /\ Tells(m, k, v) => (WillShow(s, k, v)' <=> Puts(m, k, v))
           /\ ~Tells(m, k, v) => (WillShow(s, k, v)' <=> WillShow(s, k, v))
PROOF
<1>1. PICK b \in BOOLEAN : b <=> v \in tab[s[1]][k]
  OBVIOUS
<1>2. WillShow(s, k, v) <=> After(down[s], k, v, b)
  BY <1>1 DEF WillShow, After
<1>3. WillShow(s, k, v)' <=> After(Append(down[s], m), k, v, b)
  BY <1>1 DEF WillShow, After
<1> QED BY <1>2, <1>3, QueueTypes, AfterAppended

LEMMA WillShowHears ==
    ASSUME SessionInv, NEW s \in Sids, NEW S, NEW m, Reaches(S, m), tab' = tab, NEW k, NEW v
    PROVE  /\ s \in S /\ Linked(s) /\ Tells(m, k, v) => (WillShow(s, k, v)' <=> Puts(m, k, v))
           /\ ~Tells(m, k, v) => (WillShow(s, k, v)' <=> WillShow(s, k, v))
           /\ s \notin S => (WillShow(s, k, v)' <=> WillShow(s, k, v))
PROOF
<1>1. m \in ServerMsg
  BY DEF Reaches
<1>2. CASE s \in S /\ Linked(s)
  <2>1. down'[s] = Append(down[s], m)
    BY <1>2 DEF Reaches
  <2> QED BY <1>1, <1>2, <2>1, WillShowAppends
<1>3. CASE ~(s \in S /\ Linked(s))
  <2>1. down'[s] = down[s]
    BY <1>3 DEF Reaches
  <2> QED BY <1>3, <2>1, WillShowSame
<1> QED BY <1>2, <1>3

\* The joiner hears the room's state, then its warnings; the others hear its name.
LEMMA WillShowJoined ==
    ASSUME SessionInv, NEW s \in Sids, JoinGet(s), NEW x \in Sids, Linked(x), NEW v
    PROVE  /\ x = s => /\ WillShow(x, "canvas", v)' <=> v \in joins[s].read
                       /\ WillShow(x, "warnings", v)' <=> v \in joins[s].read
                       /\ WillShow(x, "users", v)' <=> v \in active
           /\ x # s /\ x \in inRoom /\ v = UserAt(s) => WillShow(x, "users", v)'
           /\ x # s /\ (x \notin inRoom \/ v # UserAt(s)) =>
                 (WillShow(x, "users", v)' <=> WillShow(x, "users", v))
           /\ x # s => /\ WillShow(x, "canvas", v)' <=> WillShow(x, "canvas", v)
                       /\ WillShow(x, "warnings", v)' <=> WillShow(x, "warnings", v)
           /\ WillShow(x, "cursors", v)' <=> WillShow(x, "cursors", v)
PROOF
<1>1. PICK m, n, j \in ServerMsg :
         /\ m.kind = "roomState" /\ m.canvas = joins[s].read /\ m.users = active
         /\ n.kind = "warningUpdate" /\ n.canvas = joins[s].read
         /\ j.kind = "userJoined" /\ j.user = UserAt(s)
         /\ Append(down[s], m) \in Seq(ServerMsg)
         /\ Linked(s) => down'[s] = Append(Append(down[s], m), n)
         /\ ~Linked(s) => down'[s] = down[s]
         /\ \A y \in Sids \ {s} : Linked(y) /\ y \in inRoom => down'[y] = Append(down[y], j)
         /\ \A y \in Sids \ {s} : ~Linked(y) \/ y \notin inRoom => down'[y] = down[y]
  BY JoinGetSends
<1>2. tab' = tab
  BY JoinGetEffect
<1>3. CASE x = s
  <2>1. PICK q \in Seq(ServerMsg) : q = Append(down[x], m)
    BY <1>1, <1>3
  <2>2. down'[x] = Append(q, n)
    BY <1>1, <1>3, <2>1
  <2>3. ASSUME NEW k
        PROVE  /\ Tells(n, k, v) => (WillShow(x, k, v)' <=> Puts(n, k, v))
               /\ ~Tells(n, k, v) /\ Tells(m, k, v) => (WillShow(x, k, v)' <=> Puts(m, k, v))
               /\ ~Tells(n, k, v) /\ ~Tells(m, k, v) => (WillShow(x, k, v)' <=> WillShow(x, k, v))
    <3>1. PICK b \in BOOLEAN : b <=> v \in tab[x[1]][k]
      OBVIOUS
    <3>2. WillShow(x, k, v) <=> After(down[x], k, v, b)
      BY <3>1 DEF WillShow, After
    <3>3. WillShow(x, k, v)' <=> After(Append(q, n), k, v, b)
      BY <1>2, <2>2, <3>1 DEF WillShow, After
    <3>4. /\ Tells(n, k, v) => (After(Append(q, n), k, v, b) <=> Puts(n, k, v))
          /\ ~Tells(n, k, v) => (After(Append(q, n), k, v, b) <=> After(q, k, v, b))
      BY AfterAppended
    <3>5. /\ Tells(m, k, v) => (After(q, k, v, b) <=> Puts(m, k, v))
          /\ ~Tells(m, k, v) => (After(q, k, v, b) <=> After(down[x], k, v, b))
      BY <2>1, QueueTypes, AfterAppended
    <3> QED BY <3>2, <3>3, <3>4, <3>5
  <2>4. /\ Tells(n, "warnings", v) /\ (Puts(n, "warnings", v) <=> v \in joins[s].read)
        /\ ~Tells(n, "canvas", v) /\ Tells(m, "canvas", v) /\ (Puts(m, "canvas", v) <=> v \in joins[s].read)
        /\ ~Tells(n, "users", v) /\ Tells(m, "users", v) /\ (Puts(m, "users", v) <=> v \in active)
        /\ ~Tells(n, "cursors", v) /\ ~Tells(m, "cursors", v)
    BY <1>1 DEF Tells, Puts
  <2> QED BY <1>3, <2>3, <2>4
<1>4. CASE x # s /\ x \in inRoom
  <2>1. down'[x] = Append(down[x], j)
    BY <1>1, <1>4
  <2>2. /\ ~Tells(j, "canvas", v) /\ ~Tells(j, "warnings", v) /\ ~Tells(j, "cursors", v)
        /\ v = UserAt(s) => Tells(j, "users", v) /\ Puts(j, "users", v)
        /\ v # UserAt(s) => ~Tells(j, "users", v)
    BY <1>1 DEF Tells, Puts
  <2> QED BY <1>2, <1>4, <2>1, <2>2, WillShowAppends
<1>5. CASE x # s /\ x \notin inRoom
  <2>1. down'[x] = down[x]
    BY <1>1, <1>5
  <2> QED BY <1>2, <1>5, <2>1, WillShowSame
<1> QED BY <1>3, <1>4, <1>5

\* A message that is shown was going to be.
LEMMA ShowsKeeps ==
    ASSUME SessionInv, NEW t \in Tabs, Shows(t), NEW s \in Sids, Linked(s), NEW k \in Kept, NEW v
    PROVE  WillShow(s, k, v)' <=> WillShow(s, k, v)
PROOF
<1>1. CASE s = Sid(t)
  <2>1. /\ s[1] = t /\ down[s] # <<>> /\ down'[s] = Tail(down[s]) /\ Received(t) = Head(down[s])
        /\ v \in tab'[t][k] <=> IF Tells(Received(t), k, v) THEN Puts(Received(t), k, v)
                                ELSE v \in tab[t][k]
    BY <1>1 DEF Shows, Received, Sid
  <2>2. PICK b, c \in BOOLEAN : (b <=> v \in tab[t][k]) /\ (c <=> v \in tab'[t][k])
    OBVIOUS
  <2>3. WillShow(s, k, v) <=> After(down[s], k, v, b)
    BY <2>1, <2>2 DEF WillShow, After
  <2>4. WillShow(s, k, v)' <=> After(Tail(down[s]), k, v, c)
    BY <2>1, <2>2 DEF WillShow, After
  <2>5. /\ Tells(Head(down[s]), k, v) => (c <=> Puts(Head(down[s]), k, v))
        /\ ~Tells(Head(down[s]), k, v) => (c <=> b)
    BY <2>1, <2>2
  <2> QED BY <2>1, <2>3, <2>4, <2>5, QueueTypes, AfterTaken
<1>2. CASE s # Sid(t)
  <2>1. s[1] # t /\ s[1] \in Tabs
    BY <1>2, LinkedFacts, SidsFacts
  <2>2. tab'[s[1]] = tab[s[1]] /\ down'[s] = down[s]
    BY <1>2, <2>1 DEF Shows
  <2> QED BY <2>2, WillShowSame
<1> QED BY <1>1, <1>2

\* The messages and the page of s stay as they are.
LEMMA SettledStays ==
    ASSUME NEW s \in Sids, Settled(s)', Linked(s)' => Linked(s), s \in inRoom' => s \in inRoom,
           joins'[s] = joins[s], Has(up[s], Join) => Has(up'[s], Join)
    PROVE  Settled(s)
BY DEF Settled

\* Nothing a client does ends a join, and only its own edits change what it will show.
LEMMA ClientSettled ==
    ASSUME SessionInv, NEW t \in Tabs, Client(t), NEW s \in Sids, Settled(s)'
    PROVE  /\ Settled(s)
           /\ \A k \in Kept : (k = "canvas" => ~EditCanvas(t)) =>
                 \A v : WillShow(s, k, v)' <=> WillShow(s, k, v)
PROOF
<1>0. Linked(s)' /\ s \in inRoom' /\ s[1] \in Tabs
  BY SidsFacts DEF Settled
<1>1. CASE Shows(t)
  <2>1. (Linked(s)' => Linked(s)) /\ up' = up /\ joins' = joins /\ inRoom' = inRoom
    <3>1. tab'[s[1]].page = tab[s[1]].page /\ tab'[s[1]].link = tab[s[1]].link
      BY <1>0, <1>1 DEF Shows
    <3> QED BY <1>1, <3>1 DEF Shows, Linked, sockets
  <2>2. Settled(s)
    BY <2>1, SettledStays
  <2>3. Linked(s)
    BY <2>2 DEF Settled
  <2> QED BY <1>1, <2>2, <2>3, ShowsKeeps
<1>2. ASSUME Linked(s), s[1] # t, tab'[s[1]] = tab[s[1]], down'[s] = down[s], up'[s] = up[s],
             UNCHANGED <<joins, inRoom>>
      PROVE  Settled(s) /\ \A k : \A v : WillShow(s, k, v)' <=> WillShow(s, k, v)
  <2>1. Settled(s)
    BY <1>2, SettledStays
  <2> QED BY <1>2, <2>1, WillShowSame
<1>3. CASE Quits(t)
  <2>1. Linked(s) /\ s[1] # t
    BY <1>0, <1>3, QuitsEffect
  <2>2. tab'[s[1]] = tab[s[1]] /\ down'[s] = down[s] /\ up'[s] = up[s] /\ UNCHANGED <<joins, inRoom>>
    BY <1>0, <1>3, <2>1, QuitsEffect DEF sockets
  <2> QED BY <1>2, <2>1, <2>2
<1>4. CASE Drop(t)
  <2>1. Linked(s) /\ s[1] # t
    BY <1>0, <1>4, DropEffect
  <2>2. s # Sid(t)
    BY <1>4, <2>1, DropEffect
  <2>3. tab'[s[1]] = tab[s[1]] /\ down'[s] = down[s] /\ up'[s] = up[s] /\ UNCHANGED <<joins, inRoom>>
    BY <1>0, <1>4, <2>1, <2>2, DropEffect DEF sockets
  <2> QED BY <1>2, <2>1, <2>3
<1>5. CASE Open(t)
  <2>1. Linked(s) /\ s[1] # t
    BY <1>0, <1>5, OpenEffect
  <2>2. tab'[s[1]] = tab[s[1]] /\ down'[s] = down[s] /\ up'[s] = up[s] /\ UNCHANGED <<joins, inRoom>>
    BY <1>0, <1>5, <2>1, OpenEffect DEF sockets
  <2> QED BY <1>2, <2>1, <2>2
<1>6. CASE Connect(t)
  <2>1. PICK x \in Sids :
             /\ \A y \in Sids \ {x} : /\ Linked(y)' <=> Linked(y)
                                      /\ up'[y] = up[y] /\ down'[y] = down[y]
                                      /\ y \in alive' <=> y \in alive
             /\ \A y \in Sids : y[1] = t => ~Linked(y)
             /\ x \notin inRoom
             /\ \A u \in Tabs \ {t} : tab'[u] = tab[u]
             /\ UNCHANGED <<inRoom, joins>>
    BY <1>6, ConnectEffect DEF Linked
  <2>2. s # x /\ Linked(s)
    BY <1>0, <2>1
  <2>3. s[1] # t
    BY <2>1, <2>2
  <2> QED BY <1>0, <1>2, <2>1, <2>2, <2>3
<1>7. ASSUME NEW m \in ClientMsg, Sends(t, m), NEW K,
             \A k \in K : tab'[t][k] = tab[t][k]
      PROVE  Settled(s) /\ \A k \in K : \A v : WillShow(s, k, v)' <=> WillShow(s, k, v)
  <2>1. Has(up[s], Join) => Has(up'[s], Join)
    <3>1. up'[s] = up[s] \/ up'[s] = Append(up[s], m)
      BY <1>7 DEF Sends
    <3>2. Has(Append(up[s], m), Join) <=> Has(up[s], Join) \/ m.kind \in Join
      BY QueueTypes, HasAppended
    <3> QED BY <3>1, <3>2
  <2>2. Linked(s) /\ UNCHANGED <<down, joins, inRoom>>
    BY <1>0, <1>7 DEF Sends, sockets
  <2>3. Settled(s)
    BY <2>1, <2>2, SettledStays
  <2>4. \A k \in K : tab'[s[1]][k] = tab[s[1]][k]
    BY <1>0, <1>7 DEF Sends
  <2> QED BY <2>2, <2>3, <2>4, WillShowSame
<1>8. CASE EditCanvas(t)
  <2>1. PICK e \in Nat : Sends(t, Op(e)) /\ Op(e) \in ClientMsg
    BY <1>8, EditEffect
  <2>2. \A k \in {"users", "cursors", "warnings"} : tab'[t][k] = tab[t][k]
    BY <2>1 DEF Sends
  <2>3. Settled(s) /\ \A k \in {"users", "cursors", "warnings"} : \A v : WillShow(s, k, v)' <=> WillShow(s, k, v)
    BY <1>7, <2>1, <2>2
  <2> QED BY <1>8, <2>3 DEF Kept
<1>9. CASE MoveCursor(t)
  <2>1. PICK m : m = [kind |-> "cursor"]
    OBVIOUS
  <2>2. m \in ClientMsg /\ Sends(t, m) /\ tab'[t].canvas = tab[t].canvas
    BY <1>9, <2>1, MoveEffect
  <2>3. \A k \in Kept : tab'[t][k] = tab[t][k]
    BY <2>2 DEF Sends, Kept
  <2> QED BY <1>7, <2>2, <2>3
<1> QED BY <1>1, <1>3, <1>4, <1>5, <1>6, <1>8, <1>9 DEF Client

LEMMA AsideSettled ==
    ASSUME SessionInv, Aside, NEW s \in Sids
    PROVE  /\ Settled(s)' <=> Settled(s)
           /\ \A k \in Kept : \A v : WillShow(s, k, v)' <=> WillShow(s, k, v)
PROOF
<1>1. Alike(tab'[s[1]], tab[s[1]]) /\ UNCHANGED <<up, down, inRoom, joins>>
  BY SidsFacts DEF Aside, sockets
<1>2. \A k \in Kept : tab'[s[1]][k] = tab[s[1]][k]
  BY <1>1 DEF Alike, Kept
<1>3. Linked(s)' <=> Linked(s)
  BY <1>1 DEF Alike, Linked
<1> QED BY <1>1, <1>2, <1>3, WillShowSame DEF Settled

\* As long as the room is open, a join ends with its reply.
LEMMA GatewaySettled ==
    ASSUME SessionInv, InTime, room = "open", NEW s \in Sids, GatewayNext(s), NEW x \in Sids, Settled(x)'
    PROVE  /\ Settled(x) \/ (x = s /\ JoinGet(s))
           /\ Linked(x)
PROOF
<1>1. tab' = tab
  BY HandleJoinRoomEffect, JoinAccessEffect, JoinExistsEffect, JoinWarmEffect, JoinAddEffect, JoinGetEffect,
     DisconnectEffect, LeaveRemoveEffect, LeaveNotifyEffect, HandleOperationEffect, HandleCursorEffect
     DEF GatewayNext
<1>2. Linked(x) /\ joins'[x] = None /\ x \in inRoom'
  BY <1>1, StillLinked DEF Settled
<1>3. CASE HandleJoinRoom(s)
  <2>1. x # s /\ joins'[x] = joins[x] /\ up'[x] = up[x] /\ inRoom' = inRoom
    BY <1>2, <1>3, HandleJoinRoomEffect
  <2> QED BY <1>2, <2>1, SettledStays
<1>4. CASE JoinAccess(s)
  <2>1. x # s /\ joins'[x] = joins[x] /\ up'[x] = up[x] /\ (x \in inRoom' => x \in inRoom)
    BY <1>2, <1>4, JoinAccessEffect
  <2> QED BY <1>2, <2>1, SettledStays
<1>5. CASE JoinExists(s)
  BY <1>5, JoinExistsEffect DEF InTime
<1>6. CASE JoinWarm(s) \/ JoinAdd(s)
  <2>1. x # s /\ joins'[x] = joins[x] /\ up'[x] = up[x] /\ inRoom' = inRoom
    BY <1>2, <1>6, JoinWarmEffect, JoinAddEffect
  <2> QED BY <1>2, <2>1, SettledStays
<1>7. CASE JoinGet(s)
  <2>1. x # s => joins'[x] = joins[x] /\ up'[x] = up[x] /\ inRoom' = inRoom
    BY <1>7, JoinGetEffect
  <2> QED BY <1>2, <1>7, <2>1, SettledStays
<1>8. CASE HandleDisconnect(s) \/ LeaveRemove(s) \/ LeaveNotify(s)
  <2>1. joins' = joins /\ up' = up /\ (x \in inRoom' => x \in inRoom)
    BY <1>8, DisconnectEffect, LeaveRemoveEffect, LeaveNotifyEffect
  <2> QED BY <1>2, <2>1, SettledStays
<1>9. CASE HandleOperation(s) \/ HandleCursor(s)
  <2>1. /\ up[s] # <<>> /\ Head(up[s]).kind # "joinRoom" /\ up'[s] = Tail(up[s])
        /\ \A y \in Sids \ {s} : up'[y] = up[y]
        /\ joins' = joins /\ inRoom' = inRoom
    BY <1>9, HandleOperationEffect, HandleCursorEffect DEF sockets
  <2>2. Has(up[x], Join) => Has(up'[x], Join)
    <3>1. CASE x = s
      BY <2>1, <3>1, QueueTypes, HasTaken DEF Join
    <3>2. CASE x # s
      BY <2>1, <3>2
    <3> QED BY <3>1, <3>2
  <2> QED BY <1>2, <2>1, <2>2, SettledStays
<1> QED BY <1>2, <1>3, <1>4, <1>5, <1>6, <1>7, <1>8, <1>9 DEF GatewayNext

LEMMA ServerSettled ==
    ASSUME SessionInv, Server, NEW s \in Sids, Settled(s)'
    PROVE  Settled(s) /\ Linked(s) /\ tab' = tab
PROOF
<1>1. UNCHANGED <<tab, up, inRoom, joins>>
  BY RunAnalysisEffect, ExpireUsersEffect, BroadcastDeletedEffect, DeletionEffect, AnnounceEffect DEF Server, sockets
<1>2. Linked(s)
  BY <1>1, StillLinked DEF Settled
<1> QED BY <1>1, <1>2, SettledStays

-----------------------------------------------------------------------------
(* The warnings of every page are those of the live canvas.                *)

Fresh == \A s \in Sids : joins[s].at \in {"add", "get"} => timer \/ joins[s].read = live
Warned(s) == timer \/ \A e \in Nat : WillShow(s, "warnings", e) <=> e \in live
WarnedNow == Fresh /\ \A s \in Sids : Settled(s) => Warned(s)

\* Unless an analysis has overtaken a join, a join that has read the canvas replies
\* with the live one, and whoever is settled is told of it, or will be when the timer
\* fires.
WarningsInv == Calm({"overtaken"}) => WarnedNow

LEMMA WarnedStays ==
    ASSUME NEW s \in Sids, Warned(s), timer' = timer, live' = live,
           \A v : WillShow(s, "warnings", v)' <=> WillShow(s, "warnings", v)
    PROVE  Warned(s)'
BY DEF Warned

LEMMA FreshStays ==
    ASSUME Fresh, timer' = timer, live' = live, joins' = joins
    PROVE  Fresh'
BY DEF Fresh

LEMMA AsideWarned ==
    ASSUME SessionInv, WarnedNow, Aside
    PROVE  WarnedNow'
PROOF
<1>1. timer' = timer /\ live' = live /\ joins' = joins
  BY DEF Aside, redis, sockets
<1>2. ASSUME NEW s \in Sids, Settled(s)' PROVE Warned(s)'
  <2>1. Settled(s) /\ \A v : WillShow(s, "warnings", v)' <=> WillShow(s, "warnings", v)
    BY <1>2, AsideSettled DEF Kept
  <2> QED BY <1>1, <2>1, WarnedStays DEF WarnedNow
<1> QED BY <1>1, <1>2, FreshStays DEF WarnedNow

LEMMA ClientKeepsRoom ==
    ASSUME SessionInv, NEW t \in Tabs, Client(t)
    PROVE  /\ UNCHANGED redis
           /\ UNCHANGED <<inRoom, meta, joins, leaves>>
PROOF
<1>1. CASE EditCanvas(t) \/ MoveCursor(t)
  BY <1>1 DEF EditCanvas, MoveCursor, sockets
<1> QED BY <1>1, QuitsEffect, OpenEffect, DropEffect DEF Client, Shows, Connect, sockets

LEMMA ClientWarned ==
    ASSUME SessionInv, WarnedNow, NEW t \in Tabs, Client(t)
    PROVE  WarnedNow'
PROOF
<1>1. timer' = timer /\ live' = live /\ joins' = joins
  BY ClientKeepsRoom DEF redis
<1>2. ASSUME NEW s \in Sids, Settled(s)' PROVE Warned(s)'
  <2>1. Settled(s) /\ \A v : WillShow(s, "warnings", v)' <=> WillShow(s, "warnings", v)
    BY <1>2, ClientSettled DEF Kept
  <2> QED BY <1>1, <2>1, WarnedStays DEF WarnedNow
<1> QED BY <1>1, <1>2, FreshStays DEF WarnedNow

\* A step of the join of s, while it reads nothing of what has changed since.
LEMMA JoinWarned ==
    ASSUME SessionInv, WarnedNow, NEW s \in Sids, timer' = timer, live' = live,
           UNCHANGED <<tab, down>>, \A x \in Sids \ {s} : joins'[x] = joins[x],
           joins'[s].at \in {"add", "get"} => timer \/ joins'[s].read = live,
           \A x \in Sids : Settled(x)' => Settled(x)
    PROVE  WarnedNow'
PROOF
<1>1. ASSUME NEW x \in Sids, Settled(x)' PROVE Warned(x)'
  <2>1. \A v : WillShow(x, "warnings", v)' <=> WillShow(x, "warnings", v)
    BY WillShowSame
  <2> QED BY <1>1, <2>1, WarnedStays DEF WarnedNow
<1>2. ASSUME NEW x \in Sids, joins'[x].at \in {"add", "get"} PROVE timer' \/ joins'[x].read = live'
  BY <1>2 DEF WarnedNow, Fresh
<1> QED BY <1>1, <1>2 DEF WarnedNow, Fresh

\* A message that is not about warnings.
LEMMA BroadcastWarned ==
    ASSUME SessionInv, WarnedNow, timer' = timer, live' = live, joins' = joins, tab' = tab,
           down' = down \/ \E S : \E m : Reaches(S, m) /\ m.kind # "warningUpdate",
           \A x \in Sids : Settled(x)' => Settled(x)
    PROVE  WarnedNow'
PROOF
<1>1. ASSUME NEW x \in Sids, Settled(x)' PROVE Warned(x)'
  <2>1. CASE down' = down
    <3>1. \A v : WillShow(x, "warnings", v)' <=> WillShow(x, "warnings", v)
      BY <2>1, WillShowSame
    <3> QED BY <1>1, <3>1, WarnedStays DEF WarnedNow
  <2>2. ASSUME NEW S, NEW m, Reaches(S, m), m.kind # "warningUpdate" PROVE Warned(x)'
    <3>1. ASSUME NEW v PROVE WillShow(x, "warnings", v)' <=> WillShow(x, "warnings", v)
      <4>1. ~Tells(m, "warnings", v)
        BY <2>2 DEF Tells
      <4> QED BY <2>2, <4>1, WillShowHears
    <3> QED BY <1>1, <3>1, WarnedStays DEF WarnedNow
  <2> QED BY <2>1, <2>2
<1> QED BY <1>1, FreshStays DEF WarnedNow

LEMMA GatewayWarned ==
    ASSUME SessionInv, InTime, WarnedNow, room = "open", NEW s \in Sids, GatewayNext(s)
    PROVE  WarnedNow'
PROOF
<1>0. ASSUME ~JoinGet(s), NEW x \in Sids, Settled(x)' PROVE Settled(x)
  BY <1>0, GatewaySettled
<1>1. CASE JoinGet(s)
  <2>1. /\ joins[s].at = "get" /\ joins'[s] = None /\ \A x \in Sids \ {s} : joins'[x] = joins[x]
        /\ timer' = timer /\ live' = live
    BY <1>1, JoinGetEffect DEF redis
  <2>2. timer \/ joins[s].read = live
    BY <2>1 DEF WarnedNow, Fresh
  <2>3. ASSUME NEW x \in Sids, Settled(x)' PROVE Warned(x)'
    <3>1. Linked(x) /\ (x # s => Settled(x))
      BY <2>3, GatewaySettled
    <3>2. CASE x = s
      BY <1>1, <2>1, <2>2, <3>1, <3>2, WillShowJoined DEF Warned
    <3>3. CASE x # s
      <4>1. \A v : WillShow(x, "warnings", v)' <=> WillShow(x, "warnings", v)
        BY <1>1, <3>1, <3>3, WillShowJoined
      <4> QED BY <2>1, <3>1, <3>3, <4>1, WarnedStays DEF WarnedNow
    <3> QED BY <3>2, <3>3
  <2>4. ASSUME NEW x \in Sids, joins'[x].at \in {"add", "get"} PROVE timer' \/ joins'[x].read = live'
    BY <2>1, <2>4, NoneAt DEF WarnedNow, Fresh
  <2> QED BY <2>3, <2>4 DEF WarnedNow, Fresh
<1>2. CASE HandleJoinRoom(s) \/ JoinAccess(s) \/ JoinWarm(s) \/ JoinAdd(s)
  <2>1. ~JoinGet(s)
    <3>1. CASE HandleJoinRoom(s)
      <4>1. joins'[s] # None
        BY <3>1, HandleJoinRoomEffect
      <4> QED BY <4>1, JoinGetEffect
    <3> QED BY <1>2, <3>1, JoinGetEffect, JoinAccessEffect, JoinWarmEffect, JoinAddEffect
  <2>2. /\ timer' = timer /\ live' = live /\ UNCHANGED <<tab, down>>
        /\ \A x \in Sids \ {s} : joins'[x] = joins[x]
    BY <1>2, HandleJoinRoomEffect, JoinAccessEffect, JoinWarmEffect, JoinAddEffect DEF redis
  <2>3. joins'[s].at \in {"add", "get"} => timer \/ joins'[s].read = live
    <3>1. CASE HandleJoinRoom(s)
      BY <3>1, HandleJoinRoomEffect
    <3>2. CASE JoinAccess(s)
      BY <3>2, JoinAccessEffect
    <3>3. CASE JoinWarm(s)
      BY <3>3, JoinWarmEffect
    <3>4. CASE JoinAdd(s)
      BY <3>4, JoinAddEffect DEF WarnedNow, Fresh
    <3> QED BY <1>2, <3>1, <3>2, <3>3, <3>4
  <2> QED BY <1>0, <2>1, <2>2, <2>3, JoinWarned
<1>3. CASE JoinExists(s)
  BY <1>3, JoinExistsEffect DEF InTime
<1>4. CASE HandleDisconnect(s) \/ LeaveRemove(s)
  <2>1. joins' = joins /\ timer' = timer /\ live' = live /\ UNCHANGED <<tab, down>>
    BY <1>4, DisconnectEffect, LeaveRemoveEffect DEF redis
  <2>2. ~JoinGet(s)
    BY <2>1, JoinGetEffect
  <2> QED BY <1>0, <2>1, <2>2, BroadcastWarned
<1>5. CASE LeaveNotify(s)
  <2>1. PICK m : m = Presence("userLeft", UserAt(s))
    OBVIOUS
  <2>2. Reaches(inRoom, m) /\ m.kind # "warningUpdate"
    BY <1>5, <2>1, LeaveNotifyEffect DEF Presence
  <2>3. joins' = joins /\ timer' = timer /\ live' = live /\ tab' = tab
    BY <1>5, LeaveNotifyEffect DEF redis
  <2>4. ~JoinGet(s)
    BY <2>3, JoinGetEffect
  <2> QED BY <1>0, <2>2, <2>3, <2>4, BroadcastWarned
<1>6. CASE HandleOperation(s)
  <2>1. timer' = TRUE
    BY <1>6, HandleOperationEffect
  <2> QED BY <2>1 DEF WarnedNow, Fresh, Warned
<1>7. CASE HandleCursor(s)
  <2>1. PICK m : m = Cursor(UserAt(s))
    OBVIOUS
  <2>2. (Reaches(inRoom \ {s}, m) \/ down' = down) /\ m.kind # "warningUpdate"
    BY <1>7, <2>1, HandleCursorEffect DEF Cursor
  <2>3. joins' = joins /\ timer' = timer /\ live' = live /\ tab' = tab
    BY <1>7, HandleCursorEffect DEF redis, sockets
  <2>4. ~JoinGet(s)
    BY <2>3, JoinGetEffect
  <2> QED BY <1>0, <2>2, <2>3, <2>4, BroadcastWarned
<1> QED BY <1>1, <1>2, <1>3, <1>4, <1>5, <1>6, <1>7 DEF GatewayNext

LEMMA ServerWarned ==
    ASSUME SessionInv, WarnedNow, room' = "open", "overtaken" \notin past', Server
    PROVE  WarnedNow'
PROOF
<1>0. ASSUME NEW x \in Sids, Settled(x)' PROVE Settled(x)
  BY <1>0, ServerSettled
<1>1. CASE RunAnalysis
  <2>1. /\ ~timer' /\ UNCHANGED <<tab, joins, room, live>>
        /\ Note("overtaken", \E s \in Sids : joins[s].at \in {"add", "get"} /\ joins[s].read # live)
    BY <1>1, RunAnalysisEffect DEF sockets
  <2>2. \A s \in Sids : joins[s].at \in {"add", "get"} => joins[s].read = live
    BY <2>1 DEF Note
  <2>3. PICK m : m = WarningUpdate(live)
    OBVIOUS
  <2>4. Reaches(inRoom, m)
    BY <1>1, <2>1, <2>3, RunAnalysisEffect
  <2>5. ASSUME NEW x \in Sids, Settled(x)' PROVE Warned(x)'
    <3>1. x \in inRoom /\ Linked(x)
      BY <1>0, <2>5 DEF Settled
    <3>2. ASSUME NEW e \in Nat PROVE WillShow(x, "warnings", e)' <=> e \in live'
      <4>1. Tells(m, "warnings", e) /\ (Puts(m, "warnings", e) <=> e \in live)
        BY <2>3 DEF Tells, Puts, WarningUpdate
      <4> QED BY <2>1, <2>4, <3>1, <4>1, WillShowHears
    <3> QED BY <3>2 DEF Warned
  <2> QED BY <2>1, <2>2, <2>5 DEF WarnedNow, Fresh
<1>2. ASSUME NEW m \in announce, Announce(m) PROVE WarnedNow'
  <2>1. /\ Reaches(inRoom, m) /\ m.kind # "warningUpdate"
        /\ joins' = joins /\ timer' = timer /\ live' = live /\ tab' = tab
    BY <1>2, AnnounceEffect DEF sockets, redis
  <2> QED BY <1>0, <2>1, BroadcastWarned
<1>3. CASE ExpireUsers
  <2>1. joins' = joins /\ timer' = timer /\ live' = live /\ tab' = tab /\ down' = down
    BY <1>3, ExpireUsersEffect DEF sockets
  <2> QED BY <1>0, <2>1, BroadcastWarned
<1> QED BY <1>1, <1>2, <1>3, BroadcastDeletedEffect, DeletionEffect DEF Server

LEMMA InitNothing ==
    ASSUME Init, NEW s \in Sids
    PROVE  /\ joins[s] = None /\ leaves[s] = None /\ up[s] = <<>> /\ down[s] = <<>>
           /\ tab[s[1]].canvas = {} /\ tab[s[1]].warnings = {} /\ tab[s[1]].cursors = {}
           /\ tab[s[1]].pending = <<>> /\ tab[s[1]].made = {}
           /\ Linked(s) => s \in meta /\ tab[s[1]].users = active /\ ~tab[s[1]].awaiting
PROOF
<1>1. s = <<s[1], s[2]>> /\ s[1] \in Tabs
  BY SidsFacts
<1>2. joins[s] = None /\ leaves[s] = None /\ up[s] = <<>> /\ down[s] = <<>>
  BY DEF Init
<1>3. CASE s[1] \notin budget.present
  <2>1. tab[s[1]] = Blank
    BY <1>1, <1>3 DEF Init
  <2> QED BY <1>2, <2>1 DEF Blank, Linked
<1>4. CASE s[1] \in budget.present
  <2>1. PICK T : T = Blank
    OBVIOUS
  <2>2. tab[s[1]] = [T EXCEPT !.page = "room", !.link = 1, !.connections = 1,
                              !.once = TRUE, !.joined = TRUE, !.users = active]
    BY <1>1, <1>4, <2>1 DEF Init
  <2>3. T = [page |-> "away", link |-> 0, connections |-> 0, once |-> FALSE, valid |-> TRUE,
             pending |-> <<>>, joined |-> FALSE, awaiting |-> FALSE, canvas |-> {}, users |-> {},
             cursors |-> {}, warnings |-> {}, shown |-> [l \in Lists |-> {}], panel |-> FALSE,
             made |-> {}]
    BY <2>1 DEF Blank
  <2>4. /\ tab[s[1]].canvas = {} /\ tab[s[1]].warnings = {} /\ tab[s[1]].cursors = {}
        /\ tab[s[1]].pending = <<>> /\ tab[s[1]].made = {}
        /\ tab[s[1]].users = active /\ ~tab[s[1]].awaiting /\ tab[s[1]].link = 1
    BY <2>2, <2>3
  <2>5. Linked(s) => s \in meta
    BY <1>1, <1>4, <2>4 DEF Init, Linked
  <2> QED BY <1>2, <2>4, <2>5
<1> QED BY <1>3, <1>4

LEMMA InitWarnings == Init => WarningsInv
PROOF
<1> SUFFICES ASSUME Init PROVE WarningsInv
  OBVIOUS
<1>1. live = {}
  BY DEF Init
<1>2. ASSUME NEW s \in Sids, NEW e \in Nat PROVE ~WillShow(s, "warnings", e)
  BY InitNothing DEF WillShow, After
<1> QED BY <1>1, <1>2, InitNothing, NoneAt DEF WarningsInv, WarnedNow, Fresh, Warned

LEMMA NextWarnings ==
    ASSUME SessionInv, InTime, WarningsInv, [Next]_vars
    PROVE  WarningsInv'
PROOF
<1> SUFFICES ASSUME room' = "open", past' \cap {"overtaken"} = {} PROVE WarnedNow'
  BY DEF WarningsInv, Calm
<1>1. room = "open" /\ WarnedNow
  BY NextOnward DEF Onward, WarningsInv, Calm
<1>2. "overtaken" \notin past'
  OBVIOUS
<1> QED BY <1>1, <1>2, NextCases, AsideWarned, ClientWarned, GatewayWarned, ServerWarned DEF Step

\* In a room that is quiet and open, the page of everyone is settled.
LEMMA QuietSettled ==
    ASSUME SessionInv, WireInv, StrandedInv, Quiet, room = "open", NEW t \in Tabs, tab[t].page = "room"
    PROVE  /\ Sid(t) \in Sids /\ Sid(t)[1] = t /\ Settled(Sid(t)) /\ up[Sid(t)] = <<>>
           /\ \A k \in Kept : \A v : WillShow(Sid(t), k, v) <=> v \in tab[t][k]
PROOF
<1>1. past \cap {"late entry", "denied"} = {}
  BY DEF WireInv, InTime
<1>2. Sid(t) \in Sids /\ Linked(Sid(t)) /\ Sid(t) \in inRoom
  BY <1>1, QuietReach
<1>3. up[Sid(t)] = <<>> /\ down[Sid(t)] = <<>> /\ joins[Sid(t)] = None /\ Sid(t)[1] = t
  BY <1>2 DEF Quiet, Sid
<1>4. Settled(Sid(t))
  BY <1>2, <1>3, HasNothing DEF Settled
<1>5. \A k \in Kept : \A v : WillShow(Sid(t), k, v) <=> v \in tab[t][k]
  BY <1>3 DEF WillShow, After
<1> QED BY <1>2, <1>3, <1>4, <1>5

LEMMA WarningsInvariant == Spec => []WarningsInv
PROOF
<1>1. WireInv => InTime
  BY DEF WireInv
<1>2. Spec => [](SessionInv /\ InTime)
  BY <1>1, StrandedInvariant, PTL
<1>3. SessionInv /\ InTime /\ WarningsInv /\ [Next]_vars => WarningsInv'
  BY NextWarnings
<1> QED BY <1>2, <1>3, InitWarnings, PTL DEF Spec

\* "Running the warning engine on the server ensures all users see identical
\* warnings" (README.md:162): once nothing is on its way, everyone in the room is
\* shown those of the live canvas (canvas.gateway.ts:328), unless an analysis
\* overtook a join that had already read the canvas (canvas.gateway.ts:162).
THEOREM EveryoneIsWarned == Spec => []WarningsAreCurrent
PROOF
<1>1. SessionInv /\ WireInv /\ StrandedInv /\ WarningsInv => WarningsAreCurrent
  <2> SUFFICES ASSUME SessionInv, WireInv, StrandedInv, WarningsInv, Quiet, room = "open",
                      past \cap {"overtaken"} = {}, NEW t \in InSession
               PROVE  tab[t].warnings = live
    BY DEF WarningsAreCurrent, Without
  <2>1. t \in Tabs /\ tab[t].page = "room"
    BY DEF InSession
  <2>2. Sid(t) \in Sids /\ Settled(Sid(t)) /\ \A v : WillShow(Sid(t), "warnings", v) <=> v \in tab[t].warnings
    BY <2>1, QuietSettled DEF Kept
  <2>3. \A e \in Nat : WillShow(Sid(t), "warnings", e) <=> e \in live
    BY <2>2 DEF WarningsInv, WarnedNow, Warned, Calm, Quiet
  <2>4. tab[t].warnings \subseteq Nat /\ live \subseteq Nat
    BY <2>1, PageFacts DEF TabType, SessionInv, RoomTyped
  <2> QED BY <2>2, <2>3, <2>4
<1> QED BY <1>1, StrandedInvariant, WarningsInvariant, PTL

-----------------------------------------------------------------------------
(* Everyone lists everyone.                                                *)

Arriving(u) == \E s \in Sids : UserAt(s) = u /\ joins[s].at = "get"
Departing(u) == \E s \in Sids : UserAt(s) = u /\ leaves[s].at = "notify"
There(u) == \E s \in meta : UserAt(s) = u

\* While no leave crosses another socket of its user or its own join, sockets that
\* are gone have no join, a leave is the last its user has in the room, and the hash
\* holds the users whose metadata there are, but for those who have yet to add theirs.
JoinsLive == \A s \in Sids : joins[s] # None => s \in alive
LeavesLast ==
    \A s \in Sids : leaves[s] # None =>
        joins[s] = None /\ \A x \in meta : UserAt(x) = UserAt(s) => x = s
Known ==
    /\ \A s \in Sids : leaves[s].at = "notify" => s \notin meta
    /\ \A s \in Sids : joins[s].at \in {"warm", "add", "get"} => s \in meta
    /\ \A s \in meta : s \in alive \/ leaves[s].at = "remove"
Added(s) == joins[s].at \notin {"warm", "add"}
Hashed == \A u \in Users : u \in active <=> \E s \in meta : UserAt(s) = u /\ Added(s)
Listed(s) ==
    \A u \in Users : /\ WillShow(s, "users", u) => u \in active \/ Departing(u)
                     /\ u \in active => WillShow(s, "users", u) \/ Arriving(u)
SocketsNow == JoinsLive /\ LeavesLast /\ Known /\ Hashed
PresenceNow == SocketsNow /\ \A s \in Sids : Settled(s) => Listed(s)
PresenceInv == Calm({"crossed", "expired"}) => PresenceNow

LEMMA SocketsStay ==
    ASSUME SocketsNow, UNCHANGED <<meta, joins, leaves, active>>, alive \subseteq alive'
    PROVE  SocketsNow'
BY DEF SocketsNow, JoinsLive, LeavesLast, Known, Hashed, Added

LEMMA ListedStays ==
    ASSUME NEW s \in Sids, Listed(s), UNCHANGED <<joins, leaves, active>>,
           \A u \in Users : WillShow(s, "users", u)' <=> WillShow(s, "users", u)
    PROVE  Listed(s)'
BY DEF Listed, Departing, Arriving

LEMMA AlivesOnly ==
    ASSUME SessionInv, NEW t \in Tabs, Client(t)
    PROVE  alive \subseteq alive'
PROOF
<1>1. CASE Connect(t)
  BY <1>1 DEF Connect
<1>2. CASE EditCanvas(t) \/ MoveCursor(t)
  BY <1>2 DEF EditCanvas, MoveCursor, sockets
<1> QED BY <1>1, <1>2, QuitsEffect, OpenEffect, DropEffect DEF Client, Shows, sockets

LEMMA AsidePresence ==
    ASSUME SessionInv, PresenceNow, Aside
    PROVE  PresenceNow'
PROOF
<1>1. UNCHANGED <<alive, meta, joins, leaves, active>> /\ alive \subseteq alive'
  BY DEF Aside, redis, sockets
<1>2. ASSUME NEW s \in Sids, Settled(s)' PROVE Listed(s)'
  <2>1. Settled(s) /\ \A v : WillShow(s, "users", v)' <=> WillShow(s, "users", v)
    BY <1>2, AsideSettled DEF Kept
  <2> QED BY <1>1, <2>1, ListedStays DEF PresenceNow
<1> QED BY <1>1, <1>2, SocketsStay DEF PresenceNow

LEMMA ClientPresence ==
    ASSUME SessionInv, PresenceNow, NEW t \in Tabs, Client(t)
    PROVE  PresenceNow'
PROOF
<1>1. UNCHANGED <<meta, joins, leaves, active>> /\ alive \subseteq alive'
  BY ClientKeepsRoom, AlivesOnly DEF redis
<1>2. ASSUME NEW s \in Sids, Settled(s)' PROVE Listed(s)'
  <2>1. Settled(s) /\ \A v : WillShow(s, "users", v)' <=> WillShow(s, "users", v)
    BY <1>2, ClientSettled DEF Kept
  <2> QED BY <1>1, <2>1, ListedStays DEF PresenceNow
<1> QED BY <1>1, <1>2, SocketsStay DEF PresenceNow

\* A step that sends nothing about users.
LEMMA BroadcastPresence ==
    ASSUME SessionInv, PresenceNow, UNCHANGED <<tab, sockets, active>>,
           down' = down \/ \E S : \E m : Reaches(S, m) /\ \A u : ~Tells(m, "users", u),
           \A x \in Sids : Settled(x)' => Settled(x)
    PROVE  PresenceNow'
PROOF
<1>1. UNCHANGED <<alive, meta, joins, leaves, active>> /\ alive \subseteq alive'
  BY DEF sockets
<1>2. ASSUME NEW x \in Sids, Settled(x)' PROVE Listed(x)'
  <2>1. CASE down' = down
    <3>1. \A v : WillShow(x, "users", v)' <=> WillShow(x, "users", v)
      BY <2>1, WillShowSame
    <3> QED BY <1>1, <1>2, <3>1, ListedStays DEF PresenceNow
  <2>2. ASSUME NEW S, NEW m, Reaches(S, m), \A u : ~Tells(m, "users", u) PROVE Listed(x)'
    <3>1. \A v : WillShow(x, "users", v)' <=> WillShow(x, "users", v)
      BY <2>2, WillShowHears
    <3> QED BY <1>1, <1>2, <3>1, ListedStays DEF PresenceNow
  <2> QED BY <2>1, <2>2
<1> QED BY <1>1, <1>2, SocketsStay DEF PresenceNow

LEMMA HandleJoinRoomPresence ==
    ASSUME SessionInv, PresenceNow, NEW s \in Sids, Wired(s), HandleJoinRoom(s),
           \A x \in Sids : Settled(x)' => Settled(x)
    PROVE  PresenceNow'
PROOF
<1>1. /\ s \in alive /\ up[s] # <<>> /\ Head(up[s]).kind = "joinRoom"
      /\ \A x \in Sids \ {s} : joins'[x] = joins[x]
      /\ joins'[s].at = "access" /\ joins'[s] # None
      /\ UNCHANGED <<tab, down, alive, meta, leaves, active>>
  BY HandleJoinRoomEffect DEF redis
<1>2. Has(up[s], Join)
  BY <1>1, QueueTypes, HasTaken DEF Join
<1>3. joins[s] = None /\ s \notin meta
  BY <1>2 DEF Wired, WireOK, JoinsOnce
<1>4. leaves[s] = None
  BY <1>1 DEF SessionInv
<1>5. SocketsNow'
  <2>1. JoinsLive'
    BY <1>1 DEF JoinsLive, PresenceNow, SocketsNow
  <2>2. LeavesLast'
    BY <1>1, <1>4 DEF LeavesLast, PresenceNow, SocketsNow
  <2>3. Known'
    BY <1>1 DEF Known, PresenceNow, SocketsNow
  <2>4. meta \subseteq Sids
    BY DEF SessionInv, SocketsTyped
  <2>5. \A x \in meta : Added(x)' <=> Added(x)
    BY <1>1, <1>3, <2>4 DEF Added
  <2>6. Hashed'
    BY <1>1, <2>5 DEF Hashed, PresenceNow, SocketsNow
  <2> QED BY <2>1, <2>2, <2>3, <2>6 DEF SocketsNow
<1>6. ASSUME NEW x \in Sids, Settled(x)' PROVE Listed(x)'
  <2>1. Settled(x) /\ \A v : WillShow(x, "users", v)' <=> WillShow(x, "users", v)
    BY <1>1, <1>6, WillShowSame
  <2>2. \A u : /\ Departing(u)' <=> Departing(u)
               /\ Arriving(u) => Arriving(u)'
    <3>1. joins[s].at # "get"
      BY <1>3, NoneAt
    <3> QED BY <1>1, <3>1 DEF Departing, Arriving
  <2> QED BY <1>1, <2>1, <2>2 DEF PresenceNow, Listed
<1> QED BY <1>5, <1>6 DEF PresenceNow

LEMMA JoinAccessPresence ==
    ASSUME SessionInv, PresenceNow, NEW s \in Sids, Wired(s), JoinAccess(s), room = "open", "crossed" \notin past',
           \A x \in Sids : Settled(x)' => Settled(x)
    PROVE  PresenceNow'
PROOF
<1>1. /\ joins[s].at = "access" /\ joins[s] # None
      /\ joins'[s].at = "warm" /\ joins'[s] # None
      /\ inRoom' = inRoom \cup ({s} \cap alive) /\ meta' = meta \cup {s}
      /\ ~\E x \in Sids : leaves[x] # None /\ UserAt(x) = UserAt(s)
      /\ \A x \in Sids \ {s} : joins'[x] = joins[x]
      /\ UNCHANGED <<tab, up, down, alive, leaves, redis>>
  BY JoinAccessEffect
<1>2. s \notin meta /\ s \in alive
  BY <1>1 DEF Wired, WireOK, JoinsOnce, PresenceNow, SocketsNow, JoinsLive
<1>3. meta \subseteq Sids
  BY DEF SessionInv, SocketsTyped
<1>4. SocketsNow'
  <2>1. JoinsLive'
    BY <1>1 DEF JoinsLive, PresenceNow, SocketsNow
  <2>2. LeavesLast'
    BY <1>1 DEF LeavesLast, PresenceNow, SocketsNow
  <2>3. Known'
    BY <1>1, <1>2, <1>3, NoneAt DEF Known, PresenceNow, SocketsNow
  <2>4. ~Added(s)' /\ \A x \in meta : Added(x)' <=> Added(x)
    BY <1>1, <1>2, <1>3 DEF Added
  <2>5. \A u \in Users : (\E x \in meta' : UserAt(x) = u /\ Added(x)') <=> (\E x \in meta : UserAt(x) = u /\ Added(x))
    BY <1>1, <2>4
  <2>6. Hashed'
    BY <1>1, <2>5 DEF Hashed, PresenceNow, SocketsNow, redis
  <2> QED BY <2>1, <2>2, <2>3, <2>6 DEF SocketsNow
<1>5. ASSUME NEW x \in Sids, Settled(x)' PROVE Listed(x)'
  <2>1. Settled(x) /\ \A v : WillShow(x, "users", v)' <=> WillShow(x, "users", v)
    BY <1>1, <1>5, WillShowSame
  <2>2. \A u : /\ Departing(u)' <=> Departing(u)
               /\ Arriving(u) => Arriving(u)'
    BY <1>1 DEF Departing, Arriving
  <2> QED BY <1>1, <2>1, <2>2 DEF PresenceNow, Listed, redis
<1> QED BY <1>4, <1>5 DEF PresenceNow

LEMMA JoinWarmPresence ==
    ASSUME SessionInv, PresenceNow, NEW s \in Sids, JoinWarm(s), \A x \in Sids : Settled(x)' => Settled(x)
    PROVE  PresenceNow'
PROOF
<1>1. /\ joins[s].at = "warm" /\ joins[s] # None /\ joins'[s].at = "add" /\ joins'[s] # None
      /\ \A x \in Sids \ {s} : joins'[x] = joins[x]
      /\ UNCHANGED <<tab, down, alive, meta, leaves, active>>
  BY JoinWarmEffect DEF redis
<1>2. SocketsNow'
  <2>1. JoinsLive'
    BY <1>1 DEF JoinsLive, PresenceNow, SocketsNow
  <2>2. LeavesLast'
    BY <1>1 DEF LeavesLast, PresenceNow, SocketsNow
  <2>3. Known'
    BY <1>1 DEF Known, PresenceNow, SocketsNow
  <2>4. meta \subseteq Sids
    BY DEF SessionInv, SocketsTyped
  <2>5. \A x \in meta : Added(x)' <=> Added(x)
    BY <1>1, <2>4 DEF Added
  <2>6. Hashed'
    BY <1>1, <2>5 DEF Hashed, PresenceNow, SocketsNow
  <2> QED BY <2>1, <2>2, <2>3, <2>6 DEF SocketsNow
<1>3. ASSUME NEW x \in Sids, Settled(x)' PROVE Listed(x)'
  <2>1. Settled(x) /\ \A v : WillShow(x, "users", v)' <=> WillShow(x, "users", v)
    BY <1>1, <1>3, WillShowSame
  <2>2. \A u : /\ Departing(u)' <=> Departing(u)
               /\ Arriving(u) => Arriving(u)'
    BY <1>1 DEF Departing, Arriving
  <2> QED BY <1>1, <2>1, <2>2 DEF PresenceNow, Listed
<1> QED BY <1>2, <1>3 DEF PresenceNow

LEMMA JoinAddPresence ==
    ASSUME SessionInv, PresenceNow, NEW s \in Sids, JoinAdd(s), \A x \in Sids : Settled(x)' => Settled(x)
    PROVE  PresenceNow'
PROOF
<1>1. /\ joins[s].at = "add" /\ joins[s] # None /\ joins'[s].at = "get" /\ joins'[s] # None
      /\ \A x \in Sids \ {s} : joins'[x] = joins[x]
      /\ active' = active \cup {UserAt(s)}
      /\ UNCHANGED <<tab, down, alive, meta, leaves>>
  BY JoinAddEffect
<1>2. s \in meta
  BY <1>1 DEF PresenceNow, SocketsNow, Known
<1>3. SocketsNow'
  <2>1. JoinsLive'
    BY <1>1 DEF JoinsLive, PresenceNow, SocketsNow
  <2>2. LeavesLast'
    BY <1>1 DEF LeavesLast, PresenceNow, SocketsNow
  <2>3. Known'
    BY <1>1 DEF Known, PresenceNow, SocketsNow
  <2>4. meta \subseteq Sids
    BY DEF SessionInv, SocketsTyped
  <2>5. Added(s)' /\ \A x \in meta \ {s} : Added(x)' <=> Added(x)
    BY <1>1, <2>4 DEF Added
  <2>6. ~Added(s)
    BY <1>1 DEF Added
  <2>7. ASSUME NEW u \in Users
        PROVE  u \in active' <=> \E x \in meta' : UserAt(x) = u /\ Added(x)'
    <3>1. u \in active <=> \E x \in meta : UserAt(x) = u /\ Added(x)
      BY DEF Hashed, PresenceNow, SocketsNow
    <3> QED BY <1>1, <1>2, <2>5, <2>6, <3>1
  <2> QED BY <2>1, <2>2, <2>3, <2>7 DEF SocketsNow, Hashed
<1>4. ASSUME NEW x \in Sids, Settled(x)' PROVE Listed(x)'
  <2>1. Settled(x) /\ \A v : WillShow(x, "users", v)' <=> WillShow(x, "users", v)
    BY <1>1, <1>4, WillShowSame
  <2>2. \A u : /\ Departing(u)' <=> Departing(u)
               /\ Arriving(u) => Arriving(u)'
    BY <1>1 DEF Departing, Arriving
  <2>3. Arriving(UserAt(s))'
    BY <1>1 DEF Arriving
  <2> QED BY <1>1, <2>1, <2>2, <2>3 DEF PresenceNow, Listed
<1> QED BY <1>3, <1>4 DEF PresenceNow

LEMMA JoinGetPresence ==
    ASSUME SessionInv, InTime, PresenceNow, NEW s \in Sids, JoinGet(s), room = "open"
    PROVE  PresenceNow'
PROOF
<1>1. /\ joins[s].at = "get" /\ joins[s] # None /\ joins'[s] = None
      /\ \A x \in Sids \ {s} : joins'[x] = joins[x]
      /\ UNCHANGED <<tab, alive, inRoom, meta, leaves, active>>
  BY JoinGetEffect DEF redis
<1>2. s \in meta /\ meta \subseteq Sids /\ UserAt(s) \in Users
  BY <1>1, SidsFacts DEF PresenceNow, SocketsNow, Known, SessionInv, SocketsTyped
<1>3. \A x \in meta : Added(x)' <=> Added(x)
  BY <1>1, <1>2, NoneAt DEF Added
<1>4. SocketsNow'
  <2>1. JoinsLive'
    BY <1>1 DEF JoinsLive, PresenceNow, SocketsNow
  <2>2. LeavesLast'
    BY <1>1 DEF LeavesLast, PresenceNow, SocketsNow
  <2>3. Known'
    BY <1>1, NoneAt DEF Known, PresenceNow, SocketsNow
  <2>6. Hashed'
    BY <1>1, <1>3 DEF Hashed, PresenceNow, SocketsNow
  <2> QED BY <2>1, <2>2, <2>3, <2>6 DEF SocketsNow
<1>5. UserAt(s) \in active
  BY <1>1, <1>2 DEF PresenceNow, SocketsNow, Hashed, Added
<1>6. ASSUME NEW x \in Sids, Settled(x)', NEW u \in Users
      PROVE  /\ WillShow(x, "users", u)' => u \in active \/ Departing(u)
             /\ u \in active => WillShow(x, "users", u)' \/ Arriving(u)'
  <2>1. Linked(x) /\ (Settled(x) \/ x = s)
    BY <1>6, GatewaySettled DEF GatewayNext
  <2>2. CASE x = s
    BY <2>1, <2>2, WillShowJoined
  <2>3. CASE x # s /\ u = UserAt(s)
    <3>1. x \in inRoom
      BY <1>1, <1>6 DEF Settled
    <3> QED BY <1>5, <2>1, <2>3, <3>1, WillShowJoined
  <2>4. CASE x # s /\ u # UserAt(s)
    <3>1. WillShow(x, "users", u)' <=> WillShow(x, "users", u)
      BY <2>1, <2>4, WillShowJoined
    <3>2. Arriving(u) => Arriving(u)'
      BY <1>1, <2>4 DEF Arriving
    <3> QED BY <2>1, <2>4, <3>1, <3>2 DEF PresenceNow, Listed
  <2> QED BY <2>2, <2>3, <2>4
<1>7. \A u : Departing(u)' <=> Departing(u)
  BY <1>1 DEF Departing
<1> QED BY <1>1, <1>4, <1>6, <1>7 DEF PresenceNow, Listed

LEMMA DisconnectPresence ==
    ASSUME SessionInv, PresenceNow, NEW s \in Sids, HandleDisconnect(s), "crossed" \notin past',
           \A x \in Sids : Settled(x)' => Settled(x)
    PROVE  PresenceNow'
PROOF
<1>1. /\ s \in alive /\ alive' = alive \ {s}
      /\ s \in meta => leaves'[s].at = "remove" /\ leaves'[s] # None
      /\ s \notin meta => leaves'[s] = leaves[s]
      /\ \A x \in Sids \ {s} : leaves'[x] = leaves[x]
      /\ Note("crossed", \/ joins[s] # None
                         \/ \E x \in Sids : x # s /\ UserAt(x) = UserAt(s) /\ {x, s} \subseteq meta)
      /\ UNCHANGED <<tab, up, down, meta, joins, redis>>
  BY DisconnectEffect
<1>2. joins[s] = None /\ ~\E x \in Sids : x # s /\ UserAt(x) = UserAt(s) /\ {x, s} \subseteq meta
  BY <1>1 DEF Note
<1>3. leaves[s] = None /\ meta \subseteq Sids
  BY <1>1 DEF SessionInv, SocketsTyped
<1>4. SocketsNow'
  <2>1. JoinsLive'
    BY <1>1, <1>2 DEF JoinsLive, PresenceNow, SocketsNow
  <2>2. LeavesLast'
    BY <1>1, <1>2, <1>3 DEF LeavesLast, PresenceNow, SocketsNow
  <2>3. Known'
    BY <1>1, <1>3 DEF Known, PresenceNow, SocketsNow
  <2>4. Hashed'
    BY <1>1 DEF Hashed, Added, PresenceNow, SocketsNow, redis
  <2> QED BY <2>1, <2>2, <2>3, <2>4 DEF SocketsNow
<1>5. ASSUME NEW x \in Sids, Settled(x)' PROVE Listed(x)'
  <2>1. Settled(x) /\ \A v : WillShow(x, "users", v)' <=> WillShow(x, "users", v)
    BY <1>1, <1>5, WillShowSame
  <2>2. \A u : /\ Departing(u) => Departing(u)'
               /\ Arriving(u)' <=> Arriving(u)
    BY <1>1, <1>3, NoneAt DEF Departing, Arriving
  <2> QED BY <1>1, <2>1, <2>2 DEF PresenceNow, Listed, redis
<1> QED BY <1>4, <1>5 DEF PresenceNow

LEMMA LeaveRemovePresence ==
    ASSUME SessionInv, PresenceNow, NEW s \in Sids, LeaveRemove(s), \A x \in Sids : Settled(x)' => Settled(x)
    PROVE  PresenceNow'
PROOF
<1>1. /\ leaves[s].at = "remove" /\ leaves[s] # None
      /\ leaves'[s].at = "notify" /\ leaves'[s] # None
      /\ \A x \in Sids \ {s} : leaves'[x] = leaves[x]
      /\ active' = active \ {UserAt(s)} /\ meta' = meta \ {s}
      /\ UNCHANGED <<tab, up, down, alive, joins>>
  BY LeaveRemoveEffect
<1>2. joins[s] = None /\ \A x \in meta : UserAt(x) = UserAt(s) => x = s
  BY <1>1 DEF PresenceNow, SocketsNow, LeavesLast
<1>3. meta \subseteq Sids
  BY DEF SessionInv, SocketsTyped
<1>4. SocketsNow'
  <2>1. JoinsLive'
    BY <1>1 DEF JoinsLive, PresenceNow, SocketsNow
  <2>2. LeavesLast'
    BY <1>1, <1>2 DEF LeavesLast, PresenceNow, SocketsNow
  <2>3. Known'
    BY <1>1, <1>2, <1>3, NoneAt DEF Known, PresenceNow, SocketsNow
  <2>4. ASSUME NEW u \in Users
        PROVE  u \in active' <=> \E x \in meta' : UserAt(x) = u /\ Added(x)'
    <3>1. u \in active <=> \E x \in meta : UserAt(x) = u /\ Added(x)
      BY DEF Hashed, PresenceNow, SocketsNow
    <3>2. \A x \in meta : Added(x)' <=> Added(x)
      BY <1>1 DEF Added
    <3>3. CASE u = UserAt(s)
      BY <1>1, <1>2, <3>3
    <3>4. CASE u # UserAt(s)
      BY <1>1, <3>1, <3>2, <3>4
    <3> QED BY <3>3, <3>4
  <2> QED BY <2>1, <2>2, <2>3, <2>4 DEF SocketsNow, Hashed
<1>5. ASSUME NEW x \in Sids, Settled(x)' PROVE Listed(x)'
  <2>1. Settled(x) /\ \A v : WillShow(x, "users", v)' <=> WillShow(x, "users", v)
    BY <1>1, <1>5, WillShowSame
  <2>2. \A u : /\ Departing(u) => Departing(u)'
               /\ Arriving(u)' <=> Arriving(u)
    BY <1>1 DEF Departing, Arriving
  <2>3. Departing(UserAt(s))'
    BY <1>1 DEF Departing
  <2> QED BY <1>1, <2>1, <2>2, <2>3 DEF PresenceNow, Listed
<1> QED BY <1>4, <1>5 DEF PresenceNow

LEMMA LeaveNotifyPresence ==
    ASSUME SessionInv, PresenceNow, NEW s \in Sids, LeaveNotify(s), \A x \in Sids : Settled(x)' => Settled(x)
    PROVE  PresenceNow'
PROOF
<1>1. /\ leaves[s].at = "notify" /\ leaves[s] # None
      /\ leaves'[s] = None /\ \A x \in Sids \ {s} : leaves'[x] = leaves[x]
      /\ UNCHANGED <<tab, up, alive, inRoom, meta, joins, active>>
  BY LeaveNotifyEffect DEF redis
<1>2. PICK m : m = Presence("userLeft", UserAt(s))
  OBVIOUS
<1>3. Reaches(inRoom, m) /\ m.kind = "userLeft" /\ m.user = UserAt(s)
  BY <1>2, LeaveNotifyEffect DEF Presence
<1>4. meta \subseteq Sids /\ UserAt(s) \in Users
  BY SidsFacts DEF SessionInv, SocketsTyped
<1>5. UserAt(s) \notin active
  BY <1>1, <1>4 DEF PresenceNow, SocketsNow, LeavesLast, Known, Hashed
<1>6. SocketsNow'
  <2>1. JoinsLive'
    BY <1>1 DEF JoinsLive, PresenceNow, SocketsNow
  <2>2. LeavesLast'
    BY <1>1 DEF LeavesLast, PresenceNow, SocketsNow
  <2>3. Known'
    BY <1>1, <1>4, NoneAt DEF Known, PresenceNow, SocketsNow
  <2>4. Hashed'
    BY <1>1 DEF Hashed, Added, PresenceNow, SocketsNow
  <2> QED BY <2>1, <2>2, <2>3, <2>4 DEF SocketsNow
<1>7. ASSUME NEW x \in Sids, Settled(x)', NEW u \in Users
      PROVE  /\ WillShow(x, "users", u)' => u \in active \/ Departing(u)'
             /\ u \in active => WillShow(x, "users", u)' \/ Arriving(u)'
  <2>1. Settled(x) /\ x \in inRoom /\ Linked(x)
    BY <1>7 DEF Settled
  <2>2. Arriving(u)' <=> Arriving(u)
    BY <1>1 DEF Arriving
  <2>3. CASE u = UserAt(s)
    <3>1. Tells(m, "users", u) /\ ~Puts(m, "users", u)
      BY <1>3, <2>3 DEF Tells, Puts
    <3> QED BY <1>1, <1>3, <1>5, <2>1, <2>3, <3>1, WillShowHears
  <2>4. CASE u # UserAt(s)
    <3>1. ~Tells(m, "users", u)
      BY <1>3, <2>4 DEF Tells
    <3>2. WillShow(x, "users", u)' <=> WillShow(x, "users", u)
      BY <1>1, <1>3, <3>1, WillShowHears
    <3>3. Departing(u) => Departing(u)'
      BY <1>1, <2>4 DEF Departing
    <3> QED BY <2>1, <2>2, <3>2, <3>3 DEF PresenceNow, Listed
  <2> QED BY <2>3, <2>4
<1> QED BY <1>1, <1>6, <1>7 DEF PresenceNow, Listed

LEMMA GatewayPresence ==
    ASSUME SessionInv, WireInv, PresenceNow, room = "open", "crossed" \notin past', NEW s \in Sids, GatewayNext(s)
    PROVE  PresenceNow'
PROOF
<1>1. InTime /\ Wired(s)
  BY DEF WireInv
<1>2. ASSUME ~JoinGet(s), NEW x \in Sids, Settled(x)' PROVE Settled(x)
  BY <1>1, <1>2, GatewaySettled
<1>3. CASE JoinGet(s)
  BY <1>1, <1>3, JoinGetPresence
<1>4. CASE JoinExists(s)
  BY <1>1, <1>4, JoinExistsEffect DEF InTime
<1>5. CASE HandleOperation(s)
  <2>1. PICK m : m = Op(Head(up[s]).edit)
    OBVIOUS
  <2>2. Reaches(inRoom \ {s}, m) \/ down' = down
    BY <1>5, <2>1, HandleOperationEffect
  <2>3. \A u : ~Tells(m, "users", u)
    BY <2>1 DEF Op, Tells
  <2>4. UNCHANGED <<tab, sockets, active>>
    BY <1>5, HandleOperationEffect
  <2> QED BY <1>2, <1>3, <2>2, <2>3, <2>4, BroadcastPresence
<1>6. CASE HandleCursor(s)
  <2>1. PICK m : m = Cursor(UserAt(s))
    OBVIOUS
  <2>2. Reaches(inRoom \ {s}, m) \/ down' = down
    BY <1>6, <2>1, HandleCursorEffect
  <2>3. \A u : ~Tells(m, "users", u)
    BY <2>1 DEF Cursor, Tells
  <2>4. UNCHANGED <<tab, sockets, active>>
    BY <1>6, HandleCursorEffect DEF redis
  <2> QED BY <1>2, <1>3, <2>2, <2>3, <2>4, BroadcastPresence
<1>7. CASE ~JoinGet(s)
  <2>1. \A x \in Sids : Settled(x)' => Settled(x)
    BY <1>2, <1>7
  <2> QED BY <1>1, <1>4, <1>5, <1>6, <1>7, <2>1, HandleJoinRoomPresence, JoinAccessPresence, JoinWarmPresence,
             JoinAddPresence, DisconnectPresence, LeaveRemovePresence, LeaveNotifyPresence DEF GatewayNext
<1> QED BY <1>3, <1>7

LEMMA ServerPresence ==
    ASSUME SessionInv, PresenceNow, room' = "open", "expired" \notin past', Server
    PROVE  PresenceNow'
PROOF
<1>0. \A x \in Sids : Settled(x)' => Settled(x)
  BY ServerSettled
<1>1. CASE RunAnalysis
  <2>1. PICK m : m = WarningUpdate(live)
    OBVIOUS
  <2>2. (Reaches(inRoom, m) \/ down' = down) /\ \A u : ~Tells(m, "users", u)
    BY <1>1, <2>1, RunAnalysisEffect DEF WarningUpdate, Tells
  <2>3. UNCHANGED <<tab, sockets, active>>
    BY <1>1, RunAnalysisEffect
  <2> QED BY <1>0, <2>2, <2>3, BroadcastPresence
<1>2. ASSUME NEW m \in announce, Announce(m) PROVE PresenceNow'
  <2>1. Reaches(inRoom, m) /\ (\A u : ~Tells(m, "users", u)) /\ UNCHANGED <<tab, sockets, active>>
    BY <1>2, AnnounceEffect DEF Tells, redis
  <2> QED BY <1>0, <2>1, BroadcastPresence
<1> QED BY <1>1, <1>2, ExpireUsersEffect, BroadcastDeletedEffect, DeletionEffect DEF Server

LEMMA InitPresence == Init => PresenceInv
PROOF
<1> SUFFICES ASSUME Init PROVE PresenceNow
  BY DEF PresenceInv
<1>1. \A s \in Sids : joins[s] = None /\ leaves[s] = None
  BY DEF Init
<1>2. meta = alive /\ inRoom = alive /\ active = {UserAt(s) : s \in alive}
  BY DEF Init
<1>3. meta \subseteq Sids
  BY InitSession DEF SessionInv, SocketsTyped
<1>4. SocketsNow
  <2>1. JoinsLive /\ LeavesLast
    BY <1>1 DEF JoinsLive, LeavesLast
  <2>2. Known
    BY <1>1, <1>2, NoneAt DEF Known
  <2>3. \A s \in meta : Added(s)
    BY <1>1, <1>3, NoneAt DEF Added
  <2>4. Hashed
    BY <1>2, <2>3 DEF Hashed
  <2> QED BY <2>1, <2>2, <2>4 DEF SocketsNow
<1>5. ASSUME NEW s \in Sids, Linked(s), NEW u \in Users PROVE WillShow(s, "users", u) <=> u \in active
  BY <1>5, InitNothing DEF WillShow, After
<1> QED BY <1>4, <1>5 DEF PresenceNow, Listed, Settled

LEMMA NextPresence ==
    ASSUME SessionInv, WireInv, PresenceInv, [Next]_vars
    PROVE  PresenceInv'
PROOF
<1> SUFFICES ASSUME room' = "open", past' \cap {"crossed", "expired"} = {} PROVE PresenceNow'
  BY DEF PresenceInv, Calm
<1>1. room = "open" /\ PresenceNow
  BY NextOnward DEF Onward, PresenceInv, Calm
<1>2. "crossed" \notin past' /\ "expired" \notin past'
  OBVIOUS
<1> QED BY <1>1, <1>2, NextCases, AsidePresence, ClientPresence, GatewayPresence, ServerPresence DEF Step

LEMMA PresenceInvariant == Spec => []PresenceInv
PROOF
<1>1. SessionInv /\ WireInv /\ PresenceInv /\ [Next]_vars => PresenceInv'
  BY NextPresence
<1> QED BY <1>1, StrandedInvariant, InitPresence, PTL DEF Spec

\* Those whose metadata there are in a room that is quiet are those on its pages.
LEMMA QuietThere ==
    ASSUME SessionInv, WireInv, StrandedInv, PresenceNow, Quiet, room = "open", NEW u \in Users
    PROVE  /\ ~Departing(u) /\ ~Arriving(u)
           /\ There(u) <=> u \in active
           /\ u \in active <=> \E t \in InSession : UserOf[t] = u
PROOF
<1>1. \A s \in Sids : joins[s] = None /\ leaves[s] = None /\ None.at = "none" /\ (s \in alive => Linked(s))
  BY NoneAt DEF Quiet
<1>2. meta \subseteq Sids
  BY DEF SessionInv, SocketsTyped
<1>3. ~Departing(u) /\ ~Arriving(u)
  BY <1>1 DEF Departing, Arriving
<1>4. There(u) <=> u \in active
  BY <1>1, <1>2 DEF There, PresenceNow, SocketsNow, Hashed, Added
<1>5. ASSUME There(u) PROVE \E t \in InSession : UserOf[t] = u
  <2>1. PICK s \in meta : UserAt(s) = u
    BY <1>5 DEF There
  <2>2. s \in Sids /\ Linked(s)
    BY <1>1, <1>2, <2>1 DEF PresenceNow, SocketsNow, Known
  <2>3. tab[s[1]].joined
    <3>1. Wired(s) /\ down[s] = <<>> /\ joins[s] = None
      BY <2>2 DEF WireInv, Quiet
    <3> QED BY <2>1, <2>2, <3>1, HasNothing DEF Wired, WireOK, Listening, Linked
  <2>4. s[1] \in Tabs /\ tab[s[1]].page = "room"
    BY <2>2, SidsFacts, LinkedFacts
  <2> QED BY <2>1, <2>3, <2>4 DEF InSession, UserAt
<1>6. ASSUME NEW t \in InSession, UserOf[t] = u PROVE There(u)
  <2>1. t \in Tabs /\ tab[t].page = "room"
    BY DEF InSession
  <2>2. Sid(t) \in Sids /\ Sid(t)[1] = t /\ Settled(Sid(t))
    BY <2>1, QuietSettled
  <2>3. Sid(t) \in meta
    BY <2>2 DEF Settled, SessionInv, SocketsTyped
  <2> QED BY <1>6, <2>2, <2>3 DEF There, UserAt
<1> QED BY <1>3, <1>4, <1>5, <1>6

\* Once nothing is on its way, every page lists exactly the users in the room and
\* so does the hash, through joins, leaves, drops and reconnects in any order
\* (canvas.gateway.ts:101-191, useCollaboration.ts:95, 209-218), unless a disconnect met
\* another socket of its user or its own join, or the hash has expired.
THEOREM EveryoneIsListed == Spec => []EveryoneListsEveryone
PROOF
<1>1. SessionInv /\ WireInv /\ StrandedInv /\ PresenceInv => EveryoneListsEveryone
  <2> SUFFICES ASSUME SessionInv, WireInv, StrandedInv, PresenceInv, Quiet, room = "open",
                      past \cap {"crossed", "expired"} = {}, NEW t \in InSession
               PROVE  tab[t].users = {UserOf[x] : x \in InSession} /\ active = tab[t].users
    BY DEF EveryoneListsEveryone, Without
  <2>1. PresenceNow
    BY DEF PresenceInv, Calm, Quiet
  <2>2. t \in Tabs /\ tab[t].page = "room"
    BY DEF InSession
  <2>3. Sid(t) \in Sids /\ Settled(Sid(t)) /\ \A v : WillShow(Sid(t), "users", v) <=> v \in tab[t].users
    BY <2>2, QuietSettled DEF Kept
  <2>4. Listed(Sid(t))
    BY <2>1, <2>3 DEF PresenceNow
  <2>5. tab[t].users \subseteq Users /\ active \subseteq Users
    BY <2>2, PageFacts DEF TabType, SessionInv, RoomTyped
  <2>6. \A u \in Users : u \in tab[t].users <=> u \in active
    BY <2>1, <2>3, <2>4, QuietThere DEF Listed
  <2>7. \A u \in Users : u \in active <=> \E x \in InSession : UserOf[x] = u
    BY <2>1, QuietThere
  <2>8. \A x \in InSession : UserOf[x] \in Users
    BY TabsAssumption DEF InSession
  <2> QED BY <2>5, <2>6, <2>7, <2>8
<1> QED BY <1>1, StrandedInvariant, PresenceInvariant, PTL

-----------------------------------------------------------------------------
(* Cursors belong to users.                                                *)

LEMMA LeastOf ==
    ASSUME NEW T, T \subseteq Nat, T # {}
    PROVE  \E n \in T : \A m \in T : n <= m
PROOF
<1>1. PICK R : R = OpToRel(<, Nat)
  OBVIOUS
<1>2. IsWellFoundedOn(R, Nat)
  BY <1>1, NatLessThanWellFounded
<1>3. PICK n \in T : \A m \in T : ~(<<m, n>> \in R)
  BY <1>2, WFMin
<1>4. \A m, k \in Nat : <<m, k>> \in R <=> m < k
  BY <1>1 DEF OpToRel
<1>5. ASSUME NEW m \in T PROVE n <= m
  <2>1. m \in Nat /\ n \in Nat /\ ~(<<m, n>> \in R)
    BY <1>3
  <2>2. ~(m < n)
    BY <1>4, <2>1
  <2> QED BY <2>1, <2>2
<1> QED BY <1>5

\* What is shown stays shown, if no message takes it back.
LEMMA AfterStays ==
    ASSUME NEW S, NEW q \in Seq(S), NEW k, NEW v,
           \A i \in DOMAIN q : Tells(q[i], k, v) => Puts(q[i], k, v)
    PROVE  After(q, k, v, TRUE)
PROOF
<1> DEFINE telling == {i \in DOMAIN q : Tells(q[i], k, v)}
           behind == {Len(q) - i : i \in telling}
<1>1. Len(q) \in Nat /\ \A i \in DOMAIN q : i \in Nat /\ i <= Len(q) /\ Len(q) - i \in Nat
  OBVIOUS
<1>2. CASE telling = {}
  BY <1>2 DEF After
<1>3. CASE telling # {}
  <2>1. behind \subseteq Nat /\ behind # {}
    BY <1>1, <1>3
  <2>2. PICK n \in behind : \A m \in behind : n <= m
    BY <2>1, LeastOf
  <2>3. PICK i \in telling : n = Len(q) - i
    BY <2>2
  <2>4. ASSUME NEW j \in DOMAIN q, j > i PROVE ~Tells(q[j], k, v)
    <3> SUFFICES ASSUME Tells(q[j], k, v) PROVE FALSE
      OBVIOUS
    <3>1. Len(q) - j \in behind
      OBVIOUS
    <3>2. Len(q) - i <= Len(q) - j
      BY <2>2, <2>3, <3>1
    <3>3. i \in Nat /\ j \in Nat /\ Len(q) \in Nat
      BY <1>1, <2>3
    <3> HIDE DEF telling, behind
    <3> QED BY <2>4, <3>2, <3>3
  <2> QED BY <2>3, <2>4 DEF After
<1> QED BY <1>2, <1>3

\* The user of a cursor that is shown, or was when its page was cut off, is there or
\* about to be announced as gone.
Near(u) == There(u) \/ Departing(u)
Pointed(t) == CutOff(t) => \A u \in tab[t].cursors : Near(u)
Pointing(s) == Linked(s) => \A u \in Users : WillShow(s, "cursors", u) => Near(u)
CursorsNow == (\A t \in Tabs : Pointed(t)) /\ (\A s \in Sids : Pointing(s))
CursorsInv == Calm({"crossed", "expired", "unseen leave"}) => CursorsNow

LEMMA NearStays ==
    ASSUME meta \subseteq meta', leaves' = leaves
    PROVE  \A u : Near(u) => Near(u)'
BY DEF Near, There, Departing

LEMMA PointedStays ==
    ASSUME NEW t \in Tabs, Pointed(t), tab'[t].cursors = tab[t].cursors, tab'[t].link = tab[t].link,
           inRoom \subseteq inRoom', \A u \in tab[t].cursors : Near(u) => Near(u)'
    PROVE  Pointed(t)'
BY DEF Pointed, CutOff, Sid

LEMMA PointingStays ==
    ASSUME NEW s \in Sids, Pointing(s), Linked(s)' => Linked(s), \A u : Near(u) => Near(u)',
           \A u \in Users : WillShow(s, "cursors", u)' => WillShow(s, "cursors", u)
    PROVE  Pointing(s)'
BY DEF Pointing

\* A socket outside the room carries no news of users.
LEMMA OutsideDeaf ==
    ASSUME SessionInv, NEW s \in Sids, Wired(s), Linked(s), s \notin inRoom, NEW v
    PROVE  /\ \A i \in DOMAIN down[s] : ~Tells(down[s][i], "cursors", v)
           /\ WillShow(s, "cursors", v) <=> v \in tab[s[1]].cursors
PROOF
<1>1. \A i \in DOMAIN down[s] : down[s][i].kind \in Orders \cup {"denied"}
  BY DEF Wired, WireOK, Listening, Linked
<1>2. \A i \in DOMAIN down[s] : ~Tells(down[s][i], "cursors", v)
  BY <1>1 DEF Tells, Orders
<1> QED BY <1>2, PutsTells DEF WillShow, After

LEMMA AsideCursors ==
    ASSUME SessionInv, CursorsNow, Aside
    PROVE  CursorsNow'
PROOF
<1>1. UNCHANGED <<meta, leaves, inRoom>>
  BY DEF Aside, sockets
<1>2. \A u : Near(u) => Near(u)'
  BY <1>1, NearStays
<1>3. ASSUME NEW t \in Tabs PROVE Pointed(t)'
  BY <1>1, <1>2, PointedStays DEF CursorsNow, Aside, Alike
<1>4. ASSUME NEW s \in Sids PROVE Pointing(s)'
  <2>1. Linked(s)' => Linked(s)
    BY SidsFacts DEF Aside, Alike, Linked
  <2> QED BY <1>2, <2>1, AsideSettled, PointingStays DEF CursorsNow, Kept
<1> QED BY <1>3, <1>4 DEF CursorsNow

LEMMA ShowsCursors ==
    ASSUME SessionInv, CursorsNow, NEW t \in Tabs, Shows(t), \A s \in Sids : Wired(s)
    PROVE  CursorsNow'
PROOF
<1>1. UNCHANGED <<meta, leaves, inRoom>>
  BY DEF Shows, sockets
<1>2. \A u : Near(u) => Near(u)'
  BY <1>1, NearStays
<1>3. ASSUME NEW x \in Tabs PROVE Pointed(x)'
  <2>1. CASE x # t
    <3>1. tab'[x] = tab[x]
      BY <2>1 DEF Shows
    <3> QED BY <1>1, <1>2, <3>1, PointedStays DEF CursorsNow
  <2>2. CASE x = t /\ Sid(t) \in inRoom
    BY <1>1, <2>2 DEF Shows, Pointed, CutOff, Sid
  <2>3. CASE x = t /\ Sid(t) \notin inRoom
    <3>1. Sid(t) \in Sids /\ Linked(Sid(t)) /\ down[Sid(t)] # <<>>
      BY DEF Shows
    <3>2. 1 \in DOMAIN down[Sid(t)] /\ down[Sid(t)][1] = Received(t)
      BY <3>1, QueueTypes, Taken DEF Received
    <3>3. ASSUME NEW v PROVE ~Tells(Received(t), "cursors", v)
      BY <2>3, <3>1, <3>2, OutsideDeaf
    <3>4. \A v : v \in tab'[t].cursors <=> v \in tab[t].cursors
      BY <3>3 DEF Shows, Kept
    <3>5. tab'[t].link = tab[t].link
      BY DEF Shows
    <3> QED BY <1>1, <1>2, <2>3, <3>4, <3>5 DEF CursorsNow, Pointed, CutOff, Sid
  <2> QED BY <2>1, <2>2, <2>3
<1>4. ASSUME NEW s \in Sids, Linked(s)' PROVE Pointing(s)'
  <2>1. Linked(s)
    <3>1. tab'[s[1]].page = tab[s[1]].page /\ tab'[s[1]].link = tab[s[1]].link
      BY SidsFacts DEF Shows
    <3> QED BY <1>4, <3>1 DEF Linked
  <2> QED BY <1>2, <2>1, ShowsKeeps, PointingStays DEF CursorsNow, Kept
<1> QED BY <1>3, <1>4 DEF CursorsNow, Pointing

LEMMA QuitsCursors ==
    ASSUME SessionInv, CursorsNow, NEW t \in Tabs, Quits(t)
    PROVE  CursorsNow'
PROOF
<1>1. /\ tab'[t].cursors = {} /\ \A u \in Tabs \ {t} : tab'[u] = tab[u]
      /\ \A s \in Sids : /\ down'[s] = IF s[1] = t THEN <<>> ELSE down[s]
                         /\ Linked(s)' <=> Linked(s) /\ s[1] # t
      /\ UNCHANGED <<meta, leaves, inRoom>>
  BY QuitsEffect DEF sockets
<1>2. \A u : Near(u) => Near(u)'
  BY <1>1, NearStays
<1>3. ASSUME NEW x \in Tabs PROVE Pointed(x)'
  BY <1>1, <1>2, PointedStays DEF CursorsNow, Pointed
<1>4. ASSUME NEW s \in Sids, Linked(s)' PROVE Pointing(s)'
  <2>1. Linked(s) /\ s[1] # t /\ s[1] \in Tabs
    BY <1>1, <1>4, SidsFacts
  <2>2. \A v : WillShow(s, "cursors", v)' <=> WillShow(s, "cursors", v)
    BY <1>1, <2>1, WillShowSame
  <2> QED BY <1>2, <2>1, <2>2, PointingStays DEF CursorsNow
<1> QED BY <1>3, <1>4 DEF CursorsNow, Pointing

LEMMA OpenCursors ==
    ASSUME SessionInv, CursorsNow, NEW t \in Tabs, Open(t)
    PROVE  CursorsNow'
PROOF
<1>1. /\ tab'[t].cursors = tab[t].cursors /\ tab'[t].link = tab[t].link
      /\ \A u \in Tabs \ {t} : tab'[u] = tab[u]
      /\ \A s \in Sids : (Linked(s)' <=> Linked(s)) /\ (s[1] = t => ~Linked(s))
      /\ UNCHANGED <<down, meta, leaves, inRoom>>
  BY OpenEffect DEF sockets
<1>2. \A u : Near(u) => Near(u)'
  BY <1>1, NearStays
<1>3. ASSUME NEW x \in Tabs PROVE Pointed(x)'
  BY <1>1, <1>2, PointedStays DEF CursorsNow
<1>4. ASSUME NEW s \in Sids, Linked(s)' PROVE Pointing(s)'
  <2>1. Linked(s) /\ s[1] # t /\ s[1] \in Tabs
    BY <1>1, <1>4, SidsFacts
  <2>2. \A v : WillShow(s, "cursors", v)' <=> WillShow(s, "cursors", v)
    BY <1>1, <2>1, WillShowSame
  <2> QED BY <1>2, <2>1, <2>2, PointingStays DEF CursorsNow
<1> QED BY <1>3, <1>4 DEF CursorsNow, Pointing

LEMMA ConnectCursors ==
    ASSUME SessionInv, CursorsNow, NEW t \in Tabs, Connect(t)
    PROVE  CursorsNow'
PROOF
<1>1. PICK x \in Sids :
             /\ x[1] = t
             /\ \A s \in Sids \ {x} : /\ Linked(s)' <=> Linked(s)
                                      /\ up'[s] = up[s] /\ down'[s] = down[s]
                                      /\ s \in alive' <=> s \in alive
             /\ \A s \in Sids : s[1] = t => ~Linked(s)
             /\ \/ up'[x] = OnConnect(t) /\ down'[x] = <<>> /\ x \in alive'
                \/ /\ up'[x] = <<>> /\ down'[x] = <<Notice("unauthorized")>> /\ x \notin alive'
                   /\ Loses(tab[t].pending) \subseteq past'
             /\ tab[t].page = "room" /\ tab[t].link = 0
             /\ tab'[t].cursors = tab[t].cursors
             /\ \A u \in Tabs \ {t} : tab'[u] = tab[u]
             /\ UNCHANGED <<inRoom, meta, joins, leaves, redis>>
  BY ConnectEffect DEF Linked
<1>2. \A u : Near(u) => Near(u)'
  BY <1>1, NearStays
<1>3. \A u \in tab[t].cursors : Near(u)
  BY <1>1 DEF CursorsNow, Pointed, CutOff
<1>4. ASSUME NEW y \in Tabs PROVE Pointed(y)'
  <2>1. CASE y = t
    BY <1>1, <1>2, <1>3, <2>1 DEF Pointed
  <2>2. CASE y # t
    BY <1>1, <1>2, <2>2, PointedStays DEF CursorsNow
  <2> QED BY <2>1, <2>2
<1>5. ASSUME NEW s \in Sids, Linked(s)' PROVE Pointing(s)'
  <2>1. CASE s # x
    <3>1. Linked(s) /\ s[1] # t /\ s[1] \in Tabs
      BY <1>1, <1>5, <2>1, SidsFacts
    <3>2. \A v : WillShow(s, "cursors", v)' <=> WillShow(s, "cursors", v)
      BY <1>1, <2>1, <3>1, WillShowSame
    <3> QED BY <1>2, <3>1, <3>2, PointingStays DEF CursorsNow
  <2>2. CASE s = x
    <3>1. ASSUME NEW v, NEW i \in DOMAIN down'[x] PROVE ~Tells(down'[x][i], "cursors", v)
      <4>1. DOMAIN <<Notice("unauthorized")>> = {1} /\ <<Notice("unauthorized")>>[1].kind = "unauthorized"
        BY DEF Notice
      <4> QED BY <1>1, <3>1, <4>1 DEF Tells
    <3>2. \A v : WillShow(x, "cursors", v)' => v \in tab[t].cursors
      BY <1>1, <3>1, PutsTells DEF WillShow, After
    <3> QED BY <1>2, <1>3, <2>2, <3>2 DEF Pointing
  <2> QED BY <2>1, <2>2
<1> QED BY <1>4, <1>5 DEF CursorsNow, Pointing

LEMMA DropCursors ==
    ASSUME SessionInv, CursorsNow, NEW t \in Tabs, Drop(t), "unseen leave" \notin past'
    PROVE  CursorsNow'
PROOF
<1>1. /\ Sid(t) \in Sids /\ Sid(t)[1] = t /\ Linked(Sid(t))
      /\ tab'[t].cursors = tab[t].cursors /\ ~OnWire(t, "userLeft")
      /\ \A u \in Tabs \ {t} : tab'[u] = tab[u]
      /\ \A s \in Sids : Linked(s)' <=> Linked(s) /\ s[1] # t
      /\ \A s \in Sids : s[1] # t => down'[s] = down[s]
      /\ UNCHANGED <<meta, leaves, inRoom>>
  BY DropEffect DEF sockets
<1>2. \A u : Near(u) => Near(u)'
  BY <1>1, NearStays
<1>3. ASSUME NEW u \in tab[t].cursors PROVE Near(u)
  <2>1. \A i \in DOMAIN down[Sid(t)] : Tells(down[Sid(t)][i], "cursors", u) => Puts(down[Sid(t)][i], "cursors", u)
    BY <1>1 DEF OnWire, Tells, Puts
  <2>2. PICK q \in Seq(ServerMsg) : q = down[Sid(t)]
    BY <1>1, QueueTypes
  <2>3. After(q, "cursors", u, TRUE)
    BY <2>1, <2>2, AfterStays
  <2>4. WillShow(Sid(t), "cursors", u)
    BY <1>1, <1>3, <2>2, <2>3 DEF WillShow, After
  <2>5. u \in Users
    BY <1>3, PageFacts DEF TabType
  <2> QED BY <1>1, <2>4, <2>5 DEF CursorsNow, Pointing
<1>4. ASSUME NEW x \in Tabs PROVE Pointed(x)'
  <2>1. CASE x = t
    BY <1>1, <1>2, <1>3, <2>1 DEF Pointed
  <2>2. CASE x # t
    BY <1>1, <1>2, <2>2, PointedStays DEF CursorsNow
  <2> QED BY <2>1, <2>2
<1>5. ASSUME NEW s \in Sids, Linked(s)' PROVE Pointing(s)'
  <2>1. Linked(s) /\ s[1] # t /\ s[1] \in Tabs
    BY <1>1, <1>5, SidsFacts
  <2>2. \A v : WillShow(s, "cursors", v)' <=> WillShow(s, "cursors", v)
    BY <1>1, <2>1, WillShowSame
  <2> QED BY <1>2, <2>1, <2>2, PointingStays DEF CursorsNow
<1> QED BY <1>4, <1>5 DEF CursorsNow, Pointing

LEMMA SendsCursors ==
    ASSUME SessionInv, CursorsNow, NEW t \in Tabs, NEW m, Sends(t, m)
    PROVE  CursorsNow'
PROOF
<1>1. UNCHANGED <<down, meta, leaves, inRoom>>
  BY DEF Sends, sockets
<1>2. \A u : Near(u) => Near(u)'
  BY <1>1, NearStays
<1>3. ASSUME NEW x \in Tabs PROVE Pointed(x)'
  BY <1>1, <1>2, PointedStays DEF CursorsNow, Sends
<1>4. ASSUME NEW s \in Sids PROVE Pointing(s)'
  <2>1. tab'[s[1]].cursors = tab[s[1]].cursors /\ (Linked(s)' => Linked(s))
    BY SidsFacts DEF Sends
  <2>2. \A v : WillShow(s, "cursors", v)' <=> WillShow(s, "cursors", v)
    BY <1>1, <2>1, WillShowSame
  <2> QED BY <1>2, <2>1, <2>2, PointingStays DEF CursorsNow
<1> QED BY <1>3, <1>4 DEF CursorsNow

\* A step of the server that sends no news of cursors to a page.
LEMMA RoomCursors ==
    ASSUME CursorsNow, tab' = tab, \A u : Near(u) => Near(u)',
           \A s \in Sids : Linked(s) => (s \in inRoom => s \in inRoom'),
           \A t \in Tabs : tab[t].link # 0 => Sid(t) \in Sids /\ Linked(Sid(t)),
           \A s \in Sids, u \in Users :
               Linked(s) => (WillShow(s, "cursors", u)' => WillShow(s, "cursors", u))
    PROVE  CursorsNow'
PROOF
<1>1. ASSUME NEW t \in Tabs PROVE Pointed(t)'
  <2>1. Sid(t)' = Sid(t)
    BY DEF Sid
  <2>2. CutOff(t)' => CutOff(t)
    BY <2>1 DEF CutOff
  <2> QED BY <2>2 DEF CursorsNow, Pointed
<1>2. ASSUME NEW s \in Sids PROVE Pointing(s)'
  BY StillLinked DEF CursorsNow, Pointing
<1> QED BY <1>1, <1>2 DEF CursorsNow

LEMMA LinksAreSockets ==
    ASSUME SessionInv, NEW t \in Tabs, tab[t].link # 0
    PROVE  Sid(t) \in Sids /\ Linked(Sid(t))
BY SidFacts DEF SessionInv

LEMMA HearsNoCursor ==
    ASSUME SessionInv, tab' = tab, down' = down \/ \E S : \E m : Reaches(S, m) /\ \A v : ~Tells(m, "cursors", v),
           NEW s \in Sids, NEW u
    PROVE  WillShow(s, "cursors", u)' <=> WillShow(s, "cursors", u)
PROOF
<1>1. CASE down' = down
  BY <1>1, WillShowSame
<1>2. ASSUME NEW S, NEW m, Reaches(S, m), \A v : ~Tells(m, "cursors", v)
      PROVE  WillShow(s, "cursors", u)' <=> WillShow(s, "cursors", u)
  BY <1>2, WillShowHears
<1> QED BY <1>1, <1>2

LEMMA StillCursors ==
    ASSUME SessionInv, CursorsNow, tab' = tab, meta \subseteq meta', leaves' = leaves, inRoom \subseteq inRoom',
           down' = down \/ \E S : \E m : Reaches(S, m) /\ \A v : ~Tells(m, "cursors", v)
    PROVE  CursorsNow'
BY NearStays, HearsNoCursor, LinksAreSockets, RoomCursors

LEMMA JoinGetCursors ==
    ASSUME SessionInv, CursorsNow, NEW s \in Sids, JoinGet(s)
    PROVE  CursorsNow'
PROOF
<1>1. UNCHANGED <<tab, inRoom, meta, leaves>>
  BY JoinGetEffect
<1>2. \A x \in Sids, u \in Users :
          Linked(x) => (WillShow(x, "cursors", u)' => WillShow(x, "cursors", u))
  BY WillShowJoined
<1> QED BY <1>1, <1>2, NearStays, LinksAreSockets, RoomCursors

LEMMA DisconnectCursors ==
    ASSUME SessionInv, CursorsNow, NEW s \in Sids, HandleDisconnect(s)
    PROVE  CursorsNow'
PROOF
<1>1. /\ s \in alive /\ ~Linked(s) /\ inRoom' = inRoom \ {s}
      /\ \A x \in Sids \ {s} : leaves'[x] = leaves[x]
      /\ UNCHANGED <<tab, down, meta>>
  BY DisconnectEffect
<1>2. leaves[s] = None
  BY <1>1 DEF SessionInv
<1>3. \A u : Near(u) => Near(u)'
  BY <1>1, <1>2, NoneAt DEF Near, There, Departing
<1>4. \A x \in Sids : \A u : WillShow(x, "cursors", u)' <=> WillShow(x, "cursors", u)
  BY <1>1, HearsNoCursor
<1> QED BY <1>1, <1>3, <1>4, LinksAreSockets, RoomCursors

LEMMA LeaveRemoveCursors ==
    ASSUME SessionInv, CursorsNow, NEW s \in Sids, LeaveRemove(s)
    PROVE  CursorsNow'
PROOF
<1>1. /\ leaves[s].at = "remove" /\ leaves'[s].at = "notify"
      /\ \A x \in Sids \ {s} : leaves'[x] = leaves[x]
      /\ meta' = meta \ {s}
      /\ UNCHANGED <<tab, down, inRoom>>
  BY LeaveRemoveEffect
<1>2. ASSUME NEW u, Near(u) PROVE Near(u)'
  <2>1. CASE UserAt(s) = u
    BY <1>1, <2>1 DEF Near, Departing
  <2>2. CASE UserAt(s) # u
    BY <1>1, <1>2, <2>2 DEF Near, There, Departing
  <2> QED BY <2>1, <2>2
<1>3. \A x \in Sids : \A u : WillShow(x, "cursors", u)' <=> WillShow(x, "cursors", u)
  BY <1>1, HearsNoCursor
<1> QED BY <1>1, <1>2, <1>3, LinksAreSockets, RoomCursors

LEMMA LeaveNotifyCursors ==
    ASSUME SessionInv, CursorsNow, \A x \in Sids : Wired(x), NEW s \in Sids, LeaveNotify(s),
           "unseen leave" \notin past'
    PROVE  CursorsNow'
PROOF
<1>1. /\ \A x \in Sids \ {s} : leaves'[x] = leaves[x]
      /\ UNCHANGED <<tab, inRoom, meta>>
  BY LeaveNotifyEffect
<1>2. PICK m : m = Presence("userLeft", UserAt(s))
  OBVIOUS
<1>3. Reaches(inRoom, m) /\ m.kind = "userLeft" /\ m.user = UserAt(s)
  BY <1>2, LeaveNotifyEffect DEF Presence
<1>4. \A t \in Tabs : CutOff(t) => UserAt(s) \notin tab[t].cursors
  BY LeaveNotifyEffect DEF Note
<1>5. \A u : Near(u) /\ u # UserAt(s) => Near(u)'
  BY <1>1 DEF Near, There, Departing
<1>6. ASSUME NEW t \in Tabs PROVE Pointed(t)'
  <2>1. CutOff(t)' <=> CutOff(t)
    BY <1>1 DEF CutOff, Sid
  <2> QED BY <1>1, <1>4, <1>5, <2>1 DEF CursorsNow, Pointed
<1>7. ASSUME NEW x \in Sids, Linked(x)', NEW u \in Users, WillShow(x, "cursors", u)'
      PROVE  Near(u)'
  <2>1. Linked(x)
    BY <1>1, <1>7, StillLinked
  <2>2. CASE u # UserAt(s)
    <3>1. ~Tells(m, "cursors", u)
      BY <1>3, <2>2 DEF Tells
    <3>2. WillShow(x, "cursors", u)
      BY <1>1, <1>3, <1>7, <3>1, WillShowHears
    <3> QED BY <1>5, <2>1, <2>2, <3>2 DEF CursorsNow, Pointing
  <2>3. CASE u = UserAt(s) /\ x \in inRoom
    <3>1. Tells(m, "cursors", u) /\ ~Puts(m, "cursors", u)
      BY <1>3, <2>3 DEF Tells, Puts
    <3> QED BY <1>1, <1>3, <1>7, <2>1, <2>3, <3>1, WillShowHears
  <2>4. CASE u = UserAt(s) /\ x \notin inRoom
    <3>1. WillShow(x, "cursors", u)
      BY <1>1, <1>3, <1>7, <2>4, WillShowHears
    <3>2. u \in tab[x[1]].cursors
      BY <2>1, <2>4, <3>1, OutsideDeaf
    <3>3. x[1] \in Tabs /\ CutOff(x[1])
      BY <2>1, <2>4, LinkedFacts, SidsFacts DEF CutOff
    <3> QED BY <1>4, <2>4, <3>2, <3>3
  <2> QED BY <2>2, <2>3, <2>4
<1> QED BY <1>6, <1>7 DEF CursorsNow, Pointing

LEMMA HandleCursorCursors ==
    ASSUME SessionInv, CursorsNow, NEW s \in Sids, HandleCursor(s)
    PROVE  CursorsNow'
PROOF
<1>1. UNCHANGED <<tab, inRoom, meta, leaves>>
  BY HandleCursorEffect DEF sockets
<1>2. PICK m : m = Cursor(UserAt(s))
  OBVIOUS
<1>3. m.kind = "cursor" /\ m.user = UserAt(s)
  BY <1>2 DEF Cursor
<1>4. CASE down' = down
  BY <1>1, <1>4, StillCursors
<1>5. CASE s \in meta /\ Reaches(inRoom \ {s}, m)
  <2>1. \A u : Near(u) => Near(u)'
    BY <1>1, NearStays
  <2>2. Near(UserAt(s))
    BY <1>5 DEF Near, There
  <2>3. ASSUME NEW t \in Tabs PROVE Pointed(t)'
    BY <1>1, <2>1, PointedStays DEF CursorsNow
  <2>4. ASSUME NEW x \in Sids, Linked(x)', NEW u \in Users, WillShow(x, "cursors", u)'
        PROVE  Near(u)'
    <3>1. Linked(x)
      BY <1>1, <2>4, StillLinked
    <3>2. CASE u = UserAt(s)
      BY <2>1, <2>2, <3>2
    <3>3. CASE u # UserAt(s)
      <4>1. ~Tells(m, "cursors", u)
        BY <1>3, <3>3 DEF Tells
      <4>2. WillShow(x, "cursors", u)
        BY <1>1, <1>5, <2>4, <4>1, WillShowHears
      <4> QED BY <2>1, <3>1, <4>2 DEF CursorsNow, Pointing
    <3> QED BY <3>2, <3>3
  <2> QED BY <2>3, <2>4 DEF CursorsNow, Pointing
<1> QED BY <1>2, <1>4, <1>5, HandleCursorEffect

LEMMA GatewayCursors ==
    ASSUME SessionInv, WireInv, CursorsNow, room = "open", "unseen leave" \notin past',
           NEW s \in Sids, GatewayNext(s)
    PROVE  CursorsNow'
PROOF
<1>1. InTime /\ \A x \in Sids : Wired(x)
  BY DEF WireInv
<1>2. CASE HandleJoinRoom(s) \/ JoinWarm(s) \/ JoinAdd(s)
  <2>1. UNCHANGED <<tab, down, inRoom, meta, leaves>>
    BY <1>2, HandleJoinRoomEffect, JoinWarmEffect, JoinAddEffect
  <2> QED BY <2>1, StillCursors
<1>3. CASE JoinAccess(s)
  <2>1. UNCHANGED <<tab, down, leaves>> /\ inRoom \subseteq inRoom' /\ meta \subseteq meta'
    BY <1>3, JoinAccessEffect
  <2> QED BY <2>1, StillCursors
<1>4. CASE JoinExists(s)
  BY <1>1, <1>4, JoinExistsEffect DEF InTime
<1>5. CASE HandleOperation(s)
  <2>1. PICK m : m = Op(Head(up[s]).edit)
    OBVIOUS
  <2>2. Reaches(inRoom \ {s}, m) \/ down' = down
    BY <1>5, <2>1, HandleOperationEffect
  <2>3. \A u : ~Tells(m, "cursors", u)
    BY <2>1 DEF Op, Tells
  <2>4. UNCHANGED <<tab, inRoom, meta, leaves>>
    BY <1>5, HandleOperationEffect DEF sockets
  <2> QED BY <2>2, <2>3, <2>4, StillCursors
<1> QED BY <1>1, <1>2, <1>3, <1>4, <1>5, JoinGetCursors, DisconnectCursors, LeaveRemoveCursors,
           LeaveNotifyCursors, HandleCursorCursors DEF GatewayNext

LEMMA ServerCursors ==
    ASSUME SessionInv, CursorsNow, room' = "open", "expired" \notin past', Server
    PROVE  CursorsNow'
PROOF
<1>1. CASE RunAnalysis
  <2>1. PICK m : m = WarningUpdate(live)
    OBVIOUS
  <2>2. (Reaches(inRoom, m) \/ down' = down) /\ \A u : ~Tells(m, "cursors", u)
    BY <1>1, <2>1, RunAnalysisEffect DEF WarningUpdate, Tells
  <2>3. UNCHANGED <<tab, inRoom, meta, leaves>>
    BY <1>1, RunAnalysisEffect DEF sockets
  <2> QED BY <2>2, <2>3, StillCursors
<1>2. ASSUME NEW m \in announce, Announce(m) PROVE CursorsNow'
  <2>1. Reaches(inRoom, m) /\ (\A u : ~Tells(m, "cursors", u)) /\ UNCHANGED <<tab, inRoom, meta, leaves>>
    BY <1>2, AnnounceEffect DEF Tells, sockets
  <2> QED BY <2>1, StillCursors
<1> QED BY <1>1, <1>2, ExpireUsersEffect, BroadcastDeletedEffect, DeletionEffect DEF Server

LEMMA ClientCursors ==
    ASSUME SessionInv, WireInv, CursorsNow, "unseen leave" \notin past', NEW t \in Tabs, Client(t)
    PROVE  CursorsNow'
PROOF
<1>1. \A s \in Sids : Wired(s)
  BY DEF WireInv
<1>2. ASSUME NEW m, Sends(t, m) PROVE CursorsNow'
  BY <1>2, SendsCursors
<1>3. CASE EditCanvas(t)
  BY <1>2, <1>3, EditEffect
<1>4. CASE MoveCursor(t)
  BY <1>2, <1>4, MoveEffect
<1> QED BY <1>1, <1>3, <1>4, ShowsCursors, QuitsCursors, OpenCursors, ConnectCursors, DropCursors DEF Client

LEMMA InitCursors == Init => CursorsInv
PROOF
<1> SUFFICES ASSUME Init PROVE CursorsNow
  BY DEF CursorsInv
<1>1. ASSUME NEW t \in Tabs PROVE tab[t].cursors = {}
  <2>1. PICK s \in Sids : s[1] = t
    <3>1. 1 \in 1..MaxConnections
      BY MaxConnectionsAssumption
    <3>2. <<t, 1>> \in Sids /\ <<t, 1>>[1] = t
      BY <3>1 DEF Sids
    <3> QED BY <3>2
  <2> QED BY <2>1, InitNothing
<1>2. ASSUME NEW s \in Sids, NEW u PROVE ~WillShow(s, "cursors", u)
  BY InitNothing DEF WillShow, After
<1> QED BY <1>1, <1>2 DEF CursorsNow, Pointed, Pointing

LEMMA NextCursors ==
    ASSUME SessionInv, WireInv, CursorsInv, [Next]_vars
    PROVE  CursorsInv'
PROOF
<1> SUFFICES ASSUME room' = "open", past' \cap {"crossed", "expired", "unseen leave"} = {} PROVE CursorsNow'
  BY DEF CursorsInv, Calm
<1>1. room = "open" /\ CursorsNow
  BY NextOnward DEF Onward, CursorsInv, Calm
<1>2. "unseen leave" \notin past' /\ "expired" \notin past'
  OBVIOUS
<1> QED BY <1>1, <1>2, NextCases, AsideCursors, ClientCursors, GatewayCursors, ServerCursors DEF Step

LEMMA CursorsInvariant == Spec => []CursorsInv
PROOF
<1>1. SessionInv /\ WireInv /\ CursorsInv /\ [Next]_vars => CursorsInv'
  BY NextCursors
<1> QED BY <1>1, StrandedInvariant, InitCursors, PTL DEF Spec

\* Once nothing is on its way, whoever has a cursor on a page is listed there
\* (useCollaboration.ts:205-218), unless the page was cut off when they left,
\* a disconnect met another socket of its user or its own join, or the hash of the
\* users has expired.
THEOREM CursorsStayWithUsers == Spec => []CursorsBelongToUsers
PROOF
<1>1. SessionInv /\ WireInv /\ StrandedInv /\ PresenceInv /\ CursorsInv => CursorsBelongToUsers
  <2> SUFFICES ASSUME SessionInv, WireInv, StrandedInv, PresenceInv, CursorsInv, Quiet, room = "open",
                      past \cap {"crossed", "expired", "unseen leave"} = {}, NEW t \in InSession,
                      NEW u \in tab[t].cursors
               PROVE  u \in tab[t].users
    BY DEF CursorsBelongToUsers, Without
  <2>1. PresenceNow /\ CursorsNow
    BY DEF PresenceInv, CursorsInv, Calm
  <2>2. t \in Tabs /\ tab[t].page = "room"
    BY DEF InSession
  <2>3. /\ Sid(t) \in Sids /\ Settled(Sid(t))
        /\ \A k \in Kept : \A v : WillShow(Sid(t), k, v) <=> v \in tab[t][k]
    BY <2>2, QuietSettled
  <2>4. (WillShow(Sid(t), "cursors", u) <=> u \in tab[t].cursors) /\ (WillShow(Sid(t), "users", u) <=> u \in tab[t].users)
    BY <2>3 DEF Kept
  <2>5. u \in Users
    BY <2>2, PageFacts DEF TabType
  <2>6. Near(u)
    BY <2>1, <2>3, <2>4, <2>5 DEF CursorsNow, Pointing, Settled
  <2>7. u \in active /\ ~Arriving(u)
    BY <2>1, <2>5, <2>6, QuietThere DEF Near
  <2> QED BY <2>1, <2>3, <2>4, <2>5, <2>7 DEF PresenceNow, Listed
<1> QED BY <1>1, StrandedInvariant, PresenceInvariant, CursorsInvariant, PTL

-----------------------------------------------------------------------------
(* Edits survive a reconnect.                                              *)

\* Every edit that was made is live or on its way, as long as none was lost.
Underway(t, e) ==
    \/ Carries(tab[t].pending, e)
    \/ \E s \in Sids : s[1] = t /\ Carries(up[s], e)
MadeNow == \A t \in Tabs : \A e \in tab[t].made : e \in live \/ Underway(t, e)
MadeInv == Calm({"lost edit"}) => MadeNow

LEMMA NoneLost ==
    ASSUME NEW q, Loses(q) \subseteq past', "lost edit" \notin past', NEW e
    PROVE  ~Carries(q, e)
PROOF
<1>1. "lost edit" \notin Loses(q)
  OBVIOUS
<1>2. ~\E i \in DOMAIN q : q[i].kind = "operation"
  BY <1>1 DEF Loses
<1> QED BY <1>2 DEF Carries

LEMMA MadeStays ==
    ASSUME MadeNow, live' = live, \A t \in Tabs : tab'[t].made = tab[t].made,
           \A t \in Tabs : \A e : Underway(t, e) => Underway(t, e)'
    PROVE  MadeNow'
BY DEF MadeNow

LEMMA UnderwayStays ==
    ASSUME NEW t \in Tabs, \A e : Carries(tab[t].pending, e) => Carries(tab'[t].pending, e),
           \A s \in Sids : s[1] = t => \A e : Carries(up[s], e) => Carries(up'[s], e)
    PROVE  \A e : Underway(t, e) => Underway(t, e)'
BY DEF Underway

LEMMA AsideMade ==
    ASSUME MadeNow, Aside
    PROVE  MadeNow'
PROOF
<1>1. \A t \in Tabs : tab'[t].pending = tab[t].pending /\ tab'[t].made = tab[t].made
  BY DEF Aside, Alike
<1>2. up' = up /\ live' = live
  BY DEF Aside, redis
<1> QED BY <1>1, <1>2, UnderwayStays, MadeStays

LEMMA ConnectMade ==
    ASSUME SessionInv, MadeNow, NEW t \in Tabs, Connect(t), "lost edit" \notin past'
    PROVE  MadeNow'
PROOF
<1>1. PICK x \in Sids :
             /\ x[1] = t
             /\ \A s \in Sids \ {x} : /\ Linked(s)' <=> Linked(s)
                                      /\ up'[s] = up[s] /\ down'[s] = down[s]
                                      /\ s \in alive' <=> s \in alive
             /\ up[x] = <<>>
             /\ \/ up'[x] = OnConnect(t) /\ down'[x] = <<>> /\ x \in alive'
                \/ /\ up'[x] = <<>> /\ down'[x] = <<Notice("unauthorized")>> /\ x \notin alive'
                   /\ Loses(tab[t].pending) \subseteq past'
             /\ tab'[t].made = tab[t].made
             /\ \A u \in Tabs \ {t} : tab'[u] = tab[u]
             /\ UNCHANGED <<inRoom, meta, joins, leaves, redis>>
  BY ConnectEffect DEF Linked
<1>2. \A u \in Tabs : tab'[u].made = tab[u].made
  BY <1>1
<1>3. ASSUME NEW e PROVE Carries(tab[t].pending, e) => Carries(up'[x], e)
  BY <1>1, OnConnectHolds, NoneLost
<1>4. \A s \in Sids : \A e : Carries(up[s], e) => Carries(up'[s], e)
  BY <1>1, CarriesNothing
<1>5. ASSUME NEW u \in Tabs, NEW e, Underway(u, e) PROVE Underway(u, e)'
  <2>1. CASE u = t
    BY <1>1, <1>3, <1>4, <1>5, <2>1 DEF Underway
  <2>2. CASE u # t
    BY <1>1, <1>4, <1>5, <2>2 DEF Underway
  <2> QED BY <2>1, <2>2
<1> QED BY <1>1, <1>2, <1>5, MadeStays DEF redis

LEMMA SendsUnderway ==
    ASSUME SessionInv, NEW t \in Tabs, NEW m \in ClientMsg, Sends(t, m)
    PROVE  /\ \A u \in Tabs : \A e : Underway(u, e) => Underway(u, e)'
           /\ m.kind = "operation" => Underway(t, m.edit)'
PROOF
<1>1. tab[t].pending \in Seq(ClientMsg) /\ \A s \in Sids : up[s] \in Seq(ClientMsg)
  BY PageFacts, QueueTypes DEF TabType
<1>2. \A u \in Tabs \ {t} : tab'[u] = tab[u]
  BY DEF Sends
<1>3. CASE tab[t].link # 0
  <2>1. /\ Sid(t) \in Sids /\ Sid(t)[1] = t /\ tab'[t].pending = tab[t].pending
        /\ up'[Sid(t)] = Append(up[Sid(t)], m) /\ \A s \in Sids \ {Sid(t)} : up'[s] = up[s]
    BY <1>3 DEF Sends
  <2>2. \A e : Carries(up'[Sid(t)], e) <=> Carries(up[Sid(t)], e) \/ (m.kind = "operation" /\ m.edit = e)
    BY <1>1, <2>1, CarriesAppended
  <2>3. \A s \in Sids : \A e : Carries(up[s], e) => Carries(up'[s], e)
    BY <2>1, <2>2
  <2>4. \A u \in Tabs : tab'[u].pending = tab[u].pending
    BY <1>2, <2>1
  <2> QED BY <2>1, <2>2, <2>3, <2>4, UnderwayStays DEF Underway
<1>4. CASE tab[t].link = 0
  <2>1. tab'[t].pending = Append(tab[t].pending, m) /\ up' = up
    BY <1>4 DEF Sends
  <2>2. \A e : Carries(tab'[t].pending, e) <=> Carries(tab[t].pending, e) \/ (m.kind = "operation" /\ m.edit = e)
    BY <1>1, <2>1, CarriesAppended
  <2>3. \A u \in Tabs : \A e : Carries(tab[u].pending, e) => Carries(tab'[u].pending, e)
    BY <1>2, <2>2
  <2> QED BY <2>1, <2>2, <2>3, UnderwayStays DEF Underway
<1> QED BY <1>3, <1>4

LEMMA ClientMade ==
    ASSUME SessionInv, MadeNow, NEW t \in Tabs, Client(t), "lost edit" \notin past'
    PROVE  MadeNow'
PROOF
<1>0. live' = live
  BY ClientKeepsRoom DEF redis
<1>1. CASE Shows(t)
  <2>1. up' = up /\ \A u \in Tabs : tab'[u].pending = tab[u].pending /\ tab'[u].made = tab[u].made
    BY <1>1 DEF Shows
  <2> QED BY <1>0, <2>1, UnderwayStays, MadeStays
<1>2. CASE Quits(t)
  <2>1. /\ up' = up /\ tab'[t].made = tab[t].made /\ \A u \in Tabs \ {t} : tab'[u] = tab[u]
        /\ Loses(tab[t].pending) \subseteq past'
    BY <1>2, QuitsEffect
  <2>2. \A e : ~Carries(tab[t].pending, e)
    BY <2>1, NoneLost
  <2>3. \A u \in Tabs : \A e : Carries(tab[u].pending, e) => Carries(tab'[u].pending, e)
    BY <2>1, <2>2
  <2>4. \A u \in Tabs : tab'[u].made = tab[u].made
    BY <2>1
  <2> QED BY <1>0, <2>1, <2>3, <2>4, UnderwayStays, MadeStays
<1>3. CASE Open(t)
  <2>1. /\ up' = up /\ tab'[t].made = tab[t].made /\ \A u \in Tabs \ {t} : tab'[u] = tab[u]
        /\ tab[t].page = "away"
    BY <1>3, OpenEffect
  <2>2. \A e : ~Carries(tab[t].pending, e)
    BY <2>1, PageFacts, CarriesNothing DEF PageSound
  <2>3. \A u \in Tabs : \A e : Carries(tab[u].pending, e) => Carries(tab'[u].pending, e)
    BY <2>1, <2>2
  <2>4. \A u \in Tabs : tab'[u].made = tab[u].made
    BY <2>1
  <2> QED BY <1>0, <2>1, <2>3, <2>4, UnderwayStays, MadeStays
<1>4. CASE Drop(t)
  <2>1. /\ tab'[t].made = tab[t].made /\ tab'[t].pending = tab[t].pending
        /\ \A u \in Tabs \ {t} : tab'[u] = tab[u]
        /\ \A s \in Sids : s # Sid(t) => up'[s] = up[s]
        /\ Loses(up[Sid(t)]) \subseteq past'
    BY <1>4, DropEffect
  <2>2. \A e : ~Carries(up[Sid(t)], e)
    BY <2>1, NoneLost
  <2>3. \A s \in Sids : \A e : Carries(up[s], e) => Carries(up'[s], e)
    BY <2>1, <2>2
  <2>4. \A u \in Tabs : tab'[u].made = tab[u].made /\ tab'[u].pending = tab[u].pending
    BY <2>1
  <2> QED BY <1>0, <2>3, <2>4, UnderwayStays, MadeStays
<1>5. CASE EditCanvas(t)
  <2>1. PICK e \in Nat : Sends(t, Op(e)) /\ Op(e) \in ClientMsg /\ tab'[t].made = tab[t].made \cup {e}
    BY <1>5, EditEffect
  <2>2. PICK m \in ClientMsg : m = Op(e)
    BY <2>1
  <2>3. m.kind = "operation" /\ m.edit = e
    BY <2>2 DEF Op
  <2>4. (\A u \in Tabs : \A v : Underway(u, v) => Underway(u, v)') /\ Underway(t, e)'
    BY <2>1, <2>2, <2>3, SendsUnderway
  <2>5. \A u \in Tabs \ {t} : tab'[u] = tab[u]
    BY <2>1 DEF Sends
  <2> QED BY <1>0, <2>1, <2>4, <2>5 DEF MadeNow
<1>6. CASE MoveCursor(t)
  <2>1. PICK m : m = [kind |-> "cursor"]
    OBVIOUS
  <2>2. m \in ClientMsg /\ Sends(t, m) /\ tab'[t].made = tab[t].made
    BY <1>6, <2>1, MoveEffect
  <2>3. \A u \in Tabs : \A v : Underway(u, v) => Underway(u, v)'
    BY <2>2, SendsUnderway
  <2>4. \A u \in Tabs : tab'[u].made = tab[u].made
    BY <2>2 DEF Sends
  <2> QED BY <1>0, <2>3, <2>4, MadeStays
<1> QED BY <1>1, <1>2, <1>3, <1>4, <1>5, <1>6, ConnectMade DEF Client

\* A handler takes a message.
LEMMA TakeMade ==
    ASSUME SessionInv, MadeNow, NEW s \in Sids, tab' = tab, live \subseteq live',
           up[s] # <<>>, up'[s] = Tail(up[s]), \A x \in Sids \ {s} : up'[x] = up[x],
           Head(up[s]).kind = "operation" => Head(up[s]).edit \in live'
    PROVE  MadeNow'
PROOF
<1>1. \A e : Carries(up[s], e) <=> (Head(up[s]).kind = "operation" /\ Head(up[s]).edit = e) \/ Carries(up'[s], e)
  BY QueueTypes, CarriesTaken
<1>2. ASSUME NEW t \in Tabs, NEW e \in tab[t].made, e \notin live' PROVE Underway(t, e)'
  <2>1. Underway(t, e)
    BY <1>2 DEF MadeNow
  <2>2. \A x \in Sids : Carries(up[x], e) => Carries(up'[x], e)
    BY <1>1, <1>2
  <2> QED BY <2>1, <2>2 DEF Underway
<1> QED BY <1>2 DEF MadeNow

LEMMA StillMade ==
    ASSUME MadeNow, UNCHANGED <<tab, up, live>>
    PROVE  MadeNow'
BY DEF MadeNow, Underway

LEMMA GatewayMade ==
    ASSUME SessionInv, MadeNow, room = "open", NEW s \in Sids, GatewayNext(s)
    PROVE  MadeNow'
PROOF
<1>1. CASE HandleJoinRoom(s)
  <2>1. /\ tab' = tab /\ live' = live /\ up[s] # <<>> /\ Head(up[s]).kind # "operation"
        /\ up'[s] = Tail(up[s]) /\ \A x \in Sids \ {s} : up'[x] = up[x]
    BY <1>1, HandleJoinRoomEffect DEF redis
  <2> QED BY <2>1, TakeMade
<1>2. CASE HandleOperation(s)
  <2>1. /\ tab' = tab /\ live' = live \cup {Head(up[s]).edit} /\ up[s] # <<>>
        /\ up'[s] = Tail(up[s]) /\ \A x \in Sids \ {s} : up'[x] = up[x]
    BY <1>2, HandleOperationEffect
  <2>2. Head(up[s]).edit \in live' /\ live \subseteq live'
    BY <2>1
  <2> QED BY <2>1, <2>2, TakeMade
<1>3. CASE HandleCursor(s)
  <2>1. /\ tab' = tab /\ live' = live /\ up[s] # <<>> /\ Head(up[s]).kind # "operation"
        /\ up'[s] = Tail(up[s]) /\ \A x \in Sids \ {s} : up'[x] = up[x]
    BY <1>3, HandleCursorEffect DEF redis
  <2> QED BY <2>1, TakeMade
<1>4. CASE ~(HandleJoinRoom(s) \/ HandleOperation(s) \/ HandleCursor(s))
  <2>1. UNCHANGED <<tab, up, live>>
    BY <1>4, JoinAccessEffect, JoinExistsEffect, JoinWarmEffect, JoinAddEffect, JoinGetEffect,
       DisconnectEffect, LeaveRemoveEffect, LeaveNotifyEffect DEF GatewayNext, redis
  <2> QED BY <2>1, StillMade
<1> QED BY <1>1, <1>2, <1>3, <1>4

LEMMA ServerMade ==
    ASSUME SessionInv, MadeNow, room' = "open", Server
    PROVE  MadeNow'
PROOF
<1>1. UNCHANGED <<tab, up, live>>
  BY RunAnalysisEffect, ExpireUsersEffect, BroadcastDeletedEffect, DeletionEffect, AnnounceEffect DEF Server, redis
<1> QED BY <1>1, StillMade

LEMMA InitMade == Init => MadeInv
PROOF
<1> SUFFICES ASSUME Init PROVE MadeNow
  BY DEF MadeInv
<1>1. ASSUME NEW t \in Tabs PROVE tab[t].made = {}
  <2>1. 1 \in 1..MaxConnections
    BY MaxConnectionsAssumption
  <2>2. <<t, 1>> \in Sids /\ <<t, 1>>[1] = t
    BY <2>1 DEF Sids
  <2> QED BY <2>2, InitNothing
<1> QED BY <1>1 DEF MadeNow

LEMMA NextMade ==
    ASSUME SessionInv, MadeInv, [Next]_vars
    PROVE  MadeInv'
PROOF
<1> SUFFICES ASSUME room' = "open", past' \cap {"lost edit"} = {} PROVE MadeNow'
  BY DEF MadeInv, Calm
<1>1. room = "open" /\ MadeNow
  BY NextOnward DEF Onward, MadeInv, Calm
<1>2. "lost edit" \notin past'
  OBVIOUS
<1> QED BY <1>1, <1>2, NextCases, AsideMade, ClientMade, GatewayMade, ServerMade DEF Step

LEMMA MadeInvariant == Spec => []MadeInv
PROOF
<1>1. SessionInv /\ MadeInv /\ [Next]_vars => MadeInv'
  BY NextMade
<1> QED BY <1>1, SessionInvariant, InitMade, PTL DEF Spec

\* What is shown and what is live agree on every page that has joined, but for the
\* edits that are on their way to the server.
Edit == {"operation"}
NoneWaiting == \A t \in Tabs : ~Has(tab[t].pending, Edit)
ReadLive == \A s \in Sids : joins[s].at \in {"add", "get"} => joins[s].read = live
NoneEarly == \A s \in Sids : Linked(s) /\ tab[s[1]].awaiting => ~Has(up[s], Edit)
Agrees(s) == \A e \in Nat : WillShow(s, "canvas", e) <=> e \in live \/ Carries(up[s], e)
PageNow == NoneWaiting /\ NoneEarly
CanvasNow == PageNow /\ ReadLive /\ \A s \in Sids : Settled(s) => Agrees(s)
CanvasInv == Calm({"edited while joining", "edited meanwhile"}) => CanvasNow

LEMMA AgreesStays ==
    ASSUME NEW s \in Sids, Agrees(s), live' = live,
           \A e : WillShow(s, "canvas", e)' <=> WillShow(s, "canvas", e),
           \A e : Carries(up'[s], e) <=> Carries(up[s], e)
    PROVE  Agrees(s)'
BY DEF Agrees

LEMMA CarriesHas ==
    ASSUME NEW q, NEW e, Carries(q, e)
    PROVE  Has(q, Edit)
BY DEF Carries, Has, Edit

LEMMA PageStays ==
    ASSUME NoneWaiting, NoneEarly,
           \A t \in Tabs : Has(tab'[t].pending, Edit) => Has(tab[t].pending, Edit),
           \A s \in Sids : Linked(s)' /\ tab'[s[1]].awaiting =>
               /\ Linked(s) /\ tab[s[1]].awaiting
               /\ Has(up'[s], Edit) => Has(up[s], Edit)
    PROVE  PageNow'
BY DEF NoneWaiting, NoneEarly, PageNow

LEMMA AsideCanvas ==
    ASSUME SessionInv, CanvasNow, Aside
    PROVE  CanvasNow'
PROOF
<1>1. UNCHANGED <<up, live, joins>>
  BY DEF Aside, sockets, redis
<1>2. \A t \in Tabs : tab'[t].pending = tab[t].pending /\ tab'[t].awaiting = tab[t].awaiting
  BY DEF Aside, Alike
<1>3. \A s \in Sids : s[1] \in Tabs /\ (Linked(s)' <=> Linked(s))
  BY SidsFacts DEF Aside, Alike, Linked
<1>4. PageNow'
  BY <1>1, <1>2, <1>3, PageStays DEF CanvasNow, PageNow
<1>5. ReadLive'
  BY <1>1 DEF CanvasNow, ReadLive
<1>6. ASSUME NEW s \in Sids, Settled(s)' PROVE Agrees(s)'
  <2>1. Settled(s) /\ \A v : WillShow(s, "canvas", v)' <=> WillShow(s, "canvas", v)
    BY <1>6, AsideSettled DEF Kept
  <2> QED BY <1>1, <2>1, AgreesStays DEF CanvasNow
<1> QED BY <1>4, <1>5, <1>6 DEF CanvasNow

LEMMA ShowsCanvas ==
    ASSUME SessionInv, CanvasNow, NEW t \in Tabs, Shows(t)
    PROVE  CanvasNow'
PROOF
<1>1. /\ up' = up /\ \A u \in Tabs : /\ tab'[u].pending = tab[u].pending
                                     /\ tab'[u].page = tab[u].page /\ tab'[u].link = tab[u].link
                                     /\ tab'[u].awaiting => tab[u].awaiting
  BY DEF Shows
<1>2. \A s \in Sids : s[1] \in Tabs /\ (Linked(s)' <=> Linked(s))
  BY <1>1, SidsFacts DEF Linked
<1>3. PageNow'
  BY <1>1, <1>2, PageStays DEF CanvasNow, PageNow
<1>5. UNCHANGED <<live, joins>>
  BY DEF Shows, redis, sockets
<1>6. ReadLive'
  BY <1>5 DEF CanvasNow, ReadLive
<1>7. ASSUME NEW s \in Sids, Settled(s)' PROVE Agrees(s)'
  <2>1. Settled(s)
    BY <1>1, <1>2, <1>5, <1>7, SettledStays DEF Shows, sockets
  <2>2. \A v : WillShow(s, "canvas", v)' <=> WillShow(s, "canvas", v)
    BY <2>1, ShowsKeeps DEF Settled, Kept
  <2> QED BY <1>1, <1>5, <2>1, <2>2, AgreesStays DEF CanvasNow
<1> QED BY <1>3, <1>6, <1>7 DEF CanvasNow

\* A step of the page of t that leaves what the others hear and say alone.
LEMMA OthersAgree ==
    ASSUME SessionInv, CanvasNow, PageNow', UNCHANGED <<live, joins, inRoom>>,
           \A s \in Sids : Settled(s)' => /\ Linked(s) /\ tab'[s[1]] = tab[s[1]]
                                          /\ up'[s] = up[s] /\ down'[s] = down[s]
    PROVE  CanvasNow'
PROOF
<1>1. ReadLive'
  BY DEF CanvasNow, ReadLive
<1>2. ASSUME NEW s \in Sids, Settled(s)' PROVE Agrees(s)'
  <2>1. Settled(s)
    BY <1>2, SettledStays
  <2>2. \A v : WillShow(s, "canvas", v)' <=> WillShow(s, "canvas", v)
    BY <1>2, WillShowSame
  <2> QED BY <1>2, <2>1, <2>2, AgreesStays DEF CanvasNow
<1> QED BY <1>1, <1>2 DEF CanvasNow

LEMMA QuitsCanvas ==
    ASSUME SessionInv, CanvasNow, NEW t \in Tabs, Quits(t)
    PROVE  CanvasNow'
PROOF
<1>1. /\ tab'[t].pending = <<>> /\ \A u \in Tabs \ {t} : tab'[u] = tab[u]
      /\ \A s \in Sids : /\ down'[s] = IF s[1] = t THEN <<>> ELSE down[s]
                         /\ Linked(s)' <=> Linked(s) /\ s[1] # t
      /\ UNCHANGED <<up, live, joins, inRoom>>
  BY QuitsEffect DEF sockets, redis
<1>2. \A s \in Sids : s[1] \in Tabs
  BY SidsFacts
<1>3. \A u \in Tabs : Has(tab'[u].pending, Edit) => Has(tab[u].pending, Edit)
  BY <1>1, HasNothing
<1>4. PageNow'
  BY <1>1, <1>2, <1>3, PageStays DEF CanvasNow, PageNow
<1> QED BY <1>1, <1>2, <1>4, OthersAgree DEF Settled

LEMMA OpenCanvas ==
    ASSUME SessionInv, CanvasNow, NEW t \in Tabs, Open(t)
    PROVE  CanvasNow'
PROOF
<1>1. /\ tab'[t].pending = <<JoinMsg>> /\ \A u \in Tabs \ {t} : tab'[u] = tab[u]
      /\ \A s \in Sids : (Linked(s)' <=> Linked(s)) /\ (s[1] = t => ~Linked(s))
      /\ UNCHANGED <<up, down, live, joins, inRoom>>
  BY OpenEffect DEF sockets, redis
<1>2. \A s \in Sids : s[1] \in Tabs
  BY SidsFacts
<1>3. ~Has(<<JoinMsg>>, Edit)
  BY OneMessage DEF JoinMsg, Edit
<1>4. \A u \in Tabs : Has(tab'[u].pending, Edit) => Has(tab[u].pending, Edit)
  BY <1>1, <1>3
<1>5. PageNow'
  BY <1>1, <1>2, <1>4, PageStays DEF CanvasNow, PageNow
<1> QED BY <1>1, <1>2, <1>5, OthersAgree DEF Settled

LEMMA DropCanvas ==
    ASSUME SessionInv, CanvasNow, NEW t \in Tabs, Drop(t)
    PROVE  CanvasNow'
PROOF
<1>1. /\ tab'[t].pending = <<>> /\ \A u \in Tabs \ {t} : tab'[u] = tab[u]
      /\ \A s \in Sids : Linked(s)' <=> Linked(s) /\ s[1] # t
      /\ \A s \in Sids : s[1] # t => down'[s] = down[s]
      /\ \A s \in Sids : s # Sid(t) => up'[s] = up[s]
      /\ Sid(t)[1] = t
      /\ UNCHANGED <<live, joins, inRoom>>
  BY DropEffect DEF sockets, redis
<1>2. \A s \in Sids : s[1] \in Tabs /\ (s[1] # t => s # Sid(t))
  BY <1>1, SidsFacts
<1>3. \A u \in Tabs : Has(tab'[u].pending, Edit) => Has(tab[u].pending, Edit)
  BY <1>1, HasNothing
<1>4. PageNow'
  BY <1>1, <1>2, <1>3, PageStays DEF CanvasNow, PageNow
<1> QED BY <1>1, <1>2, <1>4, OthersAgree DEF Settled

LEMMA ConnectCanvas ==
    ASSUME SessionInv, CanvasNow, NEW t \in Tabs, Connect(t)
    PROVE  CanvasNow'
PROOF
<1>1. PICK x \in Sids :
             /\ x[1] = t
             /\ \A s \in Sids \ {x} : /\ Linked(s)' <=> Linked(s)
                                      /\ up'[s] = up[s] /\ down'[s] = down[s]
                                      /\ s \in alive' <=> s \in alive
             /\ \A s \in Sids : s[1] = t => ~Linked(s)
             /\ x \notin alive
             /\ \/ up'[x] = OnConnect(t) /\ down'[x] = <<>> /\ x \in alive'
                \/ /\ up'[x] = <<>> /\ down'[x] = <<Notice("unauthorized")>> /\ x \notin alive'
                   /\ Loses(tab[t].pending) \subseteq past'
  BY ConnectEffect DEF Linked
<1>0. x \notin inRoom /\ (\A u \in Tabs \ {t} : tab'[u] = tab[u]) /\ UNCHANGED <<inRoom, joins, redis>>
  <2>1. x \notin inRoom
    BY <1>1 DEF SessionInv, SocketsTyped
  <2> QED BY <2>1, ConnectEffect
<1>2. tab'[t].pending = <<>> /\ \A s \in Sids : s[1] \in Tabs
  BY ConnectEffect, SidsFacts
<1>3. ~Has(up'[x], Edit)
  <2>1. ~Has(OnConnect(t), Edit)
    BY OnConnectHolds DEF CanvasNow, PageNow, NoneWaiting, Edit
  <2> QED BY <1>0, <1>1, <2>1, HasNothing
<1>4. NoneWaiting'
  BY <1>0, <1>1, <1>2, HasNothing DEF CanvasNow, PageNow, NoneWaiting
<1>5. \A s \in Sids \ {x} : Linked(s)' => Linked(s) /\ s[1] # t /\ tab'[s[1]] = tab[s[1]] /\ up'[s] = up[s]
  BY <1>0, <1>1, <1>2
<1>6. ASSUME NEW s \in Sids, Linked(s)', tab'[s[1]].awaiting PROVE ~Has(up'[s], Edit)
  BY <1>3, <1>5, <1>6 DEF CanvasNow, PageNow, NoneEarly
<1>7. PageNow'
  BY <1>4, <1>6 DEF PageNow, NoneEarly
<1> QED BY <1>0, <1>1, <1>5, <1>7, OthersAgree DEF Settled, redis

LEMMA MoveCanvas ==
    ASSUME SessionInv, CanvasNow, NEW t \in Tabs, MoveCursor(t)
    PROVE  CanvasNow'
PROOF
<1>1. PICK m : m = [kind |-> "cursor"]
  OBVIOUS
<1>2. m \in ClientMsg /\ Sends(t, m) /\ m.kind = "cursor" /\ tab'[t].canvas = tab[t].canvas
  BY <1>1, MoveEffect
<1>3. tab[t].pending \in Seq(ClientMsg) /\ \A s \in Sids : up[s] \in Seq(ClientMsg) /\ s[1] \in Tabs
  BY PageFacts, QueueTypes, SidsFacts DEF TabType
<1>4. \A s \in Sids : up'[s] = up[s] \/ up'[s] = Append(up[s], m)
  BY <1>2 DEF Sends
<1>5. ASSUME NEW s \in Sids
      PROVE  /\ \A K : Has(up[s], K) => Has(up'[s], K)
             /\ Has(up'[s], Edit) <=> Has(up[s], Edit)
             /\ \A e : Carries(up'[s], e) <=> Carries(up[s], e)
  <2>1. up[s] \in Seq(ClientMsg) /\ m \in ClientMsg
    BY <1>2, <1>3
  <2>2. \A K : Has(Append(up[s], m), K) <=> Has(up[s], K) \/ m.kind \in K
    BY <2>1, HasAppended
  <2>3. \A e : Carries(Append(up[s], m), e) <=> Carries(up[s], e) \/ (m.kind = "operation" /\ m.edit = e)
    BY <2>1, CarriesAppended
  <2>4. "cursor" \notin Edit
    BY DEF Edit
  <2> QED BY <1>2, <1>4, <2>2, <2>3, <2>4
<1>6. \A u \in Tabs : Has(tab'[u].pending, Edit) => Has(tab[u].pending, Edit)
  <2>1. tab'[t].pending = tab[t].pending \/ tab'[t].pending = Append(tab[t].pending, m)
    BY <1>2 DEF Sends
  <2>2. \A u \in Tabs \ {t} : tab'[u] = tab[u]
    BY <1>2 DEF Sends
  <2>3. Has(Append(tab[t].pending, m), Edit) <=> Has(tab[t].pending, Edit)
    BY <1>2, <1>3, HasAppended DEF Edit
  <2> QED BY <2>1, <2>2, <2>3
<1>7. \A s \in Sids : (Linked(s)' <=> Linked(s)) /\ (tab'[s[1]].awaiting <=> tab[s[1]].awaiting)
  BY <1>2, <1>3 DEF Sends
<1>8. PageNow'
  BY <1>5, <1>6, <1>7, PageStays DEF CanvasNow, PageNow
<1>9. UNCHANGED <<down, live, joins, inRoom>>
  BY <1>2 DEF Sends, redis, sockets
<1>10. ReadLive'
  BY <1>9 DEF CanvasNow, ReadLive
<1>11. ASSUME NEW s \in Sids, Settled(s)' PROVE Agrees(s)'
  <2>1. Has(up[s], Join) => Has(up'[s], Join)
    BY <1>5
  <2>2. Settled(s)
    BY <1>7, <1>9, <1>11, <2>1, SettledStays
  <2>3. tab'[s[1]].canvas = tab[s[1]].canvas
    BY <1>2, <1>3 DEF Sends
  <2>4. \A v : WillShow(s, "canvas", v)' <=> WillShow(s, "canvas", v)
    BY <1>9, <2>3, WillShowSame
  <2> QED BY <1>5, <1>9, <2>2, <2>4, AgreesStays DEF CanvasNow
<1> QED BY <1>8, <1>10, <1>11 DEF CanvasNow

LEMMA EditsCanvas ==
    ASSUME SessionInv, WireInv, CanvasNow, NEW t \in Tabs, EditCanvas(t), "edited while joining" \notin past'
    PROVE  CanvasNow'
PROOF
<1>1. PICK e \in Nat : /\ Sends(t, Op(e)) /\ Op(e) \in ClientMsg
                       /\ tab'[t].canvas = tab[t].canvas \cup {e}
                       /\ tab'[t].made = tab[t].made \cup {e}
                       /\ Note("edited while joining", tab[t].awaiting)
  BY EditEffect
<1>2. PICK m \in ClientMsg : m = Op(e)
  BY <1>1
<1>3. m.kind = "operation" /\ m.edit = e /\ Sends(t, m)
  BY <1>1, <1>2 DEF Op
<1>4. ~tab[t].awaiting
  BY <1>1 DEF Note
<1>5. tab[t].link # 0
  BY <1>3, <1>4 DEF Sends, WireInv, AllWait, Waits
<1>6. /\ Sid(t) \in Sids /\ Sid(t)[1] = t /\ Linked(Sid(t))
      /\ tab'[t].pending = tab[t].pending
      /\ up'[Sid(t)] = Append(up[Sid(t)], m) /\ \A s \in Sids \ {Sid(t)} : up'[s] = up[s]
      /\ \A u \in Tabs \ {t} : tab'[u] = tab[u]
      /\ \A s \in Sids : Linked(s)' <=> Linked(s)
      /\ tab'[t].awaiting = tab[t].awaiting
      /\ UNCHANGED <<down, live, joins, inRoom>>
  BY <1>3, <1>5 DEF Sends, redis, sockets
<1>7. \A s \in Sids : s[1] \in Tabs /\ up[s] \in Seq(ClientMsg) /\ down[s] \in Seq(ServerMsg)
  BY SidsFacts, QueueTypes
<1>8. \A s \in Sids : s # Sid(t) /\ Linked(s) => s[1] # t
  BY OneSocket
<1>9. NoneWaiting'
  BY <1>6 DEF CanvasNow, PageNow, NoneWaiting
<1>10. ASSUME NEW s \in Sids, Linked(s)', tab'[s[1]].awaiting PROVE ~Has(up'[s], Edit)
  <2>1. s[1] # t
    BY <1>4, <1>6, <1>10
  <2>2. s # Sid(t) /\ tab'[s[1]] = tab[s[1]]
    BY <1>6, <1>7, <2>1
  <2> QED BY <1>6, <1>10, <2>2 DEF CanvasNow, PageNow, NoneEarly
<1>11. ReadLive'
  BY <1>6 DEF CanvasNow, ReadLive
<1>12. ASSUME NEW s \in Sids, Settled(s)' PROVE Agrees(s)'
  <2>1. CASE s # Sid(t)
    <3>1. Linked(s) /\ s[1] # t /\ tab'[s[1]] = tab[s[1]] /\ up'[s] = up[s]
      BY <1>6, <1>7, <1>8, <1>12, <2>1 DEF Settled
    <3>2. Settled(s)
      BY <1>6, <1>12, <3>1, SettledStays
    <3>3. \A v : WillShow(s, "canvas", v)' <=> WillShow(s, "canvas", v)
      BY <1>6, <3>1, WillShowSame
    <3> QED BY <1>6, <3>1, <3>2, <3>3, AgreesStays DEF CanvasNow
  <2>2. CASE s = Sid(t)
    <3>1. ASSUME NEW v PROVE Carries(up'[s], v) <=> Carries(up[s], v) \/ v = e
      <4>1. up[s] \in Seq(ClientMsg) /\ m \in ClientMsg
        BY <1>2, <1>7
      <4>2. Carries(Append(up[s], m), v) <=> Carries(up[s], v) \/ (m.kind = "operation" /\ m.edit = v)
        BY <4>1, CarriesAppended
      <4> QED BY <1>3, <1>6, <2>2, <4>2
    <3>2. Has(up[s], Join) => Has(up'[s], Join)
      <4>1. up[s] \in Seq(ClientMsg) /\ m \in ClientMsg
        BY <1>2, <1>7
      <4>2. Has(Append(up[s], m), Join) <=> Has(up[s], Join) \/ m.kind \in Join
        BY <4>1, HasAppended
      <4> QED BY <1>6, <2>2, <4>2
    <3>3. Settled(s)
      BY <1>6, <1>12, <3>2, SettledStays
    <3>4. ASSUME NEW v, v # e PROVE WillShow(s, "canvas", v)' <=> WillShow(s, "canvas", v)
      <4>1. v \in tab'[s[1]].canvas <=> v \in tab[s[1]].canvas
        BY <1>1, <1>6, <2>2, <3>4
      <4> QED BY <1>6, <4>1 DEF WillShow, After
    <3>5. WillShow(s, "canvas", e)'
      <4>1. ~Has(down[s], State)
        BY <1>4, <1>6, <2>2 DEF WireInv, Wired, WireOK, Listening, Linked
      <4>2. \A i \in DOMAIN down[s] : Tells(down[s][i], "canvas", e) => Puts(down[s][i], "canvas", e)
        BY <4>1 DEF Has, State, Tells, Puts
      <4>3. PICK q \in Seq(ServerMsg) : q = down[s]
        BY <1>7
      <4>4. After(q, "canvas", e, TRUE)
        BY <4>2, <4>3, AfterStays
      <4>5. e \in tab'[s[1]].canvas
        BY <1>1, <1>6, <2>2
      <4> QED BY <1>6, <4>3, <4>4, <4>5 DEF WillShow, After
    <3>6. Agrees(s)
      BY <3>3 DEF CanvasNow
    <3> QED BY <1>6, <3>1, <3>4, <3>5, <3>6 DEF Agrees
  <2> QED BY <2>1, <2>2
<1> QED BY <1>9, <1>10, <1>11, <1>12 DEF CanvasNow, PageNow, NoneEarly

\* A step of the server that brings no news of the canvas.
LEMMA StillCanvas ==
    ASSUME SessionInv, CanvasNow, tab' = tab, live' = live,
           \A s \in Sids : joins'[s].at \in {"add", "get"} => joins'[s].read = live,
           \A s \in Sids : /\ Has(up'[s], Edit) => Has(up[s], Edit)
                           /\ \A e : Carries(up'[s], e) <=> Carries(up[s], e),
           down' = down \/ \E S : \E m : Reaches(S, m) /\ \A v : ~Tells(m, "canvas", v),
           \A s \in Sids : Settled(s)' => Settled(s)
    PROVE  CanvasNow'
PROOF
<1>1. PageNow'
  BY StillLinked, PageStays DEF CanvasNow, PageNow
<1>2. ReadLive'
  BY DEF ReadLive
<1>3. ASSUME NEW s \in Sids, Settled(s)' PROVE Agrees(s)'
  <2>1. CASE down' = down
    <3>1. \A v : WillShow(s, "canvas", v)' <=> WillShow(s, "canvas", v)
      BY <2>1, WillShowSame
    <3> QED BY <1>3, <3>1, AgreesStays DEF CanvasNow
  <2>2. ASSUME NEW S, NEW m, Reaches(S, m), \A v : ~Tells(m, "canvas", v) PROVE Agrees(s)'
    <3>1. \A v : WillShow(s, "canvas", v)' <=> WillShow(s, "canvas", v)
      BY <2>2, WillShowHears
    <3> QED BY <1>3, <3>1, AgreesStays DEF CanvasNow
  <2> QED BY <2>1, <2>2
<1> QED BY <1>1, <1>2, <1>3 DEF CanvasNow

\* A handler takes a message that is not an edit.
LEMMA TakesNoEdit ==
    ASSUME SessionInv, NEW s \in Sids, up[s] # <<>>, Head(up[s]).kind # "operation",
           up'[s] = Tail(up[s]), \A x \in Sids \ {s} : up'[x] = up[x]
    PROVE  \A x \in Sids : /\ Has(up'[x], Edit) => Has(up[x], Edit)
                           /\ \A e : Carries(up'[x], e) <=> Carries(up[x], e)
PROOF
<1>1. Has(up[s], Edit) <=> Head(up[s]).kind \in Edit \/ Has(up'[s], Edit)
  BY QueueTypes, HasTaken
<1>2. \A e : Carries(up[s], e) <=> (Head(up[s]).kind = "operation" /\ Head(up[s]).edit = e) \/ Carries(up'[s], e)
  BY QueueTypes, CarriesTaken
<1> QED BY <1>1, <1>2

\* Who has just joined is shown the canvas that was read, which is the live one.
LEMMA JoinGetCanvas ==
    ASSUME SessionInv, WireInv, CanvasNow, NEW s \in Sids, JoinGet(s), room = "open"
    PROVE  CanvasNow'
PROOF
<1>1. /\ joins[s].at = "get" /\ joins[s] # None /\ joins'[s] = None
      /\ \A x \in Sids \ {s} : joins'[x] = joins[x]
      /\ UNCHANGED <<tab, up, inRoom, live>>
  BY JoinGetEffect DEF redis
<1>2. PageNow'
  BY <1>1, StillLinked, PageStays DEF CanvasNow, PageNow
<1>3. ReadLive'
  BY <1>1, NoneAt DEF CanvasNow, ReadLive
<1>4. ASSUME NEW x \in Sids, Settled(x)' PROVE Agrees(x)'
  <2>1. Linked(x) /\ (Settled(x) \/ x = s)
    BY <1>4, GatewaySettled DEF GatewayNext, WireInv
  <2>2. CASE x = s
    <3>1. tab[s[1]].awaiting
      BY <1>1, <2>1, <2>2 DEF WireInv, Wired, WireOK, Listening, Linked
    <3>2. \A e : ~Carries(up[s], e)
      BY <2>1, <2>2, <3>1, CarriesHas DEF CanvasNow, PageNow, NoneEarly
    <3>3. joins[s].read = live
      BY <1>1 DEF CanvasNow, ReadLive
    <3>4. \A e : WillShow(s, "canvas", e)' <=> e \in joins[s].read
      BY <2>1, <2>2, WillShowJoined
    <3> QED BY <1>1, <2>2, <3>2, <3>3, <3>4 DEF Agrees
  <2>3. CASE x # s
    <3>1. \A e : WillShow(x, "canvas", e)' <=> WillShow(x, "canvas", e)
      BY <2>1, <2>3, WillShowJoined
    <3> QED BY <1>1, <2>1, <2>3, <3>1, AgreesStays DEF CanvasNow
  <2> QED BY <2>2, <2>3
<1> QED BY <1>2, <1>3, <1>4 DEF CanvasNow

\* An edit becomes live and is sent to everyone in the room but its author, who
\* shows it already.
LEMMA HandleOperationCanvas ==
    ASSUME SessionInv, CanvasNow, NEW s \in Sids, HandleOperation(s), room = "open",
           "edited meanwhile" \notin past', \A x \in Sids : Settled(x)' => Settled(x)
    PROVE  CanvasNow'
PROOF
<1>1. PICK e : e = Head(up[s]).edit
  OBVIOUS
<1>2. PICK m : m = Op(e)
  OBVIOUS
<1>3. /\ up[s] # <<>> /\ Head(up[s]).kind = "operation" /\ e \in Nat
      /\ up'[s] = Tail(up[s]) /\ \A x \in Sids \ {s} : up'[x] = up[x]
      /\ live' = live \cup {e} /\ Reaches(inRoom \ {s}, m)
      /\ ~\E x \in Sids : joins[x].at \in {"add", "get"}
      /\ UNCHANGED <<tab, joins, inRoom>>
  BY <1>1, <1>2, HandleOperationEffect DEF Note, sockets
<1>4. ASSUME NEW v PROVE Carries(up[s], v) <=> v = e \/ Carries(up'[s], v)
  <2>1. Carries(up[s], v) <=> (Head(up[s]).kind = "operation" /\ Head(up[s]).edit = v) \/ Carries(Tail(up[s]), v)
    BY <1>3, QueueTypes, CarriesTaken
  <2> QED BY <1>1, <1>3, <2>1
<1>5. Has(up'[s], Edit) => Has(up[s], Edit)
  BY <1>3, QueueTypes, HasTaken
<1>6. PageNow'
  BY <1>3, <1>5, StillLinked, PageStays DEF CanvasNow, PageNow
<1>7. ReadLive'
  BY <1>3 DEF ReadLive
<1>8. ASSUME NEW x \in Sids, Settled(x)' PROVE Agrees(x)'
  <2>1. Settled(x) /\ Agrees(x)
    BY <1>8 DEF CanvasNow
  <2>2. CASE x = s
    <3>1. \A v : WillShow(x, "canvas", v)' <=> WillShow(x, "canvas", v)
      <4>1. down'[x] = down[x]
        BY <1>3, <2>2 DEF Reaches
      <4> QED BY <1>3, <4>1, WillShowSame
    <3> QED BY <1>3, <1>4, <2>1, <2>2, <3>1 DEF Agrees
  <2>3. CASE x # s
    <3>1. x \in inRoom \ {s} /\ Linked(x) /\ up'[x] = up[x]
      BY <1>3, <2>1, <2>3 DEF Settled
    <3>2. WillShow(x, "canvas", e)'
      <4>1. Tells(m, "canvas", e) /\ Puts(m, "canvas", e)
        BY <1>2 DEF Op, Tells, Puts
      <4> QED BY <1>3, <3>1, <4>1, WillShowHears
    <3>3. ASSUME NEW v, v # e PROVE WillShow(x, "canvas", v)' <=> WillShow(x, "canvas", v)
      <4>1. ~Tells(m, "canvas", v)
        BY <1>2, <3>3 DEF Op, Tells
      <4> QED BY <1>3, <4>1, WillShowHears
    <3> QED BY <1>3, <2>1, <3>1, <3>2, <3>3 DEF Agrees
  <2> QED BY <2>2, <2>3
<1> QED BY <1>6, <1>7, <1>8 DEF CanvasNow

LEMMA JoiningCanvas ==
    ASSUME SessionInv, CanvasNow, NEW s \in Sids,
           HandleJoinRoom(s) \/ JoinAccess(s) \/ JoinWarm(s) \/ JoinAdd(s),
           \A x \in Sids : Settled(x)' => Settled(x)
    PROVE  CanvasNow'
PROOF
<1>1. /\ UNCHANGED <<tab, down, live>> /\ \A x \in Sids \ {s} : joins'[x] = joins[x]
      /\ joins'[s].at \in {"add", "get"} => joins'[s].read = live
  <2>1. CASE HandleJoinRoom(s) \/ JoinAccess(s)
    BY <2>1, HandleJoinRoomEffect, JoinAccessEffect DEF redis
  <2>2. CASE JoinWarm(s)
    BY <2>2, JoinWarmEffect DEF redis
  <2>3. CASE JoinAdd(s)
    BY <2>3, JoinAddEffect DEF CanvasNow, ReadLive
  <2> QED BY <2>1, <2>2, <2>3
<1>2. \A x \in Sids : /\ Has(up'[x], Edit) => Has(up[x], Edit)
                      /\ \A e : Carries(up'[x], e) <=> Carries(up[x], e)
  <2>1. CASE HandleJoinRoom(s)
    <3>1. /\ up[s] # <<>> /\ Head(up[s]).kind # "operation"
          /\ up'[s] = Tail(up[s]) /\ \A x \in Sids \ {s} : up'[x] = up[x]
      BY <2>1, HandleJoinRoomEffect
    <3> QED BY <3>1, TakesNoEdit
  <2>2. CASE JoinAccess(s) \/ JoinWarm(s) \/ JoinAdd(s)
    <3>1. up' = up
      BY <2>2, JoinAccessEffect, JoinWarmEffect, JoinAddEffect
    <3> QED BY <3>1
  <2> QED BY <2>1, <2>2
<1>3. \A x \in Sids : joins'[x].at \in {"add", "get"} => joins'[x].read = live
  BY <1>1 DEF CanvasNow, ReadLive
<1> QED BY <1>1, <1>2, <1>3, StillCanvas

LEMMA LeavingCanvas ==
    ASSUME SessionInv, CanvasNow, NEW s \in Sids,
           HandleDisconnect(s) \/ LeaveRemove(s) \/ LeaveNotify(s),
           \A x \in Sids : Settled(x)' => Settled(x)
    PROVE  CanvasNow'
PROOF
<1>1. UNCHANGED <<tab, up, joins, live>>
  BY DisconnectEffect, LeaveRemoveEffect, LeaveNotifyEffect DEF redis
<1>2. \A x \in Sids : joins'[x].at \in {"add", "get"} => joins'[x].read = live
  BY <1>1 DEF CanvasNow, ReadLive
<1>3. PICK m : m = Presence("userLeft", UserAt(s))
  OBVIOUS
<1>4. \A v : ~Tells(m, "canvas", v)
  BY <1>3 DEF Presence, Tells
<1>5. down' = down \/ Reaches(inRoom, m)
  BY <1>3, DisconnectEffect, LeaveRemoveEffect, LeaveNotifyEffect
<1> QED BY <1>1, <1>2, <1>4, <1>5, StillCanvas

LEMMA HandleCursorCanvas ==
    ASSUME SessionInv, CanvasNow, NEW s \in Sids, HandleCursor(s), \A x \in Sids : Settled(x)' => Settled(x)
    PROVE  CanvasNow'
PROOF
<1>1. PICK m : m = Cursor(UserAt(s))
  OBVIOUS
<1>2. /\ up[s] # <<>> /\ Head(up[s]).kind # "operation"
      /\ up'[s] = Tail(up[s]) /\ \A x \in Sids \ {s} : up'[x] = up[x]
      /\ down' = down \/ Reaches(inRoom \ {s}, m)
      /\ UNCHANGED <<tab, joins, live>>
  BY <1>1, HandleCursorEffect DEF sockets, redis
<1>3. \A v : ~Tells(m, "canvas", v)
  BY <1>1 DEF Cursor, Tells
<1>4. \A x \in Sids : joins'[x].at \in {"add", "get"} => joins'[x].read = live
  BY <1>2 DEF CanvasNow, ReadLive
<1>5. \A x \in Sids : /\ Has(up'[x], Edit) => Has(up[x], Edit)
                      /\ \A e : Carries(up'[x], e) <=> Carries(up[x], e)
  BY <1>2, TakesNoEdit
<1> QED BY <1>2, <1>3, <1>4, <1>5, StillCanvas

LEMMA GatewayCanvas ==
    ASSUME SessionInv, WireInv, CanvasNow, room = "open", "edited meanwhile" \notin past',
           NEW s \in Sids, GatewayNext(s)
    PROVE  CanvasNow'
PROOF
<1>1. InTime
  BY DEF WireInv
<1>2. CASE JoinGet(s)
  BY <1>2, JoinGetCanvas
<1>3. CASE JoinExists(s)
  BY <1>1, <1>3, JoinExistsEffect DEF InTime
<1>4. CASE ~JoinGet(s)
  <2>1. \A x \in Sids : Settled(x)' => Settled(x)
    BY <1>1, <1>4, GatewaySettled
  <2> QED BY <1>3, <1>4, <2>1, HandleOperationCanvas, JoiningCanvas, LeavingCanvas, HandleCursorCanvas DEF GatewayNext
<1> QED BY <1>2, <1>4

LEMMA ServerCanvas ==
    ASSUME SessionInv, CanvasNow, room' = "open", Server
    PROVE  CanvasNow'
PROOF
<1>1. (\A x \in Sids : Settled(x)' => Settled(x)) /\ UNCHANGED <<tab, up, joins, live>>
  BY ServerSettled, RunAnalysisEffect, ExpireUsersEffect, BroadcastDeletedEffect, DeletionEffect, AnnounceEffect
     DEF Server, sockets, redis
<1>2. \A x \in Sids : joins'[x].at \in {"add", "get"} => joins'[x].read = live
  BY <1>1 DEF CanvasNow, ReadLive
<1>3. CASE RunAnalysis
  <2>1. PICK m : m = WarningUpdate(live)
    OBVIOUS
  <2>2. (Reaches(inRoom, m) \/ down' = down) /\ \A v : ~Tells(m, "canvas", v)
    BY <1>3, <2>1, RunAnalysisEffect DEF WarningUpdate, Tells
  <2> QED BY <1>1, <1>2, <2>2, StillCanvas
<1>4. ASSUME NEW m \in announce, Announce(m) PROVE CanvasNow'
  <2>1. Reaches(inRoom, m) /\ \A v : ~Tells(m, "canvas", v)
    BY <1>4, AnnounceEffect DEF Tells
  <2> QED BY <1>1, <1>2, <2>1, StillCanvas
<1>5. CASE ExpireUsers
  BY <1>1, <1>2, <1>5, ExpireUsersEffect, StillCanvas
<1> QED BY <1>3, <1>4, <1>5, BroadcastDeletedEffect, DeletionEffect DEF Server

LEMMA ClientCanvas ==
    ASSUME SessionInv, WireInv, CanvasNow, "edited while joining" \notin past', NEW t \in Tabs, Client(t)
    PROVE  CanvasNow'
BY ShowsCanvas, QuitsCanvas, OpenCanvas, ConnectCanvas, DropCanvas, EditsCanvas, MoveCanvas DEF Client

LEMMA InitCanvas == Init => CanvasInv
PROOF
<1> SUFFICES ASSUME Init PROVE CanvasNow
  BY DEF CanvasInv
<1>1. live = {}
  BY DEF Init
<1>2. ASSUME NEW t \in Tabs PROVE tab[t].pending = <<>>
  <2>1. 1 \in 1..MaxConnections
    BY MaxConnectionsAssumption
  <2>2. <<t, 1>> \in Sids /\ <<t, 1>>[1] = t
    BY <2>1 DEF Sids
  <2> QED BY <2>2, InitNothing
<1>3. PageNow
  BY <1>2, InitNothing, HasNothing DEF PageNow, NoneWaiting, NoneEarly
<1>4. ReadLive
  BY InitNothing, NoneAt DEF ReadLive
<1>5. ASSUME NEW s \in Sids, NEW e PROVE ~WillShow(s, "canvas", e) /\ ~Carries(up[s], e)
  BY InitNothing, CarriesNothing DEF WillShow, After
<1> QED BY <1>1, <1>3, <1>4, <1>5 DEF CanvasNow, Agrees

LEMMA NextCanvas ==
    ASSUME SessionInv, WireInv, CanvasInv, [Next]_vars
    PROVE  CanvasInv'
PROOF
<1> SUFFICES ASSUME room' = "open", past' \cap {"edited while joining", "edited meanwhile"} = {}
             PROVE  CanvasNow'
  BY DEF CanvasInv, Calm
<1>1. room = "open" /\ CanvasNow
  BY NextOnward DEF Onward, CanvasInv, Calm
<1>2. "edited while joining" \notin past' /\ "edited meanwhile" \notin past'
  OBVIOUS
<1> QED BY <1>1, <1>2, NextCases, AsideCanvas, ClientCanvas, GatewayCanvas, ServerCanvas DEF Step

LEMMA CanvasInvariant == Spec => []CanvasInv
PROOF
<1>1. SessionInv /\ WireInv /\ CanvasInv /\ [Next]_vars => CanvasInv'
  BY NextCanvas
<1> QED BY <1>1, StrandedInvariant, InitCanvas, PTL DEF Spec

\* Once nothing is on its way, every edit is live, through drops and reconnects in
\* any order (socketService.ts:59-71, 97-103), unless it was on the wire when the connection
\* was lost, or waited for one on a page that was left or turned away; and every page
\* shows the live canvas (canvas.gateway.ts:130-191), unless an edit was made before
\* the room's state arrived, or was applied between its reading and its sending.
THEOREM ReconnectsKeepEdits == Spec => []EditsSurviveReconnect
PROOF
<1>1. SessionInv /\ WireInv /\ StrandedInv /\ MadeInv /\ CanvasInv => EditsSurviveReconnect
  <2> SUFFICES ASSUME SessionInv, WireInv, StrandedInv, MadeInv, CanvasInv PROVE EditsSurviveReconnect
    OBVIOUS
  <2>1. ASSUME Quiet, room = "open", past \cap {"lost edit"} = {}, NEW t \in Tabs, NEW e \in tab[t].made
        PROVE  e \in live
    <3>1. e \in live \/ Underway(t, e)
      BY <2>1 DEF MadeInv, MadeNow, Calm
    <3>2. \A s \in Sids : ~Carries(up[s], e)
      BY <2>1, CarriesNothing DEF Quiet
    <3>3. tab[t].pending = <<>>
      <4>1. tab[t].page \in {"away", "room"} /\ PageSound(tab[t])
        BY PageFacts DEF TabType
      <4>2. tab[t].page = "room" => tab[t].link # 0
        BY <2>1 DEF Quiet
      <4> QED BY <4>1, <4>2 DEF PageSound
    <3> QED BY <3>1, <3>2, <3>3, CarriesNothing DEF Underway
  <2>2. ASSUME Quiet, room = "open", past \cap {"edited while joining", "edited meanwhile"} = {},
               NEW t \in InSession
        PROVE  tab[t].canvas = live
    <3>1. CanvasNow
      BY <2>2 DEF CanvasInv, Calm
    <3>2. t \in Tabs /\ tab[t].page = "room"
      BY DEF InSession
    <3>3. /\ Sid(t) \in Sids /\ Settled(Sid(t)) /\ up[Sid(t)] = <<>>
          /\ \A v : WillShow(Sid(t), "canvas", v) <=> v \in tab[t].canvas
      BY <2>2, <3>2, QuietSettled DEF Kept
    <3>4. \A e \in Nat : e \in tab[t].canvas <=> e \in live
      BY <3>1, <3>3, CarriesNothing DEF CanvasNow, Agrees
    <3>5. tab[t].canvas \subseteq Nat /\ live \subseteq Nat
      BY <3>2, PageFacts DEF TabType, SessionInv, RoomTyped
    <3> QED BY <3>4, <3>5
  <2> QED BY <2>1, <2>2 DEF EditsSurviveReconnect, Without
<1> QED BY <1>1, StrandedInvariant, MadeInvariant, CanvasInvariant, PTL

-----------------------------------------------------------------------------
(* What a page will list, once it has heard everything.                    *)

\* A message of A is about v in the list l.
Coming(A, l, v) == \E m \in A : m.list = l /\ m.item = v

\* A page that lists S lists the rows R of l after all messages of q, except
\* for what A still announces.
Agree(q, l, S, R, A) == \A v : ~Coming(A, l, v) => (After(q, l, v, v \in S) <=> v \in R)

\* After p a page lists what it lists after q.
SameNews(q, p) ==
    \A l \in Lists : \A v : \A b \in BOOLEAN : After(p, l, v, b) <=> After(q, l, v, b)

LEMMA AboutItems ==
    ASSUME NEW m, NEW l \in Lists, NEW v
    PROVE  /\ Tells(m, l, v) <=> m.kind = "item" /\ m.list = l /\ m.item = v
           /\ Puts(m, l, v) <=> m.kind = "item" /\ m.list = l /\ m.item = v /\ ~m.gone
BY DEF Lists, Tells, Puts

\* Whatever follows, it decides, or what was listed before does.
LEMMA AfterEither ==
    ASSUME NEW q, NEW k, NEW v, NEW b \in BOOLEAN, NEW c \in BOOLEAN, After(q, k, v, b) <=> c
    PROVE  After(q, k, v, c) <=> c
PROOF
<1>1. CASE \A i \in DOMAIN q : ~Tells(q[i], k, v)
  <2>1. \A i \in DOMAIN q : ~Puts(q[i], k, v)
    BY <1>1, PutsTells
  <2> QED BY <1>1, <2>1 DEF After
<1>2. CASE \E i \in DOMAIN q : Tells(q[i], k, v)
  BY <1>2 DEF After
<1> QED BY <1>1, <1>2

LEMMA AfterLess ==
    ASSUME NEW q, NEW k, NEW v, NEW b \in BOOLEAN, ~After(q, k, v, b)
    PROVE  ~After(q, k, v, FALSE)
BY DEF After

LEMMA NewsTwice ==
    ASSUME NEW q, NEW p, NEW r, SameNews(q, p), SameNews(p, r)
    PROVE  SameNews(q, r)
BY DEF SameNews

LEMMA NoNewsAppended ==
    ASSUME NEW q \in Seq(ServerMsg), NEW m \in ServerMsg, m.kind # "item"
    PROVE  SameNews(q, Append(q, m))
PROOF
<1> SUFFICES ASSUME NEW l \in Lists, NEW v, NEW b \in BOOLEAN
             PROVE  After(Append(q, m), l, v, b) <=> After(q, l, v, b)
  BY DEF SameNews
<1>1. ~Tells(m, l, v)
  BY AboutItems
<1> QED BY <1>1, AfterAppended

LEMMA NoNewsTaken ==
    ASSUME NEW q \in Seq(ServerMsg), q # <<>>, Head(q).kind # "item"
    PROVE  SameNews(q, Tail(q))
PROOF
<1> SUFFICES ASSUME NEW l \in Lists, NEW v, NEW b \in BOOLEAN
             PROVE  After(Tail(q), l, v, b) <=> After(q, l, v, b)
  BY DEF SameNews
<1>1. ~Tells(Head(q), l, v)
  BY AboutItems
<1>2. After(Tail(q), l, v, b) <=> After(q, l, v, b)
  BY <1>1, AfterTaken
<1> QED BY <1>2

LEMMA NoNewsLost ==
    ASSUME NEW q, \A i \in DOMAIN q : q[i].kind # "item"
    PROVE  SameNews(q, <<>>)
PROOF
<1> SUFFICES ASSUME NEW l \in Lists, NEW v, NEW b \in BOOLEAN
             PROVE  After(<<>>, l, v, b) <=> After(q, l, v, b)
  BY DEF SameNews
<1>1. \A i \in DOMAIN q : ~Tells(q[i], l, v) /\ ~Puts(q[i], l, v)
  BY AboutItems
<1>2. After(q, l, v, b) <=> b
  BY <1>1 DEF After
<1>3. After(<<>>, l, v, b) <=> b
  BY AfterNothing
<1> QED BY <1>2, <1>3

LEMMA AgreeHears ==
    ASSUME NEW q, NEW p, NEW l \in Lists, NEW S, NEW R, NEW A, SameNews(q, p), Agree(q, l, S, R, A)
    PROVE  Agree(p, l, S, R, A)
PROOF
<1> SUFFICES ASSUME NEW v, ~Coming(A, l, v) PROVE After(p, l, v, v \in S) <=> v \in R
  BY DEF Agree
<1>1. PICK b \in BOOLEAN : b <=> v \in S
  OBVIOUS
<1>2. After(p, l, v, b) <=> After(q, l, v, b)
  BY DEF SameNews
<1>3. (After(p, l, v, b) <=> After(p, l, v, v \in S)) /\ (After(q, l, v, b) <=> After(q, l, v, v \in S))
  BY <1>1 DEF After
<1>4. After(q, l, v, v \in S) <=> v \in R
  BY DEF Agree
<1> QED BY <1>2, <1>3, <1>4

\* An item that is listed, or dropped.
LEMMA AgreeTakes ==
    ASSUME NEW q \in Seq(ServerMsg), q # <<>>, NEW l \in Lists, NEW S, NEW R, NEW A,
           NEW T, NEW m, m = Head(q), m.kind = "item", m.gone \in BOOLEAN, Agree(q, l, S, R, A),
           \A v : v \in T <=> IF m.list = l /\ m.item = v THEN ~m.gone ELSE v \in S
    PROVE  Agree(Tail(q), l, T, R, A)
PROOF
<1> SUFFICES ASSUME NEW v, ~Coming(A, l, v) PROVE After(Tail(q), l, v, v \in T) <=> v \in R
  BY DEF Agree
<1>1. PICK b \in BOOLEAN : b <=> v \in S
  OBVIOUS
<1>2. PICK c \in BOOLEAN : c <=> v \in T
  OBVIOUS
<1>3. (After(Tail(q), l, v, c) <=> After(Tail(q), l, v, v \in T)) /\ (After(q, l, v, b) <=> After(q, l, v, v \in S))
  BY <1>1, <1>2 DEF After
<1>4. After(q, l, v, v \in S) <=> v \in R
  BY DEF Agree
<1>5. Tells(Head(q), l, v) => (c <=> Puts(Head(q), l, v))
  BY <1>2, AboutItems
<1>6. ~Tells(Head(q), l, v) => (c <=> b)
  BY <1>1, <1>2, AboutItems
<1>7. After(Tail(q), l, v, c) <=> After(q, l, v, b)
  BY <1>5, <1>6, AfterTaken
<1> QED BY <1>3, <1>4, <1>7

\* What is taken off a queue that changes nothing was nothing new.
LEMMA AgreeTakesRows ==
    ASSUME NEW q \in Seq(ServerMsg), q # <<>>, NEW l \in Lists, NEW R, NEW A, Agree(q, l, R, R, A)
    PROVE  Agree(Tail(q), l, R, R, A)
PROOF
<1> SUFFICES ASSUME NEW v, ~Coming(A, l, v) PROVE After(Tail(q), l, v, v \in R) <=> v \in R
  BY DEF Agree
<1>1. PICK b \in BOOLEAN : b <=> v \in R
  OBVIOUS
<1>2. PICK c \in BOOLEAN : c <=> IF Tells(Head(q), l, v) THEN Puts(Head(q), l, v) ELSE b
  OBVIOUS
<1>3. After(Tail(q), l, v, c) <=> After(q, l, v, b)
  BY <1>2, AfterTaken
<1>4. After(q, l, v, v \in R) <=> v \in R
  BY DEF Agree
<1>5. After(q, l, v, b) <=> After(q, l, v, v \in R)
  BY <1>1 DEF After
<1>6. After(Tail(q), l, v, c) <=> b
  BY <1>1, <1>3, <1>4, <1>5
<1>7. After(Tail(q), l, v, b) <=> b
  BY <1>6, AfterEither
<1>8. After(Tail(q), l, v, b) <=> After(Tail(q), l, v, v \in R)
  BY <1>1 DEF After
<1> QED BY <1>1, <1>7, <1>8

\* Rows that change are announced.
LEMMA AgreeWrites ==
    ASSUME NEW q, NEW l, NEW S, NEW T, NEW R, NEW Q, NEW A, NEW B, Agree(q, l, S, R, A),
           \A v : ~Coming(B, l, v) => ~Coming(A, l, v) /\ (v \in Q <=> v \in R) /\ (v \in T <=> v \in S)
    PROVE  Agree(q, l, T, Q, B)
PROOF
<1> SUFFICES ASSUME NEW v, ~Coming(B, l, v) PROVE After(q, l, v, v \in T) <=> v \in Q
  BY DEF Agree
<1>1. After(q, l, v, v \in S) <=> v \in R
  BY DEF Agree
<1>2. After(q, l, v, v \in S) <=> After(q, l, v, v \in T)
  BY DEF After
<1> QED BY <1>1, <1>2

LEMMA AgreeAnnounced ==
    ASSUME NEW q \in Seq(ServerMsg), NEW m \in ServerMsg, NEW l \in Lists, NEW S, NEW R, NEW A, Agree(q, l, S, R, A),
           m.kind = "item", m.list = l => (m.item \in R <=> ~m.gone)
    PROVE  Agree(Append(q, m), l, S, R, A \ {m})
PROOF
<1> SUFFICES ASSUME NEW v, ~Coming(A \ {m}, l, v) PROVE After(Append(q, m), l, v, v \in S) <=> v \in R
  BY DEF Agree
<1>1. PICK b \in BOOLEAN : b <=> v \in S
  OBVIOUS
<1>2. (After(Append(q, m), l, v, b) <=> After(Append(q, m), l, v, v \in S)) /\ (After(q, l, v, b) <=> After(q, l, v, v \in S))
  BY <1>1 DEF After
<1>3. CASE m.list = l /\ m.item = v
  <2>1. Tells(m, l, v) /\ (Puts(m, l, v) <=> v \in R)
    BY <1>3, AboutItems
  <2>2. After(Append(q, m), l, v, b) <=> Puts(m, l, v)
    BY <2>1, AfterAppended
  <2> QED BY <1>2, <2>1, <2>2
<1>4. CASE ~(m.list = l /\ m.item = v)
  <2>1. ~Tells(m, l, v)
    BY <1>4, AboutItems
  <2>2. After(Append(q, m), l, v, b) <=> After(q, l, v, b)
    BY <2>1, AfterAppended
  <2>3. ~Coming(A, l, v)
    BY <1>4 DEF Coming
  <2>4. After(q, l, v, v \in S) <=> v \in R
    BY <2>3 DEF Agree
  <2> QED BY <1>2, <2>2, <2>4
<1> QED BY <1>3, <1>4

\* Nothing on its way changes the rows.
LEMMA AgreeDeaf ==
    ASSUME NEW q, NEW l \in Lists, NEW R, NEW A, \A i \in DOMAIN q : q[i].kind # "item"
    PROVE  Agree(q, l, R, R, A)
PROOF
<1>1. \A v : \A i \in DOMAIN q : ~Tells(q[i], l, v) /\ ~Puts(q[i], l, v)
  BY AboutItems
<1> QED BY <1>1 DEF Agree, After

\* What is gone is not among the rows, and is dropped from what is listed.
LEMMA AgreeForgets ==
    ASSUME NEW q, NEW l, NEW S, NEW R, NEW A, NEW G, Agree(q, l, S, R, A), G \cap R = {}
    PROVE  Agree(q, l, S \ G, R, A)
PROOF
<1> SUFFICES ASSUME NEW v, ~Coming(A, l, v) PROVE After(q, l, v, v \in S \ G) <=> v \in R
  BY DEF Agree
<1>1. After(q, l, v, v \in S) <=> v \in R
  BY DEF Agree
<1>2. CASE v \notin G
  BY <1>1, <1>2 DEF After
<1>3. CASE v \in G
  <2>1. v \notin R
    BY <1>3
  <2>2. ~After(q, l, v, v \in S \ G)
    BY <1>1, <2>1, <1>3 DEF After
  <2> QED BY <2>1, <2>2
<1> QED BY <1>2, <1>3

LEMMA AgreeQuiet ==
    ASSUME NEW l, NEW S, NEW R, Agree(<<>>, l, S, R, {})
    PROVE  S = R
PROOF
<1>1. \A v : ~Coming({}, l, v)
  BY DEF Coming
<1>2. \A v : After(<<>>, l, v, v \in S) <=> v \in S
  BY DEF After
<1>3. \A v : v \in S <=> v \in R
  BY <1>1, <1>2 DEF Agree
<1> QED BY <1>3

-----------------------------------------------------------------------------
(* What is on its way to a page's lists.                                   *)

Hears(t) == IF tab[t].link = 0 THEN <<>> ELSE down[Sid(t)]

\* The fetches of l, which replace the list; the replies to deletions do not.
Pending(t, l) == {f \in fetches[t] : f.list = l /\ f.gone = {}}

\* The page of t has the room's state, and has asked for its comments.
Attends(t) == \E s \in Sids : s[1] = t /\ Settled(s) /\ ~Has(down[s], State)
Watched(t, l) == IF l = "comments" THEN Attends(t) ELSE tab[t].panel

\* At most one fetch is under way; until it is answered, what it has read counts.
Alone(t, l) == \A f, g \in Pending(t, l) : f = g
Right(t, l) ==
    /\ Pending(t, l) = {} => Agree(Hears(t), l, tab[t].shown[l], lists[l], announce)
    /\ \A f \in Pending(t, l) : f.read => Agree(Hears(t), l, f.items, lists[l], announce)
Sound(t, l) == Alone(t, l) /\ (Watched(t, l) => Right(t, l))

Excuses(l) == {"overtaken reply", IF l = "comments" THEN "two fetches" ELSE "missed"}
SoundInv == \A l \in Lists : Calm(Excuses(l)) => \A t \in Tabs : Sound(t, l)

\* An item is made once, and a page that listed the rows as they are would list them
\* again after everything that is on its way.
Used(v) == v[1] > budget.posts
UsedNow ==
    /\ \A m \in announce : Used(m.item)
    /\ \A l \in Lists : \A v \in lists[l] : Used(v)
    /\ \A t \in Tabs : \A f \in fetches[t] :
          /\ \A v \in f.gone : Used(v)
          /\ f.gone # {} => f.read /\ f.list = "snapshots"
          /\ f.list = "snapshots" => tab[t].panel
RowsNow ==
    /\ \A m \in announce : m.item \in lists[m.list] <=> ~m.gone
    /\ \A t \in Tabs : \A f \in fetches[t] : f.gone \cap lists[f.list] = {}
    /\ \A t \in Tabs : \A l \in Lists : Agree(Hears(t), l, lists[l], lists[l], announce)
ItemsInv == room = "open" => UsedNow /\ RowsNow

LEMMA PanelFacts ==
    ASSUME SessionInv
    PROVE  /\ tab \in [Tabs -> TabType]
           /\ \A t \in Tabs : tab[t] \in TabType
           /\ \A t \in Tabs : \A l \in Lists : tab[t].shown[l] \subseteq Item
           /\ \A t \in Tabs : tab[t].shown \in [Lists -> SUBSET Item]
           /\ fetches \in [Tabs -> SUBSET FetchType]
           /\ \A t \in Tabs : \A f \in fetches[t] : f \in FetchType /\ f.list \in Lists
           /\ announce \subseteq ItemMsgs
           /\ lists \in [Lists -> SUBSET Item]
PROOF
<1>1. tab \in [Tabs -> TabType] /\ \A t \in Tabs : tab[t] \in TabType
  BY DEF SessionInv, PagesTyped
<1>2. \A t \in Tabs : tab[t].shown \in [Lists -> SUBSET Item]
  BY <1>1 DEF TabType
<1>3. fetches \in [Tabs -> SUBSET FetchType] /\ announce \subseteq ItemMsgs /\ lists \in [Lists -> SUBSET Item]
  BY DEF SessionInv, PanelsTyped
<1>4. \A t \in Tabs : \A f \in fetches[t] : f \in FetchType /\ f.list \in Lists
  BY <1>3 DEF FetchType
<1> QED BY <1>1, <1>2, <1>3, <1>4

LEMMA AnnouncedFacts ==
    ASSUME SessionInv, NEW m \in announce
    PROVE  /\ m \in ServerMsg /\ m.kind = "item" /\ m.list \in Lists /\ m.gone \in BOOLEAN
           /\ m.item \in Item /\ m.by \in Tabs
PROOF
<1>1. m \in ItemMsgs
  BY DEF SessionInv, PanelsTyped
<1> QED BY <1>1, ServerMsgs DEF ItemMsgs

LEMMA PostsStay ==
    ASSUME SessionInv, NEW what, what # "posts", Spend(what)
    PROVE  budget'.posts = budget.posts
BY DEF SessionInv, BudgetTyped, Spend, Events

LEMMA HearsTyped ==
    ASSUME SessionInv, NEW t \in Tabs
    PROVE  /\ Hears(t) \in Seq(ServerMsg)
           /\ tab[t].link # 0 => Sid(t) \in Sids /\ Linked(Sid(t)) /\ Hears(t) = down[Sid(t)]
           /\ tab[t].link = 0 => Hears(t) = <<>>
PROOF
<1>1. CASE tab[t].link = 0
  BY <1>1 DEF Hears
<1>2. CASE tab[t].link # 0
  BY <1>2, LinksAreSockets, QueueTypes DEF Hears
<1> QED BY <1>1, <1>2

LEMMA SameHears ==
    ASSUME NEW q
    PROVE  SameNews(q, q)
BY DEF SameNews

\* The page of u has no part in what happens.
LEMMA HearsStays ==
    ASSUME NEW u \in Tabs, tab'[u].link = tab[u].link, tab[u].link # 0 => down'[Sid(u)] = down[Sid(u)]
    PROVE  Hears(u)' = Hears(u)
PROOF
<1>1. Sid(u)' = Sid(u)
  BY DEF Sid
<1> QED BY <1>1 DEF Hears

\* News that is not about items.
LEMMA HearsSent ==
    ASSUME SessionInv, tab' = tab, NEW S, NEW m, Reaches(S, m), m.kind # "item", NEW u \in Tabs
    PROVE  SameNews(Hears(u), Hears(u)')
PROOF
<1>1. Sid(u)' = Sid(u)
  BY DEF Sid
<1>2. CASE tab[u].link = 0
  <2>1. Hears(u)' = Hears(u)
    BY <1>2 DEF Hears
  <2> QED BY <2>1, SameHears
<1>3. CASE tab[u].link # 0
  <2>1. Sid(u) \in Sids /\ Hears(u) = down[Sid(u)] /\ Hears(u) \in Seq(ServerMsg)
    BY <1>3, HearsTyped
  <2>2. Hears(u)' = down'[Sid(u)]
    BY <1>1, <1>3 DEF Hears
  <2>3. m \in ServerMsg /\ (down'[Sid(u)] = Append(down[Sid(u)], m) \/ down'[Sid(u)] = down[Sid(u)])
    BY <2>1 DEF Reaches
  <2> QED BY <2>1, <2>2, <2>3, NoNewsAppended, SameHears
<1> QED BY <1>2, <1>3

LEMMA GrowsHas ==
    ASSUME NEW q \in Seq(ServerMsg), NEW m \in ServerMsg, NEW K, Has(q, K)
    PROVE  Has(Append(q, m), K)
BY HasAppended

LEMMA SentHas ==
    ASSUME SessionInv, NEW S, NEW m, Reaches(S, m), NEW s \in Sids, Has(down[s], State)
    PROVE  Has(down'[s], State)
PROOF
<1>1. m \in ServerMsg /\ (down'[s] = Append(down[s], m) \/ down'[s] = down[s])
  BY DEF Reaches
<1>2. down[s] \in Seq(ServerMsg)
  BY QueueTypes
<1> QED BY <1>1, <1>2, GrowsHas

\* Who attends was settled, and lost no state.
LEMMA AttendsStays ==
    ASSUME NEW t \in Tabs, Attends(t)', \A s \in Sids : s[1] = t /\ Settled(s)' /\ ~Has(down'[s], State) =>
               Settled(s) /\ ~Has(down[s], State)
    PROVE  Attends(t)
BY DEF Attends

LEMMA AsideAttends ==
    ASSUME SessionInv, Aside, NEW t \in Tabs
    PROVE  /\ Attends(t)' => Attends(t)
           /\ Hears(t)' = Hears(t)
PROOF
<1>1. down' = down /\ tab'[t].link = tab[t].link
  BY DEF Aside, Alike
<1>2. Attends(t)' => Attends(t)
  BY <1>1, AsideSettled, AttendsStays
<1> QED BY <1>1, <1>2, HearsStays

LEMMA ShowsAttends ==
    ASSUME SessionInv, NEW t \in Tabs, Shows(t), NEW u \in Tabs, Attends(u)',
           u # t \/ Received(t).kind # "roomState"
    PROVE  Attends(u)
PROOF
<1>1. ASSUME NEW s \in Sids, s[1] = u, Settled(s)', ~Has(down'[s], State)
      PROVE  Settled(s) /\ ~Has(down[s], State)
  <2>1. Settled(s)
    BY <1>1, ClientSettled DEF Client
  <2>2. CASE s # Sid(t)
    BY <1>1, <2>1, <2>2 DEF Shows
  <2>3. CASE s = Sid(t)
    <3>1. u = t /\ down[s] # <<>> /\ down'[s] = Tail(down[s]) /\ Received(t) = Head(down[s])
      BY <1>1, <2>3 DEF Shows, Received, Sid
    <3>2. down[s] \in Seq(ServerMsg)
      BY QueueTypes
    <3>3. Has(down[s], State) <=> Head(down[s]).kind \in State \/ Has(Tail(down[s]), State)
      BY <3>1, <3>2, HasTaken
    <3> QED BY <1>1, <2>1, <3>1, <3>3 DEF State
  <2> QED BY <2>2, <2>3
<1> QED BY <1>1, AttendsStays

LEMMA OthersAttend ==
    ASSUME SessionInv, NEW t \in Tabs, NEW u \in Tabs, Attends(u)',
           Quits(t) \/ Open(t) \/ Connect(t) \/ Drop(t) \/ EditCanvas(t) \/ MoveCursor(t)
    PROVE  Attends(u)
PROOF
<1>1. ASSUME NEW s \in Sids, s[1] = u, Settled(s)', ~Has(down'[s], State)
      PROVE  Settled(s) /\ ~Has(down[s], State)
  <2>1. Settled(s) /\ Linked(s) /\ Linked(s)'
    BY <1>1, ClientSettled DEF Client, Settled
  <2>2. down'[s] = down[s]
    <3>1. CASE Quits(t)
      BY <2>1, <3>1, QuitsEffect
    <3>2. CASE Open(t)
      BY <3>2, OpenEffect
    <3>3. CASE Drop(t)
      BY <2>1, <3>3, DropEffect
    <3>4. CASE Connect(t)
      <4>1. PICK x \in Sids : ~Linked(x) /\ \A y \in Sids \ {x} : down'[y] = down[y]
        BY <3>4, ConnectEffect
      <4> QED BY <2>1, <4>1
    <3>5. CASE EditCanvas(t)
      BY <3>5, EditEffect DEF Sends
    <3>6. CASE MoveCursor(t)
      BY <3>6, MoveEffect DEF Sends
    <3> QED BY <3>1, <3>2, <3>3, <3>4, <3>5, <3>6
  <2> QED BY <1>1, <2>1, <2>2
<1> QED BY <1>1, AttendsStays

LEMMA ServerAttends ==
    ASSUME SessionInv, Server, NEW u \in Tabs, Attends(u)', down' = down \/ \E S : \E m : Reaches(S, m)
    PROVE  Attends(u)
PROOF
<1>1. ASSUME NEW s \in Sids, s[1] = u, Settled(s)', ~Has(down'[s], State)
      PROVE  Settled(s) /\ ~Has(down[s], State)
  BY <1>1, ServerSettled, SentHas
<1> QED BY <1>1, AttendsStays

-----------------------------------------------------------------------------
(* What a step does to the lists, their fetches and the news.              *)

\* The lists, the panels and their fetches stay.
PanelsStay ==
    /\ UNCHANGED panels /\ budget'.posts = budget.posts
    /\ \A t \in Tabs : tab'[t].shown = tab[t].shown /\ tab'[t].panel = tab[t].panel

\* And there is no news for them.
Plainly ==
    /\ PanelsStay
    /\ \A t \in Tabs : SameNews(Hears(t), Hears(t)') /\ (Attends(t)' => Attends(t))

\* The other pages stay as they are, and what they hear.
Elsewhere(t) ==
    \A u \in Tabs \ {t} :
        /\ tab'[u].shown = tab[u].shown /\ tab'[u].panel = tab[u].panel /\ fetches'[u] = fetches[u]
        /\ Hears(u)' = Hears(u)
        /\ Attends(u)' => Attends(u)

LEMMA TabChanges ==
    ASSUME SessionInv, NEW t \in Tabs, NEW T, tab' = [tab EXCEPT ![t] = T],
           T.shown = tab[t].shown, T.panel = tab[t].panel
    PROVE  \A u \in Tabs : tab'[u].shown = tab[u].shown /\ tab'[u].panel = tab[u].panel
BY PanelFacts

\* What connects, what is drawn and what is done on the canvas.
LEMMA ClientPanelsStay ==
    ASSUME SessionInv, NEW t \in Tabs,
           \/ Open(t) \/ Connect(t) \/ Drop(t) \/ ExpireToken(t)
           \/ OnOperationBroadcast(t) \/ OnWarningUpdate(t) \/ OnUserJoined(t)
           \/ OnUserLeft(t) \/ OnCursorBroadcast(t) \/ OnDenied(t)
           \/ EditCanvas(t) \/ MoveCursor(t)
    PROVE  PanelsStay
PROOF
<1>1. tab \in [Tabs -> TabType] /\ tab[t] \in TabType
  BY PanelFacts
<1>2. ASSUME NEW T, tab' = [tab EXCEPT ![t] = T], T.shown = tab[t].shown, T.panel = tab[t].panel,
             UNCHANGED panels, budget'.posts = budget.posts
      PROVE  PanelsStay
  BY <1>2, TabChanges DEF PanelsStay
<1>3. CASE Open(t)
  <2>1. /\ tab' = [tab EXCEPT ![t] = [tab[t] EXCEPT !.page = "room", !.pending = <<JoinMsg>>, !.awaiting = TRUE]]
        /\ UNCHANGED panels
    BY <1>1, <1>3 DEF Open
  <2>2. budget'.posts = budget.posts
    BY <1>3, PostsStay DEF Open
  <2> QED BY <1>1, <1>2, <2>1, <2>2 DEF TabType
<1>4. CASE Connect(t)
  <2>1. PICK n : n = tab[t].connections + 1
    OBVIOUS
  <2>2. /\ tab' = [tab EXCEPT ![t] = [tab[t] EXCEPT !.link = n, !.connections = n, !.once = TRUE, !.pending = <<>>]]
        /\ UNCHANGED panels /\ budget' = budget
    BY <1>1, <1>4, <2>1 DEF Connect
  <2> QED BY <1>1, <1>2, <2>2 DEF TabType
<1>5. CASE Drop(t)
  <2>1. /\ tab' = [tab EXCEPT ![t] = [tab[t] EXCEPT !.link = 0, !.awaiting = TRUE]]
        /\ UNCHANGED panels
    BY <1>1, <1>5 DEF Drop
  <2>2. budget'.posts = budget.posts
    BY <1>5, PostsStay DEF Drop
  <2> QED BY <1>1, <1>2, <2>1, <2>2 DEF TabType
<1>6. CASE ExpireToken(t)
  <2>1. tab' = [tab EXCEPT ![t] = [tab[t] EXCEPT !.valid = FALSE]] /\ UNCHANGED panels
    BY <1>1, <1>6 DEF ExpireToken
  <2>2. budget'.posts = budget.posts
    BY <1>6, PostsStay DEF ExpireToken
  <2> QED BY <1>1, <1>2, <2>1, <2>2 DEF TabType
<1>7. CASE OnOperationBroadcast(t)
  <2>1. PICK c : tab' = [tab EXCEPT ![t] = [tab[t] EXCEPT !.canvas = c]]
    BY <1>1, <1>7 DEF OnOperationBroadcast
  <2> QED BY <1>1, <1>2, <1>7, <2>1 DEF TabType, OnOperationBroadcast, Unmoved
<1>8. CASE OnWarningUpdate(t)
  <2>1. PICK c : tab' = [tab EXCEPT ![t] = [tab[t] EXCEPT !.warnings = c]]
    BY <1>1, <1>8 DEF OnWarningUpdate
  <2> QED BY <1>1, <1>2, <1>8, <2>1 DEF TabType, OnWarningUpdate, Unmoved
<1>9. CASE OnUserJoined(t)
  <2>1. PICK c : tab' = [tab EXCEPT ![t] = [tab[t] EXCEPT !.users = c]]
    BY <1>1, <1>9 DEF OnUserJoined
  <2> QED BY <1>1, <1>2, <1>9, <2>1 DEF TabType, OnUserJoined, Unmoved
<1>10. CASE OnUserLeft(t)
  <2>1. PICK c : \E d : tab' = [tab EXCEPT ![t] = [tab[t] EXCEPT !.users = c, !.cursors = d]]
    BY <1>1, <1>10 DEF OnUserLeft
  <2>2. PICK d : tab' = [tab EXCEPT ![t] = [tab[t] EXCEPT !.users = c, !.cursors = d]]
    BY <2>1
  <2> QED BY <1>1, <1>2, <1>10, <2>2 DEF TabType, OnUserLeft, Unmoved
<1>11. CASE OnCursorBroadcast(t)
  <2>1. PICK c : tab' = [tab EXCEPT ![t] = [tab[t] EXCEPT !.cursors = c]]
    BY <1>1, <1>11 DEF OnCursorBroadcast
  <2> QED BY <1>1, <1>2, <1>11, <2>1 DEF TabType, OnCursorBroadcast, Unmoved
<1>12. CASE OnDenied(t)
  BY <1>12 DEF OnDenied, Unmoved, PanelsStay
<1>13. ASSUME NEW new, new.shown = tab[t].shown, new.panel = tab[t].panel, NEW m, Emit(t, new, m),
              NEW p, new = [tab[t] EXCEPT !.canvas = new.canvas, !.made = new.made],
              UNCHANGED panels, budget'.posts = budget.posts
       PROVE  PanelsStay
  <2>1. CASE tab[t].link # 0
    BY <1>2, <1>13, <2>1 DEF Emit
  <2>2. CASE tab[t].link = 0
    <3>1. PICK T : T = [new EXCEPT !.pending = Append(@, m)]
      OBVIOUS
    <3>2. tab' = [tab EXCEPT ![t] = T]
      BY <1>13, <2>2, <3>1 DEF Emit
    <3>3. T.shown = tab[t].shown /\ T.panel = tab[t].panel
      BY <1>1, <1>13, <3>1 DEF TabType
    <3> QED BY <1>2, <1>13, <3>2, <3>3
  <2> QED BY <2>1, <2>2
<1>14. CASE EditCanvas(t)
  <2>1. PICK new : new = [tab[t] EXCEPT !.canvas = @ \cup {budget.edits}, !.made = @ \cup {budget.edits}]
    OBVIOUS
  <2>2. /\ new.shown = tab[t].shown /\ new.panel = tab[t].panel
        /\ new = [tab[t] EXCEPT !.canvas = new.canvas, !.made = new.made]
    BY <1>1, <2>1 DEF TabType
  <2>3. PICK m : m = Op(budget.edits)
    OBVIOUS
  <2>4. Emit(t, new, m) /\ UNCHANGED panels
    BY <1>14, <2>1, <2>3 DEF EditCanvas
  <2>5. budget'.posts = budget.posts
    BY <1>14, PostsStay DEF EditCanvas
  <2> QED BY <1>13, <2>2, <2>4, <2>5
<1>15. CASE MoveCursor(t)
  <2>1. PICK new, m : new = tab[t] /\ m = [kind |-> "cursor"]
    OBVIOUS
  <2>2. /\ new.shown = tab[t].shown /\ new.panel = tab[t].panel
        /\ new = [tab[t] EXCEPT !.canvas = new.canvas, !.made = new.made]
    BY <1>1, <2>1 DEF TabType
  <2>3. Emit(t, new, m) /\ UNCHANGED panels
    BY <1>15, <2>1 DEF MoveCursor
  <2>4. budget'.posts = budget.posts
    BY <1>15, PostsStay DEF MoveCursor
  <2> QED BY <1>13, <2>2, <2>3, <2>4
<1> QED BY <1>3, <1>4, <1>5, <1>6, <1>7, <1>8, <1>9, <1>10, <1>11, <1>12, <1>14, <1>15

LEMMA StillPanelsStay ==
    ASSUME UNCHANGED <<tab, panels, budget>>
    PROVE  PanelsStay
BY DEF PanelsStay

\* A page that shows what is no item hears the same from then on.
LEMMA ShowsNoNews ==
    ASSUME SessionInv, NEW t \in Tabs, Shows(t), Received(t).kind # "item", NEW u \in Tabs
    PROVE  SameNews(Hears(u), Hears(u)')
PROOF
<1>1. /\ tab[t].link # 0 /\ down[Sid(t)] # <<>> /\ down'[Sid(t)] = Tail(down[Sid(t)])
      /\ Head(down[Sid(t)]).kind # "item" /\ Sid(t) \in Sids
      /\ \A x \in Tabs : tab'[x].link = tab[x].link
  BY DEF Shows, Received
<1>2. CASE u = t
  <2>1. Hears(t) = down[Sid(t)] /\ Hears(t) \in Seq(ServerMsg)
    BY <1>1, HearsTyped
  <2>2. Sid(t)' = Sid(t) /\ Hears(t)' = Tail(down[Sid(t)])
    BY <1>1 DEF Hears, Sid
  <2> QED BY <1>1, <1>2, <2>1, <2>2, NoNewsTaken
<1>3. CASE u # t
  <2>1. tab[u].link # 0 => down'[Sid(u)] = down[Sid(u)]
    <3>1. tab[u].link # 0 => Sid(u) \in Sids /\ Sid(u) # Sid(t)
      BY <1>3, HearsTyped DEF Sid
    <3> QED BY <3>1 DEF Shows
  <2>2. Hears(u)' = Hears(u)
    BY <1>1, <2>1, HearsStays
  <2> QED BY <2>2, SameHears
<1> QED BY <1>2, <1>3

LEMMA ShowsElsewhere ==
    ASSUME SessionInv, NEW t \in Tabs, Shows(t), \A u \in Tabs \ {t} : fetches'[u] = fetches[u]
    PROVE  Elsewhere(t)
PROOF
<1> SUFFICES ASSUME NEW u \in Tabs \ {t}
             PROVE  /\ tab'[u].shown = tab[u].shown /\ tab'[u].panel = tab[u].panel /\ fetches'[u] = fetches[u]
                    /\ Hears(u)' = Hears(u)
                    /\ Attends(u)' => Attends(u)
  BY DEF Elsewhere
<1>1. tab'[u] = tab[u]
  BY DEF Shows
<1>2. Attends(u)' => Attends(u)
  BY ShowsAttends
<1>3. tab[u].link # 0 => Sid(u) \in Sids /\ Sid(u) # Sid(t)
  BY HearsTyped DEF Sid
<1>4. tab[u].link # 0 => down'[Sid(u)] = down[Sid(u)]
  BY <1>3 DEF Shows
<1>5. Hears(u)' = Hears(u)
  BY <1>1, <1>4, HearsStays
<1> QED BY <1>1, <1>2, <1>5

LEMMA AsideElsewhere ==
    ASSUME SessionInv, NEW t \in Tabs, Aside, \A u \in Tabs \ {t} : tab'[u] = tab[u] /\ fetches'[u] = fetches[u]
    PROVE  /\ Elsewhere(t)
           /\ Hears(t)' = Hears(t)
           /\ Attends(t)' => Attends(t)
BY AsideAttends DEF Elsewhere

LEMMA AwayElsewhere ==
    ASSUME SessionInv, NEW t \in Tabs, Quits(t) \/ Drop(t), \A u \in Tabs \ {t} : fetches'[u] = fetches[u]
    PROVE  /\ Elsewhere(t)
           /\ Hears(t)' = <<>>
           /\ ~Attends(t)'
PROOF
<1>1. /\ tab'[t].link = 0 /\ \A u \in Tabs \ {t} : tab'[u] = tab[u]
      /\ \A s \in Sids : Linked(s)' <=> Linked(s) /\ s[1] # t
      /\ \A s \in Sids : s[1] # t => down'[s] = down[s]
  <2>1. CASE Quits(t)
    BY <2>1, QuitsEffect
  <2>2. CASE Drop(t)
    BY <2>2, DropEffect
  <2> QED BY <2>1, <2>2
<1>2. Hears(t)' = <<>>
  BY <1>1 DEF Hears
<1>3. ~Attends(t)'
  BY <1>1 DEF Attends, Settled
<1>4. ASSUME NEW u \in Tabs \ {t}
      PROVE  /\ tab'[u].shown = tab[u].shown /\ tab'[u].panel = tab[u].panel /\ fetches'[u] = fetches[u]
             /\ Hears(u)' = Hears(u)
             /\ Attends(u)' => Attends(u)
  <2>1. tab[u].link # 0 => Sid(u) \in Sids /\ Sid(u)[1] # t
    BY HearsTyped DEF Sid
  <2>2. Hears(u)' = Hears(u)
    BY <1>1, <2>1, HearsStays
  <2> QED BY <1>1, <2>2, OthersAttend
<1> QED BY <1>2, <1>3, <1>4 DEF Elsewhere

LEMMA GatewayPlainly ==
    ASSUME SessionInv, InTime, room = "open", NEW s \in Sids, GatewayNext(s)
    PROVE  Plainly
PROOF
<1>1. PanelsStay
  <2>1. UNCHANGED <<tab, panels, budget>>
    BY DEF GatewayNext, HandleJoinRoom, JoinAccess, JoinExists, JoinWarm, JoinAdd, JoinGet, HandleDisconnect,
           LeaveRemove, LeaveNotify, HandleOperation, HandleCursor, page
  <2> QED BY <2>1, StillPanelsStay
<1>2. tab' = tab
  BY HandleJoinRoomEffect, JoinAccessEffect, JoinExistsEffect, JoinWarmEffect, JoinAddEffect, JoinGetEffect,
     DisconnectEffect, LeaveRemoveEffect, LeaveNotifyEffect, HandleOperationEffect, HandleCursorEffect
     DEF GatewayNext
<1>3. ASSUME ~JoinGet(s),
             down' = down \/ \E S : \E m : Reaches(S, m) /\ m.kind # "item",
             NEW u \in Tabs
      PROVE  SameNews(Hears(u), Hears(u)') /\ (Attends(u)' => Attends(u))
  <2>1. ASSUME NEW x \in Sids, x[1] = u, Settled(x)', ~Has(down'[x], State)
        PROVE  Settled(x) /\ ~Has(down[x], State)
    <3>1. Settled(x)
      BY <1>3, <2>1, GatewaySettled
    <3>2. Has(down[x], State) => Has(down'[x], State)
      BY <1>3, SentHas
    <3> QED BY <2>1, <3>1, <3>2
  <2>2. Attends(u)' => Attends(u)
    BY <2>1, AttendsStays
  <2>3. CASE down' = down
    <3>1. Hears(u)' = Hears(u)
      BY <1>2, <2>3, HearsStays
    <3> QED BY <2>2, <3>1, SameHears
  <2>4. ASSUME NEW S, NEW m, Reaches(S, m), m.kind # "item" PROVE SameNews(Hears(u), Hears(u)')
    BY <1>2, <2>4, HearsSent
  <2> QED BY <1>3, <2>2, <2>3, <2>4
<1>4. ASSUME ~JoinGet(s), down' = down \/ \E S : \E m : Reaches(S, m) /\ m.kind # "item"
      PROVE  Plainly
  BY <1>1, <1>3, <1>4 DEF Plainly
<1>5. ASSUME JoinGet(s) PROVE Plainly
  <2>1. PICK m, n, j \in ServerMsg :
             /\ m.kind = "roomState" /\ n.kind = "warningUpdate" /\ j.kind = "userJoined"
             /\ Append(down[s], m) \in Seq(ServerMsg)
             /\ Linked(s) => down'[s] = Append(Append(down[s], m), n)
             /\ ~Linked(s) => down'[s] = down[s]
             /\ \A x \in Sids \ {s} : Linked(x) /\ x \in inRoom => down'[x] = Append(down[x], j)
             /\ \A x \in Sids \ {s} : ~Linked(x) \/ x \notin inRoom => down'[x] = down[x]
    BY <1>5, JoinGetSends
  <2>2. ASSUME NEW x \in Sids
        PROVE  /\ SameNews(down[x], down'[x])
               /\ Has(down[x], State) => Has(down'[x], State)
    <3>1. down[x] \in Seq(ServerMsg)
      BY QueueTypes
    <3>2. \/ down'[x] = down[x]
          \/ down'[x] = Append(down[x], j)
          \/ x = s /\ down'[x] = Append(Append(down[x], m), n)
      BY <2>1
    <3>3. CASE down'[x] = down[x]
      BY <3>3, SameHears
    <3>4. CASE down'[x] = Append(down[x], j)
      BY <2>1, <3>1, <3>4, NoNewsAppended, GrowsHas
    <3>5. CASE x = s /\ down'[x] = Append(Append(down[x], m), n)
      <4>1. SameNews(down[x], Append(down[x], m)) /\ SameNews(Append(down[x], m), Append(Append(down[x], m), n))
        BY <2>1, <3>1, <3>5, NoNewsAppended
      <4>2. Has(down[x], State) => Has(Append(Append(down[x], m), n), State)
        BY <2>1, <3>1, <3>5, GrowsHas
      <4> QED BY <3>5, <4>1, <4>2, NewsTwice
    <3> QED BY <3>2, <3>3, <3>4, <3>5
  <2>3. ASSUME Linked(s) PROVE Has(down'[s], State)
    <3>1. down[s] \in Seq(ServerMsg)
      BY QueueTypes
    <3>2. Has(Append(down[s], m), State)
      BY <2>1, <3>1, HasAppended DEF State
    <3>3. Has(Append(Append(down[s], m), n), State)
      BY <2>1, <3>2, GrowsHas
    <3> QED BY <2>1, <2>3, <3>3
  <2>4. ASSUME NEW u \in Tabs PROVE SameNews(Hears(u), Hears(u)') /\ (Attends(u)' => Attends(u))
    <3>1. ASSUME NEW x \in Sids, x[1] = u, Settled(x)', ~Has(down'[x], State)
          PROVE  Settled(x) /\ ~Has(down[x], State)
      <4>1. (Settled(x) \/ x = s) /\ Linked(x)
        BY <3>1, GatewaySettled
      <4> QED BY <2>2, <2>3, <3>1, <4>1
    <3>2. Attends(u)' => Attends(u)
      BY <3>1, AttendsStays
    <3>3. CASE tab[u].link = 0
      <4>1. Hears(u)' = Hears(u)
        BY <1>2, <3>3 DEF Hears
      <4> QED BY <3>2, <4>1, SameHears
    <3>4. CASE tab[u].link # 0
      <4>1. Sid(u) \in Sids /\ Hears(u) = down[Sid(u)]
        BY <3>4, HearsTyped
      <4>2. Hears(u)' = down'[Sid(u)]
        BY <1>2, <3>4 DEF Hears, Sid
      <4> QED BY <2>2, <3>2, <4>1, <4>2
    <3> QED BY <3>3, <3>4
  <2> QED BY <1>1, <2>4 DEF Plainly
<1>6. CASE HandleJoinRoom(s) \/ JoinAccess(s) \/ JoinWarm(s) \/ JoinAdd(s)
  <2>1. down' = down
    BY <1>6, HandleJoinRoomEffect, JoinAccessEffect, JoinWarmEffect, JoinAddEffect
  <2> QED BY <1>4, <1>5, <2>1
<1>7. CASE JoinExists(s)
  <2>1. Reaches({s}, Notice(Refusal)) /\ Notice(Refusal).kind = Refusal
    BY <1>7, JoinExistsEffect
  <2>2. Refusal # "item"
    BY DEF Refusal
  <2> QED BY <1>4, <1>5, <2>1, <2>2
<1>8. CASE HandleDisconnect(s) \/ LeaveRemove(s)
  <2>1. down' = down
    BY <1>8, DisconnectEffect, LeaveRemoveEffect
  <2> QED BY <1>4, <1>5, <2>1
<1>9. CASE LeaveNotify(s)
  <2>1. PICK m : m = Presence("userLeft", UserAt(s))
    OBVIOUS
  <2>2. Reaches(inRoom, m)
    BY <1>9, <2>1, LeaveNotifyEffect
  <2>3. m.kind # "item"
    BY <2>1 DEF Presence
  <2> QED BY <1>4, <1>5, <2>2, <2>3
<1>10. CASE HandleOperation(s)
  <2>1. PICK m : m = Op(Head(up[s]).edit)
    OBVIOUS
  <2>2. Reaches(inRoom \ {s}, m)
    BY <1>10, <2>1, HandleOperationEffect
  <2>3. m.kind # "item"
    BY <2>1 DEF Op
  <2> QED BY <1>4, <1>5, <2>2, <2>3
<1>11. CASE HandleCursor(s)
  <2>1. PICK m : m = Cursor(UserAt(s))
    OBVIOUS
  <2>2. Reaches(inRoom \ {s}, m) \/ down' = down
    BY <1>11, <2>1, HandleCursorEffect
  <2>3. m.kind # "item"
    BY <2>1 DEF Cursor
  <2> QED BY <1>4, <1>5, <2>2, <2>3
<1> QED BY <1>5, <1>6, <1>7, <1>8, <1>9, <1>10, <1>11 DEF GatewayNext

\* As long as the room is open, what the server does besides broadcasting items is no news of them.
LEMMA ServerPlainly ==
    ASSUME SessionInv, RunAnalysis \/ ExpireUsers, room = "open"
    PROVE  Plainly
PROOF
<1>1. CASE RunAnalysis
  <2>1. PICK m : m = WarningUpdate(live)
    OBVIOUS
  <2>2. Reaches(inRoom, m) /\ tab' = tab
    BY <1>1, <2>1, RunAnalysisEffect
  <2>3. m.kind # "item"
    BY <2>1 DEF WarningUpdate
  <2>4. PanelsStay
    BY <1>1, StillPanelsStay DEF RunAnalysis
  <2>5. ASSUME NEW u \in Tabs PROVE SameNews(Hears(u), Hears(u)') /\ (Attends(u)' => Attends(u))
    BY <1>1, <2>2, <2>3, HearsSent, ServerAttends DEF Server
  <2> QED BY <2>4, <2>5 DEF Plainly
<1>2. CASE ExpireUsers
  <2>1. UNCHANGED <<tab, down, panels>>
    BY <1>2 DEF ExpireUsers, page
  <2>2. budget'.posts = budget.posts
    BY <1>2, PostsStay DEF ExpireUsers
  <2>3. PanelsStay
    BY <2>1, <2>2 DEF PanelsStay
  <2>5. ASSUME NEW u \in Tabs PROVE SameNews(Hears(u), Hears(u)') /\ (Attends(u)' => Attends(u))
    <3>1. Hears(u)' = Hears(u)
      BY <2>1, HearsStays
    <3>2. Attends(u)' => Attends(u)
      BY <1>2, <2>1, ServerAttends DEF Server
    <3> QED BY <3>1, <3>2, SameHears
  <2> QED BY <2>3, <2>5 DEF Plainly
<1> QED BY <1>1, <1>2

LEMMA ClientPlainly ==
    ASSUME SessionInv, NEW t \in Tabs,
           \/ Open(t) \/ Connect(t) \/ ExpireToken(t)
           \/ OnOperationBroadcast(t) \/ OnWarningUpdate(t) \/ OnUserJoined(t)
           \/ OnUserLeft(t) \/ OnCursorBroadcast(t) \/ OnDenied(t)
           \/ EditCanvas(t) \/ MoveCursor(t)
    PROVE  Plainly
PROOF
<1>1. PanelsStay
  BY ClientPanelsStay
<1> SUFFICES ASSUME NEW u \in Tabs
             PROVE  SameNews(Hears(u), Hears(u)') /\ (Attends(u)' => Attends(u))
  BY <1>1 DEF Plainly
<1>2. CASE ExpireToken(t)
  <2>1. Aside
    BY <1>2, AsideSteps
  <2> QED BY <2>1, AsideAttends, SameHears
<1>3. CASE \/ OnOperationBroadcast(t) \/ OnWarningUpdate(t) \/ OnUserJoined(t)
           \/ OnUserLeft(t) \/ OnCursorBroadcast(t) \/ OnDenied(t)
  <2>1. Shows(t)
    BY <1>3, ShowSteps
  <2>2. Received(t).kind # "item" /\ Received(t).kind # "roomState"
    BY <1>3 DEF OnOperationBroadcast, OnWarningUpdate, OnUserJoined, OnUserLeft, OnCursorBroadcast, OnDenied,
                Receive, Received
  <2> QED BY <2>1, <2>2, ShowsNoNews, ShowsAttends
<1>4. CASE Open(t)
  <2>1. tab'[u].link = tab[u].link /\ down' = down
    BY <1>4, OpenEffect
  <2>2. Hears(u)' = Hears(u)
    BY <2>1, HearsStays
  <2> QED BY <1>4, <2>2, SameHears, OthersAttend
<1>5. CASE EditCanvas(t) \/ MoveCursor(t)
  <2>1. PICK m : Sends(t, m)
    BY <1>5, EditEffect, MoveEffect
  <2>2. tab'[u].link = tab[u].link /\ down' = down
    BY <2>1 DEF Sends
  <2>3. Hears(u)' = Hears(u)
    BY <2>2, HearsStays
  <2> QED BY <1>5, <2>3, SameHears, OthersAttend
<1>6. CASE Connect(t)
  <2>1. PICK x \in Sids :
             /\ x[1] = t /\ x[2] = tab'[t].link
             /\ \A s \in Sids \ {x} : down'[s] = down[s]
             /\ down'[x] = <<>> \/ down'[x] = <<Notice("unauthorized")>>
             /\ tab[t].link = 0
             /\ \A y \in Tabs \ {t} : tab'[y] = tab[y]
    BY <1>6, ConnectEffect
  <2>2. CASE u # t
    <3>1. tab[u].link # 0 => Sid(u) \in Sids /\ Sid(u) # x
      BY <2>1, <2>2, HearsTyped DEF Sid
    <3>2. Hears(u)' = Hears(u)
      BY <2>1, <2>2, <3>1, HearsStays
    <3> QED BY <1>6, <3>2, SameHears, OthersAttend
  <2>3. CASE u = t
    <3>1. Hears(t) = <<>>
      BY <2>1 DEF Hears
    <3>2. x = <<t, tab'[t].link>>
      BY <2>1, SidsFacts
    <3>3. Hears(t)' = <<>> \/ Hears(t)' = <<Notice("unauthorized")>>
      BY <2>1, <3>2 DEF Hears, Sid
    <3>4. SameNews(<<>>, <<Notice("unauthorized")>>)
      <4>1. SameNews(<<Notice("unauthorized")>>, <<>>)
        BY NoNewsLost DEF Notice
      <4> QED BY <4>1 DEF SameNews
    <3> QED BY <1>6, <2>3, <3>1, <3>3, <3>4, SameHears, OthersAttend
  <2> QED BY <2>2, <2>3
<1> QED BY <1>2, <1>3, <1>4, <1>5, <1>6

LEMMA StillPlainly ==
    ASSUME SessionInv, UNCHANGED vars
    PROVE  Plainly
PROOF
<1>1. PanelsStay
  BY StillPanelsStay DEF vars, page
<1>2. Aside
  BY StillAside
<1> QED BY <1>1, <1>2, AsideAttends, SameHears DEF Plainly

\* The steps that have a part in the lists, of t or of the server.
OfLists(t) ==
    \/ Quits(t) /\ budget'.posts = budget.posts
    \/ Drop(t) \/ OnRoomState(t) \/ OnItem(t) \/ OpenPanel(t) \/ ClosePanel(t)
    \/ \E l \in Lists : PostItem(t, l) \/ RemoveItem(t, l)
    \/ \E f \in fetches[t] : OnRows(t, f) \/ ReadRows(t, f)

LEMMA NextPanels ==
    ASSUME SessionInv, InTime, [Next]_vars, room' = "open"
    PROVE  Plainly \/ (\E t \in Tabs : OfLists(t)) \/ \E m \in announce : Announce(m)
PROOF
<1>1. room = "open"
  BY NextOnward DEF Onward
<1>2. CASE UNCHANGED vars
  BY <1>2, StillPlainly
<1>3. ASSUME NEW t \in Tabs, ClientNext(t) PROVE Plainly \/ OfLists(t)
  <2>1. Leave(t) \/ OnLeaveOrder(t) => Quits(t) /\ budget'.posts = budget.posts
    <3>1. Leave(t) => budget'.posts = budget.posts
      BY PostsStay DEF Leave
    <3>2. OnLeaveOrder(t) => budget'.posts = budget.posts
      BY DEF OnLeaveOrder, Unmoved
    <3> QED BY <3>1, <3>2, QuitSteps
  <2> QED BY <1>3, <2>1, ClientPlainly DEF ClientNext, OfLists
<1>4. ASSUME NEW s \in Sids, GatewayNext(s) PROVE Plainly
  BY <1>1, <1>4, GatewayPlainly
<1>5. ASSUME ServerNext PROVE Plainly \/ (\E t \in Tabs : OfLists(t)) \/ \E m \in announce : Announce(m)
  <2>1. ~BroadcastRoomDeleted /\ ~DeleteMembers /\ ~DeleteRow
    BY <1>1 DEF BroadcastRoomDeleted, DeleteMembers, DeleteRow
  <2> QED BY <1>1, <1>5, <2>1, ServerPlainly DEF ServerNext, OfLists
<1> QED BY <1>2, <1>3, <1>4, <1>5 DEF Next

-----------------------------------------------------------------------------
(* What of this a step keeps, for each list of each page.                  *)

LEMMA SoundStays ==
    ASSUME SessionInv, NEW t \in Tabs, NEW l \in Lists, Sound(t, l), SameNews(Hears(t), Hears(t)'),
           tab'[t].shown[l] = tab[t].shown[l], Pending(t, l)' = Pending(t, l),
           lists'[l] = lists[l], announce' = announce, Watched(t, l)' => Watched(t, l)
    PROVE  Sound(t, l)'
PROOF
<1>1. Alone(t, l)'
  BY DEF Sound, Alone
<1>2. ASSUME Watched(t, l)' PROVE Right(t, l)'
  <2>1. Right(t, l)
    BY <1>2 DEF Sound
  <2>2. ASSUME Pending(t, l)' = {} PROVE Agree(Hears(t)', l, tab'[t].shown[l], lists'[l], announce')
    <3>1. Agree(Hears(t), l, tab[t].shown[l], lists[l], announce)
      BY <2>1, <2>2 DEF Right
    <3> QED BY <3>1, AgreeHears
  <2>3. ASSUME NEW f \in Pending(t, l)', f.read PROVE Agree(Hears(t)', l, f.items, lists'[l], announce')
    <3>1. Agree(Hears(t), l, f.items, lists[l], announce)
      BY <2>1, <2>3 DEF Right
    <3> QED BY <3>1, AgreeHears
  <2> QED BY <2>2, <2>3 DEF Right
<1> QED BY <1>1, <1>2 DEF Sound

LEMMA SoundAway ==
    ASSUME NEW t \in Tabs, NEW l \in Lists, Sound(t, l), Pending(t, l)' \subseteq Pending(t, l), ~Watched(t, l)'
    PROVE  Sound(t, l)'
BY DEF Sound, Alone

\* A fetch that is under way, and has read nothing.
LEMMA SoundFetches ==
    ASSUME NEW t \in Tabs, NEW l \in Lists, NEW f, Pending(t, l)' = {f}, ~f.read
    PROVE  Sound(t, l)'
BY DEF Sound, Alone, Right

LEMMA ElsewhereSound ==
    ASSUME SessionInv, NEW t \in Tabs, Elsewhere(t), NEW u \in Tabs \ {t}, NEW l \in Lists, Sound(u, l),
           lists'[l] = lists[l], announce' = announce
    PROVE  Sound(u, l)'
PROOF
<1>1. Pending(u, l)' = Pending(u, l) /\ tab'[u].shown[l] = tab[u].shown[l]
  BY DEF Elsewhere, Pending
<1>2. SameNews(Hears(u), Hears(u)')
  BY SameHears DEF Elsewhere
<1>3. Watched(u, l)' => Watched(u, l)
  BY DEF Elsewhere, Watched
<1> QED BY <1>1, <1>2, <1>3, SoundStays

LEMMA PlainlySound ==
    ASSUME SessionInv, Plainly, NEW t \in Tabs, NEW l \in Lists, Sound(t, l)
    PROVE  Sound(t, l)'
PROOF
<1>1. Pending(t, l)' = Pending(t, l) /\ lists' = lists /\ announce' = announce
  BY DEF Plainly, PanelsStay, panels, Pending
<1>2. tab'[t].shown[l] = tab[t].shown[l] /\ SameNews(Hears(t), Hears(t)')
  BY DEF Plainly, PanelsStay
<1>3. Watched(t, l)' => Watched(t, l)
  BY DEF Watched, Plainly, PanelsStay
<1> QED BY <1>1, <1>2, <1>3, SoundStays

LEMMA PanelsStayed ==
    ASSUME PanelsStay
    PROVE  /\ lists' = lists /\ announce' = announce /\ fetches' = fetches /\ budget'.posts = budget.posts
           /\ \A t \in Tabs : tab'[t].shown = tab[t].shown /\ tab'[t].panel = tab[t].panel
BY DEF PanelsStay, panels

LEMMA DropPanels ==
    ASSUME SessionInv, NEW t \in Tabs, Drop(t)
    PROVE  /\ Elsewhere(t) /\ Hears(t)' = <<>> /\ ~Attends(t)' /\ PanelsStay
           /\ "missed" \notin past' /\ tab[t].panel => SameNews(Hears(t), <<>>)
PROOF
<1>1. PanelsStay
  BY ClientPanelsStay
<1>2. Elsewhere(t) /\ Hears(t)' = <<>> /\ ~Attends(t)'
  BY <1>1, PanelsStayed, AwayElsewhere
<1>3. ASSUME "missed" \notin past', tab[t].panel PROVE SameNews(Hears(t), <<>>)
  <2>1. tab[t].link # 0 /\ ~OnWire(t, "item")
    BY <1>3 DEF Drop
  <2>2. Hears(t) = down[Sid(t)]
    BY <2>1, HearsTyped
  <2> QED BY <2>1, <2>2, NoNewsLost DEF OnWire
<1> QED BY <1>1, <1>2, <1>3

LEMMA DropSound ==
    ASSUME SessionInv, NEW l \in Lists, \A t \in Tabs : Sound(t, l), past' \cap Excuses(l) = {},
           NEW t \in Tabs, Drop(t), NEW u \in Tabs
    PROVE  Sound(u, l)'
PROOF
<1>1. /\ Elsewhere(t) /\ Hears(t)' = <<>> /\ ~Attends(t)'
      /\ lists' = lists /\ announce' = announce /\ fetches' = fetches
      /\ tab'[t].shown = tab[t].shown /\ tab'[t].panel = tab[t].panel
      /\ "missed" \notin past' /\ tab[t].panel => SameNews(Hears(t), <<>>)
  BY DropPanels, PanelsStayed
<1>2. CASE u # t
  BY <1>1, <1>2, ElsewhereSound
<1>3. CASE u = t
  <2>1. Pending(t, l)' = Pending(t, l)
    BY <1>1 DEF Pending
  <2>2. CASE ~Watched(t, l)'
    BY <1>3, <2>1, <2>2, SoundAway
  <2>3. CASE Watched(t, l)'
    <3>1. l = "snapshots" /\ tab[t].panel
      BY <1>1, <2>3 DEF Watched, Lists
    <3>2. "missed" \notin past'
      BY <3>1 DEF Excuses
    <3>3. Watched(t, l)
      BY <3>1 DEF Watched
    <3>4. SameNews(Hears(t), Hears(t)')
      BY <1>1, <3>1, <3>2
    <3> QED BY <1>1, <1>3, <2>1, <3>3, <3>4, SoundStays
  <2> QED BY <2>2, <2>3
<1> QED BY <1>2, <1>3

LEMMA QuitsPanels ==
    ASSUME SessionInv, NEW t \in Tabs, Quits(t)
    PROVE  /\ Elsewhere(t) /\ Hears(t)' = <<>> /\ ~Attends(t)' /\ ~tab'[t].panel
           /\ fetches'[t] = {f \in fetches[t] : f.list # "snapshots"}
           /\ lists' = lists /\ announce' = announce
PROOF
<1>1. /\ fetches'[t] = {f \in fetches[t] : f.list # "snapshots"} /\ \A u \in Tabs \ {t} : fetches'[u] = fetches[u]
      /\ lists' = lists /\ announce' = announce
  BY PanelFacts DEF Quits, Unmount, ForgetPanel
<1>2. Elsewhere(t) /\ Hears(t)' = <<>> /\ ~Attends(t)'
  BY <1>1, AwayElsewhere
<1>3. tab'[t] = Left(t)
  BY PanelFacts DEF Quits, Unmount
<1>4. ~Left(t).panel
  BY DEF Left, Blank
<1> QED BY <1>1, <1>2, <1>3, <1>4

LEMMA QuitsSound ==
    ASSUME SessionInv, NEW l \in Lists, \A t \in Tabs : Sound(t, l), NEW t \in Tabs, Quits(t), NEW u \in Tabs
    PROVE  Sound(u, l)'
PROOF
<1>1. CASE u # t
  BY <1>1, QuitsPanels, ElsewhereSound
<1>2. CASE u = t
  <2>1. Pending(t, l)' \subseteq Pending(t, l)
    BY QuitsPanels DEF Pending
  <2>2. ~Watched(t, l)'
    BY QuitsPanels DEF Watched
  <2> QED BY <1>2, <2>1, <2>2, SoundAway
<1> QED BY <1>1, <1>2

LEMMA OnRoomStatePanels ==
    ASSUME SessionInv, NEW t \in Tabs, OnRoomState(t)
    PROVE  /\ Elsewhere(t) /\ SameNews(Hears(t), Hears(t)')
           /\ tab'[t].shown = tab[t].shown /\ tab'[t].panel = tab[t].panel
           /\ fetches'[t] = fetches[t] \cup {Fetch(t, "comments")}
           /\ Note("two fetches", Fetching(t, "comments"))
           /\ lists' = lists /\ announce' = announce /\ budget' = budget
PROOF
<1>1. Shows(t) /\ Received(t).kind # "item"
  BY ShowSteps DEF OnRoomState, Receive, Received
<1>2. fetches'[t] = fetches[t] \cup {Fetch(t, "comments")} /\ \A u \in Tabs \ {t} : fetches'[u] = fetches[u]
  BY PanelFacts DEF OnRoomState
<1>3. tab'[t].shown = tab[t].shown /\ tab'[t].panel = tab[t].panel
  <2>1. PICK c : \E d : tab' = [tab EXCEPT ![t] = [tab[t] EXCEPT !.canvas = c, !.users = d, !.joined = TRUE,
                                                               !.awaiting = FALSE]]
    BY PanelFacts DEF OnRoomState
  <2>2. PICK d : tab' = [tab EXCEPT ![t] = [tab[t] EXCEPT !.canvas = c, !.users = d, !.joined = TRUE,
                                                        !.awaiting = FALSE]]
    BY <2>1
  <2> QED BY <2>2, PanelFacts, TabChanges DEF TabType
<1> QED BY <1>1, <1>2, <1>3, ShowsElsewhere, ShowsNoNews DEF OnRoomState, Unmoved

LEMMA OnRoomStateSound ==
    ASSUME SessionInv, UsedNow, NEW l \in Lists, \A t \in Tabs : Sound(t, l), past' \cap Excuses(l) = {},
           NEW t \in Tabs, OnRoomState(t), NEW u \in Tabs
    PROVE  Sound(u, l)'
PROOF
<1>1. PICK f : f = Fetch(t, "comments")
  OBVIOUS
<1>2. f.list = "comments" /\ f.read = FALSE /\ f.gone = {}
  BY <1>1 DEF Fetch
<1>3. fetches'[t] = fetches[t] \cup {f} /\ Elsewhere(t) /\ lists' = lists /\ announce' = announce
  BY <1>1, OnRoomStatePanels
<1>4. CASE u # t
  BY <1>3, <1>4, ElsewhereSound
<1>5. CASE u = t /\ l = "comments"
  <2>1. "two fetches" \notin past'
    BY <1>5 DEF Excuses
  <2>2. ~Fetching(t, "comments")
    BY <2>1, OnRoomStatePanels DEF Note
  <2>3. Pending(t, l)' = {f}
    BY <1>2, <1>3, <1>5, <2>2 DEF Pending, Fetching
  <2> QED BY <1>2, <1>5, <2>3, SoundFetches
<1>6. CASE u = t /\ l = "snapshots"
  <2>1. Pending(t, l)' = Pending(t, l)
    BY <1>2, <1>3, <1>6 DEF Pending
  <2>2. Watched(t, l)' => Watched(t, l)
    BY <1>6, OnRoomStatePanels DEF Watched
  <2>3. SameNews(Hears(t), Hears(t)') /\ tab'[t].shown[l] = tab[t].shown[l]
    BY OnRoomStatePanels
  <2> QED BY <1>3, <1>6, <2>1, <2>2, <2>3, SoundStays
<1> QED BY <1>4, <1>5, <1>6 DEF Lists

LEMMA OnItemPanels ==
    ASSUME SessionInv, NEW t \in Tabs, OnItem(t)
    PROVE  /\ Elsewhere(t) /\ Hears(t) \in Seq(ServerMsg) /\ Hears(t) # <<>> /\ Hears(t)' = Tail(Hears(t))
           /\ Received(t) = Head(Hears(t)) /\ Received(t) \in ItemMsgs
           /\ \A l \in Lists : tab'[t].shown[l] =
                 IF l = Received(t).list /\ Listens(t, l) THEN Updated(tab[t].shown[l], Received(t))
                 ELSE tab[t].shown[l]
           /\ tab'[t].panel = tab[t].panel /\ (Attends(t)' => Attends(t))
           /\ Listens(t, Received(t).list) => Note("overtaken reply", Overtakes(t, Received(t)))
           /\ lists' = lists /\ announce' = announce /\ fetches' = fetches /\ budget' = budget
PROOF
<1>1. Shows(t) /\ Received(t).kind = "item"
  BY ShowSteps DEF OnItem, Receive, Received
<1>2. lists' = lists /\ announce' = announce /\ fetches' = fetches /\ budget' = budget
  BY DEF OnItem, panels, Unmoved
<1>3. Elsewhere(t) /\ (Attends(t)' => Attends(t))
  BY <1>1, <1>2, ShowsElsewhere, ShowsAttends
<1>4. tab[t].link # 0 /\ down[Sid(t)] # <<>> /\ down'[Sid(t)] = Tail(down[Sid(t)]) /\ tab'[t].link = tab[t].link
  BY <1>1 DEF Shows
<1>5. Hears(t) = down[Sid(t)] /\ Hears(t) \in Seq(ServerMsg)
  BY <1>4, HearsTyped
<1>6. Hears(t)' = Tail(Hears(t)) /\ Received(t) = Head(Hears(t))
  BY <1>4, <1>5 DEF Hears, Sid, Received
<1>7. PICK m : m = Received(t)
  OBVIOUS
<1>8. m \in ItemMsgs /\ m.list \in Lists
  BY <1>1, <1>7, ServerMsgFields DEF Shows, ItemMsgs
<1>9. /\ \A l \in Lists : tab'[t].shown[l] =
                 IF l = m.list /\ Listens(t, l) THEN Updated(tab[t].shown[l], m) ELSE tab[t].shown[l]
      /\ tab'[t].panel = tab[t].panel
  <2>1. CASE Listens(t, m.list)
    <3>1. tab' = [tab EXCEPT ![t] = [tab[t] EXCEPT !.shown = [tab[t].shown EXCEPT ![m.list] = Updated(@, m)]]]
      BY <1>7, <2>1, PanelFacts DEF OnItem
    <3>2. PICK F : F = [tab[t].shown EXCEPT ![m.list] = Updated(@, m)]
      OBVIOUS
    <3>3. PICK T : T = [tab[t] EXCEPT !.shown = F]
      OBVIOUS
    <3>4. tab'[t] = T
      BY <3>1, <3>2, <3>3, PanelFacts
    <3>5. T.shown = F /\ T.panel = tab[t].panel
      BY <3>3, PanelFacts DEF TabType
    <3>6. \A l \in Lists : F[l] = IF l = m.list THEN Updated(tab[t].shown[l], m) ELSE tab[t].shown[l]
      BY <3>2, <1>8, PanelFacts
    <3> QED BY <2>1, <3>4, <3>5, <3>6
  <2>2. CASE ~Listens(t, m.list)
    <3>1. tab' = tab
      BY <1>7, <2>2 DEF OnItem
    <3> QED BY <2>2, <3>1
  <2> QED BY <2>1, <2>2
<1>10. Listens(t, m.list) => Note("overtaken reply", Overtakes(t, m))
  BY <1>7 DEF OnItem
<1> QED BY <1>2, <1>3, <1>4, <1>5, <1>6, <1>7, <1>8, <1>9, <1>10

LEMMA OnItemSound ==
    ASSUME SessionInv, NEW l \in Lists, \A t \in Tabs : Sound(t, l), past' \cap Excuses(l) = {},
           NEW t \in Tabs, OnItem(t), NEW u \in Tabs
    PROVE  Sound(u, l)'
PROOF
<1>1. CASE u # t
  BY <1>1, OnItemPanels, ElsewhereSound
<1>2. CASE u = t
  <2>1. PICK m : m = Received(t)
    OBVIOUS
  <2>2. /\ Hears(t) \in Seq(ServerMsg) /\ Hears(t) # <<>> /\ m = Head(Hears(t)) /\ Hears(t)' = Tail(Hears(t))
        /\ m.kind = "item" /\ m.gone \in BOOLEAN /\ m.list \in Lists
        /\ lists' = lists /\ announce' = announce /\ fetches' = fetches
        /\ tab'[t].shown[l] =
                 IF l = m.list /\ Listens(t, l) THEN Updated(tab[t].shown[l], m) ELSE tab[t].shown[l]
    BY <2>1, OnItemPanels DEF ItemMsgs
  <2>3. Pending(t, l)' = Pending(t, l)
    BY <2>2 DEF Pending
  <2>4. Alone(t, l)'
    BY <2>3 DEF Sound, Alone
  <2>5. ASSUME Watched(t, l)' PROVE Right(t, l)'
    <3>1. Watched(t, l) /\ Listens(t, l) /\ Right(t, l)
      <4>1. Watched(t, l)
        BY <2>5, OnItemPanels DEF Watched
      <4> QED BY <4>1 DEF Watched, Listens, Sound
    <3>2. ASSUME Pending(t, l) = {} PROVE Agree(Hears(t)', l, tab'[t].shown[l], lists'[l], announce')
      <4>1. Agree(Hears(t), l, tab[t].shown[l], lists[l], announce)
        BY <3>1, <3>2 DEF Right
      <4>2. \A v : v \in tab'[t].shown[l] <=> IF m.list = l /\ m.item = v THEN ~m.gone ELSE v \in tab[t].shown[l]
        BY <2>2, <3>1 DEF Updated
      <4> QED BY <2>2, <4>1, <4>2, AgreeTakes
    <3>3. ASSUME NEW f \in Pending(t, l), f.read PROVE Agree(Hears(t)', l, f.items, lists'[l], announce')
      <4>1. Agree(Hears(t), l, f.items, lists[l], announce)
        BY <3>1, <3>3 DEF Right
      <4>2. m.list = l => (m.item \in f.items <=> ~m.gone)
        <5> SUFFICES ASSUME m.list = l PROVE m.item \in f.items <=> ~m.gone
          OBVIOUS
        <5>1. ~Overtakes(t, m)
          <6>1. Note("overtaken reply", Overtakes(t, m))
            BY <2>1, <3>1, OnItemPanels
          <6>2. "overtaken reply" \notin past'
            BY DEF Excuses
          <6> QED BY <6>1, <6>2 DEF Note
        <5>2. f \in fetches[t] /\ f.list = m.list /\ f.read /\ f.gone = {}
          BY <3>3 DEF Pending
        <5> QED BY <2>2, <5>1, <5>2 DEF Overtakes
      <4>3. \A v : v \in f.items <=> IF m.list = l /\ m.item = v THEN ~m.gone ELSE v \in f.items
        BY <4>2
      <4>4. PICK T : T = f.items
        OBVIOUS
      <4> QED BY <2>2, <4>1, <4>3, <4>4, AgreeTakes
    <3> QED BY <2>3, <3>2, <3>3 DEF Right
  <2> QED BY <1>2, <2>4, <2>5 DEF Sound
<1> QED BY <1>1, <1>2

LEMMA OpenPanelPanels ==
    ASSUME SessionInv, NEW t \in Tabs, OpenPanel(t)
    PROVE  /\ Elsewhere(t) /\ Hears(t)' = Hears(t) /\ (Attends(t)' => Attends(t))
           /\ tab'[t].shown = tab[t].shown /\ ~tab[t].panel /\ tab'[t].panel
           /\ fetches'[t] = fetches[t] \cup {Fetch(t, "snapshots")}
           /\ lists' = lists /\ announce' = announce /\ budget'.posts = budget.posts
PROOF
<1>1. Aside
  BY AsideSteps
<1>2. fetches'[t] = fetches[t] \cup {Fetch(t, "snapshots")} /\ \A u \in Tabs \ {t} : fetches'[u] = fetches[u]
  BY PanelFacts DEF OpenPanel
<1>3. tab' = [tab EXCEPT ![t] = [tab[t] EXCEPT !.panel = TRUE]]
  BY PanelFacts DEF OpenPanel
<1>4. tab'[t].shown = tab[t].shown /\ tab'[t].panel /\ \A u \in Tabs \ {t} : tab'[u] = tab[u]
  BY <1>3, PanelFacts DEF TabType
<1>5. budget'.posts = budget.posts
  BY PostsStay DEF OpenPanel
<1> QED BY <1>1, <1>2, <1>4, <1>5, AsideElsewhere DEF OpenPanel

LEMMA OpenPanelSound ==
    ASSUME SessionInv, UsedNow, NEW l \in Lists, \A t \in Tabs : Sound(t, l), NEW t \in Tabs, OpenPanel(t),
           NEW u \in Tabs
    PROVE  Sound(u, l)'
PROOF
<1>1. PICK f : f = Fetch(t, "snapshots")
  OBVIOUS
<1>2. f.list = "snapshots" /\ f.read = FALSE /\ f.gone = {}
  BY <1>1 DEF Fetch
<1>3. fetches'[t] = fetches[t] \cup {f} /\ Elsewhere(t) /\ lists' = lists /\ announce' = announce
  BY <1>1, OpenPanelPanels
<1>4. CASE u # t
  BY <1>3, <1>4, ElsewhereSound
<1>5. CASE u = t /\ l = "snapshots"
  <2>1. \A g \in fetches[t] : g.list # "snapshots"
    BY OpenPanelPanels DEF UsedNow
  <2>2. Pending(t, l)' = {f}
    BY <1>2, <1>3, <1>5, <2>1 DEF Pending
  <2> QED BY <1>2, <1>5, <2>2, SoundFetches
<1>6. CASE u = t /\ l = "comments"
  <2>1. Pending(t, l)' = Pending(t, l)
    BY <1>2, <1>3, <1>6 DEF Pending
  <2>2. Watched(t, l)' => Watched(t, l)
    BY <1>6, OpenPanelPanels DEF Watched
  <2>3. SameNews(Hears(t), Hears(t)') /\ tab'[t].shown[l] = tab[t].shown[l]
    BY OpenPanelPanels, SameHears
  <2> QED BY <1>3, <1>6, <2>1, <2>2, <2>3, SoundStays
<1> QED BY <1>4, <1>5, <1>6 DEF Lists

LEMMA ClosePanelPanels ==
    ASSUME SessionInv, NEW t \in Tabs, ClosePanel(t)
    PROVE  /\ Elsewhere(t) /\ Hears(t)' = Hears(t) /\ (Attends(t)' => Attends(t))
           /\ tab'[t].shown["comments"] = tab[t].shown["comments"] /\ ~tab'[t].panel
           /\ fetches'[t] = {f \in fetches[t] : f.list # "snapshots"}
           /\ lists' = lists /\ announce' = announce /\ budget' = budget
PROOF
<1>1. Aside
  BY AsideSteps
<1>2. /\ fetches'[t] = {f \in fetches[t] : f.list # "snapshots"} /\ \A u \in Tabs \ {t} : fetches'[u] = fetches[u]
  BY PanelFacts DEF ClosePanel, ForgetPanel
<1>3. PICK F : F = [tab[t].shown EXCEPT !["snapshots"] = {}]
  OBVIOUS
<1>4. tab' = [tab EXCEPT ![t] = [tab[t] EXCEPT !.panel = FALSE, !.shown = F]]
  BY <1>3, PanelFacts DEF ClosePanel
<1>5. tab'[t].shown = F /\ ~tab'[t].panel /\ \A u \in Tabs \ {t} : tab'[u] = tab[u]
  BY <1>4, PanelFacts DEF TabType
<1>6. F["comments"] = tab[t].shown["comments"]
  BY <1>3, PanelFacts DEF Lists
<1> QED BY <1>1, <1>2, <1>5, <1>6, AsideElsewhere DEF ClosePanel, Unmoved

LEMMA ClosePanelSound ==
    ASSUME SessionInv, NEW l \in Lists, \A t \in Tabs : Sound(t, l), NEW t \in Tabs, ClosePanel(t), NEW u \in Tabs
    PROVE  Sound(u, l)'
PROOF
<1>1. CASE u # t
  BY <1>1, ClosePanelPanels, ElsewhereSound
<1>2. CASE u = t /\ l = "snapshots"
  <2>1. Pending(t, l)' \subseteq Pending(t, l)
    BY ClosePanelPanels DEF Pending
  <2>2. ~Watched(t, l)'
    BY <1>2, ClosePanelPanels DEF Watched
  <2> QED BY <1>2, <2>1, <2>2, SoundAway
<1>3. CASE u = t /\ l = "comments"
  <2>1. Pending(t, l)' = Pending(t, l)
    BY <1>3, ClosePanelPanels DEF Pending
  <2>2. Watched(t, l)' => Watched(t, l)
    BY <1>3, ClosePanelPanels DEF Watched
  <2>3. SameNews(Hears(t), Hears(t)') /\ tab'[t].shown[l] = tab[t].shown[l]
    BY <1>3, ClosePanelPanels, SameHears
  <2>4. lists'[l] = lists[l] /\ announce' = announce
    BY ClosePanelPanels
  <2> QED BY <1>3, <2>1, <2>2, <2>3, <2>4, SoundStays
<1> QED BY <1>1, <1>2, <1>3 DEF Lists

\* The rows of a list are read, as long as the room is open.
LEMMA ReadRowsPanels ==
    ASSUME SessionInv, room = "open", NEW t \in Tabs, NEW f \in fetches[t], ReadRows(t, f)
    PROVE  /\ Elsewhere(t) /\ Hears(t)' = Hears(t) /\ (Attends(t)' => Attends(t)) /\ tab' = tab
           /\ f.list \in Lists /\ ~f.read
           /\ \E g : /\ fetches'[t] = (fetches[t] \ {f}) \cup {g}
                     /\ g.list = f.list /\ g.gone = f.gone /\ g.read /\ g.items = lists[f.list]
           /\ lists' = lists /\ announce' = announce /\ budget' = budget
PROOF
<1>1. Aside
  BY AsideSteps
<1>2. PICK g : g = [f EXCEPT !.read = TRUE, !.items = lists[f.list]]
  OBVIOUS
<1>3. f \in FetchType /\ f.list \in Lists
  BY PanelFacts
<1>4. g.list = f.list /\ g.gone = f.gone /\ g.read /\ g.items = lists[f.list]
  BY <1>2, <1>3 DEF FetchType
<1>5. fetches'[t] = (fetches[t] \ {f}) \cup {g} /\ \A u \in Tabs \ {t} : fetches'[u] = fetches[u]
  BY <1>2, PanelFacts DEF ReadRows
<1>6. tab' = tab /\ ~f.read /\ lists' = lists /\ announce' = announce /\ budget' = budget
  BY DEF ReadRows, page, Unmoved
<1> QED BY <1>1, <1>3, <1>4, <1>5, <1>6, AsideElsewhere

LEMMA ReadRowsSound ==
    ASSUME SessionInv, UsedNow, RowsNow, room = "open", NEW l \in Lists, \A t \in Tabs : Sound(t, l),
           NEW t \in Tabs, NEW f \in fetches[t], ReadRows(t, f), NEW u \in Tabs
    PROVE  Sound(u, l)'
PROOF
<1>1. PICK g : /\ fetches'[t] = (fetches[t] \ {f}) \cup {g}
               /\ g.list = f.list /\ g.gone = f.gone /\ g.read /\ g.items = lists[f.list]
  BY ReadRowsPanels
<1>2. CASE u # t
  BY <1>2, ReadRowsPanels, ElsewhereSound
<1>3. CASE u = t /\ l # f.list
  <2>1. Pending(t, l)' = Pending(t, l)
    BY <1>1, <1>3 DEF Pending
  <2>2. Watched(t, l)' => Watched(t, l)
    BY ReadRowsPanels DEF Watched
  <2>3. SameNews(Hears(t), Hears(t)') /\ tab'[t].shown[l] = tab[t].shown[l] /\ lists'[l] = lists[l] /\ announce' = announce
    BY ReadRowsPanels, SameHears
  <2> QED BY <1>3, <2>1, <2>2, <2>3, SoundStays
<1>4. CASE u = t /\ l = f.list
  <2>1. f \in Pending(t, l)
    BY <1>4, ReadRowsPanels DEF UsedNow, Pending
  <2>2. \A h \in Pending(t, l) : h = f
    BY <2>1 DEF Sound, Alone
  <2>3. Pending(t, l)' = {g}
    BY <1>1, <1>4, <2>1, <2>2 DEF Pending
  <2>4. Agree(Hears(t), l, lists[l], lists[l], announce)
    BY DEF RowsNow
  <2>5. Agree(Hears(t)', l, g.items, lists'[l], announce')
    BY <1>1, <1>4, <2>4, ReadRowsPanels
  <2> QED BY <1>4, <2>3, <2>5 DEF Sound, Alone, Right
<1> QED BY <1>2, <1>3, <1>4

\* A reply replaces the list, or drops from it what is gone.
LEMMA OnRowsPanels ==
    ASSUME SessionInv, NEW t \in Tabs, NEW f \in fetches[t], OnRows(t, f)
    PROVE  /\ Elsewhere(t) /\ Hears(t)' = Hears(t) /\ (Attends(t)' => Attends(t))
           /\ tab'[t].panel = tab[t].panel /\ f.list \in Lists /\ f.read
           /\ tab'[t].shown[f.list] = IF f.gone # {} THEN tab[t].shown[f.list] \ f.gone ELSE f.items
           /\ \A l \in Lists \ {f.list} : tab'[t].shown[l] = tab[t].shown[l]
           /\ fetches'[t] = fetches[t] \ {f}
           /\ lists' = lists /\ announce' = announce /\ budget' = budget
PROOF
<1>1. Aside
  BY AsideSteps
<1>2. f \in FetchType /\ f.list \in Lists
  BY PanelFacts
<1>3. fetches'[t] = fetches[t] \ {f} /\ \A u \in Tabs \ {t} : fetches'[u] = fetches[u]
  BY PanelFacts DEF OnRows
<1>4. PICK F : F = [tab[t].shown EXCEPT ![f.list] = IF f.gone # {} THEN @ \ f.gone ELSE f.items]
  OBVIOUS
<1>5. tab' = [tab EXCEPT ![t] = [tab[t] EXCEPT !.shown = F]]
  BY <1>4, PanelFacts DEF OnRows
<1>6. tab'[t].shown = F /\ tab'[t].panel = tab[t].panel /\ \A u \in Tabs \ {t} : tab'[u] = tab[u]
  BY <1>5, PanelFacts DEF TabType
<1>7. /\ F[f.list] = IF f.gone # {} THEN tab[t].shown[f.list] \ f.gone ELSE f.items
      /\ \A l \in Lists \ {f.list} : F[l] = tab[t].shown[l]
  BY <1>2, <1>4, PanelFacts
<1>8. f.read /\ lists' = lists /\ announce' = announce /\ budget' = budget
  BY DEF OnRows, Unmoved
<1> QED BY <1>1, <1>2, <1>3, <1>6, <1>7, <1>8, AsideElsewhere

LEMMA OnRowsSound ==
    ASSUME SessionInv, RowsNow, NEW l \in Lists, \A t \in Tabs : Sound(t, l),
           NEW t \in Tabs, NEW f \in fetches[t], OnRows(t, f), NEW u \in Tabs
    PROVE  Sound(u, l)'
PROOF
<1>1. /\ Elsewhere(t) /\ Hears(t)' = Hears(t) /\ f.list \in Lists /\ f.read
      /\ fetches'[t] = fetches[t] \ {f} /\ lists' = lists /\ announce' = announce
      /\ tab'[t].shown[f.list] = IF f.gone # {} THEN tab[t].shown[f.list] \ f.gone ELSE f.items
      /\ \A k \in Lists \ {f.list} : tab'[t].shown[k] = tab[t].shown[k]
  BY OnRowsPanels
<1>2. Watched(t, l)' => Watched(t, l)
  BY OnRowsPanels DEF Watched
<1>3. CASE u # t
  BY <1>1, <1>3, ElsewhereSound
<1>4. CASE u = t /\ l # f.list
  <2>1. Pending(t, l)' = Pending(t, l)
    BY <1>1, <1>4 DEF Pending
  <2>2. SameNews(Hears(t), Hears(t)') /\ tab'[t].shown[l] = tab[t].shown[l]
    BY <1>1, <1>4, SameHears
  <2> QED BY <1>1, <1>2, <1>4, <2>1, <2>2, SoundStays
<1>5. CASE u = t /\ l = f.list /\ f.gone = {}
  <2>1. f \in Pending(t, l)
    BY <1>5 DEF Pending
  <2>2. Pending(t, l)' = {}
    BY <1>1, <1>5, <2>1 DEF Sound, Alone, Pending
  <2>3. ASSUME Watched(t, l)' PROVE Agree(Hears(t)', l, tab'[t].shown[l], lists'[l], announce')
    <3>1. Agree(Hears(t), l, f.items, lists[l], announce)
      BY <1>1, <1>2, <2>1, <2>3 DEF Sound, Right
    <3> QED BY <1>1, <1>5, <3>1
  <2> QED BY <1>5, <2>2, <2>3 DEF Sound, Alone, Right
<1>6. CASE u = t /\ l = f.list /\ f.gone # {}
  <2>1. Pending(t, l)' = Pending(t, l)
    BY <1>1, <1>6 DEF Pending
  <2>2. Alone(t, l)'
    BY <2>1 DEF Sound, Alone
  <2>3. ASSUME Watched(t, l)' PROVE Right(t, l)'
    <3>1. Right(t, l)
      BY <1>2, <2>3 DEF Sound
    <3>2. ASSUME Pending(t, l) = {} PROVE Agree(Hears(t)', l, tab'[t].shown[l], lists'[l], announce')
      <4>1. Agree(Hears(t), l, tab[t].shown[l], lists[l], announce)
        BY <3>1, <3>2 DEF Right
      <4>2. f.gone \cap lists[l] = {}
        BY <1>6 DEF RowsNow
      <4>3. Agree(Hears(t), l, tab[t].shown[l] \ f.gone, lists[l], announce)
        BY <4>1, <4>2, AgreeForgets
      <4> QED BY <1>1, <1>6, <4>3
    <3>3. ASSUME NEW h \in Pending(t, l), h.read PROVE Agree(Hears(t)', l, h.items, lists'[l], announce')
      BY <1>1, <3>1, <3>3 DEF Right
    <3> QED BY <2>1, <3>2, <3>3 DEF Right
  <2> QED BY <1>6, <2>2, <2>3 DEF Sound
<1> QED BY <1>3, <1>4, <1>5, <1>6

\* A row is written, or deleted, and will be announced.
Writes(m) ==
    /\ m \in ItemMsgs /\ announce' = announce \cup {m}
    /\ \A l \in Lists : \A v : ~(l = m.list /\ v = m.item) => (v \in lists'[l] <=> v \in lists[l])
    /\ m.item \in lists'[m.list] <=> ~m.gone
    /\ fetches' = fetches /\ tab' = tab
    /\ \A u \in Tabs : Hears(u)' = Hears(u) /\ (Attends(u)' => Attends(u))

LEMMA PostWrites ==
    ASSUME SessionInv, NEW t \in Tabs, NEW l \in Lists, PostItem(t, l)
    PROVE  \E m : /\ Writes(m) /\ ~m.gone /\ m.item[1] = budget.posts
                  /\ budget.posts \in Nat /\ budget'.posts = budget.posts - 1
PROOF
<1>1. PICK item : item = <<budget.posts, UserOf[t]>>
  OBVIOUS
<1>2. PICK m : m = ItemMsg(l, item, FALSE, t)
  OBVIOUS
<1>3. budget.posts \in Nat /\ budget'.posts = budget.posts - 1
  BY DEF SessionInv, BudgetTyped, Events, PostItem, Spend
<1>4. m.list = l /\ m.item = item /\ m.gone = FALSE /\ m \in ItemMsgs
  BY <1>1, <1>2, <1>3, TabsAssumption DEF ItemMsg, ItemMsgs, Item
<1>5. lists' = [lists EXCEPT ![l] = @ \cup {item}] /\ announce' = announce \cup {m} /\ UNCHANGED <<tab, fetches>>
  BY <1>1, <1>2 DEF PostItem, page
<1>6. \A u \in Tabs : Hears(u)' = Hears(u) /\ (Attends(u)' => Attends(u))
  BY AsideSteps, AsideAttends
<1>7. lists'[l] = lists[l] \cup {item} /\ \A k \in Lists \ {l} : lists'[k] = lists[k]
  BY <1>5, PanelFacts
<1> QED BY <1>1, <1>3, <1>4, <1>5, <1>6, <1>7 DEF Writes

LEMMA RemoveWrites ==
    ASSUME SessionInv, NEW t \in Tabs, NEW l \in Lists, RemoveItem(t, l)
    PROVE  \E m : /\ Writes(m) /\ m.gone /\ m.item \in lists[m.list] /\ \A n \in announce : n.item # m.item
                  /\ \A k \in Lists : lists'[k] \subseteq lists[k]
                  /\ budget'.posts = budget.posts
PROOF
<1>1. PICK item \in tab[t].shown[l] \cap lists[l] :
          /\ \A m \in announce : m.item # item
          /\ lists' = [lists EXCEPT ![l] = @ \ {item}]
          /\ announce' = announce \cup {ItemMsg(l, item, TRUE, t)}
  BY DEF RemoveItem
<1>2. PICK m : m = ItemMsg(l, item, TRUE, t)
  OBVIOUS
<1>3. budget'.posts = budget.posts
  BY PostsStay DEF RemoveItem
<1>4. item \in Item
  BY PanelFacts
<1>5. m.list = l /\ m.item = item /\ m.gone = TRUE /\ m \in ItemMsgs
  BY <1>2, <1>4 DEF ItemMsg, ItemMsgs
<1>6. announce' = announce \cup {m} /\ UNCHANGED <<tab, fetches>>
  BY <1>1, <1>2 DEF RemoveItem, page
<1>7. \A u \in Tabs : Hears(u)' = Hears(u) /\ (Attends(u)' => Attends(u))
  BY AsideSteps, AsideAttends
<1>8. lists'[l] = lists[l] \ {item} /\ \A k \in Lists \ {l} : lists'[k] = lists[k]
  BY <1>1, PanelFacts
<1> QED BY <1>1, <1>3, <1>5, <1>6, <1>7, <1>8 DEF Writes

LEMMA WrittenAgree ==
    ASSUME NEW m, Writes(m), NEW q, NEW l \in Lists, NEW S, Agree(q, l, S, lists[l], announce)
    PROVE  Agree(q, l, S, lists'[l], announce')
PROOF
<1>1. \A v : ~Coming(announce', l, v) =>
          ~Coming(announce, l, v) /\ (v \in lists'[l] <=> v \in lists[l]) /\ (v \in S <=> v \in S)
  BY DEF Writes, Coming
<1> QED BY <1>1, AgreeWrites

LEMMA WritesSound ==
    ASSUME SessionInv, NEW m, Writes(m), NEW u \in Tabs, NEW l \in Lists, Sound(u, l)
    PROVE  Sound(u, l)'
PROOF
<1>1. Pending(u, l)' = Pending(u, l) /\ Hears(u)' = Hears(u) /\ tab' = tab
  BY DEF Writes, Pending
<1>2. Watched(u, l)' => Watched(u, l)
  BY DEF Watched, Writes
<1>3. Alone(u, l)'
  BY <1>1 DEF Sound, Alone
<1>4. ASSUME Right(u, l) PROVE Right(u, l)'
  <2>1. ASSUME Pending(u, l) = {} PROVE Agree(Hears(u), l, tab[u].shown[l], lists'[l], announce')
    BY <1>4, <2>1, WrittenAgree DEF Right
  <2>2. ASSUME NEW f \in Pending(u, l), f.read PROVE Agree(Hears(u), l, f.items, lists'[l], announce')
    BY <1>4, <2>2, WrittenAgree DEF Right
  <2> QED BY <1>1, <2>1, <2>2 DEF Right
<1> QED BY <1>2, <1>3, <1>4 DEF Sound

\* An announcement reaches those in the room, and is missed by the others.
LEMMA AnnouncePanels ==
    ASSUME SessionInv, NEW m \in announce, Announce(m)
    PROVE  /\ m \in ServerMsg /\ m.kind = "item" /\ m.list \in Lists /\ m.gone \in BOOLEAN
           /\ announce' = announce \ {m} /\ lists' = lists /\ tab' = tab /\ budget' = budget
           /\ \A u \in Tabs : Attends(u)' => Attends(u)
           /\ \A u \in Tabs : CutOff(u) => Hears(u)' = Hears(u) /\ ~Attends(u)
           /\ \A u \in Tabs : ~CutOff(u) => Hears(u)' = Append(Hears(u), m)
           /\ Note("missed", \E u \in Tabs : tab[u].panel /\ CutOff(u))
           /\ \A u \in Tabs : fetches'[u] = fetches[u] \/
                 \E f : /\ fetches'[u] = fetches[u] \cup {f} /\ f.list = "snapshots" /\ f.read /\ f.gone = {m.item}
                        /\ m.gone /\ m.list = "snapshots" /\ tab[u].panel
PROOF
<1>1. /\ m \in ServerMsg /\ m.kind = "item" /\ m.list \in Lists /\ m.gone \in BOOLEAN /\ m.by \in Tabs
      /\ Reaches(inRoom, m) /\ tab' = tab
  BY AnnouncedFacts, AnnounceEffect
<1>2. ASSUME NEW u \in Tabs, Attends(u)' PROVE Attends(u)
  BY <1>1, <1>2, ServerAttends DEF Server
<1>3. ASSUME NEW u \in Tabs, CutOff(u) PROVE Hears(u)' = Hears(u) /\ ~Attends(u)
  <2>1. Hears(u)' = Hears(u)
    <3>1. tab[u].link # 0 => Sid(u) \in Sids /\ Sid(u) \notin inRoom
      BY <1>3, HearsTyped DEF CutOff
    <3>2. tab[u].link # 0 => down'[Sid(u)] = down[Sid(u)]
      BY <1>1, <3>1 DEF Reaches
    <3> QED BY <1>1, <3>2, HearsStays
  <2>2. ASSUME NEW s \in Sids, s[1] = u, Settled(s) PROVE FALSE
    <3>1. Linked(s) /\ s \in inRoom
      BY <2>2 DEF Settled
    <3>2. s = Sid(u) /\ tab[u].link # 0
      BY <2>2, <3>1, LinkedFacts
    <3> QED BY <1>3, <3>1, <3>2 DEF CutOff
  <2> QED BY <2>1, <2>2 DEF Attends
<1>4. ASSUME NEW u \in Tabs, ~CutOff(u) PROVE Hears(u)' = Append(Hears(u), m)
  <2>1. tab[u].link # 0 /\ Sid(u) \in inRoom
    BY <1>4 DEF CutOff
  <2>2. Sid(u) \in Sids /\ Linked(Sid(u)) /\ Hears(u) = down[Sid(u)]
    BY <2>1, HearsTyped
  <2>3. Hears(u)' = down'[Sid(u)]
    BY <1>1, <2>1 DEF Hears, Sid
  <2> QED BY <1>1, <2>1, <2>2, <2>3 DEF Reaches
<1>5. ASSUME NEW u \in Tabs
      PROVE  fetches'[u] = fetches[u] \/
                 \E f : /\ fetches'[u] = fetches[u] \cup {f} /\ f.list = "snapshots" /\ f.read /\ f.gone = {m.item}
                        /\ m.gone /\ m.list = "snapshots" /\ tab[u].panel
  <2>1. CASE m.gone /\ m.list = "snapshots" /\ tab[m.by].panel
    <3>1. PICK f : f = Deleted(m)
      OBVIOUS
    <3>2. f.list = m.list /\ f.read /\ f.gone = {m.item}
      BY <3>1 DEF Deleted
    <3>3. fetches' = [fetches EXCEPT ![m.by] = @ \cup {f}]
      BY <2>1, <3>1 DEF Announce
    <3>4. fetches'[m.by] = fetches[m.by] \cup {f} /\ (u # m.by => fetches'[u] = fetches[u])
      BY <1>1, <3>3, PanelFacts
    <3> QED BY <2>1, <3>2, <3>4
  <2>2. CASE ~(m.gone /\ m.list = "snapshots" /\ tab[m.by].panel)
    BY <2>2 DEF Announce
  <2> QED BY <2>1, <2>2
<1>6. announce' = announce \ {m} /\ lists' = lists /\ budget' = budget
  BY DEF Announce, Unmoved
<1>7. Note("missed", \E u \in Tabs : tab[u].panel /\ CutOff(u))
  BY DEF Announce
<1> QED BY <1>1, <1>2, <1>3, <1>4, <1>5, <1>6, <1>7

LEMMA AnnouncedAgree ==
    ASSUME SessionInv, RowsNow, NEW m \in announce, Announce(m), NEW u \in Tabs, ~CutOff(u), NEW l \in Lists, NEW S,
           Agree(Hears(u), l, S, lists[l], announce)
    PROVE  Agree(Hears(u)', l, S, lists'[l], announce')
PROOF
<1>1. m \in ServerMsg /\ m.kind = "item" /\ Hears(u)' = Append(Hears(u), m) /\ announce' = announce \ {m} /\ lists' = lists
  BY AnnouncePanels
<1>2. Hears(u) \in Seq(ServerMsg)
  BY HearsTyped
<1>3. m.list = l => (m.item \in lists[l] <=> ~m.gone)
  BY DEF RowsNow
<1>4. Agree(Append(Hears(u), m), l, S, lists[l], announce \ {m})
  BY <1>1, <1>2, <1>3, AgreeAnnounced
<1> QED BY <1>1, <1>4

LEMMA AnnounceSound ==
    ASSUME SessionInv, RowsNow, NEW l \in Lists, \A t \in Tabs : Sound(t, l), past' \cap Excuses(l) = {},
           NEW m \in announce, Announce(m), NEW u \in Tabs
    PROVE  Sound(u, l)'
PROOF
<1>1. Pending(u, l)' = Pending(u, l)
  <2>1. CASE fetches'[u] = fetches[u]
    BY <2>1 DEF Pending
  <2>2. CASE fetches'[u] # fetches[u]
    <3>1. fetches'[u] = fetches[u] \/
             \E f : /\ fetches'[u] = fetches[u] \cup {f} /\ f.list = "snapshots" /\ f.read /\ f.gone = {m.item}
                    /\ m.gone /\ m.list = "snapshots" /\ tab[u].panel
      BY AnnouncePanels
    <3>2. PICK f : fetches'[u] = fetches[u] \cup {f} /\ f.gone = {m.item}
      BY <2>2, <3>1
    <3> QED BY <3>2 DEF Pending
  <2> QED BY <2>1, <2>2
<1>2. Alone(u, l)'
  BY <1>1 DEF Sound, Alone
<1>3. ASSUME Watched(u, l)' PROVE Right(u, l)'
  <2>1. tab' = tab /\ (Attends(u)' => Attends(u))
    BY AnnouncePanels
  <2>2. Watched(u, l) /\ Right(u, l)
    BY <1>3, <2>1 DEF Watched, Sound
  <2>3. ~CutOff(u)
    <3>1. CASE l = "comments"
      BY <2>2, <3>1, AnnouncePanels DEF Watched
    <3>2. CASE l # "comments"
      <4>1. tab[u].panel /\ "missed" \notin past'
        BY <2>2, <3>2 DEF Watched, Excuses
      <4> QED BY <4>1, AnnouncePanels DEF Note
    <3> QED BY <3>1, <3>2
  <2>4. ASSUME Pending(u, l) = {} PROVE Agree(Hears(u)', l, tab[u].shown[l], lists'[l], announce')
    BY <2>2, <2>3, <2>4, AnnouncedAgree DEF Right
  <2>5. ASSUME NEW f \in Pending(u, l), f.read PROVE Agree(Hears(u)', l, f.items, lists'[l], announce')
    BY <2>2, <2>3, <2>5, AnnouncedAgree DEF Right
  <2> QED BY <1>1, <2>1, <2>4, <2>5 DEF Right
<1> QED BY <1>2, <1>3 DEF Sound

-----------------------------------------------------------------------------
(* The rows, and what is on its way about them.                            *)

\* What is used stays so, and what the fetches and the panels need of it.
LEMMA ElsewhereUsed ==
    ASSUME UsedNow, NEW t \in Tabs, Elsewhere(t), lists' = lists, announce' = announce, budget'.posts = budget.posts,
           \A f \in fetches'[t] : /\ \A v \in f.gone : Used(v)
                                  /\ f.gone # {} => f.read /\ f.list = "snapshots"
                                  /\ f.list = "snapshots" => tab'[t].panel
    PROVE  UsedNow'
BY DEF UsedNow, Used, Elsewhere

LEMMA ElsewhereRows ==
    ASSUME RowsNow, NEW t \in Tabs, Elsewhere(t), lists' = lists, announce' = announce,
           \A f \in fetches'[t] : f.gone \cap lists[f.list] = {},
           \A l \in Lists : Agree(Hears(t)', l, lists[l], lists[l], announce)
    PROVE  RowsNow'
BY DEF RowsNow, Elsewhere

\* Fewer fetches, and what the page hears is the same or nothing.
LEMMA LessItems ==
    ASSUME SessionInv, UsedNow, RowsNow, NEW t \in Tabs, Elsewhere(t), lists' = lists, announce' = announce,
           budget'.posts = budget.posts, fetches'[t] \subseteq fetches[t],
           \A f \in fetches'[t] : f.list = "snapshots" => tab'[t].panel,
           SameNews(Hears(t), Hears(t)') \/ Hears(t)' = <<>>
    PROVE  UsedNow' /\ RowsNow'
PROOF
<1>1. UsedNow'
  <2>1. \A f \in fetches'[t] : /\ \A v \in f.gone : Used(v)
                               /\ f.gone # {} => f.read /\ f.list = "snapshots"
    BY DEF UsedNow
  <2> QED BY <2>1, ElsewhereUsed
<1>2. \A f \in fetches'[t] : f.gone \cap lists[f.list] = {}
  BY DEF RowsNow
<1>3. ASSUME NEW l \in Lists PROVE Agree(Hears(t)', l, lists[l], lists[l], announce)
  <2>1. CASE SameNews(Hears(t), Hears(t)')
    <3>1. Agree(Hears(t), l, lists[l], lists[l], announce)
      BY DEF RowsNow
    <3> QED BY <2>1, <3>1, AgreeHears
  <2>2. CASE Hears(t)' = <<>>
    <3>1. Agree(<<>>, l, lists[l], lists[l], announce)
      BY AgreeDeaf
    <3> QED BY <2>2, <3>1
  <2> QED BY <2>1, <2>2
<1> QED BY <1>1, <1>2, <1>3, ElsewhereRows

LEMMA PlainlyItems ==
    ASSUME SessionInv, UsedNow, RowsNow, Plainly
    PROVE  UsedNow' /\ RowsNow'
PROOF
<1>1. /\ lists' = lists /\ announce' = announce /\ fetches' = fetches /\ budget'.posts = budget.posts
      /\ \A t \in Tabs : tab'[t].panel = tab[t].panel /\ SameNews(Hears(t), Hears(t)')
  BY PanelsStayed DEF Plainly
<1>2. UsedNow'
  BY <1>1 DEF UsedNow, Used
<1>3. ASSUME NEW t \in Tabs, NEW l \in Lists PROVE Agree(Hears(t)', l, lists[l], lists[l], announce)
  <2>1. Agree(Hears(t), l, lists[l], lists[l], announce)
    BY DEF RowsNow
  <2> QED BY <1>1, <2>1, AgreeHears
<1> QED BY <1>1, <1>2, <1>3 DEF RowsNow

\* A fetch that has read nothing yet.
LEMMA FetchItems ==
    ASSUME SessionInv, UsedNow, RowsNow, NEW t \in Tabs, Elsewhere(t), lists' = lists, announce' = announce,
           budget'.posts = budget.posts, tab[t].panel => tab'[t].panel, SameNews(Hears(t), Hears(t)'),
           NEW X, NEW f, fetches'[t] = (fetches[t] \ X) \cup {f}, f.gone = {},
           f.list = "snapshots" => tab'[t].panel
    PROVE  UsedNow' /\ RowsNow'
PROOF
<1>1. \A g \in fetches'[t] : /\ \A v \in g.gone : Used(v)
                             /\ g.gone # {} => g.read /\ g.list = "snapshots"
                             /\ g.list = "snapshots" => tab'[t].panel
  BY DEF UsedNow
<1>2. \A g \in fetches'[t] : g.gone \cap lists[g.list] = {}
  BY DEF RowsNow
<1>3. ASSUME NEW l \in Lists PROVE Agree(Hears(t)', l, lists[l], lists[l], announce)
  <2>1. Agree(Hears(t), l, lists[l], lists[l], announce)
    BY DEF RowsNow
  <2> QED BY <2>1, AgreeHears
<1> QED BY <1>1, <1>2, <1>3, ElsewhereUsed, ElsewhereRows

LEMMA OnItemItems ==
    ASSUME SessionInv, UsedNow, RowsNow, NEW t \in Tabs, OnItem(t)
    PROVE  UsedNow' /\ RowsNow'
PROOF
<1>1. /\ Elsewhere(t) /\ lists' = lists /\ announce' = announce /\ fetches' = fetches /\ budget' = budget
      /\ Hears(t) \in Seq(ServerMsg) /\ Hears(t) # <<>> /\ Hears(t)' = Tail(Hears(t))
      /\ tab'[t].panel = tab[t].panel
  BY OnItemPanels
<1>2. \A f \in fetches'[t] : /\ \A v \in f.gone : Used(v)
                             /\ f.gone # {} => f.read /\ f.list = "snapshots"
                             /\ f.list = "snapshots" => tab'[t].panel
  BY <1>1 DEF UsedNow
<1>3. \A f \in fetches'[t] : f.gone \cap lists[f.list] = {}
  BY <1>1 DEF RowsNow
<1>4. ASSUME NEW l \in Lists PROVE Agree(Hears(t)', l, lists[l], lists[l], announce)
  <2>1. Agree(Hears(t), l, lists[l], lists[l], announce)
    BY DEF RowsNow
  <2> QED BY <1>1, <2>1, AgreeTakesRows
<1> QED BY <1>1, <1>2, <1>3, <1>4, ElsewhereUsed, ElsewhereRows

\* The item of a post is new.
LEMMA WritesItems ==
    ASSUME SessionInv, UsedNow, RowsNow, NEW m, Writes(m), Used(m.item)',
           \A v \in Item : Used(v) => Used(v)',
           \A n \in announce : n.item # m.item,
           \A t \in Tabs : \A f \in fetches[t] : m.gone \/ m.item \notin f.gone
    PROVE  UsedNow' /\ RowsNow'
PROOF
<1>1. /\ m \in ItemMsgs /\ m.list \in Lists /\ announce' = announce \cup {m} /\ fetches' = fetches /\ tab' = tab
      /\ \A l \in Lists : \A v : ~(l = m.list /\ v = m.item) => (v \in lists'[l] <=> v \in lists[l])
      /\ m.item \in lists'[m.list] <=> ~m.gone
      /\ \A u \in Tabs : Hears(u)' = Hears(u)
  BY DEF Writes, ItemMsgs
<1>2. UsedNow'
  <2>1. \A n \in announce' : Used(n.item)'
    BY <1>1, AnnouncedFacts DEF UsedNow
  <2>2. \A l \in Lists : \A v \in lists'[l] : Used(v)'
    BY <1>1, PanelFacts DEF UsedNow
  <2>3. \A t \in Tabs : \A f \in fetches'[t] :
          /\ \A v \in f.gone : Used(v)'
          /\ f.gone # {} => f.read /\ f.list = "snapshots"
          /\ f.list = "snapshots" => tab'[t].panel
    <3>1. \A t \in Tabs : \A f \in fetches[t] : f.gone \subseteq Item
      BY PanelFacts DEF FetchType
    <3> QED BY <1>1, <3>1 DEF UsedNow
  <2> QED BY <2>1, <2>2, <2>3 DEF UsedNow
<1>3. \A n \in announce' : n.item \in lists'[n.list] <=> ~n.gone
  <2>1. ASSUME NEW n \in announce PROVE n.item \in lists'[n.list] <=> ~n.gone
    <3>1. n.list \in Lists /\ n.item # m.item
      BY AnnouncedFacts
    <3> QED BY <1>1, <3>1 DEF RowsNow
  <2> QED BY <1>1, <2>1
<1>4. ASSUME NEW t \in Tabs, NEW f \in fetches'[t] PROVE f.gone \cap lists'[f.list] = {}
  <2>1. f \in fetches[t] /\ f.list \in Lists /\ f.gone \cap lists[f.list] = {}
    BY <1>1, PanelFacts DEF RowsNow
  <2> QED BY <1>1, <2>1
<1>5. ASSUME NEW t \in Tabs, NEW l \in Lists PROVE Agree(Hears(t)', l, lists'[l], lists'[l], announce')
  <2>1. Agree(Hears(t), l, lists[l], lists[l], announce)
    BY DEF RowsNow
  <2>2. \A v : ~Coming(announce', l, v) =>
          ~Coming(announce, l, v) /\ (v \in lists'[l] <=> v \in lists[l]) /\ (v \in lists'[l] <=> v \in lists[l])
    BY <1>1 DEF Coming
  <2>3. Agree(Hears(t), l, lists'[l], lists'[l], announce')
    BY <2>1, <2>2, AgreeWrites
  <2> QED BY <1>1, <2>3
<1>6. RowsNow'
  BY <1>3, <1>4, <1>5 DEF RowsNow
<1> QED BY <1>2, <1>6

LEMMA PostItems ==
    ASSUME SessionInv, UsedNow, RowsNow, NEW t \in Tabs, NEW l \in Lists, PostItem(t, l)
    PROVE  UsedNow' /\ RowsNow'
PROOF
<1>1. PICK m : /\ Writes(m) /\ ~m.gone /\ m.item[1] = budget.posts
               /\ budget.posts \in Nat /\ budget'.posts = budget.posts - 1
  BY PostWrites
<1>2. ~Used(m.item) /\ Used(m.item)'
  BY <1>1 DEF Used
<1>3. \A n \in announce : n.item # m.item
  BY <1>2 DEF UsedNow
<1>4. \A x \in Tabs : \A f \in fetches[x] : m.item \notin f.gone
  BY <1>2 DEF UsedNow
<1>5. \A v \in Item : Used(v) => Used(v)'
  <2>1. \A v \in Item : v[1] \in Nat
    BY DEF Item
  <2> QED BY <1>1, <2>1 DEF Used
<1> QED BY <1>1, <1>2, <1>3, <1>4, <1>5, WritesItems

LEMMA RemoveItems ==
    ASSUME SessionInv, UsedNow, RowsNow, NEW t \in Tabs, NEW l \in Lists, RemoveItem(t, l)
    PROVE  UsedNow' /\ RowsNow'
PROOF
<1>1. PICK m : /\ Writes(m) /\ m.gone /\ m.item \in lists[m.list] /\ \A n \in announce : n.item # m.item
               /\ budget'.posts = budget.posts
  BY RemoveWrites
<1>2. \A v : Used(v)' <=> Used(v)
  BY <1>1 DEF Used
<1>3. Used(m.item)
  BY <1>1 DEF Writes, ItemMsgs, UsedNow
<1> QED BY <1>1, <1>2, <1>3, WritesItems

\* A socket outside the room hears nothing of items.
LEMMA CutOffDeaf ==
    ASSUME SessionInv, \A s \in Sids : Wired(s), NEW u \in Tabs, CutOff(u)
    PROVE  \A i \in DOMAIN Hears(u) : Hears(u)[i].kind # "item"
PROOF
<1>1. CASE tab[u].link = 0
  BY <1>1, HearsTyped
<1>2. CASE tab[u].link # 0
  <2>1. Sid(u) \in Sids /\ Linked(Sid(u)) /\ Hears(u) = down[Sid(u)] /\ Sid(u) \notin inRoom
    BY <1>2, HearsTyped DEF CutOff
  <2>2. \A i \in DOMAIN down[Sid(u)] : down[Sid(u)][i].kind \in Orders \cup {"denied"}
    BY <2>1 DEF Wired, WireOK, Listening, Linked
  <2> QED BY <2>1, <2>2 DEF Orders
<1> QED BY <1>1, <1>2

LEMMA AnnounceItems ==
    ASSUME SessionInv, \A s \in Sids : Wired(s), UsedNow, RowsNow, NEW m \in announce, Announce(m)
    PROVE  UsedNow' /\ RowsNow'
PROOF
<1>1. /\ announce' = announce \ {m} /\ lists' = lists /\ tab' = tab /\ budget' = budget /\ m.list \in Lists
      /\ \A u \in Tabs : CutOff(u) => Hears(u)' = Hears(u)
      /\ \A u \in Tabs : fetches'[u] = fetches[u] \/
            \E f : /\ fetches'[u] = fetches[u] \cup {f} /\ f.list = "snapshots" /\ f.read /\ f.gone = {m.item}
                   /\ m.gone /\ m.list = "snapshots" /\ tab[u].panel
  BY AnnouncePanels
<1>2. ASSUME NEW u \in Tabs, NEW f \in fetches'[u]
      PROVE  \/ f \in fetches[u]
             \/ /\ f.list = "snapshots" /\ f.read /\ f.gone = {m.item} /\ m.gone
                /\ m.list = "snapshots" /\ tab[u].panel
  BY <1>1, <1>2
<1>3. UsedNow'
  <2>1. \A n \in announce' : Used(n.item)'
    BY <1>1 DEF UsedNow, Used
  <2>2. \A l \in Lists : \A v \in lists'[l] : Used(v)'
    BY <1>1 DEF UsedNow, Used
  <2>3. ASSUME NEW u \in Tabs, NEW f \in fetches'[u]
        PROVE  /\ \A v \in f.gone : Used(v)'
               /\ f.gone # {} => f.read /\ f.list = "snapshots"
               /\ f.list = "snapshots" => tab'[u].panel
    <3>1. CASE f \in fetches[u]
      BY <1>1, <3>1 DEF UsedNow, Used
    <3>2. CASE f \notin fetches[u]
      <4>1. f.list = "snapshots" /\ f.read /\ f.gone = {m.item} /\ tab[u].panel
        BY <1>2, <2>3, <3>2
      <4>2. Used(m.item)
        BY DEF UsedNow
      <4> QED BY <1>1, <4>1, <4>2 DEF Used
    <3> QED BY <3>1, <3>2
  <2> QED BY <2>1, <2>2, <2>3 DEF UsedNow
<1>4. \A n \in announce' : n.item \in lists'[n.list] <=> ~n.gone
  BY <1>1 DEF RowsNow
<1>5. ASSUME NEW u \in Tabs, NEW f \in fetches'[u] PROVE f.gone \cap lists'[f.list] = {}
  <2>1. CASE f \in fetches[u]
    BY <1>1, <2>1 DEF RowsNow
  <2>2. CASE f \notin fetches[u]
    <3>1. f.list = m.list /\ f.gone = {m.item} /\ m.gone
      BY <1>2, <1>5, <2>2
    <3>2. m.item \notin lists[m.list]
      BY <3>1 DEF RowsNow
    <3> QED BY <1>1, <3>1, <3>2
  <2> QED BY <2>1, <2>2
<1>6. ASSUME NEW u \in Tabs, NEW l \in Lists PROVE Agree(Hears(u)', l, lists'[l], lists'[l], announce')
  <2>1. CASE CutOff(u)
    <3>1. \A i \in DOMAIN Hears(u) : Hears(u)[i].kind # "item"
      BY <2>1, CutOffDeaf
    <3>2. Agree(Hears(u), l, lists[l], lists[l], announce')
      BY <3>1, AgreeDeaf
    <3> QED BY <1>1, <2>1, <3>2
  <2>2. CASE ~CutOff(u)
    <3>1. Agree(Hears(u), l, lists[l], lists[l], announce)
      BY DEF RowsNow
    <3>2. Agree(Hears(u)', l, lists[l], lists'[l], announce')
      BY <2>2, <3>1, AnnouncedAgree
    <3> QED BY <1>1, <3>2
  <2> QED BY <2>1, <2>2
<1>7. RowsNow'
  BY <1>4, <1>5, <1>6 DEF RowsNow
<1> QED BY <1>3, <1>7

LEMMA TabItems ==
    ASSUME SessionInv, UsedNow, RowsNow, room = "open", NEW t \in Tabs, OfLists(t)
    PROVE  UsedNow' /\ RowsNow'
PROOF
<1>1. CASE Drop(t)
  <2>1. /\ Elsewhere(t) /\ Hears(t)' = <<>> /\ lists' = lists /\ announce' = announce /\ fetches' = fetches
        /\ budget'.posts = budget.posts /\ tab'[t].panel = tab[t].panel
    BY <1>1, DropPanels, PanelsStayed
  <2>2. \A f \in fetches'[t] : f.list = "snapshots" => tab'[t].panel
    BY <2>1 DEF UsedNow
  <2> QED BY <2>1, <2>2, LessItems
<1>2. CASE Quits(t) /\ budget'.posts = budget.posts
  <2>1. /\ Elsewhere(t) /\ Hears(t)' = <<>> /\ lists' = lists /\ announce' = announce
        /\ fetches'[t] = {f \in fetches[t] : f.list # "snapshots"} /\ budget'.posts = budget.posts
    BY <1>2, QuitsPanels
  <2> QED BY <2>1, LessItems
<1>3. CASE OnRoomState(t)
  <2>1. PICK f : f = Fetch(t, "comments")
    OBVIOUS
  <2>2. f.list = "comments" /\ f.gone = {}
    BY <2>1 DEF Fetch
  <2>3. PICK X : X = {}
    OBVIOUS
  <2>4. /\ Elsewhere(t) /\ SameNews(Hears(t), Hears(t)') /\ tab'[t].panel = tab[t].panel
        /\ fetches'[t] = (fetches[t] \ X) \cup {f}
        /\ lists' = lists /\ announce' = announce /\ budget' = budget
    BY <1>3, <2>1, <2>3, OnRoomStatePanels
  <2> QED BY <2>2, <2>4, FetchItems
<1>4. CASE OnItem(t)
  BY <1>4, OnItemItems
<1>5. CASE OpenPanel(t)
  <2>1. PICK f : f = Fetch(t, "snapshots")
    OBVIOUS
  <2>2. f.list = "snapshots" /\ f.gone = {}
    BY <2>1 DEF Fetch
  <2>3. PICK X : X = {}
    OBVIOUS
  <2>4. /\ Elsewhere(t) /\ SameNews(Hears(t), Hears(t)') /\ tab'[t].panel
        /\ fetches'[t] = (fetches[t] \ X) \cup {f}
        /\ lists' = lists /\ announce' = announce /\ budget'.posts = budget.posts
    BY <1>5, <2>1, <2>3, OpenPanelPanels, SameHears
  <2> QED BY <2>2, <2>4, FetchItems
<1>6. CASE ClosePanel(t)
  <2>1. /\ Elsewhere(t) /\ SameNews(Hears(t), Hears(t)') /\ lists' = lists /\ announce' = announce
        /\ fetches'[t] = {f \in fetches[t] : f.list # "snapshots"} /\ budget' = budget
    BY <1>6, ClosePanelPanels, SameHears
  <2> QED BY <2>1, LessItems
<1>7. ASSUME NEW l \in Lists, PostItem(t, l) \/ RemoveItem(t, l) PROVE UsedNow' /\ RowsNow'
  BY <1>7, PostItems, RemoveItems
<1>8. ASSUME NEW f \in fetches[t], OnRows(t, f) PROVE UsedNow' /\ RowsNow'
  <2>1. /\ Elsewhere(t) /\ SameNews(Hears(t), Hears(t)') /\ lists' = lists /\ announce' = announce
        /\ fetches'[t] = fetches[t] \ {f} /\ budget' = budget /\ tab'[t].panel = tab[t].panel
    BY <1>8, OnRowsPanels, SameHears
  <2>2. \A g \in fetches'[t] : g.list = "snapshots" => tab'[t].panel
    BY <2>1 DEF UsedNow
  <2> QED BY <2>1, <2>2, LessItems
<1>9. ASSUME NEW f \in fetches[t], ReadRows(t, f) PROVE UsedNow' /\ RowsNow'
  <2>1. PICK g : /\ fetches'[t] = (fetches[t] \ {f}) \cup {g}
                 /\ g.list = f.list /\ g.gone = f.gone
    BY <1>9, ReadRowsPanels
  <2>2. /\ Elsewhere(t) /\ SameNews(Hears(t), Hears(t)') /\ tab' = tab /\ ~f.read
        /\ lists' = lists /\ announce' = announce /\ budget' = budget
    BY <1>9, ReadRowsPanels, SameHears
  <2>3. f.gone = {} /\ (f.list = "snapshots" => tab[t].panel)
    BY <2>2 DEF UsedNow
  <2>4. PICK X : X = {f}
    OBVIOUS
  <2> QED BY <2>1, <2>2, <2>3, <2>4, FetchItems
<1> QED BY <1>1, <1>2, <1>3, <1>4, <1>5, <1>6, <1>7, <1>8, <1>9 DEF OfLists

LEMMA TabSound ==
    ASSUME SessionInv, UsedNow, RowsNow, room = "open", NEW l \in Lists, \A t \in Tabs : Sound(t, l),
           past' \cap Excuses(l) = {}, NEW t \in Tabs, OfLists(t), NEW u \in Tabs
    PROVE  Sound(u, l)'
PROOF
<1>1. ASSUME NEW k \in Lists, PostItem(t, k) \/ RemoveItem(t, k) PROVE Sound(u, l)'
  <2>1. PICK m : Writes(m)
    BY <1>1, PostWrites, RemoveWrites
  <2> QED BY <2>1, WritesSound
<1>2. ASSUME NEW f \in fetches[t], OnRows(t, f) \/ ReadRows(t, f) PROVE Sound(u, l)'
  BY <1>2, OnRowsSound, ReadRowsSound
<1> QED BY <1>1, <1>2, DropSound, QuitsSound, OnRoomStateSound, OnItemSound, OpenPanelSound, ClosePanelSound DEF OfLists

LEMMA NextItems ==
    ASSUME SessionInv, WireInv, ItemsInv, [Next]_vars
    PROVE  ItemsInv'
PROOF
<1> SUFFICES ASSUME room' = "open" PROVE UsedNow' /\ RowsNow'
  BY DEF ItemsInv
<1>1. room = "open" /\ UsedNow /\ RowsNow
  BY NextOnward DEF Onward, ItemsInv
<1>2. InTime /\ \A s \in Sids : Wired(s)
  BY DEF WireInv
<1> QED BY <1>1, <1>2, NextPanels, PlainlyItems, TabItems, AnnounceItems

LEMMA NextSound ==
    ASSUME SessionInv, WireInv, ItemsInv, SoundInv, [Next]_vars
    PROVE  SoundInv'
PROOF
<1> SUFFICES ASSUME NEW l \in Lists, room' = "open", past' \cap Excuses(l) = {}, NEW u \in Tabs
             PROVE  Sound(u, l)'
  BY DEF SoundInv, Calm
<1>1. room = "open" /\ UsedNow /\ RowsNow /\ InTime
  BY NextOnward DEF Onward, ItemsInv, WireInv
<1>2. \A t \in Tabs : Sound(t, l)
  BY <1>1, NextOnward DEF SoundInv, Calm, Onward
<1> QED BY <1>1, <1>2, NextPanels, PlainlySound, TabSound, AnnounceSound

LEMMA InitLists ==
    ASSUME Init
    PROVE  ItemsInv /\ SoundInv
PROOF
<1>1. /\ announce = {} /\ fetches = [t \in Tabs |-> {}] /\ lists = [l \in Lists |-> {}]
      /\ \A t \in Tabs : fetches[t] = {}
      /\ \A l \in Lists : lists[l] = {}
  BY DEF Init
<1>2. \A t \in Tabs : tab[t].shown = [l \in Lists |-> {}]
  <2>1. Blank.shown = [l \in Lists |-> {}]
    BY DEF Blank
  <2>2. ASSUME NEW t \in Tabs PROVE tab[t].shown = Blank.shown
    <3>1. PICK T : T = Blank
      OBVIOUS
    <3>2. T = [page |-> "away", link |-> 0, connections |-> 0, once |-> FALSE, valid |-> TRUE,
               pending |-> <<>>, joined |-> FALSE, awaiting |-> FALSE, canvas |-> {}, users |-> {},
               cursors |-> {}, warnings |-> {}, shown |-> [l \in Lists |-> {}], panel |-> FALSE,
               made |-> {}]
      BY <3>1 DEF Blank
    <3>3. tab[t] = T \/ tab[t] = [T EXCEPT !.page = "room", !.link = 1, !.connections = 1,
                                           !.once = TRUE, !.joined = TRUE, !.users = active]
      BY <3>1 DEF Init
    <3> QED BY <3>1, <3>2, <3>3
  <2> QED BY <2>1, <2>2
<1>3. \A t \in Tabs : \A i \in DOMAIN Hears(t) : Hears(t)[i].kind # "item"
  <2>1. SessionInv
    BY InitSession
  <2>2. \A t \in Tabs : Hears(t) = <<>>
    BY <2>1, HearsTyped, InitNothing
  <2> QED BY <2>2
<1>4. \A t \in Tabs : \A l \in Lists : Agree(Hears(t), l, lists[l], lists[l], announce)
  BY <1>3, AgreeDeaf
<1>5. ItemsInv
  BY <1>1, <1>4 DEF ItemsInv, UsedNow, RowsNow
<1>6. \A t \in Tabs : \A l \in Lists : tab[t].shown[l] = lists[l] /\ Pending(t, l) = {}
  BY <1>1, <1>2 DEF Pending
<1>7. SoundInv
  BY <1>4, <1>6 DEF SoundInv, Sound, Alone, Right
<1> QED BY <1>5, <1>7

LEMMA ListsInvariant == Spec => [](ItemsInv /\ SoundInv)
PROOF
<1>1. SessionInv /\ WireInv /\ (ItemsInv /\ SoundInv) /\ [Next]_vars => (ItemsInv /\ SoundInv)'
  BY NextItems, NextSound
<1>2. Init => ItemsInv /\ SoundInv
  BY InitLists
<1> QED BY <1>1, <1>2, StrandedInvariant, PTL DEF Spec

\* A list that nothing is on its way to is the rows there are.
LEMMA QuietLists ==
    ASSUME SoundInv, NEW l \in Lists, Calm(Excuses(l)), Quiet, NEW t \in Tabs, Watched(t, l), Hears(t) = <<>>
    PROVE  tab[t].shown[l] = lists[l]
PROOF
<1>1. Sound(t, l)
  BY DEF SoundInv
<1>2. Pending(t, l) = {} /\ announce = {}
  BY DEF Quiet, Pending
<1>3. Agree(<<>>, l, tab[t].shown[l], lists[l], {})
  BY <1>1, <1>2 DEF Sound, Right
<1> QED BY <1>3, AgreeQuiet

\* Comments and snapshots sync in real time (README.md:22-23): every page lists the
\* rows there are.  The controllers broadcast each change (comments.controller.ts:45 and
\* 66, snapshots.controller.ts:38 and 58) and every page applies it to what it lists; it
\* fetches the comments when it has joined (useCollaboration.ts:97) and the snapshots
\* when their panel opens (SnapshotsPanel.tsx:28-34), in any order of broadcasts, replies, leaves
\* and reconnects, unless a broadcast overtook a fetch, two fetches of the comments
\* overlapped, or a tab was cut off with its panel of snapshots open.
THEOREM ListsStayCurrent == Spec => []ListsAreCurrent
PROOF
<1>1. SessionInv /\ WireInv /\ StrandedInv /\ SoundInv => ListsAreCurrent
  <2> SUFFICES ASSUME SessionInv, WireInv, StrandedInv, SoundInv, Quiet, room = "open", NEW t \in InSession
               PROVE  /\ past \cap {"overtaken reply", "two fetches"} = {} =>
                            tab[t].shown["comments"] = lists["comments"]
                      /\ past \cap {"overtaken reply", "missed"} = {} /\ tab[t].panel =>
                            tab[t].shown["snapshots"] = lists["snapshots"]
    BY DEF ListsAreCurrent, Without
  <2>1. t \in Tabs /\ tab[t].page = "room"
    BY DEF InSession
  <2>2. Sid(t) \in Sids /\ Sid(t)[1] = t /\ Settled(Sid(t)) /\ down[Sid(t)] = <<>>
    BY <2>1, QuietSettled DEF Quiet
  <2>3. Attends(t) /\ Hears(t) = <<>>
    BY <2>2, HasNothing DEF Attends, Hears
  <2>4. "comments" \in Lists /\ "snapshots" \in Lists
    BY DEF Lists
  <2>5. Excuses("comments") = {"overtaken reply", "two fetches"} /\ Excuses("snapshots") = {"overtaken reply", "missed"}
    BY DEF Excuses
  <2>6. ASSUME past \cap {"overtaken reply", "two fetches"} = {} PROVE tab[t].shown["comments"] = lists["comments"]
    <3>1. Watched(t, "comments")
      BY <2>3 DEF Watched
    <3>2. Calm(Excuses("comments"))
      BY <2>5, <2>6 DEF Calm
    <3> QED BY <2>1, <2>3, <2>4, <3>1, <3>2, QuietLists
  <2>7. ASSUME past \cap {"overtaken reply", "missed"} = {}, tab[t].panel
        PROVE  tab[t].shown["snapshots"] = lists["snapshots"]
    <3>1. Watched(t, "snapshots")
      BY <2>7 DEF Watched
    <3>2. Calm(Excuses("snapshots"))
      BY <2>5, <2>7 DEF Calm
    <3> QED BY <2>1, <2>3, <2>4, <3>1, <3>2, QuietLists
  <2> QED BY <2>6, <2>7
<1> QED BY <1>1, StrandedInvariant, ListsInvariant, PTL
=============================================================================
