--------------------------- MODULE Conversations ---------------------------
(***************************************************************************)
(* The chat window of the Qt client (src/QtClient/Client/widget.cpp), from *)
(* the bytes that arrive to the bubbles and badges the user sees, and the  *)
(* login dialog that precedes it.  The server is what a client sees of it: *)
(* it registers the client before it answers the login, it stores messages *)
(* while no client is registered and hands them over with the answer.      *)
(*                                                                         *)
(* Friends and groups have ids of their own tables, so that a friend and a *)
(* group can have the same one.  Messages are numbered as they are sent.   *)
(***************************************************************************)
EXTENDS Integers, Sequences, FiniteSets, SequencesExt

CONSTANTS Ids,          \* ids of friends and of groups
          NoTarget,
          HistoryCap,   \* 500 in the code
          MaxMsgs,      \* bound: messages to this user
          MaxOwn,       \* bound: messages of this user
          MaxLogins,    \* bound: connections
          MaxChanges    \* bound: changes of friends, groups, states, names

ASSUME ConversationsAssumption ==
    /\ HistoryCap \in Nat \ {0}
    /\ {MaxMsgs, MaxOwn, MaxLogins, MaxChanges} \subseteq Nat

Target == [id : Ids, group : BOOLEAN]
Presence == {"online", "offline"}

(* The server: how far the login is (down, registered, in), the rows of    *)
(* offlinemessage, the tables friend and groupuser of this user, the       *)
(* state column, the conversations of the messages sent so far, and        *)
(* counters for the bounds                                                 *)
VARIABLES link, rows, friends, groups, presence, sentTo, count

(* The client: the bytes that the kernel has, m_recvBuf, the window in     *)
(* front (dialog, accepted, window), the data of the dialog, whether a     *)
(* message box blocks the client, and the chat window                      *)
VARIABLES socket, recvBuf, front, offer, modal, w

(* What is only recorded: messages lost with a connection or before there  *)
(* was a window; messages sent between registration and answer; friends of *)
(* whose state the window was not told; messages received and not shown    *)
(* yet; conversations whose unread count holds shown messages; items       *)
(* listed while messages were unread; groups that wear a friend's state    *)
VARIABLE seen

tables == <<rows, friends, groups, presence, sentTo>>
vars == <<link, rows, friends, groups, presence, sentTo, count,
          socket, recvBuf, front, offer, modal, w, seen>>

----------------------------------------------------------------------------
(* The window: functions from window to window, as the code calls them     *)

(* A message of an other member, or an own one *)
Received(m) == [m |-> m, isRight |-> FALSE]
Own(m) == [m |-> m, isRight |-> TRUE]

AppendToHistory(x, t, e) ==
    LET hist == Append(x.history[t], e)
    IN  [x EXCEPT !.history[t] = IF Len(hist) > HistoryCap THEN Tail(hist) ELSE hist]

(* A bubble at the end of the chat *)
AddMessage(x, e) == [x EXCEPT !.chat = Append(@, e)]

Item(id, state) == [id |-> id, label |-> state, badge |-> 0]

Friend(id) == [id |-> id, group |-> FALSE]
Group(id) == [id |-> id, group |-> TRUE]

(* The first item with the id among the children of the root, 0 if none *)
IndexOf(x, t) == SelectInSeq(x.tree[t.group], LAMBDA item : item.id = t.id)

UpdateBadge(x, t) ==
    IF IndexOf(x, t) = 0 THEN x
    ELSE [x EXCEPT !.tree[t.group][IndexOf(x, t)].badge = x.unread[t]]

CountUnread(x, t) == [x EXCEPT !.unread[t] = @ + 1]

(* setStatus leaves the title alone when no conversation is open *)
SetStatus(x, online) ==
    [x EXCEPT !.online = online,
              !.title = IF ~online THEN [says |-> "offline", of |-> NoTarget]
                        ELSE IF x.current # NoTarget THEN [says |-> "target", of |-> x.current]
                        ELSE @]

(* Stored messages go into the history and are counted *)
MergeOffline(x, msgs) ==
    FoldLeft(LAMBDA y, r : CountUnread(AppendToHistory(y, r.to, Received(r.m)), r.to), x, msgs)

AllBadges(x) == FoldLeft(UpdateBadge, x, SetToSeq({t \in Target : x.unread[t] > 0}))

(* setupUI: no conversation is open, and the title asks for one *)
BareWindow ==
    [current |-> NoTarget, history |-> [t \in Target |-> <<>>],
     unread |-> [t \in Target |-> 0], chat |-> <<>>, online |-> TRUE,
     title |-> [says |-> "select", of |-> NoTarget], tree |-> [g \in BOOLEAN |-> <<>>]]

AddItem(x, t, state) == [x EXCEPT !.tree[t.group] = Append(@, Item(t.id, state))]

LoadFriends(x, fs) == FoldLeft(LAMBDA y, f : AddItem(y, Friend(f.id), f.state), x, fs)
LoadGroups(x, gs) == FoldLeft(LAMBDA y, g : AddItem(y, Group(g), "plain"), x, gs)

(* The constructor, with the data of the dialog *)
NewWindow(o) ==
    AllBadges(LoadGroups(LoadFriends(SetStatus(MergeOffline(BareWindow, o.rows), TRUE),
                                     o.friends), o.groups))

(* Mutant: the open conversation does not show what was stored *)
LoginSuccessQuiet(x, o) == AllBadges(MergeOffline(SetStatus(x, TRUE), o.rows))

(* Mutant: what is replayed goes into the history again *)
LoginSuccessTwice(x, o) ==
    FoldLeft(LAMBDA y, r : IF r.to = y.current
                           THEN AppendToHistory(AddMessage(y, Received(r.m)), r.to, Received(r.m))
                           ELSE y,
             AllBadges(MergeOffline(SetStatus(x, TRUE), o.rows)), o.rows)

(* The slot of loginSuccess in an existing window: the lists are not       *)
(* loaded again, and stored messages of the open conversation are shown    *)
(* and counted                                                             *)
LoginSuccess(x, o) ==
    FoldLeft(LAMBDA y, r : IF r.to = y.current THEN AddMessage(y, Received(r.m)) ELSE y,
             AllBadges(MergeOffline(SetStatus(x, TRUE), o.rows)), o.rows)

(* onChatMsg and onGroupMsg.  onGroupMsg ignores the user's own messages,  *)
(* which the server does not send back                                     *)
OnChatMsg(x, t, m) ==
    LET y == AppendToHistory(x, t, Received(m))
    IN  IF t = x.current THEN AddMessage(y, Received(m))
        ELSE UpdateBadge(CountUnread(y, t), t)

(* Mutant: the last item with the id *)
OnFriendStateChangedLast(x, id, state) ==
    LET i == SelectLastInSeq(x.tree[FALSE], LAMBDA item : item.id = id)
    IN  IF i = 0 THEN x ELSE [x EXCEPT !.tree[FALSE][i].label = state]

(* The first item with the id, in the friends and then in the groups *)
OnFriendStateChanged(x, id, state) ==
    IF IndexOf(x, Friend(id)) # 0
    THEN [x EXCEPT !.tree[FALSE][IndexOf(x, Friend(id))].label = state]
    ELSE IF IndexOf(x, Group(id)) # 0
    THEN [x EXCEPT !.tree[TRUE][IndexOf(x, Group(id))].label = state]
    ELSE x

OnFriendAdded(x, id, state) == AddItem(x, Friend(id), state)
OnGroupCreated(x, id) == AddItem(x, Group(id), "plain")

RebuildChatFromHistory(x, t) == FoldLeft(AddMessage, x, x.history[t])

(* Mutant: the count is kept *)
SwitchToTargetCounted(x, t) ==
    RebuildChatFromHistory(
        [x EXCEPT !.current = t, !.chat = <<>>, !.title = [says |-> "target", of |-> t]], t)

SwitchToTarget(x, t) ==
    RebuildChatFromHistory(
        UpdateBadge([x EXCEPT !.current = t, !.unread[t] = 0, !.chat = <<>>,
                              !.title = [says |-> "target", of |-> t]], t), t)

----------------------------------------------------------------------------
NoOffer == [rows |-> <<>>, friends |-> <<>>, groups |-> <<>>]

NothingSeen == [lost |-> {}, jumped |-> {}, stale |-> {}, counted |-> {}, unbadged |-> {},
                worn |-> {}, unseen |-> [t \in Target |-> {}]]

Init ==
    /\ link = "down" /\ rows = <<>> /\ sentTo = <<>>
    /\ friends \in SUBSET Ids /\ groups \in SUBSET Ids
    /\ presence = [f \in Ids |-> "offline"]
    /\ count = [own |-> 0, logins |-> 0, changes |-> 0]
    /\ socket = <<>> /\ recvBuf = <<>> /\ front = "dialog" /\ offer = NoOffer
    /\ modal = FALSE /\ w = NewWindow(NoOffer)
    /\ seen = NothingSeen

Count(what, max) == count[what] < max /\ count' = [count EXCEPT ![what] = @ + 1]

(* The messages in a sequence of frames, and those kept as rows *)
InRows(r) == {r[i].m : i \in DOMAIN r}
InFrames(fs) ==
    UNION {CASE fs[i].k = "chat" -> {fs[i].m} [] fs[i].k = "ack" -> InRows(fs[i].rows)
             [] OTHER -> {} : i \in DOMAIN fs}
StatesIn(fs) == {fs[i].id : i \in {j \in DOMAIN fs : fs[j].k = "state"}}

----------------------------------------------------------------------------
(* The server, as far as this client sees it *)

(* The client connects and logs in: the dialog, or the window by itself or *)
(* by a click on the name.  The server registers it                        *)
Connect ==
    /\ link = "down" /\ front # "accepted"
    /\ Count("logins", MaxLogins)
    /\ link' = "registered"
    /\ UNCHANGED <<tables, socket, recvBuf, front, offer, modal, w, seen>>

(* The answer to the login, with the rows, which are deleted *)
Answer ==
    /\ link = "registered"
    /\ link' = "in" /\ rows' = <<>>
    /\ socket' = Append(socket,
          [k |-> "ack", rows |-> rows, groups |-> SetToSeq(groups),
           friends |-> SetToSeq({[id |-> f, state |-> presence[f]] : f \in friends})])
    /\ UNCHANGED <<friends, groups, presence, sentTo, count, recvBuf, front, offer, modal, w, seen>>

(* Someone writes to the user or to one of the user's groups *)
Deliver(t) ==
    /\ Len(sentTo) < MaxMsgs /\ (t.group => t.id \in groups)
    /\ sentTo' = Append(sentTo, t)
    /\ LET m == Len(sentTo) + 1 IN
       IF link = "down"
       THEN /\ rows' = Append(rows, [to |-> t, m |-> m])
            /\ UNCHANGED <<socket, seen>>
       ELSE /\ socket' = Append(socket, [k |-> "chat", to |-> t, m |-> m])
            /\ seen' = IF link = "in" THEN seen ELSE [seen EXCEPT !.jumped = @ \cup {m}]
            /\ UNCHANGED rows
    /\ UNCHANGED <<link, friends, groups, presence, count, recvBuf, front, offer, modal, w>>

(* A friend comes or goes; nobody is told whose client is not registered *)
FriendStateChanges(f) ==
    /\ Count("changes", MaxChanges)
    /\ presence' = [presence EXCEPT ![f] = IF @ = "online" THEN "offline" ELSE "online"]
    /\ IF f \in friends /\ link # "down"
       THEN /\ socket' = Append(socket, [k |-> "state", id |-> f, state |-> presence'[f]])
            /\ UNCHANGED seen
       ELSE /\ seen' = [seen EXCEPT !.stale = @ \cup {f}]
            /\ UNCHANGED socket
    /\ UNCHANGED <<link, rows, friends, groups, sentTo, recvBuf, front, offer, modal, w>>

(* Someone adds the user as a friend, which the server does not tell *)
BeAdded(f) ==
    /\ f \notin friends
    /\ Count("changes", MaxChanges)
    /\ friends' = friends \cup {f}
    /\ UNCHANGED <<link, rows, groups, presence, sentTo, socket, recvBuf, front, offer, modal, w, seen>>

----------------------------------------------------------------------------
(* The client reads.  onReadyRead takes what the kernel has and handles it *)
(* frame by frame; nothing else runs in the GUI thread meanwhile, unless a *)
(* message box opens a loop of its own                                     *)

ReadyRead(n) ==
    /\ recvBuf = <<>> /\ ~modal /\ front # "accepted"
    /\ recvBuf' = SubSeq(socket, 1, n)
    /\ socket' = SubSeq(socket, n + 1, Len(socket))
    /\ UNCHANGED <<link, tables, count, front, offer, modal, w, seen>>

(* The next frame of the loop *)
Frame(kind) == recvBuf # <<>> /\ ~modal /\ Head(recvBuf).k = kind

Handled ==
    /\ recvBuf' = Tail(recvBuf)
    /\ UNCHANGED <<link, tables, count, socket>>

HandleAck ==
    /\ Frame("ack") /\ Handled
    /\ LET o == Head(recvBuf)
           open == {o.rows[i].to : i \in DOMAIN o.rows} \cap {w.current}
       IN  IF front = "window"
           THEN /\ w' = LoginSuccess(w, o)
                /\ seen' = [seen EXCEPT
                      !.counted = @ \cup open,
                      !.unbadged = {},
                      !.unseen = [t \in Target |-> IF t = w.current THEN @[t]
                                   ELSE @[t] \cup InRows(SelectSeq(o.rows, LAMBDA r : r.to = t))]]
                /\ UNCHANGED <<front, offer>>
           ELSE /\ front' = "accepted"
                /\ offer' = [rows |-> o.rows, friends |-> o.friends, groups |-> o.groups]
                /\ seen' = [seen EXCEPT !.stale = {}]
                /\ UNCHANGED w
    /\ UNCHANGED modal

(* Without a window nobody listens *)
HandleChat ==
    /\ Frame("chat") /\ Handled
    /\ LET t == Head(recvBuf).to
           m == Head(recvBuf).m
       IN  IF front = "window"
           THEN /\ w' = OnChatMsg(w, t, m)
                /\ seen' = IF t = w.current THEN seen
                           ELSE [seen EXCEPT !.unseen[t] = @ \cup {m}, !.unbadged = @ \ {t}]
           ELSE /\ seen' = [seen EXCEPT !.lost = @ \cup {m}]
                /\ UNCHANGED w
    /\ UNCHANGED <<front, offer, modal>>

HandleState ==
    /\ Frame("state") /\ Handled
    /\ LET f == Head(recvBuf).id
       IN  IF front = "window"
           THEN /\ w' = OnFriendStateChanged(w, f, Head(recvBuf).state)
                /\ seen' = IF IndexOf(w, Friend(f)) # 0 THEN [seen EXCEPT !.stale = @ \ {f}]
                           ELSE [seen EXCEPT !.worn = @ \cup {f}]
           ELSE /\ seen' = [seen EXCEPT !.stale = @ \cup {f}]
                /\ UNCHANGED w
    /\ UNCHANGED <<front, offer, modal>>

Unbadged(t) == IF IndexOf(w, t) = 0 /\ w.unread[t] > 0 THEN {t} ELSE {}

HandleFriend ==
    /\ Frame("friend") /\ Handled
    /\ LET f == Head(recvBuf).id
       IN  /\ w' = OnFriendAdded(w, f, Head(recvBuf).state)
           /\ seen' = [seen EXCEPT !.unbadged = @ \cup Unbadged(Friend(f)),
                                   !.stale = IF IndexOf(w, Friend(f)) = 0 THEN @ \ {f} ELSE @]
    /\ UNCHANGED <<front, offer, modal>>

HandleGroup ==
    /\ Frame("newgroup") /\ Handled
    /\ LET g == Head(recvBuf).id
       IN  /\ w' = OnGroupCreated(w, g)
           /\ seen' = [seen EXCEPT !.unbadged = @ \cup Unbadged(Group(g))]
    /\ UNCHANGED <<front, offer, modal>>

(* onNameUpdated renews the title through setStatus *)
HandleNamed ==
    /\ Frame("named") /\ Handled
    /\ w' = SetStatus(w, w.online)
    /\ UNCHANGED <<front, offer, modal, seen>>

(* onNameUpdateFailed opens a message box within the loop of onReadyRead:  *)
(* the socket does not report further data before the box is gone          *)
HandleNameFailed ==
    /\ Frame("namefail") /\ Handled
    /\ modal' = TRUE
    /\ UNCHANGED <<front, offer, w, seen>>

(* dlg.exec returns once onReadyRead is done *)
OpenWindow ==
    /\ front = "accepted" /\ recvBuf = <<>>
    /\ front' = "window" /\ offer' = NoOffer
    /\ w' = NewWindow(offer)
    /\ seen' = [seen EXCEPT
          !.unseen = [t \in Target |-> InRows(SelectSeq(offer.rows, LAMBDA r : r.to = t))],
          !.counted = {}, !.unbadged = {}, !.worn = {}]
    /\ UNCHANGED <<link, tables, count, socket, recvBuf, modal>>

(* onDisconnected discards what is received and not handled *)
Gone ==
    /\ link' = "down" /\ socket' = <<>> /\ recvBuf' = <<>>
    /\ seen' = [seen EXCEPT !.lost = @ \cup InFrames(recvBuf \o socket),
                            !.stale = @ \cup StatesIn(recvBuf \o socket)]

Drop ==
    /\ link # "down" /\ (recvBuf = <<>> \/ modal) /\ front # "accepted"
    /\ Gone
    /\ w' = IF front = "window" THEN SetStatus(w, FALSE) ELSE w
    /\ UNCHANGED <<tables, count, front, offer, modal>>

----------------------------------------------------------------------------
(* The user *)

Idle == front = "window" /\ recvBuf = <<>> /\ ~modal

Click(t) ==
    /\ Idle /\ IndexOf(w, t) # 0
    /\ w' = SwitchToTarget(w, t)
    /\ seen' = [seen EXCEPT !.unseen[t] = {}, !.counted = @ \ {t}, !.unbadged = @ \ {t}]
    /\ UNCHANGED <<link, tables, count, socket, recvBuf, front, offer, modal>>

OnSendClicked ==
    /\ Idle /\ w.current # NoTarget /\ w.online
    /\ Count("own", MaxOwn)
    /\ LET e == Own(count.own + 1)
       IN  w' = AppendToHistory(AddMessage(w, e), w.current, e)
    /\ UNCHANGED <<link, tables, socket, recvBuf, front, offer, modal, seen>>

(* A click on the own name: loginout *)
GoOffline ==
    /\ Idle /\ w.online /\ link # "down"
    /\ Gone
    /\ w' = SetStatus(w, FALSE)
    /\ UNCHANGED <<tables, count, front, offer, modal>>

(* The window is closed, to end or to change the account; histories go     *)
(* with it                                                                 *)
CloseWindow ==
    /\ Idle
    /\ link' = "down" /\ socket' = <<>> /\ recvBuf' = <<>> /\ front' = "dialog"
    /\ w' = NewWindow(NoOffer)
    /\ seen' = [NothingSeen EXCEPT !.lost = (1 .. Len(sentTo)) \ InRows(rows),
                                   !.jumped = seen.jumped]
    /\ UNCHANGED <<tables, count, offer, modal>>

(* A request and its answer *)
Ask(f) ==
    /\ link # "down"
    /\ Count("changes", MaxChanges)
    /\ socket' = Append(socket, f)
    /\ UNCHANGED <<link, rows, presence, sentTo, recvBuf, front, offer, w, seen>>

AddFriend(f) ==
    /\ Idle
    /\ friends' = friends \cup {f}
    /\ Ask([k |-> "friend", id |-> f, state |-> presence[f]])
    /\ UNCHANGED <<groups, modal>>

(* Creates a group, or joins one *)
AddGroup(g) ==
    /\ Idle
    /\ groups' = groups \cup {g}
    /\ Ask([k |-> "newgroup", id |-> g])
    /\ UNCHANGED <<friends, modal>>

EditName ==
    /\ Idle
    /\ \E k \in {"named", "namefail"} : Ask([k |-> k])
    /\ UNCHANGED <<friends, groups, modal>>

(* The warning is closed; the name is asked for again, or not *)
CloseWarning ==
    /\ modal /\ modal' = FALSE
    /\ \/ UNCHANGED <<link, tables, count, socket, recvBuf, front, offer, w, seen>>
       \/ /\ \E k \in {"named", "namefail"} : Ask([k |-> k])
          /\ UNCHANGED <<friends, groups>>

Next ==
    \/ Connect \/ Answer \/ Drop
    \/ \E t \in Target : Deliver(t) \/ Click(t)
    \/ \E f \in Ids : FriendStateChanges(f) \/ BeAdded(f) \/ AddFriend(f) \/ AddGroup(f)
    \/ \E n \in 1 .. Len(socket) : ReadyRead(n)
    \/ HandleAck \/ HandleChat \/ HandleState \/ HandleFriend \/ HandleGroup
    \/ HandleNamed \/ HandleNameFailed
    \/ OpenWindow \/ OnSendClicked \/ GoOffline \/ CloseWindow \/ EditName \/ CloseWarning

Spec == Init /\ [][Next]_vars

----------------------------------------------------------------------------
TypeOK ==
    /\ link \in {"down", "registered", "in"} /\ front \in {"dialog", "accepted", "window"}
    /\ friends \subseteq Ids /\ groups \subseteq Ids /\ presence \in [Ids -> Presence]
    /\ modal \in BOOLEAN
    /\ w.current \in Target \cup {NoTarget}
    /\ \A t \in Target : Len(w.history[t]) <= HistoryCap
    /\ front # "window" => w.current = NoTarget

Shown == front = "window"

(* What is shown belongs to the open conversation: the bubbles end with its *)
(* whole history (messages beyond the limit of 500 stay until the next      *)
(* click), in both directions, whatever was read, stored or sent meanwhile, *)
(* and while the client is online the title names that conversation         *)
ViewIsHistory ==
    /\ TypeOK
    /\ Shown =>
          IF w.current = NoTarget THEN w.chat = <<>>
          ELSE /\ IsSuffix(w.history[w.current], w.chat)
               /\ w.online => w.title = [says |-> "target", of |-> w.current]
               /\ w.history[w.current] # w.chat => Len(w.history[w.current]) = HistoryCap

(* Every message that was sent to the user is on its way, in the history of *)
(* its conversation or pushed out by newer ones, unless it was lost with a  *)
(* connection, with a closed window, or was handled before there was one    *)
NothingMissed ==
    Shown =>
        \A m \in 1 .. Len(sentTo) :
            LET hist == w.history[sentTo[m]]
            IN  \/ m \in seen.lost \cup InRows(rows) \cup InFrames(socket \o recvBuf)
                \/ \E i \in DOMAIN hist : hist[i] = Received(m)
                \/ /\ Len(hist) = HistoryCap
                   /\ m \in seen.jumped \/ \A i \in DOMAIN hist : hist[i].isRight \/ hist[i].m > m

(* A history holds a message once, and in the order of sending, except that *)
(* a message sent between the server's registration of the client and its   *)
(* answer overtakes the stored ones                                         *)
HistoryInOrder ==
    Shown =>
        \A t \in Target : \A i, k \in DOMAIN w.history[t] :
            LET a == w.history[t][i]
                b == w.history[t][k]
            IN  i < k /\ ~a.isRight /\ ~b.isRight
                    => a.m < b.m \/ (a.m # b.m /\ a.m \in seen.jumped)

(* The histories are what was sent, and in order                            *)
HistoryExact == NothingMissed /\ HistoryInOrder

(* The unread count of a conversation is the number of its messages that    *)
(* were received and not shown; after a reconnection the stored messages of *)
(* the open conversation are shown and counted as well, until the next click *)
UnreadCounted ==
    Shown =>
        \A t \in Target :
            \/ w.unread[t] = Cardinality(seen.unseen[t])
            \/ t \in seen.counted /\ w.unread[t] > Cardinality(seen.unseen[t])

(* The badge in the list is the unread count, on the first item of a friend *)
(* or group, unless the item was listed while messages were unread          *)
BadgesTrue ==
    Shown =>
        \A t \in Target :
            IndexOf(w, t) # 0 /\ t \notin seen.unbadged
                => w.tree[t.group][IndexOf(w, t)].badge = w.unread[t]

(* The three records of what is unread agree with what the user has seen    *)
UnreadExact == UnreadCounted /\ BadgesTrue

(* A listed friend is labelled with the state the server has, unless the    *)
(* change is on its way or happened while this client was not connected     *)
(* (the lists are not loaded again); a group's label is its name, unless a  *)
(* friend with the same id who is not listed changed state                  *)
LabelsTrue ==
    Shown =>
        /\ \A f \in Ids :
              IndexOf(w, Friend(f)) # 0 /\ f \notin seen.stale \cup StatesIn(socket \o recvBuf)
                  => w.tree[FALSE][IndexOf(w, Friend(f))].label = presence[f]
        /\ \A i \in DOMAIN w.tree[TRUE] :
              w.tree[TRUE][i].id \notin seen.worn => w.tree[TRUE][i].label = "plain"

=============================================================================
