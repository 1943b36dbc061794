---------------------------- MODULE ChatService ----------------------------
(***************************************************************************)
(* The session, presence and routing core of the chat server: ChatService  *)
(* (src/ChatServer/src/server/chatservice.cpp) on several server processes *)
(* that share one MySQL database and one Redis.                            *)
(*                                                                         *)
(* The handlers of one TCP connection run one after the other, those of    *)
(* different connections run concurrently (muduo's IO threads): pc[c] is   *)
(* where the handler of connection c stands.  One step is one critical     *)
(* section of _connMutex, one SQL statement, one Redis command or one      *)
(* send.  A connection is opened once and is used by one user, who logs in *)
(* on it at most once, as the buttons of the Qt client have it; what       *)
(* becomes of _userConnMap with several logins on a connection, also of    *)
(* different users, is the subject of SessionTable.                        *)
(*                                                                         *)
(* Redis carries out the SUBSCRIBE/UNSUBSCRIBE commands of a server in     *)
(* order but later than they are sent (no reply is awaited), and queues    *)
(* published payloads for the observer thread of each subscribed server.   *)
(*                                                                         *)
(* Every query, insert and delete may fail on its own: the models of       *)
(* src/ChatServer/src/server/model return silently, with an empty result,  *)
(* and the handlers go on.  (A failing write of the state column is in     *)
(* ChatLifecycle.)                                                         *)
(***************************************************************************)
EXTENDS Integers, Sequences, FiniteSets

CONSTANTS Servers, Users, Conns,
          ServerOf, UserOf,  \* the server and the user of a connection
          Friends,           \* Friends[u]: the friend table, symmetric
          Msgs,              \* chat messages
          GroupMsgs,         \* those of them that are group messages
          From, To,          \* sender, and set of addressees, of a message
          NoConn, NoJob

ASSUME ChatAssumption ==
    /\ ServerOf \in [Conns -> Servers]
    /\ UserOf \in [Conns -> Users]
    /\ Friends \in [Users -> SUBSET Users]
    /\ \A u \in Users, v \in Users : v \in Friends[u] => u \in Friends[v] /\ u # v
    /\ GroupMsgs \subseteq Msgs
    /\ From \in [Msgs -> Users]
    /\ To \in [Msgs -> SUBSET Users]
    /\ \A m \in Msgs \ GroupMsgs : \E u \in Users : To[m] = {u}
    /\ \A m \in Msgs : From[m] \notin To[m]
    /\ NoConn \notin Conns

VARIABLES
    link,                \* new, open, half (shutdown() called), down
    client,              \* fresh, wait (LOGIN_MSG taken), in (ACK seen), out (LOGINOUT_MSG sent)
    inbox,               \* messages the client of a connection has shown
    view,                \* states it shows for its user's friends
    sent,                \* messages already sent by their author
    pc,                  \* where the handler of each connection is
    userConnMap,         \* [server][user]: the registered connection
    connectionLastTime,  \* connections in the heartbeat table
    state,               \* user.state in MySQL
    offline,             \* rows of the offlinemessage table
    subs,                \* [server]: users subscribed to at Redis
    cmds,                \* [server]: subscribe commands not yet carried out
    bus,                 \* [server]: payloads waiting for the observer
    obs,                 \* [server]: what the observer thread is handling
    got,                 \* local vec of login: the fetched offline messages
    snap,                \* local userVec of login: the friends' states
    payload,             \* local js/notify: what is being sent
    near, far,           \* connections to send to, users to publish to
    todo, aim            \* users still to be looked up; the one found offline

net == <<link, client, inbox, view, sent>>
tables == <<userConnMap, connectionLastTime>>
db == <<state, offline>>
redis == <<subs, cmds, bus, obs>>
routing == <<payload, near, far, todo, aim>>
locals == <<got, snap, routing>>
vars == <<net, pc, tables, db, redis, locals>>

Goto(c, l) == pc' = [pc EXCEPT ![c] = l]
Registered(c) == userConnMap[ServerOf[c]][UserOf[c]]
Notice(u, s) == [of |-> u, is |-> s]

(* Mutant: the close handler tells what login tells *)
NewsOfLogin(c) ==
    Notice(UserOf[c], IF client[c] = "out" THEN "offline" ELSE "online")

(* login, loginout and clientCloseException each tell the friends a state *)
News(c) == Notice(UserOf[c],
                  IF client[c] = "out" \/ link[c] = "down" THEN "offline" ELSE "online")

(* The client of d shows what is sent to it while the connection is up     *)
(* (send is void after shutdown()) and it has seen its LOGIN_MSG_ACK       *)
Shows(d) == link[d] = "open" /\ client[d] = "in"

(* sendJson *)
Deliver(d, what) ==
    /\ inbox' = IF Shows(d) /\ what \in Msgs
                THEN [inbox EXCEPT ![d] = Append(@, what)] ELSE inbox
    /\ view' = IF Shows(d) /\ what \notin Msgs
               THEN [view EXCEPT ![d][what.of] = what.is] ELSE view

(* _offlineMsgModel.insert *)
Store(u, m) ==
    \/ offline' = [offline EXCEPT ![u] = Append(@, m)]
    \/ UNCHANGED offline

Nobody == [u \in Users |-> "offline"]

Command(s, op, u) == cmds' = [cmds EXCEPT ![s] = Append(@, [op |-> op, user |-> u])]

----------------------------------------------------------------------------
(* The server has just started (ChatService::reset ran at the last exit):  *)
(* the clients' connections are accepted, nobody has sent anything yet.    *)
Init ==
    /\ link = [c \in Conns |-> "open"]
    /\ client = [c \in Conns |-> "fresh"]
    /\ inbox = [c \in Conns |-> <<>>]
    /\ view = [c \in Conns |-> [u \in Users |-> "offline"]]
    /\ sent = {}
    /\ pc = [c \in Conns |-> "idle"]
    /\ userConnMap = [s \in Servers |-> [u \in Users |-> NoConn]]
    /\ connectionLastTime = {}
    /\ state = [u \in Users |-> "offline"]
    /\ offline = [u \in Users |-> <<>>]
    /\ subs = [s \in Servers |-> {}]
    /\ cmds = [s \in Servers |-> <<>>]
    /\ bus = [s \in Servers |-> <<>>]
    /\ obs = [s \in Servers |-> NoJob]
    /\ got = [c \in Conns |-> <<>>]
    /\ snap = [c \in Conns |-> state]
    /\ payload = [c \in Conns |-> NoJob]
    /\ near = [c \in Conns |-> {}]
    /\ far = [c \in Conns |-> {}]
    /\ todo = [c \in Conns |-> {}]
    /\ aim = [c \in Conns |-> {}]

(* A message arrives on c: onMessage records the time, then dispatches *)
Receive(c) ==
    /\ pc[c] = "idle"
    /\ link[c] \in {"open", "half"}
    /\ connectionLastTime' = connectionLastTime \cup {c}

(* HEARTBEAT_MSG, and every message whose handler changes nothing here     *)
(* (a LOGIN_MSG with a wrong password, or whose query of the user fails)   *)
Heartbeat(c) ==
    /\ Receive(c)
    /\ client[c] # "out"
    /\ UNCHANGED <<net, pc, userConnMap, db, redis, locals>>

----------------------------------------------------------------------------
(* login *)

(* The credentials are right; what the row says of the state decides       *)
(* between the two ways to register.                                       *)
Login(c) ==
    /\ Receive(c)
    /\ client[c] = "fresh"
    /\ client' = [client EXCEPT ![c] = "wait"]
    /\ Goto(c, IF state[UserOf[c]] = "online" THEN "relogin" ELSE "register")
    /\ UNCHANGED <<link, inbox, view, sent, userConnMap, db, redis, locals>>

(* Mutant: the subscription is dropped and not renewed *)
ReloginUnsubscribed(c) ==
    LET s == ServerOf[c]
        u == UserOf[c]
    IN  /\ pc[c] = "relogin"
        /\ link' = [d \in Conns |->
                       IF d = Registered(c) /\ link[d] = "open" THEN "half" ELSE link[d]]
        /\ userConnMap' = [userConnMap EXCEPT ![s][u] = c]
        /\ Command(s, "unsubscribe", u)
        /\ Goto(c, "setOnline")
        /\ UNCHANGED <<client, inbox, view, sent, connectionLastTime, db, subs, bus, obs, locals>>

(* Mutant: only a user who is registered here is registered again *)
ReloginIfRegistered(c) ==
    LET s == ServerOf[c]
        u == UserOf[c]
    IN  /\ pc[c] = "relogin"
        /\ link' = [d \in Conns |->
                       IF d = Registered(c) /\ link[d] = "open" THEN "half" ELSE link[d]]
        /\ userConnMap' = [userConnMap EXCEPT ![s][u] = IF @ = NoConn THEN @ ELSE c]
        /\ cmds' = [cmds EXCEPT ![s] = @ \o <<[op |-> "unsubscribe", user |-> u],
                                               [op |-> "subscribe", user |-> u]>>]
        /\ Goto(c, "setOnline")
        /\ UNCHANGED <<client, inbox, view, sent, connectionLastTime, db, subs, bus, obs, locals>>

(* Already online: kick the registered connection, take its place, renew   *)
(* the subscription, all in one critical section.                          *)
Relogin(c) ==
    LET s == ServerOf[c]
        u == UserOf[c]
    IN  /\ pc[c] = "relogin"
        /\ link' = [d \in Conns |->
                       IF d = Registered(c) /\ link[d] = "open" THEN "half" ELSE link[d]]
        /\ userConnMap' = [userConnMap EXCEPT ![s][u] = c]
        /\ cmds' = [cmds EXCEPT ![s] = @ \o <<[op |-> "unsubscribe", user |-> u],
                                               [op |-> "subscribe", user |-> u]>>]
        /\ Goto(c, "setOnline")
        /\ UNCHANGED <<client, inbox, view, sent, connectionLastTime, db, subs, bus, obs, locals>>

Register(c) ==
    /\ pc[c] = "register"
    /\ userConnMap' = [userConnMap EXCEPT ![ServerOf[c]][UserOf[c]] = c]
    /\ Goto(c, "subscribe")
    /\ UNCHANGED <<net, connectionLastTime, db, redis, locals>>

Subscribe(c) ==
    /\ pc[c] = "subscribe"
    /\ Command(ServerOf[c], "subscribe", UserOf[c])
    /\ Goto(c, "setOnline")
    /\ UNCHANGED <<net, tables, db, subs, bus, obs, locals>>

SetOnline(c) ==
    /\ pc[c] = "setOnline"
    /\ state' = [state EXCEPT ![UserOf[c]] = "online"]
    /\ Goto(c, "fetch")
    /\ UNCHANGED <<net, tables, offline, redis, locals>>

(* _offlineMsgModel.query: the rows of the user, none if MySQL fails *)
FetchOffline(c) ==
    /\ pc[c] = "fetch"
    /\ \E vec \in {offline[UserOf[c]], <<>>} : got' = [got EXCEPT ![c] = vec]
    /\ Goto(c, "friends")
    /\ UNCHANGED <<net, tables, db, redis, snap, routing>>

(* _friendModel.query, or no friends if MySQL fails; the group lists that  *)
(* follow are for display only                                             *)
QueryFriends(c) ==
    /\ pc[c] = "friends"
    /\ \E states \in {state, Nobody} : snap' = [snap EXCEPT ![c] = states]
    /\ Goto(c, "ack")
    /\ UNCHANGED <<net, tables, db, redis, got, routing>>

(* LOGIN_MSG_ACK carries the offline messages and the friends' states; it  *)
(* reaches the client only if the connection has not been shut down.       *)
Ack(c) ==
    /\ pc[c] = "ack"
    /\ \/ /\ link[c] = "open"
          /\ client' = [client EXCEPT ![c] = "in"]
          /\ inbox' = [inbox EXCEPT ![c] = @ \o got[c]]
          /\ view' = [view EXCEPT ![c] =
                         [u \in Users |-> IF u \in Friends[UserOf[c]] THEN snap[c][u] ELSE @[u]]]
       \/ /\ link[c] # "open"
          /\ UNCHANGED <<client, inbox, view>>
    /\ Goto(c, IF got[c] # <<>> THEN "remove" ELSE "notify")
    /\ UNCHANGED <<link, sent, tables, db, redis, locals>>

(* _offlineMsgModel.remove deletes every row of the user, or returns       *)
(* without a word                                                          *)
RemoveOffline(c) ==
    /\ pc[c] = "remove"
    /\ \/ offline' = [offline EXCEPT ![UserOf[c]] = <<>>]
       \/ UNCHANGED offline
    /\ Goto(c, "notify")
    /\ UNCHANGED <<net, tables, state, redis, locals>>

----------------------------------------------------------------------------
(* loginout and clientCloseException *)

(* LOGINOUT_MSG erases the user's registration, whichever connection it    *)
(* names.                                                                  *)
Logout(c) ==
    /\ Receive(c)
    /\ client[c] = "in"
    /\ client' = [client EXCEPT ![c] = "out"]
    /\ userConnMap' = [userConnMap EXCEPT ![ServerOf[c]][UserOf[c]] = NoConn]
    /\ Goto(c, "unsubscribe")
    /\ UNCHANGED <<link, inbox, view, sent, db, redis, locals>>

(* The peer closed the connection, or what shutdown() began is complete:   *)
(* muduo calls onConnection with a connection that is no longer connected. *)
PeerClose(c) ==
    /\ pc[c] = "idle"
    /\ link[c] # "down"
    /\ link' = [link EXCEPT ![c] = "down"]
    /\ Goto(c, "close")
    /\ UNCHANGED <<client, inbox, view, sent, tables, db, redis, locals>>

(* Mutant: the user's registration is erased, whichever connection it names *)
CloseErasesAny(c) ==
    /\ pc[c] = "close"
    /\ client[c] \in {"wait", "in"}
    /\ userConnMap' = [userConnMap EXCEPT ![ServerOf[c]][UserOf[c]] = NoConn]
    /\ Goto(c, "unsubscribe")
    /\ UNCHANGED <<net, connectionLastTime, db, redis, locals>>

(* Only the registration that names this very connection is erased; if     *)
(* there is none, unsubscribe(-1) is without effect.                       *)
CloseErase(c) ==
    /\ pc[c] = "close"
    /\ \/ /\ Registered(c) = c
          /\ userConnMap' = [userConnMap EXCEPT ![ServerOf[c]][UserOf[c]] = NoConn]
          /\ Goto(c, "unsubscribe")
       \/ /\ Registered(c) # c
          /\ Goto(c, "forget")
          /\ UNCHANGED userConnMap
    /\ UNCHANGED <<net, connectionLastTime, db, redis, locals>>

Unsubscribe(c) ==
    /\ pc[c] = "unsubscribe"
    /\ Command(ServerOf[c], "unsubscribe", UserOf[c])
    /\ Goto(c, "untrack")
    /\ UNCHANGED <<net, tables, db, subs, bus, obs, locals>>

(* Mutant: the heartbeat entry is left behind *)
UntrackNothing(c) ==
    /\ pc[c] \in {"untrack", "forget"}
    /\ Goto(c, IF pc[c] = "untrack" THEN "setOffline" ELSE "idle")
    /\ UNCHANGED <<net, tables, db, redis, locals>>

Untrack(c) ==
    /\ pc[c] \in {"untrack", "forget"}
    /\ connectionLastTime' = connectionLastTime \ {c}
    /\ Goto(c, IF pc[c] = "untrack" THEN "setOffline" ELSE "idle")
    /\ UNCHANGED <<net, userConnMap, db, redis, locals>>

SetOffline(c) ==
    /\ pc[c] = "setOffline"
    /\ state' = [state EXCEPT ![UserOf[c]] = "offline"]
    /\ Goto(c, "notify")
    /\ UNCHANGED <<net, tables, offline, redis, locals>>

----------------------------------------------------------------------------
(* Sending: notifyFriendState, oneChat, groupChat *)

(* notifyFriendState: the friends registered here are told directly, the   *)
(* others through Redis, whether they are online or not; nobody if the     *)
(* query of the friends fails.                                             *)
NotifyFriendState(c) ==
    LET here == userConnMap[ServerOf[c]]
    IN  /\ pc[c] = "notify"
        /\ payload' = [payload EXCEPT ![c] = News(c)]
        /\ \E friends \in {Friends[UserOf[c]], {}} :
              /\ near' = [near EXCEPT ![c] = {here[u] : u \in friends} \ {NoConn}]
              /\ far' = [far EXCEPT ![c] = {u \in friends : here[u] = NoConn}]
        /\ Goto(c, "send")
        /\ UNCHANGED <<net, tables, db, redis, got, snap, todo, aim>>

(* A client that has seen its ACK sends a message of its user *)
Send(c, m) ==
    /\ Receive(c)
    /\ client[c] = "in"
    /\ m \notin sent
    /\ From[m] = UserOf[c]
    /\ sent' = sent \cup {m}
    /\ payload' = [payload EXCEPT ![c] = m]
    /\ Goto(c, "send")

(* oneChat looks the addressee up; the send follows outside the lock *)
OneChat(c, m) ==
    LET here == userConnMap[ServerOf[c]]
    IN  /\ m \notin GroupMsgs
        /\ Send(c, m)
        /\ near' = [near EXCEPT ![c] = {here[u] : u \in To[m]} \ {NoConn}]
        /\ todo' = [todo EXCEPT ![c] = {u \in To[m] : here[u] = NoConn}]
        /\ UNCHANGED <<link, client, inbox, view, userConnMap, db, redis, got, snap, far, aim>>

(* Mutant: the members who were sent the message are looked up as well *)
GroupChatTwice(c, m) ==
    LET here == userConnMap[ServerOf[c]]
        reached == {d \in Conns : Shows(d) /\ \E u \in To[m] : here[u] = d}
    IN  /\ m \in GroupMsgs
        /\ Send(c, m)
        /\ inbox' = [d \in Conns |-> IF d \in reached THEN Append(inbox[d], m) ELSE inbox[d]]
        /\ todo' = [todo EXCEPT ![c] = To[m]]
        /\ UNCHANGED <<link, client, view, userConnMap, db, redis, got, snap, near, far, aim>>

(* groupChat sends to the members registered here while it holds the lock; *)
(* to nobody if the query of the members fails                             *)
GroupChat(c, m) ==
    LET here == userConnMap[ServerOf[c]]
        Reached(members) == {d \in Conns : Shows(d) /\ \E u \in members : here[u] = d}
    IN  /\ m \in GroupMsgs
        /\ Send(c, m)
        /\ \E members \in {To[m], {}} :
              /\ inbox' = [d \in Conns |-> IF d \in Reached(members)
                                            THEN Append(inbox[d], m) ELSE inbox[d]]
              /\ todo' = [todo EXCEPT ![c] = {u \in members : here[u] = NoConn}]
        /\ UNCHANGED <<link, client, view, userConnMap, db, redis, got, snap, near, far, aim>>

SendNear(c) ==
    /\ pc[c] = "send"
    /\ \E d \in near[c] :
          /\ Deliver(d, payload[c])
          /\ near' = [near EXCEPT ![c] = @ \ {d}]
    /\ UNCHANGED <<link, client, sent, pc, tables, db, redis, got, snap, payload, far, todo, aim>>

(* _userModel.query of an addressee who is not registered here: one that   *)
(* is online somewhere is published to afterwards; anybody else, and       *)
(* everybody if the query fails (User() is offline), ...                   *)
LookUp(c) ==
    /\ pc[c] = "send"
    /\ aim[c] = {}
    /\ \E u \in todo[c] :
          /\ todo' = [todo EXCEPT ![c] = @ \ {u}]
          /\ \/ /\ state[u] = "online"
                /\ far' = [far EXCEPT ![c] = @ \cup {u}]
                /\ UNCHANGED aim
             \/ /\ aim' = [aim EXCEPT ![c] = {u}]
                /\ UNCHANGED far
    /\ UNCHANGED <<net, pc, tables, db, redis, got, snap, payload, near>>

(* ... has the message stored at once, or dropped without a word: no       *)
(* connection, a failed insert, or one longer than its buffer              *)
StoreOffline(c) ==
    /\ pc[c] = "send"
    /\ \E u \in aim[c] : Store(u, payload[c])
    /\ aim' = [aim EXCEPT ![c] = {}]
    /\ UNCHANGED <<net, pc, tables, state, redis, got, snap, payload, near, far, todo>>

(* _redis.publish: every server that Redis knows to be subscribed gets it *)
Publish(c) ==
    /\ pc[c] = "send"
    /\ near[c] = {} /\ todo[c] = {} /\ aim[c] = {}
    /\ \E u \in far[c] :
          /\ bus' = [s \in Servers |->
                        IF u \in subs[s]
                        THEN Append(bus[s], [to |-> u, what |-> payload[c]]) ELSE bus[s]]
          /\ far' = [far EXCEPT ![c] = @ \ {u}]
    /\ UNCHANGED <<net, pc, tables, db, subs, cmds, obs, got, snap, payload, near, todo, aim>>

(* The handler returns; its locals are gone *)
Return(c) ==
    /\ pc[c] = "send"
    /\ near[c] = {} /\ todo[c] = {} /\ aim[c] = {} /\ far[c] = {}
    /\ payload' = [payload EXCEPT ![c] = NoJob]
    /\ got' = [got EXCEPT ![c] = <<>>]
    /\ snap' = [snap EXCEPT ![c] = Nobody]
    /\ Goto(c, "idle")
    /\ UNCHANGED <<net, tables, db, redis, near, far, todo, aim>>

----------------------------------------------------------------------------
(* Redis and the observer thread of a server (handleRedisSubscribeMessage) *)

RedisSubscription(s) ==
    /\ cmds[s] # <<>>
    /\ cmds' = [cmds EXCEPT ![s] = Tail(@)]
    /\ LET cmd == Head(cmds[s])
       IN  subs' = [subs EXCEPT ![s] = IF cmd.op = "subscribe"
                                        THEN @ \cup {cmd.user} ELSE @ \ {cmd.user}]
    /\ UNCHANGED <<net, pc, tables, db, bus, obs, locals>>

ObserverLookUp(s) ==
    /\ obs[s] = NoJob
    /\ bus[s] # <<>>
    /\ bus' = [bus EXCEPT ![s] = Tail(@)]
    /\ LET e == Head(bus[s])
       IN  obs' = [obs EXCEPT ![s] =
                     [to |-> e.to, what |-> e.what, conn |-> userConnMap[s][e.to]]]
    /\ UNCHANGED <<net, pc, tables, db, subs, cmds, locals>>

(* Sent on if the user is registered here; otherwise a state notice is     *)
(* dropped and a message is stored (or not).                               *)
ObserverForward(s) ==
    LET job == obs[s]
    IN  /\ job # NoJob
        /\ \/ /\ job.conn # NoConn
              /\ Deliver(job.conn, job.what)
              /\ UNCHANGED offline
           \/ /\ job.conn = NoConn
              /\ job.what \notin Msgs
              /\ UNCHANGED <<inbox, view, offline>>
           \/ /\ job.conn = NoConn
              /\ job.what \in Msgs
              /\ Store(job.to, job.what)
              /\ UNCHANGED <<inbox, view>>
        /\ obs' = [obs EXCEPT ![s] = NoJob]
        /\ UNCHANGED <<link, client, sent, pc, tables, state, subs, cmds, bus, locals>>

(* checkHeartbeat: a connection of the table has been silent for 30 s *)
HeartbeatTimeout(c) ==
    /\ c \in connectionLastTime
    /\ link[c] = "open"
    /\ link' = [link EXCEPT ![c] = "half"]
    /\ UNCHANGED <<client, inbox, view, sent, pc, tables, db, redis, locals>>

----------------------------------------------------------------------------
(* The next step of the handler that runs on c *)
HandlerStep(c) ==
    \/ Relogin(c) \/ Register(c) \/ Subscribe(c) \/ SetOnline(c) \/ FetchOffline(c)
    \/ QueryFriends(c) \/ Ack(c) \/ RemoveOffline(c)
    \/ CloseErase(c) \/ Unsubscribe(c) \/ Untrack(c) \/ SetOffline(c)
    \/ NotifyFriendState(c) \/ SendNear(c) \/ LookUp(c) \/ StoreOffline(c)
    \/ Publish(c) \/ Return(c)

(* What clients and the network may do to c *)
ClientStep(c) ==
    \/ Login(c) \/ Logout(c) \/ PeerClose(c) \/ Heartbeat(c)
    \/ \E m \in Msgs : OneChat(c, m) \/ GroupChat(c, m)

ServerStep(s) == RedisSubscription(s) \/ ObserverLookUp(s) \/ ObserverForward(s)

Next ==
    \/ \E c \in Conns : HandlerStep(c) \/ ClientStep(c) \/ HeartbeatTimeout(c)
    \/ \E s \in Servers : ServerStep(s)

Spec == Init /\ [][Next]_vars

(* Every handler runs on, Redis works off what it is sent and the observer *)
(* threads run.  Nothing is assumed of the clients or of the clock.        *)
Fairness ==
    /\ \A c \in Conns : WF_vars(HandlerStep(c))
    /\ \A s \in Servers : WF_vars(ServerStep(s))

FairSpec == Spec /\ Fairness

----------------------------------------------------------------------------
LoginLabels == {"relogin", "register", "subscribe", "setOnline", "fetch", "friends",
                "ack", "remove"}
LeaveLabels == {"unsubscribe", "untrack", "setOffline"}
Labels == {"idle", "close", "forget", "notify", "send"} \cup LoginLabels \cup LeaveLabels

States == {"online", "offline"}
Notices == [of : Users, is : States]
Payloads == Msgs \cup Notices
Jobs == [to : Users, what : Payloads, conn : Conns \cup {NoConn}]

(* Chat messages, state notices and "nothing" are told apart *)
ASSUME MessageAssumption ==
    /\ Msgs \cap Notices = {}
    /\ NoJob \notin Payloads \cup Jobs

TypeOK ==
    /\ link \in [Conns -> {"open", "half", "down"}]
    /\ client \in [Conns -> {"fresh", "wait", "in", "out"}]
    /\ inbox \in [Conns -> Seq(Msgs)]
    /\ view \in [Conns -> [Users -> States]]
    /\ sent \subseteq Msgs
    /\ pc \in [Conns -> Labels]
    /\ userConnMap \in [Servers -> [Users -> Conns \cup {NoConn}]]
    /\ connectionLastTime \subseteq Conns
    /\ state \in [Users -> States]
    /\ offline \in [Users -> Seq(Msgs)]
    /\ subs \in [Servers -> SUBSET Users]
    /\ cmds \in [Servers -> Seq([op : {"subscribe", "unsubscribe"}, user : Users])]
    /\ bus \in [Servers -> Seq([to : Users, what : Payloads])]
    /\ obs \in [Servers -> Jobs \cup {NoJob}]
    /\ got \in [Conns -> Seq(Msgs)]
    /\ snap \in [Conns -> [Users -> States]]
    /\ payload \in [Conns -> Payloads \cup {NoJob}]
    /\ near \in [Conns -> SUBSET Conns]
    /\ far \in [Conns -> SUBSET Users]
    /\ todo \in [Conns -> SUBSET Users]
    /\ aim \in [Conns -> SUBSET Users]

(* _connectionLastTime does not leak: a connection that is down leaves the *)
(* table before its close handler ends.                                    *)
NoTrackedGhost ==
    \A c \in connectionLastTime :
        link[c] = "down" => pc[c] \in {"close", "forget", "unsubscribe", "untrack"}

============================================================================
