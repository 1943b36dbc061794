------------------------- MODULE ChatPresenceProofs -------------------------
(***************************************************************************)
(* Proofs about sessions and presence, for any servers, users and          *)
(* connections.  First the session table and the heartbeat table, which    *)
(* stay sound under every interleaving of the handlers (with one user on a *)
(* connection, as ChatService has it); then where a user is according to   *)
(* MySQL, to the session tables and to Redis, which agrees, also across    *)
(* exits and crashes of processes and lost writes, unless the history      *)
(* records that the user's handlers have run into each other.              *)
(***************************************************************************)
EXTENDS ChatLifecycle, TLAPS

core == <<link, client, pc, userConnMap, connectionLastTime>>

CoreTypes ==
    /\ link \in [Conns -> {"open", "half", "down"}]
    /\ client \in [Conns -> {"fresh", "wait", "in", "out"}]
    /\ pc \in [Conns -> Labels]
    /\ userConnMap \in [Servers -> [Users -> Conns \cup {NoConn}]]
    /\ connectionLastTime \subseteq Conns

(* While login runs the connection is up, tracked, and not logged out *)
LoginOnLive ==
    \A c \in Conns : pc[c] \in LoginLabels =>
        /\ client[c] \in {"wait", "in"}
        /\ link[c] # "down"
        /\ c \in connectionLastTime

(* The leaving steps run only for a client that logged out or is gone *)
LeaveWhenGone ==
    \A c \in Conns :
        /\ pc[c] \in LeaveLabels => client[c] = "out" \/ link[c] = "down"
        /\ pc[c] \in {"close", "forget"} => link[c] = "down"

(* An entry of _userConnMap names a connection of that user and server     *)
(* that is still up (or whose close handler is about to erase the entry),  *)
(* has not logged out, and is watched by the heartbeat check               *)
EntriesLive ==
    \A s \in Servers, u \in Users :
        LET c == userConnMap[s][u]
        IN  c # NoConn =>
              /\ ServerOf[c] = s /\ UserOf[c] = u
              /\ client[c] \in {"wait", "in"}
              /\ link[c] = "down" => pc[c] = "close"
              /\ c \in connectionLastTime

SessionInv ==
    /\ CoreTypes
    /\ LoginOnLive
    /\ LeaveWhenGone
    /\ EntriesLive
    /\ NoTrackedGhost

ClosingLabels == {"close", "forget", "unsubscribe", "untrack"}

(* At the start there are no sessions *)
LEMMA InitSession == Init => SessionInv
<1> SUFFICES ASSUME Init PROVE SessionInv
    OBVIOUS
<1>1. CoreTypes
    BY DEF Init, CoreTypes, Labels
<1>2. LoginOnLive /\ LeaveWhenGone
    BY DEF Init, LoginOnLive, LeaveWhenGone, LoginLabels, LeaveLabels
<1>3. EntriesLive /\ NoTrackedGhost
    BY DEF Init, EntriesLive, NoTrackedGhost
<1> QED
    BY <1>1, <1>2, <1>3 DEF SessionInv

(* A handler moves on without touching a session *)
LEMMA MoveStep ==
    ASSUME SessionInv,
           UNCHANGED <<link, client, userConnMap, connectionLastTime>>,
           NEW c \in Conns, NEW l \in Labels, Goto(c, l),
           pc[c] # "close",
           l \notin {"close", "forget"},
           l \in LoginLabels => pc[c] \in LoginLabels,
           l \in LeaveLabels => pc[c] \in LeaveLabels,
           pc[c] \in ClosingLabels => l \in ClosingLabels
    PROVE  SessionInv'
<1> USE DEF SessionInv, CoreTypes
<1>1. pc' = [pc EXCEPT ![c] = l]
    BY DEF Goto
<1>2. CoreTypes'
    BY <1>1
<1>3. LoginOnLive' /\ LeaveWhenGone'
    BY <1>1 DEF LoginOnLive, LeaveWhenGone
<1>4. EntriesLive'
    BY <1>1 DEF EntriesLive
<1>5. NoTrackedGhost'
    BY <1>1 DEF NoTrackedGhost, ClosingLabels
<1> QED
    BY <1>2, <1>3, <1>4, <1>5

(* A message of a client that is not logging in or out *)
LEMMA TouchStep ==
    ASSUME SessionInv, NEW c \in Conns, Receive(c),
           UNCHANGED <<link, client, userConnMap>>,
           pc' = pc \/ Goto(c, "send")
    PROVE  SessionInv'
<1> USE DEF SessionInv, CoreTypes
<1>1. /\ connectionLastTime' = connectionLastTime \cup {c}
      /\ link[c] # "down"
      /\ pc[c] = "idle"
      /\ pc' \in [Conns -> Labels]
      /\ \A d \in Conns : pc'[d] # pc[d] => d = c /\ pc'[d] = "send"
    BY DEF Receive, Goto, Labels
<1>2. CoreTypes'
    BY <1>1
<1>3. LoginOnLive' /\ LeaveWhenGone'
    BY <1>1 DEF LoginOnLive, LeaveWhenGone, LoginLabels, LeaveLabels
<1>4. EntriesLive'
    BY <1>1 DEF EntriesLive
<1>5. NoTrackedGhost'
    BY <1>1 DEF NoTrackedGhost
<1> QED
    BY <1>2, <1>3, <1>4, <1>5

(* Registering a connection of a running login, whatever it replaces *)
LEMMA RegisterStep ==
    ASSUME SessionInv, NEW c \in Conns, pc[c] \in {"relogin", "register"},
           NEW l \in {"subscribe", "setOnline"}, Goto(c, l),
           userConnMap' = [userConnMap EXCEPT ![ServerOf[c]][UserOf[c]] = c],
           UNCHANGED <<client, connectionLastTime>>,
           link' \in [Conns -> {"open", "half", "down"}],
           \A d \in Conns : link'[d] = "down" <=> link[d] = "down"
    PROVE  SessionInv'
<1> USE DEF SessionInv, CoreTypes
<1>1. /\ pc' = [pc EXCEPT ![c] = l]
      /\ l \in LoginLabels /\ pc[c] \in LoginLabels /\ l \in Labels
    BY DEF Goto, LoginLabels, Labels
<1>2. ServerOf[c] \in Servers /\ UserOf[c] \in Users
    BY ChatAssumption
<1>3. CoreTypes'
    BY <1>1, <1>2
<1>4. LoginOnLive' /\ LeaveWhenGone'
    BY <1>1 DEF LoginOnLive, LeaveWhenGone, LoginLabels, LeaveLabels
<1>5. EntriesLive'
    <2> SUFFICES ASSUME NEW s \in Servers, NEW u \in Users,
                        userConnMap'[s][u] # NoConn
                 PROVE  /\ ServerOf[userConnMap'[s][u]] = s
                        /\ UserOf[userConnMap'[s][u]] = u
                        /\ client'[userConnMap'[s][u]] \in {"wait", "in"}
                        /\ link'[userConnMap'[s][u]] = "down"
                              => pc'[userConnMap'[s][u]] = "close"
                        /\ userConnMap'[s][u] \in connectionLastTime'
        BY DEF EntriesLive
    <2>1. CASE s = ServerOf[c] /\ u = UserOf[c]
        <3>1. userConnMap'[s][u] = c
            BY <1>2, <2>1
        <3> QED
            BY <1>1, <2>1, <3>1 DEF LoginOnLive
    <2>2. CASE ~(s = ServerOf[c] /\ u = UserOf[c])
        <3>1. userConnMap'[s][u] = userConnMap[s][u]
            BY <1>2, <2>2
        <3>2. userConnMap[s][u] \in Conns
            BY <3>1
        <3>3. userConnMap[s][u] # c
            BY <2>2, <3>1 DEF EntriesLive
        <3> QED
            BY <1>1, <3>1, <3>2, <3>3 DEF EntriesLive
    <2> QED
        BY <2>1, <2>2
<1>6. NoTrackedGhost'
    BY <1>1 DEF NoTrackedGhost, LoginLabels
<1> QED
    BY <1>3, <1>4, <1>5, <1>6

(* A login begins *)
LEMMA LoginSession ==
    ASSUME SessionInv, NEW c \in Conns, Login(c)
    PROVE  SessionInv'
<1> USE DEF SessionInv, CoreTypes
<1>1. PICK l \in {"relogin", "register"} : pc' = [pc EXCEPT ![c] = l]
    BY DEF Login, Goto
<1>2. /\ pc[c] = "idle" /\ link[c] # "down" /\ client[c] = "fresh"
      /\ connectionLastTime' = connectionLastTime \cup {c}
      /\ client' = [client EXCEPT ![c] = "wait"]
      /\ UNCHANGED <<link, userConnMap>>
    BY DEF Login, Receive
<1>3. CoreTypes'
    BY <1>1, <1>2 DEF Labels, LoginLabels
<1>4. LoginOnLive' /\ LeaveWhenGone'
    BY <1>1, <1>2 DEF LoginOnLive, LeaveWhenGone, LoginLabels, LeaveLabels
<1>5. EntriesLive'
    BY <1>1, <1>2 DEF EntriesLive
<1>6. NoTrackedGhost'
    BY <1>1, <1>2 DEF NoTrackedGhost
<1> QED
    BY <1>3, <1>4, <1>5, <1>6

(* LOGIN_MSG_ACK is sent *)
LEMMA AckSession ==
    ASSUME SessionInv, NEW c \in Conns, Ack(c)
    PROVE  SessionInv'
<1> USE DEF SessionInv, CoreTypes
<1>1. PICK l \in {"remove", "notify"} : pc' = [pc EXCEPT ![c] = l]
    BY DEF Ack, Goto
<1>2. /\ pc[c] = "ack" /\ UNCHANGED <<link, userConnMap, connectionLastTime>>
      /\ client' \in [Conns -> {"fresh", "wait", "in", "out"}]
      /\ \A d \in Conns : client'[d] # client[d] => d = c /\ client'[d] = "in"
    BY DEF Ack, tables
<1>3. CoreTypes'
    BY <1>1, <1>2 DEF Labels, LoginLabels
<1>4. client[c] \in {"wait", "in"}
    BY <1>2 DEF LoginOnLive, LoginLabels
<1>5. LoginOnLive' /\ LeaveWhenGone'
    BY <1>1, <1>2, <1>4 DEF LoginOnLive, LeaveWhenGone, LoginLabels, LeaveLabels
<1>6. EntriesLive'
    BY <1>1, <1>2 DEF EntriesLive
<1>7. NoTrackedGhost'
    BY <1>1, <1>2 DEF NoTrackedGhost
<1> QED
    BY <1>3, <1>5, <1>6, <1>7

(* Logout and the close handler erase an entry of the session table; no    *)
(* other connection's entry is touched, and c has none left.               *)
LEMMA EraseStep ==
    ASSUME SessionInv, NEW c \in Conns,
           userConnMap' = [userConnMap EXCEPT ![ServerOf[c]][UserOf[c]] = NoConn],
           NEW s \in Servers, NEW u \in Users, userConnMap'[s][u] # NoConn
    PROVE  userConnMap'[s][u] = userConnMap[s][u] /\ userConnMap[s][u] \in Conns \ {c}
<1>1. /\ ServerOf[c] \in Servers /\ UserOf[c] \in Users
      /\ userConnMap \in [Servers -> [Users -> Conns \cup {NoConn}]]
    BY ChatAssumption DEF SessionInv, CoreTypes
<1>2. userConnMap'[s][u] = userConnMap[s][u] /\ ~(s = ServerOf[c] /\ u = UserOf[c])
    BY <1>1
<1> QED
    BY <1>1, <1>2 DEF SessionInv, EntriesLive

(* LOGINOUT_MSG erases the registration of its user *)
LEMMA LogoutSession ==
    ASSUME SessionInv, NEW c \in Conns, Logout(c)
    PROVE  SessionInv'
<1> USE DEF SessionInv, CoreTypes
<1>1. /\ pc[c] = "idle" /\ link[c] # "down" /\ client[c] = "in"
      /\ connectionLastTime' = connectionLastTime \cup {c}
      /\ client' = [client EXCEPT ![c] = "out"]
      /\ pc' = [pc EXCEPT ![c] = "unsubscribe"]
      /\ userConnMap' = [userConnMap EXCEPT ![ServerOf[c]][UserOf[c]] = NoConn]
      /\ UNCHANGED link
    BY DEF Logout, Receive, Goto
<1>2. CoreTypes'
    BY <1>1, ChatAssumption DEF Labels, LeaveLabels
<1>3. LoginOnLive' /\ LeaveWhenGone'
    BY <1>1 DEF LoginOnLive, LeaveWhenGone, LoginLabels, LeaveLabels
<1>4. EntriesLive'
    BY <1>1, EraseStep DEF EntriesLive
<1>5. NoTrackedGhost'
    BY <1>1 DEF NoTrackedGhost
<1> QED
    BY <1>2, <1>3, <1>4, <1>5

(* The peer closes a connection *)
LEMMA PeerCloseSession ==
    ASSUME SessionInv, NEW c \in Conns, PeerClose(c)
    PROVE  SessionInv'
<1> USE DEF SessionInv, CoreTypes
<1>1. /\ pc[c] = "idle"
      /\ link' = [link EXCEPT ![c] = "down"]
      /\ pc' = [pc EXCEPT ![c] = "close"]
      /\ UNCHANGED <<client, userConnMap, connectionLastTime>>
    BY DEF PeerClose, Goto, tables
<1>2. CoreTypes'
    BY <1>1 DEF Labels
<1>3. LoginOnLive' /\ LeaveWhenGone'
    BY <1>1 DEF LoginOnLive, LeaveWhenGone, LoginLabels, LeaveLabels
<1>4. EntriesLive'
    BY <1>1 DEF EntriesLive
<1>5. NoTrackedGhost'
    BY <1>1 DEF NoTrackedGhost
<1> QED
    BY <1>2, <1>3, <1>4, <1>5

(* The close handler erases the registration that names its connection *)
LEMMA CloseEraseSession ==
    ASSUME SessionInv, NEW c \in Conns, CloseErase(c)
    PROVE  SessionInv'
<1> USE DEF SessionInv, CoreTypes
<1>1. pc[c] = "close" /\ UNCHANGED <<link, client, connectionLastTime>>
    BY DEF CloseErase, net
<1>2. link[c] = "down"
    BY <1>1 DEF LeaveWhenGone
<1>3. PICK l \in {"unsubscribe", "forget"} : pc' = [pc EXCEPT ![c] = l]
    BY DEF CloseErase, Goto
<1>4. ASSUME NEW s \in Servers, NEW u \in Users, userConnMap'[s][u] # NoConn
      PROVE  userConnMap'[s][u] = userConnMap[s][u] /\ userConnMap[s][u] \in Conns \ {c}
    <2>1. CASE userConnMap' = [userConnMap EXCEPT ![ServerOf[c]][UserOf[c]] = NoConn]
        BY <1>4, <2>1, EraseStep
    <2>2. CASE Registered(c) # c /\ UNCHANGED userConnMap
        BY <1>4, <2>2 DEF Registered, EntriesLive
    <2> QED
        BY <2>1, <2>2 DEF CloseErase
<1>5. userConnMap' \in [Servers -> [Users -> Conns \cup {NoConn}]]
    <2>1. \/ userConnMap' = userConnMap
          \/ userConnMap' = [userConnMap EXCEPT ![ServerOf[c]][UserOf[c]] = NoConn]
        BY DEF CloseErase
    <2>2. ServerOf[c] \in Servers /\ UserOf[c] \in Users
        BY ChatAssumption
    <2> QED
        BY <2>1, <2>2
<1>6. CoreTypes'
    BY <1>1, <1>3, <1>5 DEF Labels, LeaveLabels
<1>7. LoginOnLive' /\ LeaveWhenGone'
    BY <1>1, <1>2, <1>3 DEF LoginOnLive, LeaveWhenGone, LoginLabels, LeaveLabels
<1>8. EntriesLive'
    BY <1>1, <1>3, <1>4 DEF EntriesLive
<1>9. NoTrackedGhost'
    BY <1>1, <1>3 DEF NoTrackedGhost
<1> QED
    BY <1>6, <1>7, <1>8, <1>9

(* The close handler forgets the heartbeat of its connection *)
LEMMA UntrackSession ==
    ASSUME SessionInv, NEW c \in Conns, Untrack(c)
    PROVE  SessionInv'
<1> USE DEF SessionInv, CoreTypes
<1>1. /\ pc[c] \in {"untrack", "forget"}
      /\ connectionLastTime' = connectionLastTime \ {c}
      /\ UNCHANGED <<link, client, userConnMap>>
    BY DEF Untrack, net
<1>2. PICK l \in Labels : /\ pc' = [pc EXCEPT ![c] = l]
                          /\ pc[c] = "untrack" => l = "setOffline"
                          /\ pc[c] = "forget" => l = "idle"
    BY DEF Untrack, Goto, Labels, LeaveLabels
<1>3. client[c] = "out" \/ link[c] = "down"
    BY <1>1 DEF LeaveWhenGone, LeaveLabels
<1>4. CoreTypes'
    BY <1>1, <1>2
<1>5. LoginOnLive' /\ LeaveWhenGone'
    BY <1>1, <1>2, <1>3 DEF LoginOnLive, LeaveWhenGone, LoginLabels, LeaveLabels
<1>6. EntriesLive'
    BY <1>1, <1>2, <1>3 DEF EntriesLive
<1>7. NoTrackedGhost'
    BY <1>1, <1>2 DEF NoTrackedGhost
<1> QED
    BY <1>4, <1>5, <1>6, <1>7

(* checkHeartbeat shuts a silent connection down *)
LEMMA HeartbeatTimeoutSession ==
    ASSUME SessionInv, NEW c \in Conns, HeartbeatTimeout(c)
    PROVE  SessionInv'
<1> USE DEF SessionInv, CoreTypes
<1>1. /\ link[c] = "open"
      /\ link' = [link EXCEPT ![c] = "half"]
      /\ UNCHANGED <<client, pc, userConnMap, connectionLastTime>>
    BY DEF HeartbeatTimeout, tables
<1>2. CoreTypes' /\ LoginOnLive' /\ LeaveWhenGone'
    BY <1>1 DEF LoginOnLive, LeaveWhenGone
<1>3. EntriesLive' /\ NoTrackedGhost'
    BY <1>1 DEF EntriesLive, NoTrackedGhost
<1> QED
    BY <1>2, <1>3

(* Steps that touch no session at all *)
LEMMA CoreUnchanged ==
    ASSUME SessionInv, UNCHANGED core
    PROVE  SessionInv'
BY DEF core, SessionInv, CoreTypes, LoginOnLive, LeaveWhenGone, EntriesLive,
       NoTrackedGhost

(* Every step keeps the session tables sound *)
LEMMA NextSession == SessionInv /\ [Next]_vars => SessionInv'
<1> SUFFICES ASSUME SessionInv, [Next]_vars PROVE SessionInv'
    OBVIOUS
<1>1. ASSUME NEW c \in Conns, HandlerStep(c)
      PROVE  SessionInv'
    <2>1. CASE \/ Subscribe(c) \/ SetOnline(c) \/ FetchOffline(c) \/ QueryFriends(c)
               \/ RemoveOffline(c)
        <3>1. UNCHANGED <<link, client, userConnMap, connectionLastTime>>
            BY <2>1 DEF Subscribe, SetOnline, FetchOffline, QueryFriends, RemoveOffline,
                        net, tables
        <3>2. pc[c] \in LoginLabels /\ \E l \in LoginLabels \cup {"notify"} : Goto(c, l)
            BY <2>1 DEF Subscribe, SetOnline, FetchOffline, QueryFriends, RemoveOffline,
                        LoginLabels
        <3> QED
            BY <3>1, <3>2, MoveStep DEF Labels, LoginLabels, LeaveLabels, ClosingLabels
    <2>2. CASE Unsubscribe(c) \/ SetOffline(c)
        <3>1. UNCHANGED <<link, client, userConnMap, connectionLastTime>>
            BY <2>2 DEF Unsubscribe, SetOffline, net, tables
        <3>2. \/ pc[c] = "unsubscribe" /\ Goto(c, "untrack")
              \/ pc[c] = "setOffline" /\ Goto(c, "notify")
            BY <2>2 DEF Unsubscribe, SetOffline
        <3> QED
            BY <3>1, <3>2, MoveStep DEF Labels, LoginLabels, LeaveLabels, ClosingLabels
    <2>3. CASE NotifyFriendState(c) \/ Return(c)
        <3>1. UNCHANGED <<link, client, userConnMap, connectionLastTime>>
            BY <2>3 DEF NotifyFriendState, Return, net, tables
        <3>2. \/ pc[c] = "notify" /\ Goto(c, "send")
              \/ pc[c] = "send" /\ Goto(c, "idle")
            BY <2>3 DEF NotifyFriendState, Return
        <3> QED
            BY <3>1, <3>2, MoveStep DEF Labels, LoginLabels, LeaveLabels, ClosingLabels
    <2>4. CASE SendNear(c) \/ LookUp(c) \/ StoreOffline(c) \/ Publish(c)
        <3>1. UNCHANGED core
            BY <2>4 DEF SendNear, LookUp, StoreOffline, Publish, core, net, tables
        <3> QED
            BY <3>1, CoreUnchanged
    <2>5. CASE Relogin(c)
        <3>1. link \in [Conns -> {"open", "half", "down"}]
            BY DEF SessionInv, CoreTypes
        <3>2. /\ pc[c] = "relogin" /\ Goto(c, "setOnline")
              /\ userConnMap' = [userConnMap EXCEPT ![ServerOf[c]][UserOf[c]] = c]
              /\ UNCHANGED <<client, connectionLastTime>>
            BY <2>5 DEF Relogin
        <3>3. /\ link' \in [Conns -> {"open", "half", "down"}]
              /\ \A d \in Conns : link'[d] = "down" <=> link[d] = "down"
            BY <2>5, <3>1 DEF Relogin
        <3> QED
            BY <3>2, <3>3, RegisterStep
    <2>6. CASE Register(c)
        <3>1. /\ pc[c] = "register" /\ Goto(c, "subscribe")
              /\ userConnMap' = [userConnMap EXCEPT ![ServerOf[c]][UserOf[c]] = c]
              /\ UNCHANGED <<link, client, connectionLastTime>>
            BY <2>6 DEF Register, net
        <3>2. link \in [Conns -> {"open", "half", "down"}]
            BY DEF SessionInv, CoreTypes
        <3> QED
            BY <3>1, <3>2, RegisterStep
    <2> QED
        BY <1>1, <2>1, <2>2, <2>3, <2>4, <2>5, <2>6, AckSession, CloseEraseSession,
           UntrackSession DEF HandlerStep
<1>2. ASSUME NEW c \in Conns, ClientStep(c)
      PROVE  SessionInv'
    <2>1. CASE Heartbeat(c)
        BY <2>1, TouchStep DEF Heartbeat, net
    <2>2. ASSUME NEW m \in Msgs, OneChat(c, m) \/ GroupChat(c, m)
          PROVE  SessionInv'
        <3>1. Receive(c) /\ Goto(c, "send") /\ UNCHANGED <<link, client, userConnMap>>
            BY <2>2 DEF OneChat, GroupChat, Send
        <3> QED
            BY <3>1, TouchStep
    <2> QED
        BY <1>2, <2>1, <2>2, LoginSession, LogoutSession, PeerCloseSession DEF ClientStep
<1>3. ASSUME NEW s \in Servers, ServerStep(s)
      PROVE  SessionInv'
    <2>1. UNCHANGED core
        BY <1>3 DEF ServerStep, RedisSubscription, ObserverLookUp, ObserverForward,
                    core, net, tables
    <2> QED
        BY <2>1, CoreUnchanged
<1>4. CASE UNCHANGED vars
    <2>1. UNCHANGED core
        BY <1>4 DEF vars, core, net, tables
    <2> QED
        BY <2>1, CoreUnchanged
<1> QED
    BY <1>1, <1>2, <1>3, <1>4, HeartbeatTimeoutSession DEF Next

(* The inductive invariant of the sessions (login, loginout, checkHeartbeat *)
(* and clientCloseException): who is logging in is up and tracked, who is  *)
(* being logged out has left, and the tables name live connections.        *)
THEOREM SessionInvariant == Spec => []SessionInv
<1> QED
    BY InitSession, NextSession, PTL DEF Spec

(* No connection stays in _connectionLastTime after its close handler.     *)
THEOREM NoGhosts == Spec => []NoTrackedGhost
<1> QED
    BY SessionInvariant, PTL DEF SessionInv

----------------------------------------------------------------------------
Commands == [op : {"subscribe", "unsubscribe"}, user : Users]

RedisTypes ==
    /\ cmds \in [Servers -> Seq(Commands)] /\ subs \in [Servers -> SUBSET Users]
    /\ state \in [Users -> States]

(* The last command on a server's connection to Redis decides what Redis   *)
(* will have subscribed there                                              *)
Will(u, w, S) ==
    \/ u \in S /\ \A i \in 1..Len(w) : w[i].user # u
    \/ \E i \in 1..Len(w) : /\ w[i].op = "subscribe" /\ w[i].user = u
                            /\ \A j \in 1..Len(w) : j > i => w[j].user # u

WillHold(s, u) == Will(u, cmds[s], subs[s])

Entered == {"subscribe", "setOnline", "fetch", "friends", "ack", "remove"}

(* The session handler of u that runs, if any, has the user's registration *)
(* to itself; where u is registered, Redis will be subscribed, except that *)
(* the command follows the table                                           *)
Ways(u) ==
    /\ ~Racing(u)
    /\ \A c \in ConnsOf(u) :
          /\ pc[c] \in Entered => Registered(c) = c
          /\ pc[c] \in LeaveLabels => Homes(u) = {}
    /\ \A s \in Servers : (\A c \in ConnsOf(u) : ServerOf[c] = s => pc[c] # "subscribe") =>
          (WillHold(s, u) <=> \/ s \in Homes(u)
                              \/ \E c \in ConnsOf(u) : ServerOf[c] = s /\ pc[c] = "unsubscribe")

(* user.state says whether u is registered, except that it follows, too *)
Recorded(u) ==
    /\ (\A c \in ConnsOf(u) : pc[c] \notin {"subscribe", "setOnline"}) =>
          (state[u] = "online" <=> \/ Homes(u) # {}
                                   \/ \E c \in ConnsOf(u) : pc[c] \in LeaveLabels)
    /\ \A c \in ConnsOf(u) : pc[c] = "register" => Homes(u) = {}

(* Who sees messages is registered *)
Shown(u) == \A c \in ConnsOf(u) : Shows(c) => Registered(c) = c

----------------------------------------------------------------------------
(* What Redis will have subscribed, when a command is added, ... *)
LEMMA WillAppend ==
  ASSUME NEW w \in Seq(Commands), NEW m \in Commands, NEW u, NEW S
  PROVE  Will(u, Append(w, m), S) <=> IF m.user = u THEN m.op = "subscribe" ELSE Will(u, w, S)
<1> DEFINE a == Append(w, m)
<1>1. /\ Len(a) = Len(w) + 1 /\ Len(w) \in Nat /\ a[Len(w) + 1] = m
      /\ \A i \in 1..Len(w) : a[i] = w[i]
  OBVIOUS
<1>2. \A i \in 1..Len(a) : i \in 1..Len(w) \/ i = Len(w) + 1
  BY <1>1
<1>3. Len(w) + 1 \in 1..Len(a) /\ \A i \in 1..Len(w) : i \in 1..Len(a) /\ Len(w) + 1 > i
  BY <1>1
<1>4. \A j \in 1..Len(a) : ~(j > Len(w) + 1)
  BY <1>1
<1> HIDE DEF a
<1>5. CASE m.user = u
  <2>1. ~ \A i \in 1..Len(a) : a[i].user # u
    BY <1>1, <1>3, <1>5
  <2>2. ASSUME NEW i \in 1..Len(a), \A j \in 1..Len(a) : j > i => a[j].user # u
        PROVE  i = Len(w) + 1
    BY <1>1, <1>2, <1>3, <1>5, <2>2
  <2>3. m.op = "subscribe" => Will(u, a, S)
    BY <1>1, <1>3, <1>4, <1>5 DEF Will
  <2>4. Will(u, a, S) => m.op = "subscribe"
    BY <1>1, <2>1, <2>2 DEF Will
  <2> QED  BY <1>5, <2>3, <2>4 DEF a
<1>6. CASE m.user # u
  <2>1. (\A i \in 1..Len(a) : a[i].user # u) <=> \A i \in 1..Len(w) : w[i].user # u
    BY <1>1, <1>2, <1>3, <1>6
  <2>2. ASSUME NEW i \in 1..Len(w)
        PROVE  (\A j \in 1..Len(a) : j > i => a[j].user # u) <=> \A j \in 1..Len(w) : j > i => w[j].user # u
    BY <1>1, <1>2, <1>3, <1>6
  <2>3. Will(u, w, S) => Will(u, a, S)
    BY <1>1, <1>3, <2>1, <2>2 DEF Will
  <2>4. Will(u, a, S) => Will(u, w, S)
    BY <1>1, <1>2, <1>6, <2>1, <2>2 DEF Will
  <2> QED  BY <1>6, <2>3, <2>4 DEF a
<1> QED  BY <1>5, <1>6

(* ... or the first one carried out *)
LEMMA WillExecute ==
  ASSUME NEW w \in Seq(Commands), w # <<>>, NEW u, NEW S, NEW T,
         T = IF Head(w).op = "subscribe" THEN S \cup {Head(w).user} ELSE S \ {Head(w).user}
  PROVE  Will(u, Tail(w), T) <=> Will(u, w, S)
<1> DEFINE v == Tail(w)
           m == Head(w)
<1>1. /\ Len(w) \in Nat /\ Len(w) > 0 /\ Len(v) = Len(w) - 1 /\ m = w[1]
      /\ \A i \in 1..Len(v) : v[i] = w[i + 1] /\ i + 1 \in 1..Len(w)
  OBVIOUS
<1>2. /\ 1 \in 1..Len(w)
      /\ \A i \in 1..Len(w) : i = 1 \/ (i - 1 \in 1..Len(v) /\ v[i - 1] = w[i])
  <2>1. \A i \in 1..Len(w) : i = 1 \/ (i - 1 \in 1..Len(v) /\ (i - 1) + 1 = i)
    BY <1>1
  <2> QED  BY <1>1, <2>1
<1>3. u \in T <=> IF m.user = u THEN m.op = "subscribe" ELSE u \in S
  OBVIOUS
<1> HIDE DEF v, m
<1>4. (\A i \in 1..Len(v) : v[i].user # u) <=> \A i \in 1..Len(w) : i > 1 => w[i].user # u
  <2>1. ASSUME \A i \in 1..Len(v) : v[i].user # u, NEW i \in 1..Len(w), i > 1 PROVE w[i].user # u
    BY <1>2, <2>1
  <2>2. ASSUME \A i \in 1..Len(w) : i > 1 => w[i].user # u, NEW i \in 1..Len(v) PROVE v[i].user # u
    BY <1>1, <2>2
  <2> QED  BY <2>1, <2>2
<1>5. ASSUME NEW i \in 1..Len(v)
      PROVE  (\A j \in 1..Len(v) : j > i => v[j].user # u) <=> \A j \in 1..Len(w) : j > i + 1 => w[j].user # u
  <2>1. ASSUME \A j \in 1..Len(v) : j > i => v[j].user # u, NEW j \in 1..Len(w), j > i + 1
        PROVE  w[j].user # u
    <3>1. j - 1 \in 1..Len(v) /\ v[j - 1] = w[j] /\ j - 1 > i
      BY <1>2, <2>1
    <3> QED  BY <2>1, <3>1
  <2>2. ASSUME \A j \in 1..Len(w) : j > i + 1 => w[j].user # u, NEW j \in 1..Len(v), j > i
        PROVE  v[j].user # u
    <3>1. j + 1 \in 1..Len(w) /\ v[j] = w[j + 1] /\ j + 1 > i + 1
      BY <1>1, <2>2
    <3> QED  BY <2>2, <3>1
  <2> QED  BY <2>1, <2>2
<1>6. ASSUME Will(u, v, T) PROVE Will(u, w, S)
  <2>1. CASE u \in T /\ \A i \in 1..Len(v) : v[i].user # u
    <3>1. \A i \in 1..Len(w) : i > 1 => w[i].user # u
      BY <1>4, <2>1
    <3>2. CASE m.user = u
      <4>1. w[1].op = "subscribe" /\ w[1].user = u
        BY <1>1, <1>3, <2>1, <3>2
      <4> QED  BY <1>2, <3>1, <4>1 DEF Will
    <3>3. CASE m.user # u
      <4>1. \A i \in 1..Len(w) : w[i].user # u
        BY <1>1, <3>1, <3>3
      <4> QED  BY <1>3, <2>1, <3>3, <4>1 DEF Will
    <3> QED  BY <3>2, <3>3
  <2>2. ASSUME NEW i \in 1..Len(v), v[i].op = "subscribe", v[i].user = u,
               \A j \in 1..Len(v) : j > i => v[j].user # u
        PROVE  Will(u, w, S)
    <3>1. i + 1 \in 1..Len(w) /\ w[i + 1] = v[i]
      BY <1>1
    <3>2. \A j \in 1..Len(w) : j > i + 1 => w[j].user # u
      BY <1>5, <2>2
    <3> QED  BY <2>2, <3>1, <3>2 DEF Will
  <2> QED  BY <1>6, <2>1, <2>2 DEF Will
<1>7. ASSUME Will(u, w, S) PROVE Will(u, v, T)
  <2>1. CASE u \in S /\ \A i \in 1..Len(w) : w[i].user # u
    BY <1>1, <1>2, <1>3, <1>4, <2>1 DEF Will
  <2>2. ASSUME NEW i \in 1..Len(w), w[i].op = "subscribe", w[i].user = u,
               \A j \in 1..Len(w) : j > i => w[j].user # u
        PROVE  Will(u, v, T)
    <3>1. CASE i = 1
      BY <1>1, <1>3, <1>4, <2>2, <3>1 DEF Will
    <3>2. CASE i # 1
      <4>1. i - 1 \in 1..Len(v) /\ v[i - 1] = w[i] /\ (i - 1) + 1 = i
        BY <1>2, <3>2
      <4>2. \A j \in 1..Len(v) : j > i - 1 => v[j].user # u
        BY <1>5, <2>2, <4>1
      <4> QED  BY <2>2, <4>1, <4>2 DEF Will
    <3> QED  BY <3>1, <3>2
  <2> QED  BY <1>7, <2>1, <2>2 DEF Will
<1> QED  BY <1>6, <1>7 DEF v

----------------------------------------------------------------------------
(* A connection is its user's, on its server *)
LEMMA Own ==
  ASSUME NEW c \in Conns
  PROVE  UserOf[c] \in Users /\ ServerOf[c] \in Servers /\ c \in ConnsOf(UserOf[c]) /\ NoConn \notin Conns
BY ChatAssumption DEF ConnsOf

(* The session handler of a user that runs is alone, and one server has    *)
(* the user                                                                *)
LEMMA Alone ==
  ASSUME NEW u, ~Racing(u), NEW c \in ConnsOf(u), Contending(c)
  PROVE  \A d \in ConnsOf(u) : d # c => pc[d] \notin LoginLabels \cup LeaveLabels
BY DEF Racing, Contending

(* ... also after a step *)
LEMMA AloneNext ==
  ASSUME NEW u, ~Racing(u)', NEW c \in ConnsOf(u), pc'[c] \in LoginLabels \cup LeaveLabels
  PROVE  \A d \in ConnsOf(u) : d # c => pc'[d] \notin LoginLabels \cup LeaveLabels
BY DEF Racing, Contending, ConnsOf

(* One server has a user whose handlers have not run into each other, ... *)
LEMMA OneHome ==
  ASSUME NEW u \in Users, ~Racing(u), NEW s \in Homes(u), NEW r \in Homes(u)
  PROVE  s = r
BY DEF Racing

(* ... also after a step *)
LEMMA OneHomeNext ==
  ASSUME NEW u \in Users, ~Racing(u)', NEW s \in Homes(u)', NEW r \in Homes(u)'
  PROVE  s = r
BY DEF Racing

(* What a step may keep of a user *)
Kept(u) ==
    /\ Ways(u)'
    /\ Recorded(u) => Recorded(u)'
    /\ Recorded(u) /\ Shown(u) => Shown(u)'

(* A step in which nothing about u moves keeps it; its connections may be  *)
(* shut down                                                               *)
LEMMA Unmoved ==
  ASSUME NEW u \in Users, Ways(u),
         \A c \in ConnsOf(u) : pc'[c] = pc[c] /\ (Shows(c)' => Shows(c)),
         \A s \in Servers : userConnMap'[s][u] = userConnMap[s][u] /\ (WillHold(s, u)' <=> WillHold(s, u)),
         state'[u] = state[u]
  PROVE  Kept(u)
<1>1. \A c \in ConnsOf(u) : ServerOf[c] \in Servers /\ UserOf[c] = u /\ c \in Conns
  BY Own DEF ConnsOf
<1>2. \A c \in ConnsOf(u) : Registered(c)' = Registered(c)
  BY <1>1 DEF Registered
<1>3. Homes(u)' = Homes(u)
  BY DEF Homes
<1>4. ConnsOf(u)' = ConnsOf(u)
  BY DEF ConnsOf
<1>5. \A c \in ConnsOf(u) : Contending(c)' <=> Contending(c)
  BY <1>2 DEF Contending
<1>6. Racing(u)' <=> Racing(u)
  BY <1>3, <1>4, <1>5 DEF Racing
<1>7. Ways(u)'
  BY <1>1, <1>2, <1>3, <1>4, <1>6 DEF Ways
<1>8. Recorded(u) => Recorded(u)'
  BY <1>3, <1>4 DEF Recorded
<1>9. Shown(u) => Shown(u)'
  BY <1>2, <1>4 DEF Shown
<1> QED  BY <1>7, <1>8, <1>9 DEF Kept

(* A step on c that concerns only c's user *)
Away(c) ==
    /\ \A d \in Conns : d # c => pc'[d] = pc[d]
    /\ \A d \in Conns : UserOf[d] # UserOf[c] => (Shows(d)' => Shows(d))
    /\ \A s \in Servers, u \in Users : u # UserOf[c] =>
          userConnMap'[s][u] = userConnMap[s][u] /\ (WillHold(s, u)' <=> WillHold(s, u))
    /\ \A u \in Users : u # UserOf[c] => state'[u] = state[u]

(* Such a step keeps what is known of every other user *)
LEMMA AwayKept ==
  ASSUME NEW c \in Conns, Away(c), NEW u \in Users, u # UserOf[c], Ways(u)
  PROVE  Kept(u)
<1>1. \A d \in ConnsOf(u) : d \in Conns /\ d # c /\ UserOf[d] # UserOf[c]
  BY DEF ConnsOf
<1> QED  BY <1>1, Unmoved DEF Away

(* A handler that goes on without a change of where its user is *)
Still == UNCHANGED <<userConnMap, cmds, subs, state>>
Resting == {"idle", "notify", "send", "close", "forget"}
Inside == {"fetch", "friends", "ack", "remove"}

(* ... it keeps what is known of its user *)
LEMMA Onward ==
  ASSUME NEW c \in Conns, Still, NEW u \in Users, u = UserOf[c], Ways(u), ~Racing(u)',
         \A d \in Conns : d # c => pc'[d] = pc[d],
         pc[c] \in Resting \cup Inside, pc'[c] \in Resting \cup Inside, pc'[c] \in Inside => pc[c] \in Inside,
         \A d \in ConnsOf(u) : Shows(d)' => Shows(d) \/ Registered(d) = d
  PROVE  Kept(u)
<1>1. \A d \in ConnsOf(u) : ServerOf[d] \in Servers /\ UserOf[d] = u /\ d \in Conns
  BY Own DEF ConnsOf
<1>2. /\ \A d \in ConnsOf(u) : Registered(d)' = Registered(d)
      /\ Homes(u)' = Homes(u) /\ ConnsOf(u)' = ConnsOf(u) /\ state'[u] = state[u]
      /\ \A s \in Servers : WillHold(s, u)' <=> WillHold(s, u)
  BY DEF Still, Registered, Homes, ConnsOf, WillHold
<1>3. \A d \in ConnsOf(u) :
        /\ pc'[d] \in Entered => pc[d] \in Entered
        /\ pc'[d] \in LeaveLabels <=> pc[d] \in LeaveLabels
        /\ \A l \in {"subscribe", "setOnline", "unsubscribe", "register"} : pc'[d] = l <=> pc[d] = l
  <2>1. ASSUME NEW d \in ConnsOf(u), d # c
        PROVE  pc'[d] = pc[d]
    BY <1>1, <2>1
  <2>2. /\ pc'[c] \in Entered => pc[c] \in Entered
        /\ pc'[c] \in LeaveLabels <=> pc[c] \in LeaveLabels
        /\ \A l \in {"subscribe", "setOnline", "unsubscribe", "register"} : pc'[c] = l <=> pc[c] = l
    BY DEF Resting, Inside, Entered, LeaveLabels
  <2> QED  BY <2>1, <2>2
<1>4. Ways(u)'
  BY <1>2, <1>3 DEF Ways
<1>5. Recorded(u) => Recorded(u)'
  BY <1>2, <1>3 DEF Recorded
<1>6. Shown(u) => Shown(u)'
  BY <1>2 DEF Shown
<1> QED  BY <1>4, <1>5, <1>6 DEF Kept
----------------------------------------------------------------------------
(* What the tables say after one entry changed *)
LEMMA Entry ==
  ASSUME SessionInv, NEW c \in Conns, NEW u, u = UserOf[c], NEW x,
         userConnMap' = [userConnMap EXCEPT ![ServerOf[c]][u] = x]
  PROVE  /\ userConnMap'[ServerOf[c]][u] = x
         /\ \A s \in Servers : s # ServerOf[c] => userConnMap'[s][u] = userConnMap[s][u]
         /\ \A s \in Servers, v \in Users : v # u => userConnMap'[s][v] = userConnMap[s][v]
BY Own DEF SessionInv, CoreTypes

(* The handler on c goes to label l *)
LEMMA GoesTo ==
  ASSUME SessionInv, NEW c \in Conns, NEW l, Goto(c, l)
  PROVE  pc'[c] = l /\ \A d \in Conns : d # c => pc'[d] = pc[d]
BY DEF SessionInv, CoreTypes, Goto

(* A login finds the state column, which decides how it goes on *)
LEMMA LoginKept ==
  ASSUME SessionInv, NEW c \in Conns, Login(c), NEW u \in Users, u = UserOf[c], Ways(u), ~Racing(u)'
  PROVE  Kept(u)
<1>1. /\ pc[c] = "idle" /\ pc'[c] = (IF state[u] = "online" THEN "relogin" ELSE "register")
      /\ (\A d \in Conns : d # c => pc'[d] = pc[d]) /\ Still /\ link' = link
      /\ client' = [client EXCEPT ![c] = "wait"]
  BY GoesTo DEF Login, Receive, Still, db, redis
<1>2. \A d \in Conns : Shows(d)' => Shows(d)
  BY <1>1 DEF Shows, SessionInv, CoreTypes
<1>3. c \in ConnsOf(u) /\ \A d \in ConnsOf(u) : ServerOf[d] \in Servers /\ UserOf[d] = u /\ d \in Conns
  BY Own DEF ConnsOf
<1>4. /\ \A d \in ConnsOf(u) : Registered(d)' = Registered(d)
      /\ Homes(u)' = Homes(u) /\ ConnsOf(u)' = ConnsOf(u) /\ state'[u] = state[u]
      /\ \A s \in Servers : WillHold(s, u)' <=> WillHold(s, u)
  BY <1>1 DEF Still, Registered, Homes, ConnsOf, WillHold
<1>5. \A d \in ConnsOf(u) : d # c => pc'[d] = pc[d] /\ pc[d] \notin LoginLabels \cup LeaveLabels
  <2>1. pc'[c] \in LoginLabels \cup LeaveLabels
    BY <1>1 DEF LoginLabels
  <2> QED  BY <1>1, <1>3, <2>1, AloneNext
<1>6. Ways(u)'
  BY <1>1, <1>3, <1>4, <1>5 DEF Ways, Entered, LeaveLabels
<1>7. Recorded(u) => Recorded(u)'
  <2>1. \A d \in ConnsOf(u) : pc[d] \notin {"subscribe", "setOnline"} \cup LeaveLabels
    BY <1>1, <1>5 DEF LoginLabels, LeaveLabels
  <2>2. Recorded(u) => (state[u] = "online" <=> Homes(u) # {})
    BY <2>1 DEF Recorded
  <2>3. \A d \in ConnsOf(u) : pc'[d] \notin LeaveLabels
    BY <1>1, <1>5 DEF LeaveLabels
  <2>4. \A d \in ConnsOf(u) : pc'[d] = "register" => d = c /\ state[u] # "online"
    BY <1>1, <1>5 DEF LoginLabels
  <2> QED  BY <1>4, <2>2, <2>3, <2>4 DEF Recorded
<1>8. Shown(u) => Shown(u)'
  BY <1>2, <1>3, <1>4 DEF Shown
<1> QED  BY <1>6, <1>7, <1>8 DEF Kept

(* It enters its connection in the table: nobody else of the user is       *)
(* registered, or the registered connection is shut down                   *)
LEMMA EnterFacts ==
  ASSUME SessionInv, NEW c \in Conns, NEW u \in Users, u = UserOf[c], ~Racing(u), ~Racing(u)',
         pc[c] \in LoginLabels, userConnMap' = [userConnMap EXCEPT ![ServerOf[c]][u] = c],
         NEW l, l \in {"subscribe", "setOnline"}, Goto(c, l)
  PROVE  /\ ServerOf[c] \in Servers /\ c \in ConnsOf(u) /\ pc'[c] = l
         /\ \A d \in ConnsOf(u) : d # c => pc'[d] = pc[d] /\ pc[d] \notin LoginLabels \cup LeaveLabels
         /\ Registered(c)' = c /\ Homes(u)' = {ServerOf[c]} /\ Homes(u) \subseteq {ServerOf[c]}
         /\ ConnsOf(u)' = ConnsOf(u)
<1>1. c \in ConnsOf(u) /\ ServerOf[c] \in Servers /\ c # NoConn
  BY Own
<1>2. /\ userConnMap'[ServerOf[c]][u] = c
      /\ \A s \in Servers : s # ServerOf[c] => userConnMap'[s][u] = userConnMap[s][u]
  BY Own DEF SessionInv, CoreTypes
<1>3. ServerOf[c] \in Homes(u)'
  BY <1>1, <1>2 DEF Homes
<1>4. Homes(u)' \subseteq {ServerOf[c]}
  BY <1>3, OneHomeNext
<1>5. Homes(u) \subseteq {ServerOf[c]}
  BY <1>2, <1>4 DEF Homes
<1>6. pc'[c] = l /\ \A d \in ConnsOf(u) : d # c => pc'[d] = pc[d]
  BY GoesTo DEF ConnsOf
<1>7. Contending(c)
  BY DEF Contending
<1>8. \A d \in ConnsOf(u) : d # c => pc[d] \notin LoginLabels \cup LeaveLabels
  BY <1>1, <1>7, Alone
<1> QED  BY <1>1, <1>2, <1>3, <1>4, <1>5, <1>6, <1>8 DEF Registered, ConnsOf

(* A login of a user who is not recorded online registers the connection;  *)
(* nobody of the user was registered                                       *)
LEMMA RegisterKept ==
  ASSUME SessionInv, NEW c \in Conns, Register(c), NEW u \in Users, u = UserOf[c], Ways(u), ~Racing(u)'
  PROVE  Kept(u)
<1>1. /\ pc[c] = "register" /\ Goto(c, "subscribe") /\ pc[c] \in LoginLabels
      /\ userConnMap' = [userConnMap EXCEPT ![ServerOf[c]][u] = c]
      /\ UNCHANGED <<link, client, state, cmds, subs>>
  BY DEF Register, net, db, redis, LoginLabels
<1>2. ~Racing(u)
  BY DEF Ways
<1>3. /\ ServerOf[c] \in Servers /\ c \in ConnsOf(u) /\ pc'[c] = "subscribe"
      /\ \A d \in ConnsOf(u) : d # c => pc'[d] = pc[d] /\ pc[d] \notin LoginLabels \cup LeaveLabels
      /\ Registered(c)' = c /\ Homes(u)' = {ServerOf[c]} /\ Homes(u) \subseteq {ServerOf[c]}
      /\ ConnsOf(u)' = ConnsOf(u)
  BY <1>1, <1>2, EnterFacts
<1>4. \A s \in Servers, v \in Users : WillHold(s, v)' <=> WillHold(s, v)
  BY <1>1 DEF WillHold
<1>5. \A d \in Conns : Shows(d)' <=> Shows(d)
  BY <1>1 DEF Shows
<1>6. Ways(u)'
  <2>1. \A d \in ConnsOf(u) : pc'[d] \in Entered \cup LeaveLabels => d = c
    BY <1>3 DEF Entered, LoginLabels
  <2>2. \A d \in ConnsOf(u) : pc[d] \notin {"subscribe", "unsubscribe"} /\ pc'[d] # "unsubscribe"
    BY <1>1, <1>3 DEF LoginLabels, LeaveLabels
  <2>3. \A s \in Servers : WillHold(s, u) <=> s \in Homes(u)
    BY <2>2 DEF Ways
  <2>4. \A s \in Servers : s # ServerOf[c] => (WillHold(s, u)' <=> s \in Homes(u)')
    BY <1>3, <1>4, <2>3
  <2> QED  BY <1>3, <2>1, <2>2, <2>4 DEF Ways, LeaveLabels
<1>7. Recorded(u)'
  <2>1. \A d \in ConnsOf(u) : pc'[d] # "register"
    BY <1>3 DEF LoginLabels
  <2> QED  BY <1>3, <2>1 DEF Recorded
<1>8. Recorded(u) /\ Shown(u) => Shown(u)'
  <2>1. Recorded(u) => Homes(u) = {}
    BY <1>1, <1>3 DEF Recorded
  <2>2. ASSUME Recorded(u), Shown(u), NEW d \in ConnsOf(u), Shows(d) PROVE FALSE
    <3>1. ServerOf[d] \in Servers /\ UserOf[d] = u /\ d # NoConn
      BY Own DEF ConnsOf
    <3>2. userConnMap[ServerOf[d]][u] = d
      BY <2>2, <3>1 DEF Shown, Registered
    <3> QED  BY <2>1, <2>2, <3>1, <3>2 DEF Homes
  <2>3. \A d \in ConnsOf(u) : d \in Conns
    BY DEF ConnsOf
  <2> QED  BY <1>3, <1>5, <2>2, <2>3 DEF Shown
<1> QED  BY <1>6, <1>7, <1>8 DEF Kept

(* A command is sent on the connection to Redis *)
LEMMA Commanded ==
  ASSUME RedisTypes, NEW s \in Servers, NEW u \in Users, NEW op \in {"subscribe", "unsubscribe"},
         Command(s, op, u), UNCHANGED subs
  PROVE  /\ WillHold(s, u)' <=> op = "subscribe"
         /\ \A r \in Servers, v \in Users : r # s \/ v # u => (WillHold(r, v)' <=> WillHold(r, v))
         /\ cmds' \in [Servers -> Seq(Commands)]
<1> DEFINE m == [op |-> op, user |-> u]
<1>1. m \in Commands /\ m.user = u /\ m.op = op
  BY DEF Commands
<1>2. cmds' = [cmds EXCEPT ![s] = Append(@, m)]
  BY DEF Command
<1> HIDE DEF m
<1>3. cmds \in [Servers -> Seq(Commands)] /\ cmds[s] \in Seq(Commands)
  BY DEF RedisTypes
<1>4. cmds'[s] = Append(cmds[s], m) /\ \A r \in Servers : r # s => cmds'[r] = cmds[r]
  BY <1>2, <1>3
<1>5. \A v : Will(v, Append(cmds[s], m), subs[s]) <=>
                IF m.user = v THEN m.op = "subscribe" ELSE Will(v, cmds[s], subs[s])
  BY <1>1, <1>3, WillAppend
<1>6. Append(cmds[s], m) \in Seq(Commands)
  BY <1>1, <1>3
<1>7. cmds' \in [Servers -> Seq(Commands)]
  BY <1>2, <1>3, <1>6
<1> QED  BY <1>1, <1>4, <1>5, <1>7 DEF WillHold

(* Two of them *)
LEMMA CommandedTwice ==
  ASSUME RedisTypes, NEW s \in Servers, NEW u \in Users, UNCHANGED subs,
         cmds' = [cmds EXCEPT ![s] = @ \o <<[op |-> "unsubscribe", user |-> u],
                                             [op |-> "subscribe", user |-> u]>>]
  PROVE  /\ WillHold(s, u)'
         /\ \A r \in Servers, v \in Users : r # s \/ v # u => (WillHold(r, v)' <=> WillHold(r, v))
         /\ cmds' \in [Servers -> Seq(Commands)]
<1> DEFINE a == [op |-> "unsubscribe", user |-> u]
           b == [op |-> "subscribe", user |-> u]
<1>1. /\ a \in Commands /\ a.user = u /\ a.op = "unsubscribe"
      /\ b \in Commands /\ b.user = u /\ b.op = "subscribe"
  BY DEF Commands
<1>2. cmds' = [cmds EXCEPT ![s] = @ \o <<a, b>>]
  OBVIOUS
<1> HIDE DEF a, b
<1>3. cmds \in [Servers -> Seq(Commands)] /\ cmds[s] \in Seq(Commands)
  BY DEF RedisTypes
<1>4. cmds'[s] = cmds[s] \o <<a, b>> /\ \A r \in Servers : r # s => cmds'[r] = cmds[r]
  BY <1>2, <1>3
<1>5. Append(cmds[s], a) \in Seq(Commands) /\ cmds[s] \o <<a, b>> = Append(Append(cmds[s], a), b)
  <2>1. ASSUME NEW q \in Seq(Commands) PROVE q \o <<a, b>> = Append(Append(q, a), b)
    BY <1>1
  <2> QED  BY <1>1, <1>3, <2>1
<1>6. \A v : Will(v, cmds'[s], subs[s]) <=> (u = v \/ Will(v, cmds[s], subs[s]))
  <2>1. \A v : Will(v, Append(Append(cmds[s], a), b), subs[s]) <=>
                 IF b.user = v THEN b.op = "subscribe" ELSE Will(v, Append(cmds[s], a), subs[s])
    BY <1>1, <1>5, WillAppend
  <2>2. \A v : Will(v, Append(cmds[s], a), subs[s]) <=>
                 IF a.user = v THEN a.op = "subscribe" ELSE Will(v, cmds[s], subs[s])
    BY <1>1, <1>3, WillAppend
  <2> QED  BY <1>1, <1>4, <1>5, <2>1, <2>2
<1>7. cmds' \in [Servers -> Seq(Commands)]
  <2>1. cmds[s] \o <<a, b>> \in Seq(Commands)
    BY <1>1, <1>3
  <2> QED  BY <1>2, <1>3, <2>1
<1> QED  BY <1>4, <1>6, <1>7 DEF WillHold

(* A login of a user who is recorded online takes the place of the         *)
(* registered connection, shuts that one down and renews the subscription  *)
LEMMA ReloginKept ==
  ASSUME SessionInv, RedisTypes, NEW c \in Conns, Relogin(c), NEW u \in Users, u = UserOf[c], Ways(u), ~Racing(u)'
  PROVE  Kept(u)
<1>1. /\ pc[c] = "relogin" /\ Goto(c, "setOnline") /\ pc[c] \in LoginLabels
      /\ userConnMap' = [userConnMap EXCEPT ![ServerOf[c]][u] = c]
      /\ link' = [d \in Conns |-> IF d = Registered(c) /\ link[d] = "open" THEN "half" ELSE link[d]]
      /\ cmds' = [cmds EXCEPT ![ServerOf[c]] = @ \o <<[op |-> "unsubscribe", user |-> u],
                                                      [op |-> "subscribe", user |-> u]>>]
      /\ UNCHANGED <<client, state, subs>>
  BY DEF Relogin, db, LoginLabels
<1>2. ~Racing(u)
  BY DEF Ways
<1>3. /\ ServerOf[c] \in Servers /\ c \in ConnsOf(u) /\ pc'[c] = "setOnline"
      /\ \A d \in ConnsOf(u) : d # c => pc'[d] = pc[d] /\ pc[d] \notin LoginLabels \cup LeaveLabels
      /\ Registered(c)' = c /\ Homes(u)' = {ServerOf[c]} /\ Homes(u) \subseteq {ServerOf[c]}
      /\ ConnsOf(u)' = ConnsOf(u)
  BY <1>1, <1>2, EnterFacts
<1>4. /\ WillHold(ServerOf[c], u)'
      /\ \A r \in Servers, v \in Users : r # ServerOf[c] \/ v # u => (WillHold(r, v)' <=> WillHold(r, v))
  BY <1>1, <1>3, CommandedTwice
<1>5. \A d \in Conns : Shows(d)' => Shows(d) /\ d # Registered(c)
  BY <1>1 DEF Shows
<1>6. Ways(u)'
  <2>1. \A d \in ConnsOf(u) : pc'[d] \in Entered \cup LeaveLabels => d = c
    BY <1>3 DEF Entered, LoginLabels
  <2>2. \A d \in ConnsOf(u) : pc[d] \notin {"subscribe", "unsubscribe"} /\ pc'[d] \notin {"unsubscribe", "subscribe"}
    BY <1>1, <1>3 DEF LoginLabels, LeaveLabels
  <2>3. \A s \in Servers : WillHold(s, u) <=> s \in Homes(u)
    BY <2>2 DEF Ways
  <2>4. \A s \in Servers : WillHold(s, u)' <=> s \in Homes(u)'
    BY <1>3, <1>4, <2>3
  <2> QED  BY <1>3, <2>1, <2>2, <2>4 DEF Ways, LeaveLabels
<1>7. Recorded(u)'
  <2>1. \A d \in ConnsOf(u) : pc'[d] # "register"
    BY <1>3 DEF LoginLabels
  <2> QED  BY <1>3, <2>1 DEF Recorded
<1>8. Shown(u) => Shown(u)'
  <2>1. ASSUME Shown(u), NEW d \in ConnsOf(u), Shows(d)' PROVE FALSE
    <3>1. ServerOf[d] \in Servers /\ UserOf[d] = u /\ d # NoConn /\ d \in Conns
      BY Own DEF ConnsOf
    <3>2. userConnMap[ServerOf[d]][u] = d
      BY <1>5, <2>1, <3>1 DEF Shown, Registered
    <3>3. ServerOf[d] = ServerOf[c]
      BY <1>3, <3>1, <3>2 DEF Homes
    <3> QED  BY <1>5, <2>1, <3>1, <3>2, <3>3 DEF Registered
  <2> QED  BY <1>3, <2>1 DEF Shown
<1> QED  BY <1>6, <1>7, <1>8 DEF Kept

(* The subscription follows the table *)
LEMMA SubscribeKept ==
  ASSUME SessionInv, RedisTypes, NEW c \in Conns, Subscribe(c), NEW u \in Users, u = UserOf[c], Ways(u), ~Racing(u)'
  PROVE  Kept(u)
<1>1. /\ pc[c] = "subscribe" /\ Goto(c, "setOnline") /\ Command(ServerOf[c], "subscribe", u)
      /\ UNCHANGED <<link, client, userConnMap, state, subs>>
  BY DEF Subscribe, net, tables, db
<1>2. ServerOf[c] \in Servers /\ c \in ConnsOf(u)
  BY Own
<1>3. /\ WillHold(ServerOf[c], u)'
      /\ \A r \in Servers, v \in Users : r # ServerOf[c] \/ v # u => (WillHold(r, v)' <=> WillHold(r, v))
  BY <1>1, <1>2, Commanded
<1>4. \A d \in Conns : Shows(d)' <=> Shows(d)
  BY <1>1 DEF Shows
<1>5. pc'[c] = "setOnline" /\ \A d \in Conns : d # c => pc'[d] = pc[d]
  BY <1>1, GoesTo
<1>6. /\ \A d \in ConnsOf(u) : d \in Conns /\ Registered(d)' = Registered(d)
      /\ Homes(u)' = Homes(u) /\ ConnsOf(u)' = ConnsOf(u)
  BY <1>1 DEF Registered, Homes, ConnsOf
<1>7. \A d \in ConnsOf(u) : d # c => pc'[d] = pc[d] /\ pc[d] \notin LoginLabels \cup LeaveLabels
  <2>1. ~Racing(u) /\ Contending(c)
    BY <1>1 DEF Ways, Contending, LoginLabels
  <2> QED  BY <1>2, <1>5, <1>6, <2>1, Alone
<1>8. Ways(u)'
  <2>1. ServerOf[c] \in Homes(u)
    <3>1. Registered(c) = c
      BY <1>1, <1>2 DEF Ways, Entered
    <3> QED  BY <1>2, <3>1, Own DEF Homes, Registered
  <2>2. \A d \in ConnsOf(u) : pc'[d] \in Entered => pc[d] \in Entered
    BY <1>1, <1>5, <1>6 DEF Entered
  <2>3. \A d \in ConnsOf(u) : pc'[d] \notin LeaveLabels /\ pc[d] # "unsubscribe" /\ pc'[d] # "unsubscribe"
    BY <1>1, <1>5, <1>7 DEF LeaveLabels
  <2>4. ASSUME NEW s \in Servers, s # ServerOf[c] PROVE WillHold(s, u)' <=> s \in Homes(u)
    <3>1. \A d \in ConnsOf(u) : ServerOf[d] = s => pc[d] # "subscribe"
      BY <1>7, <2>4 DEF LoginLabels
    <3> QED  BY <1>3, <2>3, <2>4, <3>1 DEF Ways
  <2>5. \A s \in Servers : WillHold(s, u)' <=> s \in Homes(u)'
    BY <1>3, <1>6, <2>1, <2>4
  <2> QED  BY <1>6, <2>2, <2>3, <2>5 DEF Ways
<1>9. Recorded(u)'
  <2>1. \A d \in ConnsOf(u) : pc'[d] # "register"
    BY <1>5, <1>7 DEF LoginLabels
  <2> QED  BY <1>2, <1>5, <1>6, <2>1 DEF Recorded
<1>10. Shown(u) => Shown(u)'
  BY <1>4, <1>6 DEF Shown
<1> QED  BY <1>8, <1>9, <1>10 DEF Kept

(* What a login handler has still to do, and the end of a leaving one *)
LEMMA WaysOnward ==
  ASSUME SessionInv, NEW c \in Conns, NEW u \in Users, u = UserOf[c], Ways(u), ~Racing(u)',
         UNCHANGED <<userConnMap, cmds, subs>>, NEW l, Goto(c, l),
         pc[c] \notin {"subscribe", "unsubscribe"}, l \notin {"subscribe", "unsubscribe"},
         l \in Entered => pc[c] \in Entered, l \in LeaveLabels => pc[c] \in LeaveLabels
  PROVE  Ways(u)'
<1>1. \A d \in ConnsOf(u) : ServerOf[d] \in Servers /\ UserOf[d] = u /\ d \in Conns
  BY Own DEF ConnsOf
<1>2. /\ \A d \in ConnsOf(u) : Registered(d)' = Registered(d)
      /\ Homes(u)' = Homes(u) /\ ConnsOf(u)' = ConnsOf(u)
      /\ \A s \in Servers : WillHold(s, u)' <=> WillHold(s, u)
  BY DEF Registered, Homes, ConnsOf, WillHold
<1>3. \A d \in ConnsOf(u) :
        /\ pc'[d] \in Entered => pc[d] \in Entered
        /\ pc'[d] \in LeaveLabels => pc[d] \in LeaveLabels
        /\ pc'[d] = "subscribe" <=> pc[d] = "subscribe"
        /\ pc'[d] = "unsubscribe" <=> pc[d] = "unsubscribe"
  BY <1>1, GoesTo
<1> QED  BY <1>2, <1>3 DEF Ways

(* The state column follows the table, whatever it said before *)
LEMMA SetOnlineKept ==
  ASSUME SessionInv, RedisTypes, NEW c \in Conns, SetOnline(c), NEW u \in Users, u = UserOf[c], Ways(u), ~Racing(u)'
  PROVE  Kept(u) /\ Recorded(u)'
<1>1. /\ pc[c] = "setOnline" /\ Goto(c, "fetch") /\ state' = [state EXCEPT ![u] = "online"]
      /\ UNCHANGED <<link, client, userConnMap, cmds, subs>>
  BY DEF SetOnline, net, tables, redis
<1>2. Ways(u)'
  BY <1>1, WaysOnward DEF Entered, LeaveLabels
<1>3. pc'[c] = "fetch" /\ \A d \in Conns : d # c => pc'[d] = pc[d]
  BY <1>1, GoesTo
<1>4. /\ \A d \in ConnsOf(u) : d \in Conns /\ Registered(d)' = Registered(d) /\ (Shows(d)' <=> Shows(d))
      /\ Homes(u)' = Homes(u) /\ ConnsOf(u)' = ConnsOf(u)
  BY <1>1 DEF Registered, Homes, ConnsOf, Shows
<1>5. ServerOf[c] \in Homes(u)
  <2>1. c \in ConnsOf(u) /\ ServerOf[c] \in Servers /\ c # NoConn
    BY Own
  <2>2. Registered(c) = c
    BY <1>1, <2>1 DEF Ways, Entered
  <2> QED  BY <2>1, <2>2 DEF Homes, Registered
<1>6. \A d \in ConnsOf(u) : pc'[d] # "register"
  <2>1. ~Racing(u) /\ Contending(c) /\ c \in ConnsOf(u)
    BY <1>1, Own DEF Ways, Contending, LoginLabels
  <2>2. \A d \in ConnsOf(u) : d # c => pc[d] \notin LoginLabels
    BY <2>1, Alone
  <2> QED  BY <1>3, <1>4, <2>2 DEF LoginLabels
<1>7. state'[u] = "online"
  BY <1>1, Own DEF RedisTypes
<1>8. Recorded(u)'
  BY <1>4, <1>5, <1>6, <1>7 DEF Recorded
<1>9. Shown(u) => Shown(u)'
  BY <1>4 DEF Shown
<1> QED  BY <1>2, <1>8, <1>9 DEF Kept

(* The state column follows the end of a session *)
LEMMA SetOfflineKept ==
  ASSUME SessionInv, RedisTypes, NEW c \in Conns, SetOffline(c), NEW u \in Users, u = UserOf[c], Ways(u), ~Racing(u)'
  PROVE  Kept(u) /\ Recorded(u)'
<1>1. /\ pc[c] = "setOffline" /\ Goto(c, "notify") /\ state' = [state EXCEPT ![u] = "offline"]
      /\ UNCHANGED <<link, client, userConnMap, cmds, subs>>
  BY DEF SetOffline, net, tables, redis
<1>2. Ways(u)'
  BY <1>1, WaysOnward DEF Entered, LeaveLabels
<1>3. pc'[c] = "notify" /\ \A d \in Conns : d # c => pc'[d] = pc[d]
  BY <1>1, GoesTo
<1>4. /\ \A d \in ConnsOf(u) : d \in Conns /\ Registered(d)' = Registered(d) /\ (Shows(d)' <=> Shows(d))
      /\ Homes(u)' = Homes(u) /\ ConnsOf(u)' = ConnsOf(u)
  BY <1>1 DEF Registered, Homes, ConnsOf, Shows
<1>5. Homes(u) = {}
  BY <1>1, Own DEF Ways, LeaveLabels
<1>6. \A d \in ConnsOf(u) : pc'[d] \notin LeaveLabels
  <2>1. ~Racing(u) /\ Contending(c) /\ c \in ConnsOf(u)
    BY <1>1, Own DEF Ways, Contending, LeaveLabels
  <2>2. \A d \in ConnsOf(u) : d # c => pc[d] \notin LeaveLabels
    BY <2>1, Alone
  <2> QED  BY <1>3, <1>4, <2>2 DEF LeaveLabels
<1>7. state'[u] = "offline"
  BY <1>1, Own DEF RedisTypes
<1>8. Recorded(u)'
  BY <1>4, <1>5, <1>6, <1>7 DEF Recorded
<1>9. Shown(u) => Shown(u)'
  BY <1>4 DEF Shown
<1> QED  BY <1>2, <1>8, <1>9 DEF Kept

(* The registration of c itself is erased, by a logout or by the close of  *)
(* the connection                                                          *)
LEMMA EraseKept ==
  ASSUME SessionInv, NEW c \in Conns, NEW u \in Users, u = UserOf[c], Ways(u), ~Racing(u)',
         pc[c] \in {"idle", "close"}, Registered(c) = c, Goto(c, "unsubscribe"),
         userConnMap' = [userConnMap EXCEPT ![ServerOf[c]][u] = NoConn],
         UNCHANGED <<state, cmds, subs>>,
         \A d \in Conns : Shows(d)' => Shows(d) /\ d # c
  PROVE  Kept(u)
<1>1. c \in ConnsOf(u) /\ ServerOf[c] \in Servers /\ c # NoConn /\ ~Racing(u)
  BY Own DEF Ways
<1>2. /\ userConnMap'[ServerOf[c]][u] = NoConn
      /\ \A s \in Servers : s # ServerOf[c] => userConnMap'[s][u] = userConnMap[s][u]
  BY Own DEF SessionInv, CoreTypes
<1>3. /\ \A d \in ConnsOf(u) : ServerOf[d] \in Servers /\ UserOf[d] = u /\ d \in Conns /\ d # NoConn
      /\ ConnsOf(u)' = ConnsOf(u)
      /\ \A s \in Servers : WillHold(s, u)' <=> WillHold(s, u)
  BY Own DEF ConnsOf, WillHold
<1>4. ServerOf[c] \in Homes(u) /\ \A s \in Homes(u) : s = ServerOf[c]
  <2>1. ServerOf[c] \in Homes(u)
    BY <1>1 DEF Homes, Registered
  <2> QED  BY <1>1, <2>1, OneHome
<1>5. Homes(u)' = {}
  BY <1>2, <1>4 DEF Homes
<1>6. pc'[c] = "unsubscribe" /\ \A d \in Conns : d # c => pc'[d] = pc[d]
  BY GoesTo
<1>7. \A d \in ConnsOf(u) : d # c => pc'[d] = pc[d] /\ pc[d] \notin LoginLabels \cup LeaveLabels
  BY <1>1, <1>3, <1>6, AloneNext DEF LeaveLabels
<1>8. \A d \in ConnsOf(u) : pc[d] \notin {"subscribe", "setOnline"} \cup LeaveLabels
  BY <1>7 DEF LoginLabels, LeaveLabels
<1>9. \A d \in ConnsOf(u) : pc'[d] \notin LoginLabels /\ (pc'[d] \in LeaveLabels <=> d = c)
  BY <1>6, <1>7 DEF LoginLabels, LeaveLabels
<1>10. Ways(u)'
  <2>1. \A s \in Servers : WillHold(s, u) <=> s \in Homes(u)
    BY <1>8 DEF Ways, LeaveLabels
  <2>2. \A d \in ConnsOf(u) : pc'[d] \notin Entered
    BY <1>9 DEF Entered, LoginLabels
  <2>3. \A s \in Servers : s \in Homes(u) <=>
           (\E d \in ConnsOf(u) : ServerOf[d] = s /\ pc'[d] = "unsubscribe")
    BY <1>1, <1>4, <1>6, <1>9 DEF LeaveLabels
  <2> QED  BY <1>3, <1>5, <2>1, <2>2, <2>3 DEF Ways
<1>11. Recorded(u) => Recorded(u)'
  <2>1. Recorded(u) => state[u] = "online"
    BY <1>4, <1>8 DEF Recorded
  <2>2. \A d \in ConnsOf(u) : pc'[d] \notin {"register", "subscribe", "setOnline"}
    BY <1>9 DEF LoginLabels
  <2> QED  BY <1>1, <1>3, <1>9, <2>1, <2>2 DEF Recorded
<1>12. Shown(u) => Shown(u)'
  <2>1. ASSUME Shown(u), NEW d \in ConnsOf(u), Shows(d)' PROVE FALSE
    <3>1. Registered(d) = d
      BY <1>3, <2>1 DEF Shown
    <3>2. ServerOf[d] \in Homes(u)
      BY <1>3, <3>1 DEF Homes, Registered
    <3>3. d # c /\ ServerOf[d] = ServerOf[c]
      BY <1>3, <1>4, <2>1, <3>2
    <3> QED  BY <1>3, <3>1, <3>3 DEF Registered
  <2> QED  BY <1>3, <2>1 DEF Shown
<1> QED  BY <1>10, <1>11, <1>12 DEF Kept

(* LOGINOUT_MSG on the registered connection *)
LEMMA LogoutKept ==
  ASSUME SessionInv, NEW c \in Conns, Logout(c), NEW u \in Users, u = UserOf[c], Ways(u), ~Racing(u)',
         ~LogsOutAnother(u)
  PROVE  Kept(u)
<1>1. /\ pc[c] = "idle" /\ client[c] = "in" /\ client' = [client EXCEPT ![c] = "out"] /\ link' = link
      /\ Goto(c, "unsubscribe") /\ UNCHANGED <<state, cmds, subs>>
      /\ userConnMap' = [userConnMap EXCEPT ![ServerOf[c]][u] = NoConn]
  BY DEF Logout, Receive, db, redis
<1>2. client'[c] = "out" /\ \A d \in Conns : d # c => client'[d] = client[d]
  BY <1>1 DEF SessionInv, CoreTypes
<1>3. Registered(c) = c
  BY <1>1, <1>2, Own DEF LogsOutAnother
<1>4. \A d \in Conns : Shows(d)' => Shows(d) /\ d # c
  BY <1>1, <1>2 DEF Shows
<1> QED  BY <1>1, <1>3, <1>4, EraseKept

(* The subscription follows the table *)
LEMMA UnsubscribeKept ==
  ASSUME SessionInv, RedisTypes, NEW c \in Conns, Unsubscribe(c), NEW u \in Users, u = UserOf[c], Ways(u), ~Racing(u)'
  PROVE  Kept(u)
<1>1. /\ pc[c] = "unsubscribe" /\ Goto(c, "untrack") /\ Command(ServerOf[c], "unsubscribe", u)
      /\ UNCHANGED <<link, client, userConnMap, state, subs>>
  BY DEF Unsubscribe, net, tables, db
<1>2. ServerOf[c] \in Servers /\ c \in ConnsOf(u)
  BY Own
<1>3. /\ ~WillHold(ServerOf[c], u)'
      /\ \A r \in Servers, v \in Users : r # ServerOf[c] \/ v # u => (WillHold(r, v)' <=> WillHold(r, v))
  BY <1>1, <1>2, Commanded
<1>4. pc'[c] = "untrack" /\ \A d \in Conns : d # c => pc'[d] = pc[d]
  BY <1>1, GoesTo
<1>5. /\ \A d \in ConnsOf(u) : d \in Conns /\ Registered(d)' = Registered(d) /\ (Shows(d)' <=> Shows(d))
      /\ Homes(u)' = Homes(u) /\ ConnsOf(u)' = ConnsOf(u) /\ state'[u] = state[u]
  BY <1>1 DEF Registered, Homes, ConnsOf, Shows
<1>6. Homes(u) = {}
  BY <1>1, <1>2 DEF Ways, LeaveLabels
<1>7. \A d \in ConnsOf(u) : d # c => pc'[d] = pc[d] /\ pc[d] \notin LoginLabels \cup LeaveLabels
  <2>1. ~Racing(u) /\ Contending(c)
    BY <1>1 DEF Ways, Contending, LeaveLabels
  <2> QED  BY <1>2, <1>4, <1>5, <2>1, Alone
<1>8. \A d \in ConnsOf(u) : pc'[d] \notin LoginLabels \cup {"unsubscribe"} /\ pc[d] \notin LoginLabels
  BY <1>1, <1>4, <1>7 DEF LoginLabels, LeaveLabels
<1>9. Ways(u)'
  <2>1. \A d \in ConnsOf(u) : pc'[d] \notin Entered /\ pc[d] # "subscribe"
    BY <1>8 DEF Entered, LoginLabels
  <2>2. ASSUME NEW s \in Servers PROVE ~WillHold(s, u)'
    <3>1. CASE s = ServerOf[c]
      BY <1>3, <3>1
    <3>2. CASE s # ServerOf[c]
      <4>1. \A d \in ConnsOf(u) : ~(ServerOf[d] = s /\ pc[d] = "unsubscribe")
        BY <1>7, <3>2 DEF LeaveLabels
      <4> QED  BY <1>3, <1>6, <2>1, <3>2, <4>1 DEF Ways
    <3> QED  BY <3>1, <3>2
  <2> QED  BY <1>5, <1>6, <1>8, <2>1, <2>2 DEF Ways
<1>10. Recorded(u) => Recorded(u)'
  <2>1. c \in ConnsOf(u) /\ pc[c] \in LeaveLabels /\ pc'[c] \in LeaveLabels
    BY <1>1, <1>2, <1>4 DEF LeaveLabels
  <2>2. \A d \in ConnsOf(u) : /\ pc'[d] \notin {"register", "subscribe", "setOnline"}
                              /\ pc[d] \notin {"subscribe", "setOnline"}
    BY <1>8 DEF LoginLabels
  <2> QED  BY <1>5, <2>1, <2>2 DEF Recorded
<1>11. Shown(u) => Shown(u)'
  BY <1>5 DEF Shown
<1> QED  BY <1>9, <1>10, <1>11 DEF Kept

(* The heartbeat entry of a session that leaves *)
LEMMA UntrackKept ==
  ASSUME SessionInv, NEW c \in Conns, Untrack(c), pc[c] = "untrack", NEW u \in Users, u = UserOf[c], Ways(u), ~Racing(u)'
  PROVE  Kept(u)
<1>1. Goto(c, "setOffline") /\ UNCHANGED <<link, client, userConnMap, state, cmds, subs>>
  BY DEF Untrack, net, db, redis
<1>2. Ways(u)'
  BY <1>1, WaysOnward DEF Entered, LeaveLabels
<1>3. pc'[c] = "setOffline" /\ \A d \in Conns : d # c => pc'[d] = pc[d]
  BY <1>1, GoesTo
<1>4. /\ c \in ConnsOf(u)
      /\ \A d \in ConnsOf(u) : d \in Conns /\ Registered(d)' = Registered(d) /\ (Shows(d)' <=> Shows(d))
      /\ Homes(u)' = Homes(u) /\ ConnsOf(u)' = ConnsOf(u) /\ state'[u] = state[u]
  BY <1>1, Own DEF Registered, Homes, ConnsOf, Shows
<1>5. \A d \in ConnsOf(u) :
        /\ pc'[d] \in LeaveLabels <=> pc[d] \in LeaveLabels
        /\ \A l \in {"subscribe", "setOnline", "register"} : pc'[d] = l <=> pc[d] = l
  <2>1. ASSUME NEW d \in ConnsOf(u), d # c PROVE pc'[d] = pc[d]
    BY <1>3, <1>4, <2>1
  <2> QED  BY <1>3, <2>1 DEF LeaveLabels
<1>6. Recorded(u) => Recorded(u)'
  BY <1>4, <1>5 DEF Recorded
<1>7. Shown(u) => Shown(u)'
  BY <1>4 DEF Shown
<1> QED  BY <1>2, <1>6, <1>7 DEF Kept

(* Steps of a handler that change nothing of this *)
LEMMA PassKept ==
  ASSUME SessionInv, NEW c \in Conns, NEW u \in Users, u = UserOf[c], Ways(u), ~Racing(u)', Still,
         NEW l, Goto(c, l), pc[c] \in Resting \cup Inside, l \in Resting \cup Inside, l \in Inside => pc[c] \in Inside,
         \A d \in Conns : Shows(d)' => Shows(d) \/ (d = c /\ Registered(c) = c)
  PROVE  Kept(u)
<1>1. pc'[c] = l /\ \A d \in Conns : d # c => pc'[d] = pc[d]
  BY GoesTo
<1>2. \A d \in ConnsOf(u) : Shows(d)' => Shows(d) \/ Registered(d) = d
  BY DEF ConnsOf
<1> QED  BY <1>1, <1>2, Onward

(* The ACK goes to the registered connection *)
LEMMA AckKept ==
  ASSUME SessionInv, NEW c \in Conns, Ack(c), NEW u \in Users, u = UserOf[c], Ways(u), ~Racing(u)'
  PROVE  Kept(u)
<1> DEFINE l == IF got[c] # <<>> THEN "remove" ELSE "notify"
<1>1. /\ pc[c] = "ack" /\ Still /\ link' = link /\ Goto(c, l)
      /\ client' = client \/ client' = [client EXCEPT ![c] = "in"]
  BY DEF Ack, Still, tables, db, redis
<1>2. Registered(c) = c
  BY <1>1, Own DEF Ways, Entered
<1>3. \A d \in Conns : Shows(d)' => Shows(d) \/ (d = c /\ Registered(c) = c)
  BY <1>1, <1>2 DEF Shows, SessionInv, CoreTypes
<1>4. l \in {"remove", "notify"}
  OBVIOUS
<1> HIDE DEF l
<1> QED  BY <1>1, <1>3, <1>4, PassKept DEF Resting, Inside

(* A connection closes *)
LEMMA CloseKept ==
  ASSUME SessionInv, NEW c \in Conns, pc[c] = "idle", link' = [link EXCEPT ![c] = "down"], Goto(c, "close"),
         Still, UNCHANGED client, NEW u \in Users, u = UserOf[c], Ways(u), ~Racing(u)'
  PROVE  Kept(u)
<1>1. \A d \in Conns : Shows(d)' => Shows(d)
  BY DEF Shows, SessionInv, CoreTypes
<1> QED  BY <1>1, PassKept DEF Resting, Inside

(* Every step of a handler keeps where its user is *)
LEMMA HandlerKept ==
  ASSUME SessionInv, RedisTypes, NEW c \in Conns, HandlerStep(c), NEW u \in Users, u = UserOf[c],
         Ways(u), ~Racing(u)'
  PROVE  Kept(u)
<1>1. CASE Relogin(c)      BY <1>1, ReloginKept
<1>2. CASE Register(c)     BY <1>2, RegisterKept
<1>3. CASE Subscribe(c)    BY <1>3, SubscribeKept
<1>4. CASE SetOnline(c)    BY <1>4, SetOnlineKept
<1>5. CASE SetOffline(c)   BY <1>5, SetOfflineKept
<1>6. CASE Unsubscribe(c)  BY <1>6, UnsubscribeKept
<1>7. CASE Ack(c)          BY <1>7, AckKept
<1>8. CASE CloseErase(c)
  <2>1. CASE Registered(c) = c
    <3>1. /\ pc[c] = "close" /\ Goto(c, "unsubscribe") /\ UNCHANGED <<link, client, state, cmds, subs>>
          /\ userConnMap' = [userConnMap EXCEPT ![ServerOf[c]][u] = NoConn]
      BY <1>8, <2>1 DEF CloseErase, net, db, redis
    <3>2. link[c] = "down"
      BY <3>1 DEF SessionInv, LeaveWhenGone
    <3>3. \A d \in Conns : Shows(d)' => Shows(d) /\ d # c
      BY <3>1, <3>2 DEF Shows
    <3> QED  BY <2>1, <3>1, <3>3, EraseKept
  <2>2. CASE Registered(c) # c
    <3>1. pc[c] = "close" /\ Goto(c, "forget") /\ Still /\ UNCHANGED <<link, client>>
      BY <1>8, <2>2 DEF CloseErase, net, db, redis, Still
    <3>2. \A d \in Conns : Shows(d)' <=> Shows(d)
      BY <3>1 DEF Shows
    <3> QED  BY <3>1, <3>2, PassKept DEF Resting, Inside
  <2> QED  BY <2>1, <2>2
<1>9. CASE Untrack(c)
  <2>1. CASE pc[c] = "untrack"
    BY <1>9, <2>1, UntrackKept
  <2>2. CASE pc[c] = "forget"
    <3>1. Goto(c, "idle") /\ Still /\ UNCHANGED <<link, client>>
      BY <1>9, <2>2 DEF Untrack, net, db, redis, Still
    <3>2. \A d \in Conns : Shows(d)' <=> Shows(d)
      BY <3>1 DEF Shows
    <3> QED  BY <2>2, <3>1, <3>2, PassKept DEF Resting, Inside
  <2> QED  BY <1>9, <2>1, <2>2 DEF Untrack
<1>10. CASE FetchOffline(c) \/ QueryFriends(c) \/ RemoveOffline(c) \/ NotifyFriendState(c) \/ Return(c)
  <2>1. Still /\ UNCHANGED <<link, client>>
    BY <1>10 DEF FetchOffline, QueryFriends, RemoveOffline, NotifyFriendState, Return, net, tables, db, redis, Still
  <2>2. \A d \in Conns : Shows(d)' <=> Shows(d)
    BY <2>1 DEF Shows
  <2>3. PICK l \in Resting \cup Inside : Goto(c, l) /\ pc[c] \in Resting \cup Inside /\ (l \in Inside => pc[c] \in Inside)
    BY <1>10 DEF FetchOffline, QueryFriends, RemoveOffline, NotifyFriendState, Return, Resting, Inside
  <2> QED  BY <2>1, <2>2, <2>3, PassKept
<1>11. CASE SendNear(c) \/ LookUp(c) \/ StoreOffline(c) \/ Publish(c)
  <2>1. Still /\ UNCHANGED <<pc, link, client>>
    BY <1>11 DEF SendNear, LookUp, StoreOffline, Publish, net, tables, db, redis, Still
  <2>2. /\ \A d \in Conns : pc'[d] = pc[d] /\ (Shows(d)' <=> Shows(d))
        /\ \A s \in Servers : WillHold(s, u)' <=> WillHold(s, u)
    BY <2>1 DEF Shows, Still, WillHold
  <2> QED  BY <2>1, <2>2, Unmoved DEF ConnsOf, Still
<1> QED  BY <1>1, <1>2, <1>3, <1>4, <1>5, <1>6, <1>7, <1>8, <1>9, <1>10, <1>11 DEF HandlerStep

(* So does what a client does, unless it logs out another connection *)
LEMMA ClientKept ==
  ASSUME SessionInv, RedisTypes, NEW c \in Conns, ClientStep(c), NEW u \in Users, u = UserOf[c],
         Ways(u), ~Racing(u)', ~LogsOutAnother(u)
  PROVE  Kept(u)
<1>1. CASE Login(c)   BY <1>1, LoginKept
<1>2. CASE Logout(c)  BY <1>2, LogoutKept
<1>3. CASE PeerClose(c)
  <2>1. /\ pc[c] = "idle" /\ link' = [link EXCEPT ![c] = "down"] /\ Goto(c, "close")
        /\ Still /\ UNCHANGED client
    BY <1>3 DEF PeerClose, tables, db, redis, Still
  <2> QED  BY <2>1, CloseKept
<1>4. CASE Heartbeat(c)
  <2>1. Still /\ UNCHANGED <<pc, link, client>>
    BY <1>4 DEF Heartbeat, net, db, redis, Still
  <2>2. /\ \A d \in Conns : pc'[d] = pc[d] /\ (Shows(d)' <=> Shows(d))
        /\ \A s \in Servers : WillHold(s, u)' <=> WillHold(s, u)
    BY <2>1 DEF Shows, Still, WillHold
  <2> QED  BY <2>1, <2>2, Unmoved DEF ConnsOf, Still
<1>5. ASSUME NEW m \in Msgs, OneChat(c, m) \/ GroupChat(c, m) PROVE Kept(u)
  <2>1. pc[c] = "idle" /\ Goto(c, "send") /\ Still /\ UNCHANGED <<link, client>>
    BY <1>5 DEF OneChat, GroupChat, Send, Receive, db, redis, Still
  <2>2. \A d \in Conns : Shows(d)' <=> Shows(d)
    BY <2>1 DEF Shows
  <2> QED  BY <2>1, <2>2, PassKept DEF Resting, Inside
<1> QED  BY <1>1, <1>2, <1>3, <1>4, <1>5 DEF ClientStep

(* What a step on c does to the connections, the table and the state *)
Focused(c) ==
    /\ \A d \in Conns : d # c => pc'[d] = pc[d]
    /\ userConnMap' = userConnMap \/ \E x : userConnMap' = [userConnMap EXCEPT ![ServerOf[c]][UserOf[c]] = x]
    /\ state' = state \/ \E x \in States : state' = [state EXCEPT ![UserOf[c]] = x]
    /\ \A d \in Conns : UserOf[d] # UserOf[c] => (Shows(d)' => Shows(d))
    /\ subs' = subs

(* A step of a handler touches its own connection's user only, ... *)
LEMMA HandlerFocused ==
  ASSUME SessionInv, NEW c \in Conns, HandlerStep(c)
  PROVE  Focused(c)
<1>1. CASE Relogin(c)
  BY <1>1, GoesTo DEF Relogin, Focused, Shows, db
<1>2. CASE Register(c)
  BY <1>2, GoesTo DEF Register, Focused, Shows, net, db, redis
<1>3. CASE Subscribe(c) \/ Unsubscribe(c)
  BY <1>3, GoesTo DEF Subscribe, Unsubscribe, Focused, Shows, net, tables, db
<1>4. CASE SetOnline(c) \/ SetOffline(c)
  BY <1>4, GoesTo DEF SetOnline, SetOffline, Focused, Shows, net, tables, redis, States
<1>5. CASE Ack(c)
  <2>1. Still /\ link' = link /\ (client' = client \/ client' = [client EXCEPT ![c] = "in"])
    BY <1>5 DEF Ack, Still, tables, db, redis
  <2>2. \A d \in Conns : d # c => pc'[d] = pc[d]
    BY <1>5, GoesTo DEF Ack
  <2>3. \A d \in Conns : d # c => (Shows(d)' <=> Shows(d))
    BY <2>1 DEF Shows, SessionInv, CoreTypes
  <2> QED  BY <2>1, <2>2, <2>3 DEF Focused, Still
<1>6. CASE CloseErase(c) \/ Untrack(c)
  BY <1>6, GoesTo DEF CloseErase, Untrack, Focused, Shows, net, db, redis
<1>7. CASE FetchOffline(c) \/ QueryFriends(c) \/ RemoveOffline(c) \/ NotifyFriendState(c) \/ Return(c)
  <2>1. Still /\ UNCHANGED <<link, client>>
    BY <1>7 DEF FetchOffline, QueryFriends, RemoveOffline, NotifyFriendState, Return, net, tables, db, redis, Still
  <2>2. \A d \in Conns : d # c => pc'[d] = pc[d]
    BY <1>7, GoesTo DEF FetchOffline, QueryFriends, RemoveOffline, NotifyFriendState, Return
  <2> QED  BY <2>1, <2>2 DEF Focused, Still, Shows
<1>8. CASE SendNear(c) \/ LookUp(c) \/ StoreOffline(c) \/ Publish(c)
  <2>1. Still /\ UNCHANGED <<pc, link, client>>
    BY <1>8 DEF SendNear, LookUp, StoreOffline, Publish, net, tables, db, redis, Still
  <2> QED  BY <2>1 DEF Focused, Still, Shows
<1> QED  BY <1>1, <1>2, <1>3, <1>4, <1>5, <1>6, <1>7, <1>8 DEF HandlerStep

(* ... and so does what a client does *)
LEMMA ClientFocused ==
  ASSUME SessionInv, NEW c \in Conns, ClientStep(c)
  PROVE  Focused(c)
<1>1. CASE Login(c)
  <2>1. Still /\ link' = link /\ client' = [client EXCEPT ![c] = "wait"]
    BY <1>1 DEF Login, Still, db, redis
  <2>2. \A d \in Conns : d # c => pc'[d] = pc[d]
    BY <1>1, GoesTo DEF Login
  <2> QED  BY <2>1, <2>2 DEF Focused, Still, Shows, SessionInv, CoreTypes
<1>2. CASE Logout(c)
  <2>1. /\ link' = link /\ client' = [client EXCEPT ![c] = "out"] /\ UNCHANGED <<state, subs>>
        /\ userConnMap' = [userConnMap EXCEPT ![ServerOf[c]][UserOf[c]] = NoConn]
    BY <1>2 DEF Logout, db, redis
  <2>2. \A d \in Conns : d # c => pc'[d] = pc[d]
    BY <1>2, GoesTo DEF Logout
  <2> QED  BY <2>1, <2>2 DEF Focused, Shows, SessionInv, CoreTypes
<1>3. CASE PeerClose(c)
  <2>1. Still /\ client' = client /\ link' = [link EXCEPT ![c] = "down"]
    BY <1>3 DEF PeerClose, Still, tables, db, redis
  <2>2. \A d \in Conns : d # c => pc'[d] = pc[d]
    BY <1>3, GoesTo DEF PeerClose
  <2> QED  BY <2>1, <2>2 DEF Focused, Still, Shows, SessionInv, CoreTypes
<1>4. CASE Heartbeat(c)
  BY <1>4 DEF Heartbeat, Focused, Shows, net, db, redis
<1>5. ASSUME NEW m \in Msgs, OneChat(c, m) \/ GroupChat(c, m) PROVE Focused(c)
  <2>1. Goto(c, "send") /\ Still /\ UNCHANGED <<link, client>>
    BY <1>5 DEF OneChat, GroupChat, Send, Receive, db, redis, Still
  <2> QED  BY <2>1, GoesTo DEF Focused, Still, Shows
<1> QED  BY <1>1, <1>2, <1>3, <1>4, <1>5 DEF ClientStep

Commanding(c) ==
    \/ cmds' = cmds
    \/ \E op \in {"subscribe", "unsubscribe"} : Command(ServerOf[c], op, UserOf[c])
    \/ cmds' = [cmds EXCEPT ![ServerOf[c]] = @ \o <<[op |-> "unsubscribe", user |-> UserOf[c]],
                                                     [op |-> "subscribe", user |-> UserOf[c]]>>]

(* A step that is focused on c is away from the other users *)
LEMMA FocusedAway ==
  ASSUME SessionInv, RedisTypes, NEW c \in Conns, Focused(c), Commanding(c)
  PROVE  Away(c) /\ RedisTypes'
<1>1. ServerOf[c] \in Servers /\ UserOf[c] \in Users /\ subs' = subs
  BY Own DEF Focused
<1>2. /\ \A s \in Servers, u \in Users : u # UserOf[c] => (WillHold(s, u)' <=> WillHold(s, u))
      /\ cmds' \in [Servers -> Seq(Commands)]
  <2>1. CASE cmds' = cmds
    BY <1>1, <2>1 DEF WillHold, RedisTypes
  <2>2. ASSUME NEW op \in {"subscribe", "unsubscribe"}, Command(ServerOf[c], op, UserOf[c])
        PROVE  /\ \A s \in Servers, u \in Users : u # UserOf[c] => (WillHold(s, u)' <=> WillHold(s, u))
               /\ cmds' \in [Servers -> Seq(Commands)]
    BY <1>1, <2>2, Commanded
  <2>3. CASE cmds' = [cmds EXCEPT ![ServerOf[c]] = @ \o <<[op |-> "unsubscribe", user |-> UserOf[c]],
                                                     [op |-> "subscribe", user |-> UserOf[c]]>>]
    BY <1>1, <2>3, CommandedTwice
  <2> QED  BY <2>1, <2>2, <2>3 DEF Commanding
<1>3. \A s \in Servers, u \in Users : u # UserOf[c] => userConnMap'[s][u] = userConnMap[s][u]
  <2>1. CASE userConnMap' = userConnMap
    BY <2>1
  <2>2. ASSUME NEW x, userConnMap' = [userConnMap EXCEPT ![ServerOf[c]][UserOf[c]] = x],
               NEW s \in Servers, NEW u \in Users, u # UserOf[c]
        PROVE  userConnMap'[s][u] = userConnMap[s][u]
    BY <1>1, <2>2 DEF SessionInv, CoreTypes
  <2> QED  BY <2>1, <2>2 DEF Focused
<1>4. state' \in [Users -> States] /\ \A u \in Users : u # UserOf[c] => state'[u] = state[u]
  BY <1>1 DEF Focused, RedisTypes
<1> QED  BY <1>1, <1>2, <1>3, <1>4 DEF Away, RedisTypes, Focused

(* No step of a handler moves another user, ... *)
LEMMA HandlerAway ==
  ASSUME SessionInv, RedisTypes, NEW c \in Conns, HandlerStep(c)
  PROVE  Away(c) /\ RedisTypes'
<1>1. Commanding(c)
  BY DEF HandlerStep, Commanding, Relogin, Register, Subscribe, SetOnline, FetchOffline, QueryFriends, Ack,
         RemoveOffline, CloseErase, Unsubscribe, Untrack, SetOffline, NotifyFriendState, SendNear, LookUp,
         StoreOffline, Publish, Return, redis
<1> QED  BY <1>1, HandlerFocused, FocusedAway

(* ... nor does anything a client does *)
LEMMA ClientAway ==
  ASSUME SessionInv, RedisTypes, NEW c \in Conns, ClientStep(c)
  PROVE  Away(c) /\ RedisTypes'
<1>1. Commanding(c)
  BY DEF ClientStep, Commanding, Login, Logout, PeerClose, Heartbeat, OneChat, GroupChat, redis
<1> QED  BY <1>1, ClientFocused, FocusedAway

(* Redis takes a command, the observer a payload: no user is moved *)
LEMMA ServerKept ==
  ASSUME RedisTypes, NEW s \in Servers, ServerStep(s)
  PROVE  RedisTypes' /\ \A u \in Users : Ways(u) => Kept(u)
<1>1. UNCHANGED <<link, client, pc, userConnMap, state>>
  BY DEF ServerStep, RedisSubscription, ObserverLookUp, ObserverForward, net, tables, db
<1>2. RedisTypes' /\ \A r \in Servers, u \in Users : WillHold(r, u)' <=> WillHold(r, u)
  <2>1. CASE RedisSubscription(s)
    <3> DEFINE w == cmds[s]
               S == subs[s]
               T == IF Head(w).op = "subscribe" THEN S \cup {Head(w).user} ELSE S \ {Head(w).user}
    <3>1. /\ cmds \in [Servers -> Seq(Commands)] /\ subs \in [Servers -> SUBSET Users]
          /\ w # <<>> /\ cmds' = [cmds EXCEPT ![s] = Tail(w)] /\ subs' = [subs EXCEPT ![s] = T]
      BY <2>1 DEF RedisSubscription, RedisTypes
    <3>2. w \in Seq(Commands) /\ Head(w) \in Commands /\ Tail(w) \in Seq(Commands)
      BY <3>1
    <3>3. T \subseteq Users
      BY <3>1, <3>2 DEF Commands
    <3>4. \A u : Will(u, Tail(w), T) <=> Will(u, w, S)
      BY <3>1, <3>2, WillExecute, SMTT(30)
    <3>5. /\ cmds'[s] = Tail(w) /\ subs'[s] = T
          /\ \A r \in Servers : r # s => cmds'[r] = cmds[r] /\ subs'[r] = subs[r]
      BY <3>1
    <3>6. cmds' \in [Servers -> Seq(Commands)] /\ subs' \in [Servers -> SUBSET Users]
      <4> HIDE DEF T
      <4> QED  BY <3>1, <3>2, <3>3
    <3> HIDE DEF T
    <3> QED  BY <1>1, <3>4, <3>5, <3>6 DEF WillHold, RedisTypes
  <2>2. CASE ObserverLookUp(s) \/ ObserverForward(s)
    BY <1>1, <2>2 DEF ObserverLookUp, ObserverForward, RedisTypes, WillHold
  <2> QED  BY <2>1, <2>2 DEF ServerStep
<1>3. ASSUME NEW u \in Users, Ways(u) PROVE Kept(u)
  <2>1. \A c \in ConnsOf(u) : pc'[c] = pc[c] /\ (Shows(c)' => Shows(c))
    BY <1>1 DEF Shows
  <2> QED  BY <1>1, <1>2, <1>3, <2>1, Unmoved
<1> QED  BY <1>2, <1>3

(* The heartbeat check only shuts a connection down *)
LEMMA TimeoutKept ==
  ASSUME SessionInv, RedisTypes, NEW c \in Conns, HeartbeatTimeout(c)
  PROVE  RedisTypes' /\ \A u \in Users : Ways(u) => Kept(u)
<1>1. link' = [link EXCEPT ![c] = "half"] /\ UNCHANGED <<client, pc, userConnMap, state, cmds, subs>>
  BY DEF HeartbeatTimeout, tables, db, redis
<1>2. \A d \in Conns : pc'[d] = pc[d] /\ (Shows(d)' => Shows(d))
  BY <1>1 DEF Shows, SessionInv, CoreTypes
<1>3. ASSUME NEW u \in Users, Ways(u) PROVE Kept(u)
  <2>1. \A d \in ConnsOf(u) : pc'[d] = pc[d] /\ (Shows(d)' => Shows(d))
    BY <1>2 DEF ConnsOf
  <2> QED  BY <1>1, <1>3, <2>1, Unmoved DEF WillHold
<1> QED  BY <1>1, <1>3 DEF RedisTypes

(* Every step keeps what is known of a user, unless it makes the user's    *)
(* handlers run into each other                                            *)
LEMMA NextKept ==
  ASSUME SessionInv, RedisTypes, Next
  PROVE  /\ RedisTypes'
         /\ \A u \in Users : Ways(u) /\ ~Racing(u)' /\ ~LogsOutAnother(u) => Kept(u)
<1>1. ASSUME NEW c \in Conns, HandlerStep(c) \/ ClientStep(c),
             NEW u \in Users, Ways(u), ~Racing(u)', ~LogsOutAnother(u)
      PROVE  Kept(u)
  <2>1. Away(c)
    BY <1>1, HandlerAway, ClientAway
  <2>2. CASE u = UserOf[c]
    BY <1>1, <2>2, HandlerKept, ClientKept
  <2>3. CASE u # UserOf[c]
    BY <1>1, <2>1, <2>3, AwayKept
  <2> QED  BY <2>2, <2>3
<1>2. ASSUME NEW c \in Conns, HandlerStep(c) \/ ClientStep(c)
      PROVE  RedisTypes'
  BY <1>2, HandlerAway, ClientAway
<1>3. CASE \E c \in Conns : HandlerStep(c) \/ ClientStep(c)
  BY <1>1, <1>2, <1>3
<1>4. CASE \E c \in Conns : HeartbeatTimeout(c)
  BY <1>4, TimeoutKept
<1>5. CASE \E s \in Servers : ServerStep(s)
  BY <1>5, ServerKept
<1> QED  BY <1>3, <1>4, <1>5 DEF Next

----------------------------------------------------------------------------
PresenceInv ==
    /\ SessionInv /\ RedisTypes
    /\ \A u \in Users \ raced : Ways(u) /\ Recorded(u) /\ Shown(u)

(* At the start nobody is anywhere *)
LEMMA InitPresence ==
  ASSUME HInit
  PROVE  PresenceInv
<1>1. /\ pc = [c \in Conns |-> "idle"] /\ client = [c \in Conns |-> "fresh"]
      /\ userConnMap = [s \in Servers |-> [u \in Users |-> NoConn]]
      /\ state = [u \in Users |-> "offline"]
      /\ subs = [s \in Servers |-> {}] /\ cmds = [s \in Servers |-> <<>>] /\ Init
  BY DEF HInit, Init
<1>2. SessionInv
  BY <1>1, InitSession
<1>3. RedisTypes
  BY <1>1 DEF RedisTypes, States
<1>4. ASSUME NEW u \in Users PROVE Ways(u) /\ Recorded(u) /\ Shown(u)
  <2>1. Homes(u) = {} /\ \A c \in ConnsOf(u) : pc[c] = "idle" /\ ~Shows(c)
    BY <1>1 DEF Homes, ConnsOf, Shows
  <2>2. ~Racing(u)
    BY <2>1 DEF Racing, Contending, LoginLabels, LeaveLabels
  <2>3. \A s \in Servers : ~WillHold(s, u)
    BY <1>1 DEF WillHold, Will
  <2> QED  BY <1>1, <2>1, <2>2, <2>3 DEF Ways, Recorded, Shown, Entered, LeaveLabels
<1> QED  BY <1>2, <1>3, <1>4 DEF PresenceInv

(* Every step of the service keeps the invariant, the history noting the   *)
(* users who are excepted                                                  *)
LEMMA NextPresence ==
  ASSUME PresenceInv, [HNext]_hvars
  PROVE  PresenceInv'
<1>1. CASE HNext
  <2>1. SessionInv' /\ RedisTypes'
    BY <1>1, NextSession, NextKept DEF PresenceInv, HNext
  <2>2. ASSUME NEW u \in Users, u \notin raced' PROVE (Ways(u) /\ Recorded(u) /\ Shown(u))'
    <3>1. u \notin raced /\ ~Racing(u)' /\ ~LogsOutAnother(u)
      BY <1>1, <2>2 DEF HNext, Record
    <3>2. Kept(u)
      BY <1>1, <3>1, NextKept DEF PresenceInv, HNext
    <3> QED  BY <3>1, <3>2 DEF PresenceInv, Kept
  <2> QED  BY <2>1, <2>2 DEF PresenceInv
<1>2. CASE UNCHANGED hvars
  <2>1. UNCHANGED vars /\ UNCHANGED raced
    BY <1>2 DEF hvars
  <2>2. SessionInv'
    BY <2>1, NextSession DEF PresenceInv
  <2>3. UNCHANGED <<link, client, pc, userConnMap, state, subs, cmds>>
    BY <2>1 DEF vars, net, tables, db, redis
  <2>4. ASSUME NEW u \in Users, Ways(u) PROVE Kept(u)
    BY <2>3, <2>4, Unmoved DEF Shows, WillHold
  <2> QED  BY <2>1, <2>2, <2>3, <2>4 DEF PresenceInv, RedisTypes, Kept
<1> QED  BY <1>1, <1>2

(* Redis has carried out what it was sent *)
LEMMA CarriedOut ==
  ASSUME RedisTypes, NEW u \in Users, ~CommandsPending(u), NEW s \in Servers
  PROVE  WillHold(s, u) <=> u \in subs[s]
<1>1. cmds[s] \in Seq(Commands) /\ DOMAIN cmds[s] = 1..Len(cmds[s])
  BY DEF RedisTypes
<1>2. \A i \in 1..Len(cmds[s]) : cmds[s][i].user # u
  BY <1>1 DEF CommandsPending
<1> QED  BY <1>2 DEF WillHold, Will

(* Where the handlers of a user are done, the three places agree *)
LEMMA Agreed ==
  ASSUME RedisTypes, NEW u \in Users, Ways(u), Recorded(u), Settled(u)
  PROVE  /\ state[u] = "online" <=> Homes(u) # {}
         /\ {s \in Servers : u \in subs[s]} = Homes(u)
<1>1. \A c \in ConnsOf(u) : pc[c] \notin LoginLabels \cup LeaveLabels
  BY DEF Settled, Contending
<1>2. state[u] = "online" <=> Homes(u) # {}
  BY <1>1 DEF Recorded, LoginLabels
<1>3. \A s \in Servers : WillHold(s, u) <=> s \in Homes(u)
  BY <1>1 DEF Ways, LoginLabels, LeaveLabels
<1>4. \A s \in Servers : u \in subs[s] <=> s \in Homes(u)
  BY <1>3, CarriedOut DEF Settled
<1> QED  BY <1>2, <1>4 DEF Homes

(* The inductive invariant of presence: for every user whose handlers have  *)
(* not run into each other, login, loginout and clientCloseException move   *)
(* table, subscription and state column in step                             *)
THEOREM PresenceInvariant == HSpec => []PresenceInv
<1>1. HInit => PresenceInv
  BY InitPresence
<1>2. PresenceInv /\ [HNext]_hvars => PresenceInv'
  BY NextPresence
<1> QED  BY <1>1, <1>2, PTL DEF HSpec

(* Once the handlers of a user are done and Redis has carried out the      *)
(* commands, MySQL, the session tables and Redis agree about the user, and *)
(* who sees messages is registered (login, loginout and                    *)
(* clientCloseException of chatservice.cpp, interleaved in every way that  *)
(* does not run two of the user's handlers into each other).               *)
THEOREM PresenceAgrees == HSpec => []PresenceExact
<1>1. PresenceInv => PresenceExact
  <2> SUFFICES ASSUME PresenceInv, NEW u \in Users \ raced, Settled(u)
               PROVE  /\ state[u] = "online" <=> Homes(u) # {}
                      /\ {s \in Servers : u \in subs[s]} = Homes(u)
                      /\ \A c \in ConnsOf(u) : Shows(c) => Registered(c) = c
    BY DEF PresenceExact
  <2>1. RedisTypes /\ Ways(u) /\ Recorded(u) /\ Shown(u)
    BY DEF PresenceInv
  <2> QED  BY <2>1, Agreed DEF Shown
<1> QED  BY <1>1, PresenceInvariant, PTL

----------------------------------------------------------------------------
(* The same across the ends of processes.  In a process that is down,      *)
(* nobody is registered and no handler runs                                *)
DownEmpty ==
    \A s \in Servers : ~Running(s) =>
        /\ \A u \in Users : userConnMap[s][u] = NoConn
        /\ \A c \in Local(s) : pc[c] = "idle"

Phases == {"up", "quit", "reset", "closing", "down"}

LifeInv ==
    /\ SessionInv /\ RedisTypes /\ DownEmpty
    /\ phase \in [Servers -> Phases]
    /\ \A u \in Users \ raced : Ways(u)
    /\ \A u \in Users \ (raced \cup strayed) : Recorded(u)

(* A process that runs may do anything to its own part *)
LEMMA StaysDown ==
  ASSUME DownEmpty, NEW r \in Servers, Running(r),
         \A s \in Servers : s # r =>
            /\ phase'[s] = phase[s]
            /\ \A u \in Users : userConnMap'[s][u] = userConnMap[s][u]
            /\ \A c \in Local(s) : pc'[c] = pc[c],
         Running(r)'
  PROVE  DownEmpty'
<1> SUFFICES ASSUME NEW s \in Servers, ~Running(s)'
             PROVE  /\ \A u \in Users : userConnMap'[s][u] = NoConn
                    /\ \A c \in Local(s) : pc'[c] = "idle"
  BY DEF DownEmpty, Local
<1>1. s # r
  OBVIOUS
<1> QED  BY <1>1 DEF DownEmpty, Running

(* The end of a process *)
LEMMA GoneSession ==
  ASSUME SessionInv, NEW s \in Servers, ProcessGone(s)
  PROVE  SessionInv'
<1>1. /\ link' = [c \in Conns |-> IF c \in Local(s) /\ Used(c) THEN "down" ELSE link[c]]
      /\ pc' = [c \in Conns |-> IF c \in Local(s) THEN "idle" ELSE pc[c]]
      /\ userConnMap' = [userConnMap EXCEPT ![s] = [u \in Users |-> NoConn]]
      /\ connectionLastTime' = connectionLastTime \ Local(s)
      /\ client' = client
  BY DEF ProcessGone
<1>2. CoreTypes'
  BY <1>1 DEF SessionInv, CoreTypes, Labels
<1>3. \A c \in Conns : /\ c \in Local(s) => pc'[c] = "idle" /\ c \notin connectionLastTime'
                       /\ c \notin Local(s) => pc'[c] = pc[c] /\ link'[c] = link[c]
  BY <1>1
<1>4. LoginOnLive' /\ LeaveWhenGone'
  <2>1. "idle" \notin LoginLabels \cup LeaveLabels \cup {"close", "forget"}
    BY DEF LoginLabels, LeaveLabels
  <2> QED  BY <1>1, <1>3, <2>1 DEF SessionInv, LoginOnLive, LeaveWhenGone
<1>5. EntriesLive'
  <2> SUFFICES ASSUME NEW r \in Servers, NEW u \in Users, NEW c, c = userConnMap'[r][u], c # NoConn
               PROVE  /\ ServerOf[c] = r /\ UserOf[c] = u /\ client'[c] \in {"wait", "in"}
                      /\ link'[c] = "down" => pc'[c] = "close"
                      /\ c \in connectionLastTime'
    BY DEF EntriesLive
  <2>1. r # s /\ c = userConnMap[r][u]
    BY <1>1 DEF SessionInv, CoreTypes
  <2>2. c \in Conns /\ ServerOf[c] = r
    BY <2>1 DEF SessionInv, CoreTypes, EntriesLive
  <2>3. c \notin Local(s)
    BY <2>1, <2>2 DEF Local
  <2> QED  BY <1>1, <1>3, <2>1, <2>2, <2>3 DEF SessionInv, EntriesLive
<1>6. NoTrackedGhost'
  BY <1>1, <1>3 DEF SessionInv, CoreTypes, NoTrackedGhost
<1> QED  BY <1>2, <1>4, <1>5, <1>6 DEF SessionInv

(* ... takes its users out of the tables and out of what Redis will hold, ... *)
LEMMA GoneTables ==
  ASSUME SessionInv, RedisTypes, DownEmpty, phase \in [Servers -> Phases], NEW s \in Servers, ProcessGone(s)
  PROVE  /\ RedisTypes' /\ DownEmpty' /\ phase' \in [Servers -> Phases]
         /\ \A u \in Users : Homes(u)' = Homes(u) \ {s}
         /\ \A r \in Servers, u \in Users : WillHold(r, u)' <=> r # s /\ WillHold(r, u)
<1>1. /\ phase' = [phase EXCEPT ![s] = "down"]
      /\ pc' = [c \in Conns |-> IF c \in Local(s) THEN "idle" ELSE pc[c]]
      /\ userConnMap' = [userConnMap EXCEPT ![s] = [u \in Users |-> NoConn]]
      /\ subs' = [subs EXCEPT ![s] = {}] /\ cmds' = [cmds EXCEPT ![s] = <<>>]
      /\ state' = state
  BY DEF ProcessGone, db
<1>2. RedisTypes'
  <2>1. <<>> \in Seq(Commands) /\ {} \in SUBSET Users
    OBVIOUS
  <2> QED  BY <1>1, <2>1 DEF RedisTypes
<1>3. phase' \in [Servers -> Phases]
  BY <1>1 DEF Phases
<1>4. /\ \A u \in Users : userConnMap'[s][u] = NoConn
      /\ \A r \in Servers : r # s => userConnMap'[r] = userConnMap[r] /\ phase'[r] = phase[r]
  BY <1>1 DEF SessionInv, CoreTypes
<1>5. DownEmpty'
  <2> SUFFICES ASSUME NEW r \in Servers, ~Running(r)'
               PROVE  /\ \A u \in Users : userConnMap'[r][u] = NoConn
                      /\ \A c \in Local(r) : pc'[c] = "idle"
    BY DEF DownEmpty, Local
  <2>1. CASE r = s
    BY <1>1, <1>4, <2>1 DEF Local
  <2>2. CASE r # s
    BY <1>1, <1>4, <2>2 DEF DownEmpty, Running, Local
  <2> QED  BY <2>1, <2>2
<1>6. \A u \in Users : Homes(u)' = Homes(u) \ {s}
  BY <1>4 DEF Homes
<1>7. ASSUME NEW r \in Servers, NEW u \in Users PROVE WillHold(r, u)' <=> r # s /\ WillHold(r, u)
  <2>1. CASE r = s
    <3>1. cmds'[r] = <<>> /\ subs'[r] = {}
      BY <1>1, <2>1 DEF RedisTypes
    <3> QED  BY <2>1, <3>1 DEF WillHold, Will
  <2>2. CASE r # s
    BY <1>1, <2>2 DEF WillHold, RedisTypes
  <2> QED  BY <2>1, <2>2
<1> QED  BY <1>2, <1>3, <1>5, <1>6, <1>7

(* ... and leaves the other users, and those on other servers, where they are *)
LEMMA GoneKept ==
  ASSUME SessionInv, RedisTypes, DownEmpty, phase \in [Servers -> Phases], NEW s \in Servers, ProcessGone(s),
         NEW u \in Users, Ways(u), ~Racing(u)'
  PROVE  Ways(u)' /\ (Recorded(u) /\ u \notin Touched(s) => Recorded(u)')
<1>1. /\ pc' = [c \in Conns |-> IF c \in Local(s) THEN "idle" ELSE pc[c]] /\ state' = state
      /\ userConnMap' = [userConnMap EXCEPT ![s] = [v \in Users |-> NoConn]]
  BY DEF ProcessGone, db
<1>2. /\ \A d \in ConnsOf(u) : UserOf[d] = u /\ ServerOf[d] \in Servers /\ d \in Conns
      /\ ConnsOf(u)' = ConnsOf(u)
  BY Own DEF ConnsOf
<1>3. /\ Homes(u)' = Homes(u) \ {s}
      /\ \A r \in Servers : WillHold(r, u)' <=> r # s /\ WillHold(r, u)
  BY GoneTables
<1>4. \A d \in ConnsOf(u) : IF ServerOf[d] = s THEN pc'[d] = "idle"
                            ELSE pc'[d] = pc[d] /\ Registered(d)' = Registered(d)
  BY <1>1, <1>2 DEF Local, Registered, SessionInv, CoreTypes
<1>5. "idle" \notin Entered \cup LeaveLabels \cup {"subscribe", "unsubscribe", "setOnline", "register"}
  BY DEF Entered, LeaveLabels
<1>6. Ways(u)'
  <2>1. ASSUME NEW d \in ConnsOf(u)
        PROVE  /\ pc'[d] \in Entered => Registered(d)' = d
               /\ pc'[d] \in LeaveLabels => Homes(u)' = {}
    BY <1>3, <1>4, <1>5 DEF Ways
  <2>2. ASSUME NEW r \in Servers, \A d \in ConnsOf(u) : ServerOf[d] = r => pc'[d] # "subscribe"
        PROVE  WillHold(r, u)' <=> \/ r \in Homes(u)'
                                   \/ \E d \in ConnsOf(u) : ServerOf[d] = r /\ pc'[d] = "unsubscribe"
    <3>1. CASE r = s
      BY <1>3, <1>4, <1>5, <3>1
    <3>2. CASE r # s
      <4>1. \A d \in ConnsOf(u) : ServerOf[d] = r => pc'[d] = pc[d]
        BY <1>4, <3>2
      <4> QED  BY <1>3, <2>2, <3>2, <4>1 DEF Ways
    <3> QED  BY <3>1, <3>2
  <2> QED  BY <1>2, <2>1, <2>2 DEF Ways
<1>7. ASSUME Recorded(u), u \notin Touched(s) PROVE Recorded(u)'
  <2>1. userConnMap[s][u] = NoConn /\ \A d \in ConnsOf(u) : ServerOf[d] = s => pc[d] = "idle"
    BY <1>2, <1>7 DEF Touched, Local
  <2>2. s \notin Homes(u) /\ \A d \in ConnsOf(u) : pc'[d] = pc[d]
    BY <1>4, <2>1 DEF Homes
  <2> QED  BY <1>1, <1>2, <1>3, <1>7, <2>2 DEF Recorded
<1> QED  BY <1>6, <1>7

(* A crash or an exit keeps the invariant: the users of whom the process has *)
(* a trace are noted *)
LEMMA EndKept ==
  ASSUME LifeInv, NEW s \in Servers, Crash(s) \/ Exit(s), Record
  PROVE  LifeInv'
<1>1. ProcessGone(s) /\ strayed' = strayed \cup Touched(s)
  BY DEF Crash, Exit
<1>2. /\ SessionInv /\ RedisTypes /\ DownEmpty /\ phase \in [Servers -> Phases]
      /\ SessionInv' /\ RedisTypes' /\ DownEmpty' /\ phase' \in [Servers -> Phases]
  BY <1>1, GoneSession, GoneTables DEF LifeInv
<1>3. ASSUME NEW u \in Users, u \notin raced'
      PROVE  Ways(u)' /\ (u \notin strayed' => Recorded(u)')
  <2>1. u \notin raced /\ ~Racing(u)'
    BY <1>3 DEF Record
  <2>2. Ways(u)' /\ (Recorded(u) /\ u \notin Touched(s) => Recorded(u)')
    BY <1>1, <1>2, <2>1, GoneKept DEF LifeInv
  <2> QED  BY <1>1, <2>1, <2>2 DEF LifeInv
<1> QED  BY <1>2, <1>3 DEF LifeInv

(* reset() records every user as offline, which is right for those of whom *)
(* no process has a trace                                                  *)
LEMMA ResetKept ==
  ASSUME LifeInv, NEW s \in Servers, Reset(s), Record, ~UNCHANGED <<state, strayed>>
  PROVE  LifeInv'
<1>1. /\ phase[s] = "quit" /\ phase' = [phase EXCEPT ![s] = "reset"] /\ state' = [u \in Users |-> "offline"]
      /\ strayed' = {u \in Users : \E t \in Servers : u \in Touched(t)}
      /\ UNCHANGED <<link, client, pc, userConnMap, connectionLastTime, subs, cmds>>
  BY DEF Reset, net, tables, redis, Nobody
<1>2. SessionInv'
  BY <1>1, CoreUnchanged DEF LifeInv, core
<1>3. RedisTypes' /\ phase' \in [Servers -> Phases]
  BY <1>1 DEF LifeInv, RedisTypes, States, Phases
<1>4. DownEmpty'
  <2>1. Running(s) /\ Running(s)'
    BY <1>1 DEF Running, LifeInv
  <2> QED  BY <1>1, <2>1, StaysDown DEF LifeInv
<1>5. ASSUME NEW u \in Users, u \notin raced' PROVE Ways(u)'
  <2>1. Ways(u) /\ ~Racing(u)'
    BY <1>5 DEF Record, LifeInv
  <2>2. /\ \A d \in ConnsOf(u) : Registered(d)' = Registered(d)
        /\ Homes(u)' = Homes(u) /\ ConnsOf(u)' = ConnsOf(u)
        /\ \A r \in Servers : WillHold(r, u)' <=> WillHold(r, u)
    BY <1>1 DEF Registered, Homes, ConnsOf, WillHold
  <2> QED  BY <1>1, <2>1, <2>2 DEF Ways
<1>6. ASSUME NEW u \in Users, u \notin strayed' PROVE Recorded(u)'
  <2>1. \A t \in Servers : u \notin Touched(t)
    BY <1>1, <1>6
  <2>2. Homes(u)' = {}
    BY <1>1, <2>1 DEF Homes, Touched
  <2>3. \A d \in ConnsOf(u) : pc'[d] = "idle"
    BY <1>1, <2>1, Own DEF ConnsOf, Touched, Local
  <2>4. ConnsOf(u)' = ConnsOf(u) /\ state'[u] = "offline"
    BY <1>1 DEF ConnsOf
  <2> QED  BY <2>2, <2>3, <2>4 DEF Recorded, LeaveLabels
<1> QED  BY <1>2, <1>3, <1>4, <1>5, <1>6 DEF LifeInv

(* Only the phase changes *)
LEMMA PhaseKept ==
  ASSUME LifeInv, UNCHANGED <<vars, strayed>>, raced \cap Users \subseteq raced',
         \/ phase' = phase
         \/ \E s \in Servers, p \in Phases \ {"down"} : phase' = [phase EXCEPT ![s] = p]
  PROVE  LifeInv'
<1>1. UNCHANGED <<link, client, pc, userConnMap, connectionLastTime, state, subs, cmds>>
  BY DEF vars, net, tables, db, redis
<1>2. SessionInv'
  BY <1>1, CoreUnchanged DEF LifeInv, core
<1>3. RedisTypes'
  BY <1>1 DEF LifeInv, RedisTypes
<1>4. phase' \in [Servers -> Phases] /\ DownEmpty'
  <2>1. CASE phase' = phase
    BY <1>1, <2>1 DEF LifeInv, DownEmpty, Running, Local
  <2>2. ASSUME NEW s \in Servers, NEW p \in Phases \ {"down"}, phase' = [phase EXCEPT ![s] = p]
        PROVE  phase' \in [Servers -> Phases] /\ DownEmpty'
    <3>1. phase' \in [Servers -> Phases] /\ \A r \in Servers : Running(r) => Running(r)'
      BY <2>2 DEF LifeInv, Running
    <3> QED  BY <1>1, <3>1 DEF LifeInv, DownEmpty, Local
  <2> QED  BY <2>1, <2>2
<1>5. ASSUME NEW u \in Users, Ways(u) PROVE Kept(u)
  BY <1>1, <1>5, Unmoved DEF Shows, WillHold
<1> QED  BY <1>2, <1>3, <1>4, <1>5 DEF LifeInv, Kept

(* A lost write of the state keeps it: its user is noted *)
LEMMA LostKept ==
  ASSUME LifeInv, NEW c \in Conns, WriteLost(c), Record
  PROVE  LifeInv'
<1> DEFINE l == IF pc[c] = "setOnline" THEN "fetch" ELSE "notify"
<1>1. /\ pc[c] \in {"setOnline", "setOffline"} /\ strayed' = strayed \cup {UserOf[c]} /\ Goto(c, l)
      /\ UNCHANGED <<link, client, userConnMap, connectionLastTime, state, subs, cmds, phase>>
  BY DEF WriteLost, net, tables, db, redis
<1>2. /\ l \in Labels /\ l \notin {"close", "forget", "subscribe", "unsubscribe"}
      /\ l \in LoginLabels \cup Entered => pc[c] \in LoginLabels /\ pc[c] \in Entered
      /\ l \notin LeaveLabels /\ pc[c] \notin ClosingLabels
      /\ pc[c] \notin {"close", "subscribe", "unsubscribe"}
  BY <1>1 DEF Labels, LoginLabels, LeaveLabels, Entered, ClosingLabels
<1> HIDE DEF l
<1>3. SessionInv'
  BY <1>1, <1>2, MoveStep DEF LifeInv
<1>4. Away(c) /\ RedisTypes' /\ \A d \in Conns : d # c => pc'[d] = pc[d]
  <2>1. \A d \in Conns : d # c => pc'[d] = pc[d]
    BY <1>1, GoesTo DEF LifeInv
  <2>2. Focused(c) /\ Commanding(c)
    BY <1>1, <2>1 DEF Focused, Commanding, Shows
  <2> QED  BY <2>1, <2>2, FocusedAway DEF LifeInv
<1>5. DownEmpty' /\ phase' \in [Servers -> Phases]
  <2>1. Running(ServerOf[c]) /\ ServerOf[c] \in Servers
    BY <1>1, Own DEF LifeInv, DownEmpty, Local
  <2>2. \A s \in Servers : s # ServerOf[c] => \A d \in Local(s) : pc'[d] = pc[d]
    BY <1>4 DEF Local
  <2> QED  BY <1>1, <2>1, <2>2, StaysDown DEF LifeInv, Running
<1>6. ASSUME NEW u \in Users, u \notin raced'
      PROVE  Ways(u)' /\ (u \notin strayed' => Recorded(u)')
  <2>1. u \notin raced /\ ~Racing(u)'
    BY <1>6 DEF Record
  <2>2. CASE u = UserOf[c]
    <3>1. Ways(u)'
      BY <1>1, <1>2, <2>1, <2>2, WaysOnward DEF LifeInv
    <3> QED  BY <1>1, <2>2, <3>1
  <2>3. CASE u # UserOf[c]
    BY <1>1, <1>4, <2>1, <2>3, AwayKept DEF LifeInv, Kept
  <2> QED  BY <2>2, <2>3
<1> QED  BY <1>3, <1>4, <1>5, <1>6 DEF LifeInv

(* A handler that writes the state makes it right again *)
LEMMA WriteRight ==
  ASSUME SessionInv, RedisTypes, Next, NEW c \in Conns, pc[c] \in {"setOnline", "setOffline"}, pc'[c] # pc[c],
         NEW u \in Users, u = UserOf[c], Ways(u), ~Racing(u)'
  PROVE  Recorded(u)'
<1>1. PICK d \in Conns : HandlerStep(d) \/ ClientStep(d)
  <2>1. ~ \E d \in Conns : HeartbeatTimeout(d)
    BY DEF HeartbeatTimeout
  <2>2. ~ \E s \in Servers : ServerStep(s)
    BY DEF ServerStep, RedisSubscription, ObserverLookUp, ObserverForward
  <2> QED  BY <2>1, <2>2 DEF Next
<1>2. c = d
  BY <1>1, HandlerFocused, ClientFocused DEF Focused
<1>3. SetOnline(c) \/ SetOffline(c)
  <2>1. HandlerStep(c)
    BY <1>1, <1>2 DEF ClientStep, Login, Logout, PeerClose, Heartbeat, OneChat, GroupChat, Send, Receive
  <2> QED  BY <2>1 DEF HandlerStep, Relogin, Register, Subscribe, FetchOffline, QueryFriends, Ack,
         RemoveOffline, CloseErase, Unsubscribe, Untrack, NotifyFriendState, SendNear, LookUp,
         StoreOffline, Publish, Return
<1> QED  BY <1>3, SetOnlineKept, SetOfflineKept

(* A step of the service, in a process that runs *)
LEMMA ServiceKept ==
  ASSUME LifeInv, Record, phase' = phase,
         \/ \E c \in Conns : Running(ServerOf[c]) /\ (HandlerStep(c) \/ ClientStep(c))
         \/ \E c \in Conns : HeartbeatTimeout(c)
         \/ \E s \in Servers : ServerStep(s),
         \A u \in strayed \ strayed' : \E c \in ConnsOf(u) :
            pc[c] \in {"setOnline", "setOffline"} /\ pc'[c] # pc[c]
  PROVE  LifeInv'
<1>1. Next /\ SessionInv /\ RedisTypes
  BY DEF Next, LifeInv
<1>2. SessionInv' /\ RedisTypes'
  BY <1>1, NextSession, NextKept
<1>3. ASSUME NEW u \in Users, u \notin raced'
      PROVE  Ways(u)' /\ (u \notin strayed' => Recorded(u)')
  <2>1. Ways(u) /\ ~Racing(u)' /\ ~LogsOutAnother(u) /\ u \notin raced
    BY <1>3 DEF Record, LifeInv
  <2>2. Kept(u)
    BY <1>1, <2>1, NextKept
  <2>3. CASE u \notin strayed
    BY <2>1, <2>2, <2>3 DEF LifeInv, Kept
  <2>4. CASE u \in strayed \ strayed'
    BY <1>1, <2>1, <2>2, <2>4, WriteRight DEF ConnsOf, Kept
  <2> QED  BY <2>2, <2>3, <2>4 DEF Kept
<1>4. DownEmpty'
  <2>1. ASSUME NEW c \in Conns, Running(ServerOf[c]), HandlerStep(c) \/ ClientStep(c) PROVE DownEmpty'
    <3>1. Focused(c) /\ ServerOf[c] \in Servers /\ UserOf[c] \in Users
      BY <1>1, <2>1, HandlerFocused, ClientFocused, Own
    <3>2. ASSUME NEW s \in Servers, s # ServerOf[c], NEW u \in Users PROVE userConnMap'[s][u] = userConnMap[s][u]
      BY <1>1, <3>1, <3>2 DEF Focused, SessionInv, CoreTypes
    <3>3. \A s \in Servers : s # ServerOf[c] => \A d \in Local(s) : pc'[d] = pc[d]
      BY <3>1 DEF Focused, Local
    <3> QED  BY <2>1, <3>1, <3>2, <3>3, StaysDown DEF LifeInv, Running
  <2>2. CASE UNCHANGED <<pc, userConnMap>>
    BY <2>2 DEF LifeInv, DownEmpty, Running, Local
  <2>3. ASSUME NEW c \in Conns, HeartbeatTimeout(c) PROVE UNCHANGED <<pc, userConnMap>>
    BY <2>3 DEF HeartbeatTimeout, tables
  <2>4. ASSUME NEW s \in Servers, ServerStep(s) PROVE UNCHANGED <<pc, userConnMap>>
    BY <2>4 DEF ServerStep, RedisSubscription, ObserverLookUp, ObserverForward, tables
  <2> QED  BY <2>1, <2>2, <2>3, <2>4
<1> QED  BY <1>2, <1>3, <1>4 DEF LifeInv

(* The inductive invariant of presence over starts, exits (main, reset),   *)
(* crashes and lost writes: the tables and Redis move in step for whoever  *)
(* has not raced, the state column for whoever has not strayed either      *)
THEOREM LifeInvariant == LSpec => []LifeInv
<1>1. LInit => LifeInv
  <2> SUFFICES ASSUME LInit PROVE LifeInv
    OBVIOUS
  <2>1. PresenceInv
    BY InitPresence DEF LInit
  <2>2. phase \in [Servers -> Phases] /\ \A s \in Servers : Running(s)
    BY DEF LInit, Phases, Running
  <2> QED  BY <2>1, <2>2 DEF PresenceInv, LifeInv, DownEmpty
<1>2. LifeInv /\ [LNext]_lvars => LifeInv'
  <2> SUFFICES ASSUME LifeInv, [LNext]_lvars PROVE LifeInv'
    OBVIOUS
  <2>1. CASE Service /\ Record
    <3>1. \A u \in strayed \ strayed' : \E c \in ConnsOf(u) :
            pc[c] \in {"setOnline", "setOffline"} /\ pc'[c] # pc[c]
      BY <2>1 DEF Service, ConnsOf
    <3>2. \/ \E c \in Conns : Running(ServerOf[c]) /\ (HandlerStep(c) \/ ClientStep(c))
          \/ \E c \in Conns : HeartbeatTimeout(c)
          \/ \E s \in Servers : ServerStep(s)
      BY <2>1 DEF Service
    <3>3. phase' = phase
      BY <2>1 DEF Service
    <3> QED  BY <2>1, <3>1, <3>2, <3>3, ServiceKept
  <2>2. ASSUME NEW c \in Conns, WriteLost(c), Record PROVE LifeInv'
    BY <2>2, LostKept
  <2>3. ASSUME NEW c \in Conns, Destroy(c), Record PROVE LifeInv'
    <3>1. ClientStep(c) /\ UNCHANGED <<phase, strayed>> /\ Running(ServerOf[c])
      BY <2>3 DEF Destroy, ClientStep, PeerClose, life, Running
    <3> QED  BY <2>3, <3>1, ServiceKept
  <2>4. ASSUME NEW s \in Servers, Crash(s) \/ Exit(s), Record PROVE LifeInv'
    BY <2>4, EndKept
  <2>5. ASSUME NEW s \in Servers, Reset(s), Record PROVE LifeInv'
    <3>1. CASE UNCHANGED <<state, strayed>>
      <4>1. UNCHANGED <<vars, strayed>> /\ raced \cap Users \subseteq raced'
        BY <2>5, <3>1 DEF Reset, Record, vars, db
      <4>2. phase' = [phase EXCEPT ![s] = "reset"] /\ "reset" \in Phases \ {"down"} /\ phase[s] = "quit"
        BY <2>5 DEF Reset, Phases
      <4> QED  BY <2>5, <4>1, <4>2, PhaseKept
    <3> QED  BY <2>5, <3>1, ResetKept
  <2>6. ASSUME NEW s \in Servers, Quit(s) \/ MainReturns(s) \/ Start(s), Record PROVE LifeInv'
    <3>1. UNCHANGED <<vars, strayed>> /\ raced \cap Users \subseteq raced'
      BY <2>6 DEF Quit, MainReturns, Start, Record
    <3>2. \E p \in Phases \ {"down"} : phase' = [phase EXCEPT ![s] = p]
      BY <2>6 DEF Quit, MainReturns, Start, Phases
    <3> QED  BY <3>1, <3>2, PhaseKept
  <2>7. CASE UNCHANGED lvars
    BY <2>7, PhaseKept DEF lvars, hvars, life
  <2> QED  BY <2>1, <2>2, <2>3, <2>4, <2>5, <2>6, <2>7 DEF LNext, LStep
<1> QED  BY <1>1, <1>2, PTL DEF LSpec

(* After exits and crashes of any processes and lost writes of the state:  *)
(* once the handlers of a user who has logged in since are done, MySQL,    *)
(* the session tables and Redis agree about the user again (the resets of  *)
(* main.cpp and ChatService::reset, and login after a crash).              *)
THEOREM PresenceComesBack == LSpec => []PresenceRepaired
<1>1. LifeInv => PresenceRepaired
  <2> SUFFICES ASSUME LifeInv, NEW u \in Users \ (raced \cup strayed), Settled(u)
               PROVE  /\ state[u] = "online" <=> Homes(u) # {}
                      /\ {s \in Servers : u \in subs[s]} = Homes(u)
    BY DEF PresenceRepaired
  <2>1. RedisTypes /\ Ways(u) /\ Recorded(u)
    BY DEF LifeInv
  <2> QED  BY <2>1, Agreed
<1> QED  BY <1>1, LifeInvariant, PTL

(* After the last process has exited, nobody is recorded online, except a  *)
(* user who logged in on it after its reset and was cut off (main in       *)
(* main.cpp runs reset() before ~TcpServer joins the IO threads), and a    *)
(* user whom a crash or a lost write left so when no later reset succeeded *)
(* (UserModel::resetState may fail without a word).                        *)
THEOREM ExitIsClean == LSpec => []CleanExit
<1>1. LifeInv => CleanExit
  <2> SUFFICES ASSUME LifeInv, \A s \in Servers : ~Running(s), NEW u \in Users, u \notin strayed \cup raced
               PROVE  state[u] = "offline"
    BY DEF CleanExit
  <2>1. RedisTypes /\ Recorded(u) /\ DownEmpty
    BY DEF LifeInv
  <2>2. Homes(u) = {} /\ \A c \in ConnsOf(u) : pc[c] = "idle"
    BY <2>1, Own DEF DownEmpty, Homes, ConnsOf, Local
  <2>3. state[u] # "online"
    BY <2>1, <2>2 DEF Recorded, LeaveLabels
  <2> QED  BY <2>1, <2>3 DEF RedisTypes, States
<1> QED  BY <1>1, LifeInvariant, PTL

(* The heartbeat table stays free of ghosts also when processes end at any *)
(* point of their handlers.                                                *)
THEOREM NoGhostsThroughout == LSpec => []NoTrackedGhost
<1>1. LifeInv => NoTrackedGhost
  BY DEF LifeInv, SessionInv
<1> QED  BY <1>1, LifeInvariant, PTL
=============================================================================
