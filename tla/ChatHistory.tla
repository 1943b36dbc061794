---------------------------- MODULE ChatHistory ----------------------------
(***************************************************************************)
(* ChatService with three history variables, and what the service promises *)
(* about presence and delivery.  The history says when a promise is off:   *)
(* raced holds the users whose session handlers have run into each other,  *)
(* disturbed the deliveries that met a moving session of their addressee,  *)
(* blurred the views of a friend that met one of their viewer; a delivery  *)
(* or view that met a statement which MySQL did not carry out is with      *)
(* them.                                                                   *)
(***************************************************************************)
EXTENDS ChatService

VARIABLES raced, disturbed, blurred

hvars == <<vars, raced, disturbed, blurred>>

ConnsOf(u) == {c \in Conns : UserOf[c] = u}
Homes(u) == {s \in Servers : userConnMap[s][u] # NoConn}

(* The handler on c is changing where its user is registered, subscribed   *)
(* or recorded online.                                                     *)
Contending(c) ==
    pc[c] \in LoginLabels \cup LeaveLabels \/ (pc[c] = "close" /\ Registered(c) = c)

CommandsPending(u) ==
    \E s \in Servers : \E i \in DOMAIN cmds[s] : cmds[s][i].user = u

Settled(u) == ~CommandsPending(u) /\ \A c \in ConnsOf(u) : ~Contending(c)

(* ... and nobody registered is on the way out *)
Steady(u) ==
    Settled(u) /\ \A c \in ConnsOf(u) : Registered(c) = c => link[c] = "open"

(* Two session handlers of one user at the same time, or the user is       *)
(* registered on two servers                                               *)
Racing(u) ==
    \/ \E c, d \in ConnsOf(u) : c # d /\ Contending(c) /\ Contending(d)
    \/ \E s, r \in Homes(u) : s # r

(* A replaced connection logs out the one that replaced it *)
LogsOutAnother(u) ==
    \E c \in ConnsOf(u) : client[c] # "out" /\ client'[c] = "out" /\ Registered(c) # c

(* Some copy of m is still on its way to u *)
InTransit(m, u) ==
    \/ \E c \in Conns : /\ payload[c] = m
                        /\ \/ u \in far[c] \cup todo[c] \cup aim[c]
                           \/ \E d \in near[c] : UserOf[d] = u
    \/ \E s \in Servers : \/ \E i \in DOMAIN bus[s] : bus[s][i] = [to |-> u, what |-> m]
                          \/ obs[s] # NoJob /\ obs[s].to = u /\ obs[s].what = m

(* The ACK with the stored messages of u goes to a connection that has     *)
(* been shut down                                                          *)
AckInVain(u) == \E c \in ConnsOf(u) : pc[c] = "ack" /\ link[c] # "open"

Disturbing(m, u) ==
    \/ InTransit(m, u) /\ ~Steady(u)
    \/ AckInVain(u)

(* The step under way was to store m for u, or to remove it after the ACK  *)
(* that carried it, and the table stays as it is; or no addressee of m was *)
(* found                                                                   *)
Unstored(m, u) ==
    /\ UNCHANGED offline
    /\ \/ \E c \in Conns : payload[c] = m /\ u \in aim[c] /\ aim'[c] = {}
       \/ \E s \in Servers :
             obs[s] = [to |-> u, what |-> m, conn |-> NoConn] /\ obs'[s] = NoJob

Unremoved(m, u) ==
    /\ UNCHANGED offline
    /\ \E c \in ConnsOf(u) : /\ pc[c] = "remove" /\ pc'[c] # "remove"
                              /\ \E i \in DOMAIN got[c] : got[c][i] = m

NoMember(m, u) ==
    m \in sent' \ sent /\ ~InTransit(m, u)' /\ UNCHANGED inbox

Failing(m, u) == Unstored(m, u) \/ Unremoved(m, u) \/ NoMember(m, u)

Notifying(c) == pc[c] = "notify" \/ (pc[c] = "send" /\ payload[c] \notin Msgs)

(* A state notice about u waits for the observer of s, or is in its hands *)
NoticeAt(s, u) ==
    \/ \E i \in DOMAIN bus[s] : bus[s][i].what \in {Notice(u, x) : x \in States}
    \/ obs[s] # NoJob /\ obs[s].what \in {Notice(u, x) : x \in States}

(* ... or is still being sent *)
NoticePending(u) ==
    \/ \E c \in ConnsOf(u) : Notifying(c)
    \/ \E s \in Servers : NoticeAt(s, u)

(* What c shows of its friend u is not promised any more once something    *)
(* about u happened while the viewer was logging in or moving, once two    *)
(* handlers were telling u's friends different things at the same time, or *)
(* once a notice sent directly can overtake an older one that came through *)
(* Redis (u has moved to the viewer's server meanwhile).                   *)
Blurring(c, u) ==
    \/ ~Steady(UserOf[c]) /\ (NoticePending(u) \/ ~Settled(u))
    \/ \E d, e \in ConnsOf(u) : /\ d # e
                                /\ Contending(d) \/ Notifying(d)
                                /\ Contending(e) \/ Notifying(e)
    \/ /\ \E d \in ConnsOf(u) : Notifying(d) /\ c \in near[d]
       /\ NoticeAt(ServerOf[c], u)

(* The states of the friends were not read, or u's friends were not read   *)
(* and nobody is told                                                      *)
Misread(c, u) == pc[c] = "friends" /\ pc'[c] = "ack" /\ snap'[c][u] # state[u]

Untold(u) ==
    \E d \in ConnsOf(u) :
        pc[d] = "notify" /\ pc'[d] = "send" /\ near'[d] = {} /\ far'[d] = {}

HInit == Init /\ raced = {} /\ disturbed = {} /\ blurred = {}

Record ==
    /\ raced' = {u \in Users : u \in raced \/ Racing(u)' \/ LogsOutAnother(u)}
    /\ disturbed' = {d \in Msgs \X Users : \/ d \in disturbed
                                           \/ Disturbing(d[1], d[2])' \/ Failing(d[1], d[2])
                                           \/ d[1] \in sent' \ sent /\ ~Steady(d[2])}
    /\ blurred' =
          {d \in Conns \X Users :
              \/ d \in blurred
              \/ /\ d[2] \in Friends[UserOf[d[1]]]
                 /\ Blurring(d[1], d[2])' \/ Misread(d[1], d[2]) \/ Untold(d[2])}

HNext == Next /\ Record

HSpec == HInit /\ [][HNext]_hvars /\ Fairness

----------------------------------------------------------------------------
(* Once the handlers of a user are done, the three places that say where   *)
(* the user is agree: user.state in MySQL, the _userConnMap of the servers *)
(* and the subscriptions at Redis; and a logged-in client whose connection *)
(* has not been shut down is the registered one.  This covers a relogin    *)
(* that kicks the old connection, and the close of that connection at any  *)
(* later moment.                                                           *)
PresenceExact ==
    \A u \in Users \ raced : Settled(u) =>
        /\ state[u] = "online" <=> Homes(u) # {}
        /\ {s \in Servers : u \in subs[s]} = Homes(u)
        /\ \A c \in ConnsOf(u) : Shows(c) => Registered(c) = c

(* Where a message of an addressee is: shown on a connection, or stored *)
Copies(m, u) ==
    (UNION {{<<c, i>> : i \in {j \in DOMAIN inbox[c] : inbox[c][j] = m}} : c \in ConnsOf(u)})
    \cup {<<NoConn, i>> : i \in {j \in DOMAIN offline[u] : offline[u][j] = m}}

(* oneChat and groupChat, whether they reach the addressee on this server, *)
(* through Redis or through the offline table, deliver every message to    *)
(* every addressee exactly once, and a login hands each stored message     *)
(* over exactly once, as long as no session of the addressee moves while   *)
(* the message is on its way and MySQL stores and removes it.  A failed    *)
(* insert loses that message, a failed delete doubles what was handed      *)
(* over, and neither anything else.                                        *)
ExactlyOnce ==
    \A m \in sent : \A u \in To[m] \ raced :
        \/ InTransit(m, u)
        \/ <<m, u>> \in disturbed
        \/ \E c \in ConnsOf(u) : pc[c] = "remove"
        \/ Cardinality(Copies(m, u)) = 1

(* Friend-state notices, sent here directly or through Redis, come through *)
(* in the order of the events: when no notice is under way, a logged-in    *)
(* client shows the recorded state of each friend, unless something about  *)
(* the friend happened during the viewer's own login (the states that the  *)
(* LOGIN_MSG_ACK carries were read before, and nothing corrects them) or a *)
(* query of friends failed.                                                *)
FriendViewCurrent ==
    /\ TypeOK
    /\ \A c \in Conns : \A u \in Friends[UserOf[c]] :
          (/\ Shows(c) /\ Registered(c) = c
           /\ Settled(u) /\ ~NoticePending(u)
           /\ {u, UserOf[c]} \cap raced = {} /\ <<c, u>> \notin blurred)
              => view[c][u] = state[u]

----------------------------------------------------------------------------
(* What comments of chatservice.cpp say, without exceptions.               *)

(* "remove the offline messages after they were sent, so that none is lost *)
(* when the connection breaks (better twice than lost)", line 175: a row   *)
(* leaves the table only when a client of its owner has the message.       *)
StoredUntilDelivered ==
    [][\A u \in Users : \A i \in DOMAIN offline[u] :
         LET m == offline[u][i]
         IN  \/ i \in DOMAIN offline'[u] /\ offline'[u][i] = m
             \/ \E c \in ConnsOf(u) : \E j \in DOMAIN inbox[c] : inbox[c][j] = m]_hvars

============================================================================
