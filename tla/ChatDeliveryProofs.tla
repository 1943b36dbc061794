------------------------- MODULE ChatDeliveryProofs -------------------------
(***************************************************************************)
(* Proofs about what the service carries, for any servers, users,          *)
(* connections, friends and messages: everything is of its type, no        *)
(* message is lost or doubled on any of its ways, and a client ends up     *)
(* with the recorded state of each friend, where the history does not say  *)
(* that the promise is off.                                                *)
(***************************************************************************)
EXTENDS ChatPresenceProofs, FiniteSetTheorems

DataTypes ==
    /\ inbox \in [Conns -> Seq(Msgs)]
    /\ view \in [Conns -> [Users -> States]]
    /\ sent \subseteq Msgs
    /\ offline \in [Users -> Seq(Msgs)]
    /\ bus \in [Servers -> Seq([to : Users, what : Payloads])]
    /\ obs \in [Servers -> Jobs \cup {NoJob}]
    /\ got \in [Conns -> Seq(Msgs)]
    /\ snap \in [Conns -> [Users -> States]]
    /\ payload \in [Conns -> Payloads \cup {NoJob}]
    /\ near \in [Conns -> SUBSET Conns]
    /\ far \in [Conns -> SUBSET Users]
    /\ todo \in [Conns -> SUBSET Users]
    /\ aim \in [Conns -> SUBSET Users]

(* What the handler on c holds while it sends, and where a login stands    *)
Holds(c) ==
    /\ pc[c] = "send" <=> payload[c] # NoJob
    /\ pc[c] # "send" => near[c] = {} /\ far[c] = {} /\ todo[c] = {} /\ aim[c] = {}
    /\ \A u, v \in aim[c] : u = v
    /\ payload[c] \notin Msgs => todo[c] = {} /\ aim[c] = {}
    /\ payload[c] \in Notices => payload[c].of = UserOf[c]
    /\ \A d \in near[c] : ServerOf[d] = ServerOf[c]
    /\ pc[c] \in LoginLabels \ {"remove"} => client[c] = "wait"
    /\ client[c] = "wait" /\ link[c] = "open" => pc[c] \in LoginLabels \ {"remove"}

(* The observer found the addressee's own connection on its server *)
Found(s) ==
    obs[s] # NoJob /\ obs[s].conn # NoConn =>
        UserOf[obs[s].conn] = obs[s].to /\ ServerOf[obs[s].conn] = s

Has(q, x) == \E i \in DOMAIN q : q[i] = x
Addressed(m, u) == [to |-> u, what |-> m]

(* A message that has not been sent is nowhere *)
Nowhere(m) ==
    /\ \A c \in Conns : payload[c] # m /\ ~Has(inbox[c], m) /\ ~Has(got[c], m)
    /\ \A u \in Users : ~Has(offline[u], m) /\ \A s \in Servers : ~Has(bus[s], Addressed(m, u))
    /\ \A s \in Servers : obs[s] # NoJob => obs[s].what # m

WorkInv ==
    /\ DataTypes
    /\ \A c \in Conns : Holds(c)
    /\ \A s \in Servers : Found(s)
    /\ \A m \in Msgs \ sent : Nowhere(m)

----------------------------------------------------------------------------
(* A queue after something is added, taken away or joined *)
LEMMA HasAppend ==
  ASSUME NEW S, NEW q \in Seq(S), NEW y \in S, NEW x
  PROVE  Has(Append(q, y), x) <=> Has(q, x) \/ y = x
<1>1. /\ DOMAIN q = 1..Len(q) /\ Len(q) \in Nat /\ DOMAIN Append(q, y) = 1..(Len(q) + 1)
      /\ \A i \in 1..Len(q) : Append(q, y)[i] = q[i]
      /\ Append(q, y)[Len(q) + 1] = y
  OBVIOUS
<1>2. \A i \in 1..(Len(q) + 1) : i \in 1..Len(q) \/ i = Len(q) + 1
  BY <1>1
<1>3. Len(q) + 1 \in 1..(Len(q) + 1) /\ \A i \in 1..Len(q) : i \in 1..(Len(q) + 1)
  BY <1>1
<1> QED  BY <1>1, <1>2, <1>3 DEF Has

(* What a queue holds is its head or what is left behind it *)
LEMMA HasTail ==
  ASSUME NEW S, NEW q \in Seq(S), q # <<>>, NEW x
  PROVE  Has(q, x) <=> Head(q) = x \/ Has(Tail(q), x)
<1>1. /\ DOMAIN q = 1..Len(q) /\ Len(q) \in Nat /\ DOMAIN Tail(q) = 1..(Len(q) - 1)
      /\ \A i \in 1..(Len(q) - 1) : Tail(q)[i] = q[i + 1] /\ i + 1 \in 1..Len(q)
      /\ Head(q) = q[1] /\ 1 \in 1..Len(q)
  OBVIOUS
<1>2. \A i \in 1..Len(q) : i = 1 \/ (i - 1 \in 1..(Len(q) - 1) /\ (i - 1) + 1 = i)
  BY <1>1
<1>3. \A i \in 1..Len(q) : i = 1 \/ (i - 1 \in 1..(Len(q) - 1) /\ Tail(q)[i - 1] = q[i])
  BY <1>1, <1>2
<1>4. Has(q, x) => Head(q) = x \/ Has(Tail(q), x)
  BY <1>1, <1>3 DEF Has
<1>5. Head(q) = x \/ Has(Tail(q), x) => Has(q, x)
  BY <1>1 DEF Has
<1> QED  BY <1>4, <1>5

(* A queue put behind another holds what either of them held *)
LEMMA HasJoin ==
  ASSUME NEW S, NEW q \in Seq(S), NEW r \in Seq(S), NEW x
  PROVE  Has(q \o r, x) <=> Has(q, x) \/ Has(r, x)
<1>1. /\ DOMAIN q = 1..Len(q) /\ DOMAIN r = 1..Len(r) /\ Len(q) \in Nat /\ Len(r) \in Nat
      /\ DOMAIN (q \o r) = 1..(Len(q) + Len(r))
      /\ \A i \in 1..Len(q) : (q \o r)[i] = q[i]
      /\ \A i \in 1..Len(r) : (q \o r)[Len(q) + i] = r[i]
  OBVIOUS
<1>2. \A i \in 1..(Len(q) + Len(r)) :
         i \in 1..Len(q) \/ (i - Len(q) \in 1..Len(r) /\ Len(q) + (i - Len(q)) = i)
  BY <1>1
<1>3. /\ \A i \in 1..Len(q) : i \in 1..(Len(q) + Len(r))
      /\ \A i \in 1..Len(r) : Len(q) + i \in 1..(Len(q) + Len(r))
  BY <1>1
<1>4. Has(q \o r, x) => Has(q, x) \/ Has(r, x)
  <2>1. ASSUME NEW i \in 1..(Len(q) + Len(r)), (q \o r)[i] = x, i \notin 1..Len(q) PROVE r[i - Len(q)] = x
    BY <1>1, <1>2, <2>1
  <2>2. ASSUME NEW i \in 1..(Len(q) + Len(r)), (q \o r)[i] = x PROVE Has(q, x) \/ Has(r, x)
    BY <1>1, <1>2, <2>1, <2>2 DEF Has
  <2> QED  BY <1>1, <2>2 DEF Has
<1>5. Has(q, x) => Has(q \o r, x)
  BY <1>1, <1>3 DEF Has
<1>6. Has(r, x) => Has(q \o r, x)
  BY <1>1, <1>3 DEF Has
<1> QED  BY <1>4, <1>5, <1>6

----------------------------------------------------------------------------
(* At the start nothing is under way *)
LEMMA InitWork ==
  ASSUME Init
  PROVE  WorkInv
<1>1. DataTypes
  BY DEF Init, DataTypes, States
<1>2. \A c \in Conns : Holds(c)
  <2>1. NoJob \notin Notices
    BY MessageAssumption DEF Payloads
  <2> QED  BY <2>1 DEF Init, Holds, LoginLabels
<1>3. \A s \in Servers : Found(s)
  BY DEF Init, Found
<1>4. \A m \in Msgs \ sent : Nowhere(m)
  <2>1. NoJob \notin Msgs
    BY MessageAssumption DEF Payloads
  <2> QED  BY <2>1 DEF Init, Nowhere, Has
<1> QED  BY <1>1, <1>2, <1>3, <1>4 DEF WorkInv

(* What a client is sent is a message or a notice *)
LEMMA DeliverTypes ==
  ASSUME DataTypes, NEW d \in Conns, NEW what \in Payloads, Deliver(d, what)
  PROVE  inbox' \in [Conns -> Seq(Msgs)] /\ view' \in [Conns -> [Users -> States]]
<1>1. inbox' \in [Conns -> Seq(Msgs)]
  BY DEF DataTypes, Deliver
<1>2. CASE view' = view
  BY <1>1, <1>2 DEF DataTypes
<1>3. CASE what \notin Msgs /\ view' = [view EXCEPT ![d][what.of] = what.is]
  <2>1. what.is \in States /\ what.of \in Users
    BY <1>3 DEF Payloads, Notices
  <2>2. view' \in [Conns -> [Users -> States]]
    BY <1>3, <2>1 DEF DataTypes
  <2> QED  BY <1>1, <2>2
<1> QED  BY <1>1, <1>2, <1>3 DEF Deliver

(* Every step of a handler keeps the types *)
LEMMA HandlerTypes ==
  ASSUME SessionInv, RedisTypes, WorkInv, NEW c \in Conns, HandlerStep(c)
  PROVE  DataTypes'
<1> USE DEF DataTypes
<1>0. DataTypes /\ Holds(c) /\ UserOf[c] \in Users
  BY Own DEF WorkInv
<1>1. CASE Relogin(c) \/ Register(c) \/ Subscribe(c) \/ SetOnline(c) \/ CloseErase(c) \/ Unsubscribe(c)
           \/ Untrack(c) \/ SetOffline(c)
  BY <1>0, <1>1 DEF Relogin, Register, Subscribe, SetOnline, CloseErase, Unsubscribe, Untrack, SetOffline,
       net, tables, db, redis, locals, routing
<1>2. CASE FetchOffline(c)
  <2>1. PICK vec \in {offline[UserOf[c]], <<>>} : got' = [got EXCEPT ![c] = vec]
    BY <1>2 DEF FetchOffline
  <2>2. vec \in Seq(Msgs)
    <3>1. offline[UserOf[c]] \in Seq(Msgs) /\ <<>> \in Seq(Msgs)
      BY <1>0
    <3> QED  BY <3>1
  <2>3. got' \in [Conns -> Seq(Msgs)]
    BY <1>0, <2>1, <2>2
  <2> QED  BY <1>0, <1>2, <2>3 DEF FetchOffline, net, db, redis, routing
<1>3. CASE QueryFriends(c)
  <2>1. PICK states \in {state, Nobody} : snap' = [snap EXCEPT ![c] = states]
    BY <1>3 DEF QueryFriends
  <2>2. states \in [Users -> States]
    BY DEF RedisTypes, Nobody, States
  <2>3. snap' \in [Conns -> [Users -> States]]
    BY <1>0, <2>1, <2>2
  <2> QED  BY <1>0, <1>3, <2>3 DEF QueryFriends, net, db, redis, routing
<1>4. CASE Ack(c)
  <2>1. inbox' \in [Conns -> Seq(Msgs)]
    <3>1. inbox[c] \o got[c] \in Seq(Msgs)
      BY <1>0
    <3>2. inbox' = inbox \/ inbox' = [inbox EXCEPT ![c] = inbox[c] \o got[c]]
      BY <1>4 DEF Ack
    <3> QED  BY <1>0, <3>1, <3>2
  <2>2. view' \in [Conns -> [Users -> States]]
    <3> DEFINE w == [u \in Users |-> IF u \in Friends[UserOf[c]] THEN snap[c][u] ELSE view[c][u]]
    <3>1. w \in [Users -> States]
      BY <1>0
    <3>2. view' = view \/ view' = [view EXCEPT ![c] = w]
      BY <1>4 DEF Ack
    <3> HIDE DEF w
    <3> QED  BY <1>0, <3>1, <3>2
  <2> QED  BY <1>0, <1>4, <2>1, <2>2 DEF Ack, db, redis, locals, routing
<1>5. CASE RemoveOffline(c)
  <2>1. offline' = offline \/ offline' = [offline EXCEPT ![UserOf[c]] = <<>>]
    BY <1>5 DEF RemoveOffline
  <2>2. offline' \in [Users -> Seq(Msgs)]
    <3>1. <<>> \in Seq(Msgs)
      OBVIOUS
    <3> QED  BY <1>0, <2>1, <3>1
  <2> QED  BY <1>0, <1>5, <2>2 DEF RemoveOffline, net, redis, locals, routing
<1>6. CASE NotifyFriendState(c)
  <2>1. News(c) \in Payloads
    BY <1>0 DEF News, Notice, Payloads, Notices, States
  <2>2. ServerOf[c] \in Servers /\ Friends[UserOf[c]] \subseteq Users
    BY ChatAssumption
  <2>3. userConnMap \in [Servers -> [Users -> Conns \cup {NoConn}]]
    BY DEF SessionInv, CoreTypes
  <2>4. payload' \in [Conns -> Payloads \cup {NoJob}]
    BY <1>0, <1>6, <2>1 DEF NotifyFriendState
  <2>5. near' \in [Conns -> SUBSET Conns] /\ far' \in [Conns -> SUBSET Users]
    BY <1>0, <1>6, <2>2, <2>3 DEF NotifyFriendState
  <2> QED  BY <1>0, <1>6, <2>4, <2>5 DEF NotifyFriendState, net, db, redis
<1>7. CASE SendNear(c)
  <2>1. payload[c] \in Payloads
    BY <1>0, <1>7 DEF SendNear, Holds
  <2>2. PICK d \in near[c] : Deliver(d, payload[c]) /\ near' = [near EXCEPT ![c] = @ \ {d}]
    BY <1>7 DEF SendNear
  <2>3. inbox' \in [Conns -> Seq(Msgs)] /\ view' \in [Conns -> [Users -> States]]
    BY <1>0, <2>1, <2>2, DeliverTypes
  <2> QED  BY <1>0, <1>7, <2>2, <2>3 DEF SendNear, db, redis
<1>8. CASE LookUp(c)
  <2>1. UNCHANGED <<inbox, view, sent, offline, bus, obs, got, snap, payload, near>>
    BY <1>8 DEF LookUp, net, db, redis
  <2>2. PICK v \in todo[c] : /\ todo' = [todo EXCEPT ![c] = @ \ {v}]
                             /\ far' = [far EXCEPT ![c] = @ \cup {v}] \/ far' = far
                             /\ aim' = [aim EXCEPT ![c] = {v}] \/ aim' = aim
    BY <1>8 DEF LookUp
  <2>3. v \in Users
    BY <1>0
  <2>4. todo' \in [Conns -> SUBSET Users]
    BY <1>0, <2>2
  <2>5. far' \in [Conns -> SUBSET Users]
    <3>1. far[c] \cup {v} \in SUBSET Users
      BY <1>0, <2>3
    <3>2. far' = far \/ far' = [far EXCEPT ![c] = far[c] \cup {v}]
      BY <2>2
    <3> QED  BY <1>0, <3>1, <3>2
  <2>6. aim' \in [Conns -> SUBSET Users]
    <3>1. {v} \in SUBSET Users
      BY <2>3
    <3>2. aim' = aim \/ aim' = [aim EXCEPT ![c] = {v}]
      BY <2>2
    <3> QED  BY <1>0, <3>1, <3>2
  <2> QED  BY <1>0, <2>1, <2>4, <2>5, <2>6
<1>9. CASE StoreOffline(c)
  <2>1. payload[c] \in Msgs
    BY <1>0, <1>9 DEF StoreOffline, Holds
  <2>2. PICK v \in aim[c] : offline' = offline \/ offline' = [offline EXCEPT ![v] = Append(@, payload[c])]
    BY <1>9 DEF StoreOffline, Store
  <2>3. offline' \in [Users -> Seq(Msgs)]
    <3>1. v \in Users /\ offline[v] \in Seq(Msgs)
      BY <1>0
    <3>2. Append(offline[v], payload[c]) \in Seq(Msgs)
      BY <2>1, <3>1
    <3> QED  BY <1>0, <2>2, <3>1, <3>2
  <2>4. aim' \in [Conns -> SUBSET Users]
    BY <1>0, <1>9 DEF StoreOffline
  <2> QED  BY <1>0, <1>9, <2>3, <2>4 DEF StoreOffline, net, redis
<1>10. CASE Publish(c)
  <2>1. payload[c] \in Payloads
    BY <1>0, <1>10 DEF Publish, Holds
  <2>2. PICK v \in far[c] :
          /\ bus' = [s \in Servers |-> IF v \in subs[s] THEN Append(bus[s], [to |-> v, what |-> payload[c]])
                                                        ELSE bus[s]]
          /\ far' = [far EXCEPT ![c] = @ \ {v}]
    BY <1>10 DEF Publish
  <2>3. [to |-> v, what |-> payload[c]] \in [to : Users, what : Payloads]
    BY <1>0, <2>1
  <2> DEFINE E == [to : Users, what : Payloads]
             x == [to |-> v, what |-> payload[c]]
  <2>4. bus' \in [Servers -> Seq(E)]
    <3>1. x \in E /\ bus \in [Servers -> Seq(E)]
      BY <1>0, <2>3
    <3>2. bus' = [s \in Servers |-> IF v \in subs[s] THEN Append(bus[s], x) ELSE bus[s]]
      BY <2>2
    <3> HIDE DEF E, x
    <3>3. \A s \in Servers : Append(bus[s], x) \in Seq(E) /\ bus[s] \in Seq(E)
      BY <3>1
    <3> QED  BY <3>2, <3>3
  <2>5. far' \in [Conns -> SUBSET Users]
    BY <1>0, <2>2
  <2> QED  BY <1>0, <1>10, <2>4, <2>5 DEF Publish, net, db
<1>11. CASE Return(c)
  <2>1. /\ UNCHANGED <<inbox, view, sent, offline, bus, obs, near, far, todo, aim>>
        /\ payload' = [payload EXCEPT ![c] = NoJob] /\ got' = [got EXCEPT ![c] = <<>>]
        /\ snap' = [snap EXCEPT ![c] = Nobody]
    BY <1>11 DEF Return, net, db, redis
  <2>2. Nobody \in [Users -> States] /\ <<>> \in Seq(Msgs)
    BY DEF Nobody, States
  <2>3. snap' \in [Conns -> [Users -> States]]
    BY <1>0, <2>1, <2>2
  <2>4. payload' \in [Conns -> Payloads \cup {NoJob}] /\ got' \in [Conns -> Seq(Msgs)]
    BY <1>0, <2>1, <2>2
  <2> QED  BY <1>0, <2>1, <2>3, <2>4
<1> QED  BY <1>1, <1>2, <1>3, <1>4, <1>5, <1>6, <1>7, <1>8, <1>9, <1>10, <1>11 DEF HandlerStep

(* ... so does what a client does, ... *)
LEMMA ClientTypes ==
  ASSUME SessionInv, WorkInv, NEW c \in Conns, ClientStep(c)
  PROVE  DataTypes'
<1> USE DEF DataTypes
<1>0. DataTypes /\ UserOf[c] \in Users /\ ServerOf[c] \in Servers
  BY Own DEF WorkInv
<1>1. CASE Login(c) \/ Logout(c) \/ PeerClose(c) \/ Heartbeat(c)
  BY <1>0, <1>1 DEF Login, Logout, PeerClose, Heartbeat, net, tables, db, redis, locals, routing
<1>2. ASSUME NEW m \in Msgs, OneChat(c, m) \/ GroupChat(c, m) PROVE DataTypes'
  <2>1. userConnMap \in [Servers -> [Users -> Conns \cup {NoConn}]] /\ To[m] \subseteq Users
    BY ChatAssumption DEF SessionInv, CoreTypes
  <2>2. /\ sent' = sent \cup {m} /\ payload' = [payload EXCEPT ![c] = m]
        /\ UNCHANGED <<view, offline, bus, obs, got, snap, far, aim>>
    BY <1>2 DEF OneChat, GroupChat, Send, db, redis
  <2>3. payload' \in [Conns -> Payloads \cup {NoJob}] /\ sent' \subseteq Msgs
    BY <1>0, <2>2 DEF Payloads
  <2>4. inbox' \in [Conns -> Seq(Msgs)]
    <3>1. \A d \in Conns : inbox[d] \in Seq(Msgs) /\ Append(inbox[d], m) \in Seq(Msgs)
      BY <1>0
    <3>2. inbox' = inbox \/ \E reached \in SUBSET Conns :
             inbox' = [d \in Conns |-> IF d \in reached THEN Append(inbox[d], m) ELSE inbox[d]]
      BY <1>2 DEF OneChat, GroupChat
    <3>3. ASSUME NEW reached \in SUBSET Conns,
                 inbox' = [d \in Conns |-> IF d \in reached THEN Append(inbox[d], m) ELSE inbox[d]]
          PROVE  inbox' \in [Conns -> Seq(Msgs)]
      BY <3>1, <3>3
    <3> QED  BY <1>0, <3>2, <3>3
  <2> DEFINE here == userConnMap[ServerOf[c]]
             direct == {here[u] : u \in To[m]} \ {NoConn}
             Others(members) == {u \in members : here[u] = NoConn}
  <2>5. near' \in [Conns -> SUBSET Conns]
    <3>1. direct \in SUBSET Conns
      BY <1>0, <2>1
    <3>2. near' = near \/ near' = [near EXCEPT ![c] = direct]
      BY <1>2 DEF OneChat, GroupChat
    <3> HIDE DEF direct
    <3> QED  BY <1>0, <3>1, <3>2
  <2>6. todo' \in [Conns -> SUBSET Users]
    <3>1. PICK members \in {To[m], {}} : todo' = [todo EXCEPT ![c] = Others(members)]
      BY <1>2 DEF OneChat, GroupChat
    <3>2. Others(members) \in SUBSET Users
      BY <2>1
    <3> HIDE DEF Others
    <3> QED  BY <1>0, <3>1, <3>2
  <2> QED  BY <1>0, <2>2, <2>3, <2>4, <2>5, <2>6
<1> QED  BY <1>1, <1>2 DEF ClientStep

(* ... and the observer threads *)
LEMMA ServerTypes ==
  ASSUME SessionInv, WorkInv, NEW s \in Servers, ServerStep(s)
  PROVE  DataTypes'
<1> USE DEF DataTypes
<1>0. DataTypes
  BY DEF WorkInv
<1>1. CASE RedisSubscription(s)
  BY <1>0, <1>1 DEF RedisSubscription, net, db, locals, routing
<1>2. CASE ObserverLookUp(s)
  <2> DEFINE E == [to : Users, what : Payloads]
  <2>1. bus[s] \in Seq(E) /\ bus[s] # <<>> /\ bus' = [bus EXCEPT ![s] = Tail(bus[s])]
    BY <1>0, <1>2 DEF ObserverLookUp
  <2>2. Tail(bus[s]) \in Seq(E) /\ Head(bus[s]) \in E
    <3> HIDE DEF E
    <3> QED  BY <2>1
  <2>3. bus' \in [Servers -> Seq(E)]
    <3> HIDE DEF E
    <3> QED  BY <1>0, <2>1, <2>2 DEF E
  <2>4. userConnMap[s][Head(bus[s]).to] \in Conns \cup {NoConn}
    BY <2>2 DEF SessionInv, CoreTypes
  <2>5. obs' \in [Servers -> Jobs \cup {NoJob}]
    BY <1>0, <1>2, <2>2, <2>4 DEF ObserverLookUp, Jobs
  <2> QED  BY <1>0, <1>2, <2>3, <2>5 DEF ObserverLookUp, net, db, locals, routing
<1>3. CASE ObserverForward(s)
  <2>1. obs[s] \in Jobs
    BY <1>0, <1>3 DEF ObserverForward
  <2>2. inbox' \in [Conns -> Seq(Msgs)] /\ view' \in [Conns -> [Users -> States]]
    <3>1. CASE obs[s].conn # NoConn /\ Deliver(obs[s].conn, obs[s].what)
      BY <1>0, <2>1, <3>1, DeliverTypes DEF Jobs
    <3> QED  BY <1>0, <1>3, <3>1 DEF ObserverForward
  <2>3. offline' \in [Users -> Seq(Msgs)]
    <3>1. CASE /\ obs[s].what \in Msgs
               /\ offline' = [offline EXCEPT ![obs[s].to] = Append(@, obs[s].what)]
      <4>1. obs[s].to \in Users
        BY <2>1 DEF Jobs
      <4>2. Append(offline[obs[s].to], obs[s].what) \in Seq(Msgs)
        BY <1>0, <3>1, <4>1
      <4> QED  BY <1>0, <3>1, <4>2
    <3> QED  BY <1>0, <1>3, <3>1 DEF ObserverForward, Store
  <2>4. obs' \in [Servers -> Jobs \cup {NoJob}]
    BY <1>0, <1>3 DEF ObserverForward
  <2> QED  BY <1>0, <1>3, <2>2, <2>3, <2>4 DEF ObserverForward, locals, routing
<1> QED  BY <1>1, <1>2, <1>3 DEF ServerStep
(* A step on c leaves the handlers of other connections where they are *)
Elsewhere(c) ==
    \A d \in Conns : d # c =>
        /\ pc'[d] = pc[d] /\ client'[d] = client[d]
        /\ link'[d] = "open" => link[d] = "open"
        /\ payload'[d] = payload[d] /\ near'[d] = near[d] /\ far'[d] = far[d]
        /\ todo'[d] = todo[d] /\ aim'[d] = aim[d]
        /\ got'[d] = got[d] /\ snap'[d] = snap[d]

(* A step of a handler is one *)
LEMMA HandlerElsewhere ==
  ASSUME SessionInv, DataTypes, NEW c \in Conns, HandlerStep(c)
  PROVE  Elsewhere(c)
<1>0. \A d \in Conns : d # c => pc'[d] = pc[d]
  BY HandlerFocused DEF Focused
<1>1. CASE Relogin(c)
  BY <1>0, <1>1 DEF Relogin, Elsewhere, db, locals, routing
<1>2. CASE Register(c) \/ Subscribe(c) \/ SetOnline(c) \/ RemoveOffline(c) \/ CloseErase(c)
           \/ Unsubscribe(c) \/ Untrack(c) \/ SetOffline(c)
  BY <1>0, <1>2 DEF Register, Subscribe, SetOnline, RemoveOffline, CloseErase, Unsubscribe, Untrack, SetOffline,
       Elsewhere, net, tables, db, locals, routing
<1>3. CASE FetchOffline(c) \/ QueryFriends(c) \/ NotifyFriendState(c) \/ Return(c)
  BY <1>0, <1>3 DEF FetchOffline, QueryFriends, NotifyFriendState, Return, Elsewhere, DataTypes,
       net, routing
<1>4. CASE Ack(c)
  BY <1>0, <1>4 DEF Ack, Elsewhere, SessionInv, CoreTypes, locals, routing
<1>5. CASE SendNear(c) \/ LookUp(c) \/ StoreOffline(c) \/ Publish(c)
  BY <1>0, <1>5 DEF SendNear, LookUp, StoreOffline, Publish, Elsewhere, DataTypes, net, routing
<1> QED  BY <1>1, <1>2, <1>3, <1>4, <1>5 DEF HandlerStep

(* ... and what a client does *)
LEMMA ClientElsewhere ==
  ASSUME SessionInv, DataTypes, NEW c \in Conns, ClientStep(c)
  PROVE  Elsewhere(c)
<1>0. \A d \in Conns : d # c => pc'[d] = pc[d]
  BY ClientFocused DEF Focused
<1>1. CASE Login(c) \/ Logout(c) \/ PeerClose(c) \/ Heartbeat(c)
  BY <1>0, <1>1 DEF Login, Logout, PeerClose, Heartbeat, Elsewhere, SessionInv, CoreTypes, net, locals, routing
<1>2. ASSUME NEW m \in Msgs, OneChat(c, m) \/ GroupChat(c, m) PROVE Elsewhere(c)
  BY <1>0, <1>2 DEF OneChat, GroupChat, Send, Elsewhere, DataTypes
<1> QED  BY <1>1, <1>2 DEF ClientStep

(* A registered connection is its user's, on the server of the table *)
LEMMA Listed ==
  ASSUME SessionInv, NEW s \in Servers, NEW u \in Users, userConnMap[s][u] # NoConn
  PROVE  /\ userConnMap[s][u] \in Conns
         /\ ServerOf[userConnMap[s][u]] = s /\ UserOf[userConnMap[s][u]] = u
         /\ client[userConnMap[s][u]] \in {"wait", "in"}
BY DEF SessionInv, CoreTypes, EntriesLive

(* What the handler on c holds, after its own step *)
LEMMA HandlerHolds ==
  ASSUME SessionInv, DataTypes, NEW c \in Conns, Holds(c), HandlerStep(c)
  PROVE  Holds(c)'
<1>0. c \in ConnsOf(UserOf[c]) /\ UserOf[c] \in Users /\ ServerOf[c] \in Servers
  BY Own
<1>1. CASE Relogin(c)
  <2>1. /\ pc[c] = "relogin" /\ pc'[c] = "setOnline" /\ client' = client /\ (link'[c] = "open" => link[c] = "open")
        /\ UNCHANGED <<payload, near, far, todo, aim>>
    BY <1>1, GoesTo DEF Relogin, locals, routing
  <2> QED  BY <2>1 DEF Holds, LoginLabels
<1>2. CASE Register(c) \/ Subscribe(c) \/ SetOnline(c) \/ FetchOffline(c) \/ QueryFriends(c)
  <2>1. /\ pc[c] \in LoginLabels \ {"remove"} /\ pc'[c] \in LoginLabels \ {"remove"}
        /\ UNCHANGED <<client, link, payload, near, far, todo, aim>>
    BY <1>2, GoesTo DEF Register, Subscribe, SetOnline, FetchOffline, QueryFriends, locals, routing, net, LoginLabels
  <2> QED  BY <2>1 DEF Holds, LoginLabels
<1>3. CASE Ack(c)
  <2>1. /\ pc[c] = "ack" /\ pc'[c] \in {"remove", "notify"} /\ UNCHANGED <<link, payload, near, far, todo, aim>>
        /\ (link[c] = "open" /\ client' = [client EXCEPT ![c] = "in"]) \/ (link[c] # "open" /\ client' = client)
    BY <1>3, GoesTo DEF Ack, locals, routing
  <2>2. link'[c] = "open" => client'[c] = "in"
    BY <2>1 DEF SessionInv, CoreTypes
  <2> QED  BY <2>1, <2>2 DEF Holds, LoginLabels
<1>4. CASE RemoveOffline(c) \/ CloseErase(c) \/ Unsubscribe(c) \/ Untrack(c) \/ SetOffline(c)
  <2>1. /\ pc[c] \notin (LoginLabels \ {"remove"}) \cup {"send"}
        /\ pc'[c] \notin (LoginLabels \ {"remove"}) \cup {"send"}
        /\ UNCHANGED <<client, link, payload, near, far, todo, aim>>
    BY <1>4, GoesTo DEF RemoveOffline, CloseErase, Unsubscribe, Untrack, SetOffline, locals, routing, net, LoginLabels
  <2> QED  BY <2>1 DEF Holds, LoginLabels
<1>5. CASE NotifyFriendState(c)
  <2> DEFINE here == userConnMap[ServerOf[c]]
  <2>1. /\ pc[c] = "notify" /\ pc'[c] = "send" /\ payload'[c] = News(c)
        /\ near'[c] \subseteq {here[u] : u \in Friends[UserOf[c]]} \ {NoConn}
        /\ todo' = todo /\ aim' = aim /\ UNCHANGED <<client, link>>
    BY <1>5, GoesTo DEF NotifyFriendState, net, DataTypes
  <2>2. News(c) \in Notices /\ News(c).of = UserOf[c] /\ News(c) # NoJob
    BY <1>0, MessageAssumption DEF News, Notice, Notices, States, Payloads
  <2>3. \A d \in near'[c] : ServerOf[d] = ServerOf[c]
    BY <1>0, <2>1, Listed, ChatAssumption
  <2> QED  BY <2>1, <2>2, <2>3 DEF Holds, LoginLabels
<1>6. CASE SendNear(c)
  <2>1. /\ pc' = pc /\ near'[c] \subseteq near[c] /\ UNCHANGED <<client, link, payload, far, todo, aim>> /\ pc[c] = "send"
    BY <1>6 DEF SendNear, DataTypes
  <2> QED  BY <2>1 DEF Holds, LoginLabels
<1>7. CASE LookUp(c)
  <2>1. /\ pc' = pc /\ UNCHANGED <<client, link, payload, near>> /\ pc[c] = "send"
    BY <1>7 DEF LookUp, net
  <2>2. PICK u \in todo[c] : aim' = aim \/ aim' = [aim EXCEPT ![c] = {u}]
    BY <1>7 DEF LookUp
  <2>3. payload[c] \in Msgs
    BY <2>2 DEF Holds
  <2>4. \A v, w \in aim'[c] : v = w
    BY <2>2 DEF Holds, DataTypes
  <2>5. payload[c] \notin Notices
    BY <2>3, MessageAssumption
  <2> QED  BY <2>1, <2>3, <2>4, <2>5 DEF Holds, LoginLabels
<1>8. CASE StoreOffline(c)
  <2>1. /\ pc' = pc /\ aim'[c] = {} /\ UNCHANGED <<client, link, payload, near, far, todo>> /\ pc[c] = "send"
    BY <1>8 DEF StoreOffline, net, DataTypes
  <2> QED  BY <2>1 DEF Holds, LoginLabels
<1>9. CASE Publish(c)
  <2>1. /\ pc' = pc /\ UNCHANGED <<client, link, payload, near, todo, aim>> /\ pc[c] = "send"
    BY <1>9 DEF Publish, net
  <2> QED  BY <2>1 DEF Holds, LoginLabels
<1>10. CASE Return(c)
  <2>1. /\ pc[c] = "send" /\ pc'[c] = "idle" /\ payload'[c] = NoJob /\ UNCHANGED <<client, link, near, far, todo, aim>>
        /\ near[c] = {} /\ todo[c] = {} /\ aim[c] = {} /\ far[c] = {}
    BY <1>10, GoesTo DEF Return, net, DataTypes
  <2>2. NoJob \notin Notices
    BY MessageAssumption DEF Payloads
  <2> QED  BY <2>1, <2>2 DEF Holds, LoginLabels
<1> QED  BY <1>1, <1>2, <1>3, <1>4, <1>5, <1>6, <1>7, <1>8, <1>9, <1>10 DEF HandlerStep

(* ... and after one of its client *)
LEMMA ClientHolds ==
  ASSUME SessionInv, DataTypes, NEW c \in Conns, Holds(c), ClientStep(c)
  PROVE  Holds(c)'
<1>1. CASE Login(c)
  <2>1. /\ pc[c] = "idle" /\ pc'[c] \in LoginLabels \ {"remove"} /\ client'[c] = "wait"
        /\ UNCHANGED <<link, payload, near, far, todo, aim>>
    BY <1>1, GoesTo DEF Login, Receive, locals, routing, LoginLabels, SessionInv, CoreTypes
  <2> QED  BY <2>1 DEF Holds, LoginLabels
<1>2. CASE Logout(c)
  <2>1. /\ pc[c] = "idle" /\ pc'[c] = "unsubscribe" /\ client'[c] = "out"
        /\ UNCHANGED <<link, payload, near, far, todo, aim>>
    BY <1>2, GoesTo DEF Logout, Receive, locals, routing, SessionInv, CoreTypes
  <2> QED  BY <2>1 DEF Holds, LoginLabels
<1>3. CASE PeerClose(c)
  <2>1. /\ pc[c] = "idle" /\ pc'[c] = "close" /\ link'[c] = "down"
        /\ UNCHANGED <<client, payload, near, far, todo, aim>>
    BY <1>3, GoesTo DEF PeerClose, locals, routing, SessionInv, CoreTypes
  <2> QED  BY <2>1 DEF Holds, LoginLabels
<1>4. CASE Heartbeat(c)
  BY <1>4 DEF Heartbeat, Holds, net, locals, routing
<1>5. ASSUME NEW m \in Msgs, OneChat(c, m) \/ GroupChat(c, m) PROVE Holds(c)'
  <2> DEFINE here == userConnMap[ServerOf[c]]
  <2>1. /\ pc[c] = "idle" /\ pc'[c] = "send" /\ payload'[c] = m /\ client[c] = "in"
        /\ UNCHANGED <<client, link, far, aim>>
        /\ near'[c] = near[c] \/ near'[c] = {here[u] : u \in To[m]} \ {NoConn}
    BY <1>5, GoesTo DEF OneChat, GroupChat, Send, Receive, DataTypes
  <2>2. m # NoJob /\ m \notin Notices
    BY MessageAssumption DEF Payloads
  <2>3. \A d \in near'[c] : ServerOf[d] = ServerOf[c]
    <3>1. To[m] \subseteq Users
      BY ChatAssumption
    <3> QED  BY <2>1, <3>1, Listed, Own DEF Holds
  <2> QED  BY <2>1, <2>2, <2>3 DEF Holds, LoginLabels
<1> QED  BY <1>1, <1>2, <1>3, <1>4, <1>5 DEF ClientStep

(* ... and after a step on another connection *)
LEMMA OtherHolds ==
  ASSUME NEW c \in Conns, Elsewhere(c), NEW d \in Conns, d # c, Holds(d)
  PROVE  Holds(d)'
BY DEF Elsewhere, Holds

(* Steps of the observers and of the heartbeat check concern no handler *)
LEMMA OutsideHolds ==
  ASSUME SessionInv,
         (\E s \in Servers : ServerStep(s)) \/ (\E c \in Conns : HeartbeatTimeout(c)),
         NEW d \in Conns, Holds(d)
  PROVE  Holds(d)'
<1>1. UNCHANGED <<client, pc, locals>> /\ (link'[d] = "open" => link[d] = "open")
  BY DEF ServerStep, RedisSubscription, ObserverLookUp, ObserverForward, HeartbeatTimeout, net, SessionInv, CoreTypes
<1> QED  BY <1>1 DEF Holds, locals, routing
----------------------------------------------------------------------------
carried == <<inbox, view, sent, offline, bus, obs, locals>>

(* A step of a session that has nothing to do with what is sent *)
SessionStep(c) ==
    \/ Login(c) \/ Logout(c) \/ PeerClose(c) \/ Heartbeat(c) \/ HeartbeatTimeout(c)
    \/ Relogin(c) \/ Register(c) \/ Subscribe(c) \/ SetOnline(c)
    \/ CloseErase(c) \/ Unsubscribe(c) \/ Untrack(c) \/ SetOffline(c)

(* ... leaves all that alone *)
LEMMA SessionCarries ==
  ASSUME NEW c, SessionStep(c)
  PROVE  UNCHANGED carried
BY DEF SessionStep, carried, Login, Logout, PeerClose, Heartbeat, HeartbeatTimeout, Relogin, Register, Subscribe,
       SetOnline, CloseErase, Unsubscribe, Untrack, SetOffline, net, tables, db, redis

(* The steps of the service, by what they do with what is sent *)
LEMMA StepCases ==
  ASSUME Next
  PROVE  \/ \E c \in Conns :
              \/ SessionStep(c) \/ FetchOffline(c) \/ QueryFriends(c) \/ Ack(c) \/ RemoveOffline(c)
              \/ NotifyFriendState(c) \/ SendNear(c) \/ LookUp(c) \/ StoreOffline(c) \/ Publish(c) \/ Return(c)
              \/ \E m \in Msgs : OneChat(c, m) \/ GroupChat(c, m)
         \/ \E s \in Servers : RedisSubscription(s) \/ ObserverLookUp(s) \/ ObserverForward(s)
BY DEF Next, HandlerStep, ClientStep, ServerStep, SessionStep

(* What a client that shows what it is sent has seen then *)
LEMMA DeliverHas ==
  ASSUME DataTypes, NEW d \in Conns, NEW what \in Payloads, Deliver(d, what), NEW e \in Conns, NEW m \in Msgs
  PROVE  Has(inbox'[e], m) <=> Has(inbox[e], m) \/ (e = d /\ Shows(d) /\ what = m)
<1>1. CASE Shows(d) /\ what \in Msgs
  <2>1. inbox'[e] = IF e = d THEN Append(inbox[e], what) ELSE inbox[e]
    BY <1>1 DEF Deliver, DataTypes
  <2>2. inbox[e] \in Seq(Msgs)
    BY DEF DataTypes
  <2> QED  BY <1>1, <2>1, <2>2, HasAppend
<1>2. CASE ~(Shows(d) /\ what \in Msgs)
  BY <1>2 DEF Deliver
<1> QED  BY <1>1, <1>2

(* The observer finds the connection where the table has it *)
LEMMA NextFound ==
  ASSUME SessionInv, DataTypes, \A s \in Servers : Found(s), Next
  PROVE  \A s \in Servers : Found(s)'
<1>1. CASE obs' = obs
  BY <1>1 DEF Found
<1>2. ASSUME NEW s \in Servers, ObserverLookUp(s) PROVE \A r \in Servers : Found(r)'
  <2> DEFINE E == [to : Users, what : Payloads]
             e == Head(bus[s])
  <2>1. e \in E
    <3>1. bus[s] \in Seq(E) /\ bus[s] # <<>>
      BY <1>2 DEF ObserverLookUp, DataTypes
    <3> HIDE DEF E
    <3> QED  BY <3>1
  <2>2. obs' = [obs EXCEPT ![s] = [to |-> e.to, what |-> e.what, conn |-> userConnMap[s][e.to]]]
    BY <1>2 DEF ObserverLookUp
  <2>3. userConnMap[s][e.to] # NoConn =>
          UserOf[userConnMap[s][e.to]] = e.to /\ ServerOf[userConnMap[s][e.to]] = s
    BY <2>1, Listed
  <2> HIDE DEF e
  <2> QED  BY <2>2, <2>3 DEF Found, DataTypes
<1>3. ASSUME NEW s \in Servers, ObserverForward(s) PROVE \A r \in Servers : Found(r)'
  BY <1>3 DEF ObserverForward, Found, DataTypes
<1>4. CASE \E c \in Conns : SessionStep(c)
  BY <1>1, <1>4, SessionCarries DEF carried
<1> QED  BY <1>1, <1>2, <1>3, <1>4, StepCases DEF FetchOffline, QueryFriends, Ack, RemoveOffline,
            NotifyFriendState, SendNear, LookUp, StoreOffline, Publish, Return, OneChat, GroupChat, RedisSubscription, redis

(* A message that is not sent in a step is still nowhere *)
LEMMA NextNowhere ==
  ASSUME SessionInv, WorkInv, Next, NEW m \in Msgs, m \notin sent'
  PROVE  Nowhere(m)'
<1>0. DataTypes /\ (m \notin sent => Nowhere(m)) /\ NoJob \notin Msgs /\ \A c \in Conns : Holds(c)
  BY MessageAssumption DEF WorkInv, Payloads
<1>1. m \notin sent
  <2>1. CASE \E c \in Conns : SessionStep(c)
    BY <2>1, SessionCarries DEF carried
  <2>2. CASE \E c \in Conns, x \in Msgs : OneChat(c, x) \/ GroupChat(c, x)
    BY <2>2 DEF OneChat, GroupChat, Send
  <2> QED  BY <2>1, <2>2, StepCases DEF FetchOffline, QueryFriends, Ack, RemoveOffline, NotifyFriendState, SendNear,
              LookUp, StoreOffline, Publish, Return, RedisSubscription, ObserverLookUp, ObserverForward, net
<1>2. Nowhere(m)
  BY <1>0, <1>1
<1>3. CASE UNCHANGED <<inbox, offline, bus, obs, got, payload>>
  BY <1>2, <1>3 DEF Nowhere
<1>4. ASSUME NEW c \in Conns, SessionStep(c) PROVE Nowhere(m)'
  BY <1>3, <1>4, SessionCarries DEF carried, locals, routing
<1>5. ASSUME NEW c \in Conns, FetchOffline(c) PROVE Nowhere(m)'
  <2>1. /\ UNCHANGED <<inbox, offline, bus, obs, payload>>
        /\ \A d \in Conns : got'[d] = got[d] \/ got'[d] = offline[UserOf[c]] \/ got'[d] = <<>>
    BY <1>0, <1>5 DEF FetchOffline, net, db, redis, routing, DataTypes
  <2>2. ~Has(<<>>, m)
    BY DEF Has
  <2> QED  BY <1>2, <2>1, <2>2, Own DEF Nowhere
<1>6. ASSUME NEW c \in Conns, QueryFriends(c) \/ LookUp(c) PROVE Nowhere(m)'
  BY <1>3, <1>6 DEF QueryFriends, LookUp, net, db, redis, routing
<1>7. ASSUME NEW c \in Conns, Ack(c) PROVE Nowhere(m)'
  <2>1. UNCHANGED <<offline, bus, obs, got, payload>>
    BY <1>7 DEF Ack, db, redis, locals, routing
  <2>2. \A d \in Conns : ~Has(inbox'[d], m)
    <3>1. ~Has(inbox[c] \o got[c], m)
      <4>1. inbox[c] \in Seq(Msgs) /\ got[c] \in Seq(Msgs)
        BY <1>0 DEF DataTypes
      <4> QED  BY <1>2, <4>1, HasJoin DEF Nowhere
    <3>2. inbox' = inbox \/ inbox' = [inbox EXCEPT ![c] = inbox[c] \o got[c]]
      BY <1>7 DEF Ack
    <3>3. \A d \in Conns : inbox'[d] = inbox[d] \/ inbox'[d] = inbox[c] \o got[c]
      BY <1>0, <3>2 DEF DataTypes
    <3> QED  BY <1>2, <3>1, <3>3 DEF Nowhere
  <2> QED  BY <1>2, <2>1, <2>2 DEF Nowhere
<1>8. ASSUME NEW c \in Conns, RemoveOffline(c) PROVE Nowhere(m)'
  <2>1. UNCHANGED <<inbox, bus, obs, got, payload>>
    BY <1>8 DEF RemoveOffline, net, redis, locals, routing
  <2>2. \A u \in Users : offline'[u] = offline[u] \/ offline'[u] = <<>>
    BY <1>0, <1>8 DEF RemoveOffline, DataTypes
  <2>3. ~Has(<<>>, m)
    BY DEF Has
  <2> QED  BY <1>2, <2>1, <2>2, <2>3 DEF Nowhere
<1>9. ASSUME NEW c \in Conns, NotifyFriendState(c) \/ Return(c) PROVE Nowhere(m)'
  <2>1. UNCHANGED <<inbox, offline, bus, obs>>
    BY <1>9 DEF NotifyFriendState, Return, net, db, redis
  <2>2. News(c) # m /\ NoJob # m
    BY <1>0, Own, MessageAssumption DEF News, Notice, Notices, States
  <2>3. \A d \in Conns : payload'[d] # m
    BY <1>0, <1>2, <1>9, <2>2 DEF NotifyFriendState, Return, Nowhere, DataTypes
  <2>4. \A d \in Conns : got'[d] = got[d] \/ got'[d] = <<>>
    BY <1>0, <1>9 DEF NotifyFriendState, Return, DataTypes
  <2>5. ~Has(<<>>, m)
    BY DEF Has
  <2> QED  BY <1>2, <2>1, <2>3, <2>4, <2>5 DEF Nowhere
<1>10. ASSUME NEW c \in Conns, SendNear(c) PROVE Nowhere(m)'
  <2>1. UNCHANGED <<offline, bus, obs, got, payload>> /\ pc[c] = "send" /\ \E d \in near[c] : Deliver(d, payload[c])
    BY <1>10 DEF SendNear, db, redis
  <2>2. payload[c] \in Payloads /\ payload[c] # m /\ near[c] \subseteq Conns
    BY <1>0, <1>2, <2>1 DEF Holds, Nowhere, DataTypes
  <2>3. \A e \in Conns : ~Has(inbox'[e], m)
    BY <1>0, <1>2, <2>1, <2>2, DeliverHas DEF Nowhere
  <2> QED  BY <1>2, <2>1, <2>3 DEF Nowhere
<1>11. ASSUME NEW c \in Conns, StoreOffline(c) PROVE Nowhere(m)'
  <2>1. UNCHANGED <<inbox, bus, obs, got, payload>>
    BY <1>11 DEF StoreOffline, net, redis
  <2>2. PICK v \in aim[c] :
          offline' = offline \/ offline' = [offline EXCEPT ![v] = Append(offline[v], payload[c])]
    BY <1>11 DEF StoreOffline, Store
  <2>3. payload[c] \in Msgs /\ payload[c] # m /\ v \in Users
    BY <1>0, <1>2 DEF Holds, Nowhere, DataTypes
  <2>4. ~Has(Append(offline[v], payload[c]), m)
    <3>1. offline[v] \in Seq(Msgs)
      BY <1>0, <2>3 DEF DataTypes
    <3> QED  BY <1>2, <2>3, <3>1, HasAppend DEF Nowhere
  <2>5. \A u \in Users : offline'[u] = offline[u] \/ offline'[u] = Append(offline[v], payload[c])
    BY <1>0, <2>2 DEF DataTypes
  <2> QED  BY <1>2, <2>1, <2>4, <2>5 DEF Nowhere
<1>12. ASSUME NEW c \in Conns, Publish(c) PROVE Nowhere(m)'
  <2>1. UNCHANGED <<inbox, offline, obs, got, payload>> /\ pc[c] = "send"
    BY <1>12 DEF Publish, net, db
  <2> DEFINE E == [to : Users, what : Payloads]
  <2>2. PICK v \in far[c] :
          bus' = [s \in Servers |-> IF v \in subs[s] THEN Append(bus[s], [to |-> v, what |-> payload[c]]) ELSE bus[s]]
    BY <1>12 DEF Publish
  <2> DEFINE x == [to |-> v, what |-> payload[c]]
  <2>3. x \in E /\ \A u : x # Addressed(m, u)
    BY <1>0, <1>2, <2>1 DEF Holds, Nowhere, DataTypes, Addressed
  <2>4. bus \in [Servers -> Seq(E)]
    BY <1>0 DEF DataTypes
  <2>5. \A s \in Servers : bus'[s] = bus[s] \/ bus'[s] = Append(bus[s], x)
    BY <2>2
  <2> HIDE DEF x, E
  <2>6. \A s \in Servers, u \in Users : ~Has(bus'[s], Addressed(m, u))
    <3>1. ASSUME NEW s \in Servers, NEW u \in Users PROVE ~Has(Append(bus[s], x), Addressed(m, u))
      <4>1. bus[s] \in Seq(E) /\ ~Has(bus[s], Addressed(m, u)) /\ x # Addressed(m, u)
        BY <1>2, <2>3, <2>4 DEF Nowhere
      <4> QED  BY <2>3, <4>1, HasAppend
    <3> QED  BY <1>2, <2>5, <3>1 DEF Nowhere
  <2> QED  BY <1>2, <2>1, <2>6 DEF Nowhere
<1>13. ASSUME NEW c \in Conns, NEW n \in Msgs, OneChat(c, n) \/ GroupChat(c, n) PROVE Nowhere(m)'
  <2>1. UNCHANGED <<offline, bus, obs, got>> /\ n # m /\ payload' = [payload EXCEPT ![c] = n]
    BY <1>13 DEF OneChat, GroupChat, Send, db, redis
  <2>2. \A d \in Conns : payload'[d] # m
    BY <1>0, <1>2, <2>1 DEF Nowhere, DataTypes
  <2>3. \A d \in Conns : inbox'[d] = inbox[d] \/ inbox'[d] = Append(inbox[d], n)
    BY <1>13 DEF OneChat, GroupChat
  <2>4. \A d \in Conns : ~Has(inbox'[d], m)
    <3>1. ASSUME NEW d \in Conns PROVE ~Has(Append(inbox[d], n), m)
      <4>1. inbox[d] \in Seq(Msgs) /\ ~Has(inbox[d], m)
        BY <1>0, <1>2 DEF DataTypes, Nowhere
      <4> QED  BY <2>1, <4>1, HasAppend
    <3> QED  BY <1>2, <2>3, <3>1 DEF Nowhere
  <2> QED  BY <1>2, <2>1, <2>2, <2>4 DEF Nowhere
<1>14. ASSUME NEW s \in Servers, RedisSubscription(s) PROVE Nowhere(m)'
  BY <1>3, <1>14 DEF RedisSubscription, net, db, locals, routing
<1>15. ASSUME NEW s \in Servers, ObserverLookUp(s) PROVE Nowhere(m)'
  <2>1. UNCHANGED <<inbox, offline, got, payload>>
    BY <1>15 DEF ObserverLookUp, net, db, locals, routing
  <2> DEFINE E == [to : Users, what : Payloads]
             e == Head(bus[s])
  <2>2. bus[s] \in Seq(E) /\ bus[s] # <<>> /\ bus' = [bus EXCEPT ![s] = Tail(bus[s])]
        /\ obs' = [obs EXCEPT ![s] = [to |-> e.to, what |-> e.what, conn |-> userConnMap[s][e.to]]]
    BY <1>0, <1>15 DEF ObserverLookUp, DataTypes
  <2>3. e \in E
    <3> HIDE DEF E
    <3> QED  BY <2>2
  <2>4. e.what # m
    <3>1. \A u \in Users : ~Has(bus[s], Addressed(m, u))
      BY <1>2 DEF Nowhere
    <3>2. \A u \in Users : e # Addressed(m, u)
      <4> HIDE DEF E
      <4> QED  BY <2>2, <3>1, HasTail
    <3>3. e = [to |-> e.to, what |-> e.what] /\ e.to \in Users
      BY <2>3
    <3> QED  BY <3>2, <3>3 DEF Addressed
  <2>5. \A r \in Servers, u \in Users : ~Has(bus'[r], Addressed(m, u))
    <3>1. \A r \in Servers, u \in Users : ~Has(bus[r], Addressed(m, u))
      BY <1>2 DEF Nowhere
    <3>2. \A r \in Servers : bus'[r] = bus[r] \/ (r = s /\ bus'[r] = Tail(bus[s]))
      BY <1>0, <2>2 DEF DataTypes
    <3> HIDE DEF E, e
    <3> QED  BY <2>2, <3>1, <3>2, HasTail
  <2>6. \A r \in Servers : obs'[r] # NoJob => obs'[r].what # m
    <3> HIDE DEF e
    <3> QED  BY <1>0, <1>2, <2>2, <2>4 DEF Nowhere, DataTypes
  <2> QED  BY <1>2, <2>1, <2>5, <2>6 DEF Nowhere
<1>16. ASSUME NEW s \in Servers, ObserverForward(s) PROVE Nowhere(m)'
  <2>1. UNCHANGED <<bus, got, payload>> /\ obs[s] # NoJob /\ obs' = [obs EXCEPT ![s] = NoJob]
    BY <1>16 DEF ObserverForward, locals, routing
  <2>2. obs[s] \in Jobs /\ obs[s].what # m
    BY <1>0, <1>2, <2>1 DEF Nowhere, DataTypes
  <2>3. \A d \in Conns : ~Has(inbox'[d], m)
    <3>1. CASE obs[s].conn # NoConn /\ Deliver(obs[s].conn, obs[s].what)
      BY <1>0, <1>2, <2>2, <3>1, DeliverHas DEF Nowhere, Jobs
    <3> QED  BY <1>2, <1>16, <3>1 DEF ObserverForward, Nowhere
  <2>4. \A u \in Users : ~Has(offline'[u], m)
    <3>1. CASE obs[s].what \in Msgs /\ offline' = [offline EXCEPT ![obs[s].to] = Append(@, obs[s].what)]
      <4>1. \A u \in Users : offline'[u] = offline[u] \/ offline'[u] = Append(offline[u], obs[s].what)
        BY <1>0, <3>1 DEF DataTypes
      <4>2. \A u \in Users : offline[u] \in Seq(Msgs)
        BY <1>0 DEF DataTypes
      <4> QED  BY <1>2, <2>2, <3>1, <4>1, <4>2, HasAppend DEF Nowhere
    <3> QED  BY <1>2, <1>16, <3>1 DEF ObserverForward, Store, Nowhere
  <2>5. \A r \in Servers : obs'[r] # NoJob => obs'[r].what # m
    BY <1>0, <1>2, <2>1 DEF Nowhere, DataTypes
  <2> QED  BY <1>2, <2>1, <2>3, <2>4, <2>5 DEF Nowhere
<1> QED  BY <1>4, <1>5, <1>6, <1>7, <1>8, <1>9, <1>10, <1>11, <1>12, <1>13, <1>14, <1>15, <1>16, StepCases
(* Every step keeps the types and what the handlers and observers hold *)
LEMMA NextWork ==
  ASSUME SessionInv, RedisTypes, WorkInv, [Next]_vars
  PROVE  WorkInv'
<1>1. CASE Next
  <2>1. DataTypes /\ (\A c \in Conns : Holds(c)) /\ \A s \in Servers : Found(s)
    BY DEF WorkInv
  <2>2. DataTypes'
    <3>1. ASSUME NEW c \in Conns, HeartbeatTimeout(c) PROVE DataTypes'
      BY <2>1, <3>1 DEF HeartbeatTimeout, DataTypes, tables, db, redis, locals, routing
    <3> QED  BY <1>1, <3>1, HandlerTypes, ClientTypes, ServerTypes DEF Next
  <2>3. ASSUME NEW d \in Conns PROVE Holds(d)'
    <3>1. ASSUME NEW c \in Conns, HandlerStep(c) \/ ClientStep(c) PROVE Holds(d)'
      <4>1. Elsewhere(c)
        BY <2>1, <3>1, HandlerElsewhere, ClientElsewhere
      <4> QED  BY <2>1, <3>1, <4>1, HandlerHolds, ClientHolds, OtherHolds
    <3> QED  BY <1>1, <2>1, <3>1, OutsideHolds DEF Next
  <2> QED  BY <1>1, <2>1, <2>2, <2>3, NextFound, NextNowhere DEF WorkInv
<1>2. CASE UNCHANGED vars
  <2>1. UNCHANGED <<link, client, pc, inbox, view, sent, offline, bus, obs, got, snap, payload, near, far, todo, aim>>
    BY <1>2 DEF vars, net, db, redis, locals, routing
  <2>2. DataTypes'
    BY <2>1 DEF WorkInv, DataTypes
  <2>3. (\A c \in Conns : Holds(c))' /\ (\A s \in Servers : Found(s))'
    BY <2>1 DEF WorkInv, Holds, Found
  <2>4. (\A m \in Msgs \ sent : Nowhere(m))'
    BY <2>1 DEF WorkInv, Nowhere
  <2> QED  BY <2>2, <2>3, <2>4 DEF WorkInv
<1> QED  BY <1>1, <1>2

(* The history adds nothing to a step *)
LEMMA HistoryStep ==
  ASSUME [HNext]_hvars
  PROVE  [Next]_vars
BY DEF HNext, hvars

(* Whatever interleaving of handlers, observers and the heartbeat check:   *)
(* everything is of its type, what a handler of login, oneChat, groupChat  *)
(* and notifyFriendState holds is what its place in the code says, and no  *)
(* message is anywhere before its author has sent it.                      *)
THEOREM WorkInvariant == HSpec => []WorkInv
<1>1. HInit => WorkInv
  BY InitWork DEF HInit
<1>2. PresenceInv /\ WorkInv /\ [HNext]_hvars => WorkInv'
  BY NextWork, HistoryStep DEF PresenceInv
<1> QED  BY <1>1, <1>2, PresenceInvariant, PTL DEF HSpec

(* The type invariant of the service (chatservice.cpp): every connection,  *)
(* handler, table, queue and subscription always has a value of its type.  *)
THEOREM ServiceTypes == HSpec => []TypeOK
<1>1. PresenceInv /\ WorkInv => TypeOK
  BY DEF PresenceInv, WorkInv, SessionInv, CoreTypes, RedisTypes, Commands, DataTypes, TypeOK
<1> QED  BY <1>1, PresenceInvariant, WorkInvariant, PTL
----------------------------------------------------------------------------
(* Delivery.  A message that is on its way to u, or has arrived, is in one *)
(* place a of one kind t                                                   *)
Kinds == {"todo", "aim", "far", "near", "bus", "obs", "inbox", "offline"}
Spots == Conns \cup Servers \cup Users

InHand(c, m, u, t) ==
    /\ payload[c] = m
    /\ \/ t = "todo" /\ u \in todo[c]
       \/ t = "aim" /\ u \in aim[c]
       \/ t = "far" /\ u \in far[c]
       \/ t = "near" /\ \E d \in near[c] : UserOf[d] = u

InRedis(s, m, u, t) ==
    \/ t = "bus" /\ Has(bus[s], Addressed(m, u))
    \/ t = "obs" /\ obs[s] # NoJob /\ obs[s].to = u /\ obs[s].what = m

(* The rows that a login of u has handed over do not count any more *)
Removing(u) == \E c \in ConnsOf(u) : pc[c] = "remove"
Stored(m, u) == Has(offline[u], m) /\ ~Removing(u)

In(m, u, t, a) ==
    \/ a \in Conns /\ InHand(a, m, u, t)
    \/ a \in Servers /\ InRedis(a, m, u, t)
    \/ a \in ConnsOf(u) /\ t = "inbox" /\ Has(inbox[a], m)
    \/ a = u /\ t = "offline" /\ Stored(m, u)

Only(m, u, t, a) ==
    In(m, u, t, a) /\ \A k \in Kinds, b \in Spots : In(m, u, k, b) => k = t /\ b = a

Somewhere(m, u) == \E t \in Kinds, a \in Spots : Only(m, u, t, a)

AtMostOnce(q, x) == \A i, j \in DOMAIN q : q[i] = x /\ q[j] = x => i = j

Once(m, u) ==
    /\ \A s \in Servers : AtMostOnce(bus[s], Addressed(m, u))
    /\ \A c \in ConnsOf(u) : AtMostOnce(inbox[c], m)
    /\ AtMostOnce(offline[u], m)

(* What was looked up about u is still so, ... *)
Aimed(m, u) ==
    /\ \A c \in Conns : payload[c] = m =>
          /\ u \in far[c] => state[u] = "online"
          /\ \A d \in near[c] : UserOf[d] = u => userConnMap[ServerOf[c]][u] = d
    /\ \A s \in Servers : obs[s] # NoJob /\ obs[s].to = u /\ obs[s].what = m =>
          obs[s].conn = userConnMap[s][u]

(* ... and what a login has fetched, if anything, is what is stored *)
Fetched(m, u) ==
    \A c \in ConnsOf(u) :
        /\ pc[c] \in {"friends", "ack", "remove"} /\ got[c] # <<>> =>
              AtMostOnce(got[c], m) /\ (Has(got[c], m) <=> Has(offline[u], m))
        /\ pc[c] = "remove" => got[c] # <<>>

Carries(m, u) ==
    Somewhere(m, u) /\ Once(m, u) /\ Aimed(m, u) /\ Fetched(m, u) /\ ~Disturbing(m, u)

Promised(m, u) == m \in sent /\ u \in To[m] \ raced /\ <<m, u>> \notin disturbed

DeliveryInv == \A m \in Msgs, u \in Users : Promised(m, u) => Carries(m, u)

----------------------------------------------------------------------------
(* What is at most once in a queue, after something is added, ... *)
LEMMA OnceAppend ==
  ASSUME NEW S, NEW q \in Seq(S), NEW y \in S, NEW x, AtMostOnce(q, x), y = x => ~Has(q, x)
  PROVE  AtMostOnce(Append(q, y), x)
<1>1. /\ DOMAIN q = 1..Len(q) /\ Len(q) \in Nat /\ DOMAIN Append(q, y) = 1..(Len(q) + 1)
      /\ \A i \in 1..Len(q) : Append(q, y)[i] = q[i]
      /\ Append(q, y)[Len(q) + 1] = y
  OBVIOUS
<1>2. \A i \in 1..(Len(q) + 1) : i \in 1..Len(q) \/ i = Len(q) + 1
  BY <1>1
<1> QED  BY <1>1, <1>2 DEF AtMostOnce, Has

(* ... taken away, ... *)
LEMMA OnceTail ==
  ASSUME NEW S, NEW q \in Seq(S), q # <<>>, NEW x, AtMostOnce(q, x)
  PROVE  AtMostOnce(Tail(q), x) /\ (Head(q) = x => ~Has(Tail(q), x))
<1>1. /\ DOMAIN q = 1..Len(q) /\ Len(q) \in Nat /\ DOMAIN Tail(q) = 1..(Len(q) - 1)
      /\ \A i \in 1..(Len(q) - 1) : Tail(q)[i] = q[i + 1] /\ i + 1 \in 1..Len(q) /\ i + 1 # 1
      /\ Head(q) = q[1] /\ 1 \in 1..Len(q)
  OBVIOUS
<1>2. \A i, j \in 1..(Len(q) - 1) : i + 1 = j + 1 => i = j
  BY <1>1
<1>3. AtMostOnce(Tail(q), x)
  BY <1>1, <1>2 DEF AtMostOnce
<1>4. Head(q) = x => ~Has(Tail(q), x)
  BY <1>1 DEF AtMostOnce, Has
<1> QED  BY <1>3, <1>4

(* ... or joined *)
LEMMA OnceJoin ==
  ASSUME NEW S, NEW q \in Seq(S), NEW r \in Seq(S), NEW x, AtMostOnce(q, x), AtMostOnce(r, x),
         ~(Has(q, x) /\ Has(r, x))
  PROVE  AtMostOnce(q \o r, x)
<1>1. /\ DOMAIN q = 1..Len(q) /\ DOMAIN r = 1..Len(r) /\ Len(q) \in Nat /\ Len(r) \in Nat
      /\ DOMAIN (q \o r) = 1..(Len(q) + Len(r))
      /\ \A i \in 1..Len(q) : (q \o r)[i] = q[i]
      /\ \A i \in 1..Len(r) : (q \o r)[Len(q) + i] = r[i]
  OBVIOUS
<1>2. \A i \in 1..(Len(q) + Len(r)) :
         i \in 1..Len(q) \/ (i - Len(q) \in 1..Len(r) /\ (q \o r)[i] = r[i - Len(q)])
  <2>1. \A i \in 1..(Len(q) + Len(r)) :
           i \in 1..Len(q) \/ (i - Len(q) \in 1..Len(r) /\ Len(q) + (i - Len(q)) = i)
    BY <1>1
  <2> QED  BY <1>1, <2>1
<1>3. \A i, j \in 1..(Len(q) + Len(r)) : i - Len(q) = j - Len(q) => i = j
  BY <1>1
<1>4. ASSUME NEW i \in 1..(Len(q) + Len(r)), NEW j \in 1..(Len(q) + Len(r)), (q \o r)[i] = x, (q \o r)[j] = x
      PROVE  i = j
  <2>1. CASE i \in 1..Len(q) /\ j \in 1..Len(q)
    BY <1>1, <1>4, <2>1 DEF AtMostOnce
  <2>2. CASE i \notin 1..Len(q) /\ j \notin 1..Len(q)
    <3>1. /\ i - Len(q) \in DOMAIN r /\ j - Len(q) \in DOMAIN r
          /\ r[i - Len(q)] = x /\ r[j - Len(q)] = x
      BY <1>1, <1>2, <1>4, <2>2
    <3>2. i - Len(q) = j - Len(q)
      BY <3>1 DEF AtMostOnce
    <3> QED  BY <1>3, <3>2
  <2>3. CASE i \in 1..Len(q) /\ j \notin 1..Len(q)
    BY <1>1, <1>2, <1>4, <2>3 DEF Has
  <2>4. CASE i \notin 1..Len(q) /\ j \in 1..Len(q)
    BY <1>1, <1>2, <1>4, <2>4 DEF Has
  <2> QED  BY <2>1, <2>2, <2>3, <2>4
<1> QED  BY <1>1, <1>4 DEF AtMostOnce

(* A place is of a kind *)
LEMMA InSpot ==
  ASSUME NEW m, NEW u \in Users, NEW t, NEW a, In(m, u, t, a)
  PROVE  t \in Kinds /\ a \in Spots
BY DEF In, InHand, InRedis, Kinds, Spots, ConnsOf

(* A message that stays in its place *)
LEMMA Stays ==
  ASSUME NEW m, NEW u \in Users, Somewhere(m, u),
         \A c \in Conns, t \in Kinds : InHand(c, m, u, t)' <=> InHand(c, m, u, t),
         \A s \in Servers, t \in Kinds : InRedis(s, m, u, t)' <=> InRedis(s, m, u, t),
         \A c \in ConnsOf(u) : Has(inbox'[c], m) <=> Has(inbox[c], m),
         Stored(m, u)' <=> Stored(m, u)
  PROVE  Somewhere(m, u)'
<1>1. \A t \in Kinds, a \in Spots : In(m, u, t, a)' <=> In(m, u, t, a)
  BY DEF In, ConnsOf
<1> QED  BY <1>1 DEF Somewhere, Only

(* ... or leaves it for another *)
LEMMA Moves ==
  ASSUME NEW m, NEW u \in Users, Somewhere(m, u), NEW t, NEW a, In(m, u, t, a),
         NEW k \in Kinds, NEW b \in Spots, In(m, u, k, b)',
         \A l \in Kinds, e \in Spots : In(m, u, l, e)' =>
             (l = k /\ e = b) \/ (In(m, u, l, e) /\ ~(l = t /\ e = a))
  PROVE  Somewhere(m, u)'
<1>1. t \in Kinds /\ a \in Spots
  BY InSpot
<1>2. \A l \in Kinds, e \in Spots : In(m, u, l, e) => l = t /\ e = a
  BY <1>1 DEF Somewhere, Only
<1>3. \A l \in Kinds, e \in Spots : In(m, u, l, e)' => l = k /\ e = b
  BY <1>2
<1> QED  BY <1>3 DEF Somewhere, Only

(* Two places are one *)
LEMMA OnePlace ==
  ASSUME NEW m, NEW u \in Users, Somewhere(m, u),
         NEW t, NEW a, In(m, u, t, a), NEW k, NEW b, In(m, u, k, b)
  PROVE  t = k /\ a = b
<1>1. t \in Kinds /\ a \in Spots /\ k \in Kinds /\ b \in Spots
  BY InSpot
<1> QED  BY <1>1 DEF Somewhere, Only
----------------------------------------------------------------------------
(* What is known of a message on its way before a step *)
Before(m, u) ==
    SessionInv /\ RedisTypes /\ WorkInv /\ Ways(u) /\ Recorded(u) /\ Carries(m, u)

(* Who is registered and not on the move shows what arrives *)
LEMMA SteadyShows ==
  ASSUME SessionInv, \A c \in Conns : Holds(c), NEW u \in Users, Steady(u),
         NEW s \in Servers, NEW d, d = userConnMap[s][u], d # NoConn
  PROVE  Shows(d) /\ d \in ConnsOf(u)
<1>1. d \in Conns /\ ServerOf[d] = s /\ UserOf[d] = u /\ client[d] \in {"wait", "in"}
  BY Listed
<1>2. d \in ConnsOf(u) /\ Registered(d) = d
  BY <1>1 DEF ConnsOf, Registered
<1>3. link[d] = "open" /\ pc[d] \notin LoginLabels
  BY <1>2 DEF Steady, Settled, Contending
<1> QED  BY <1>1, <1>2, <1>3 DEF Holds, Shows

(* No step of a user's settled session changes where the user is *)
LEMMA SteadyStill ==
  ASSUME SessionInv, RedisTypes, Next, NEW u \in Users, Settled(u), Settled(u)'
  PROVE  state'[u] = state[u] /\ \A s \in Servers : userConnMap'[s][u] = userConnMap[s][u]
<1>1. ASSUME NEW c \in Conns, HandlerStep(c) \/ ClientStep(c), UserOf[c] # u
      PROVE  state'[u] = state[u] /\ \A s \in Servers : userConnMap'[s][u] = userConnMap[s][u]
  BY <1>1, HandlerAway, ClientAway DEF Away
<1>2. ASSUME NEW c \in Conns, UserOf[c] = u
      PROVE  /\ c \in ConnsOf(u) /\ c \in ConnsOf(u)'
             /\ pc[c] \notin LoginLabels \cup LeaveLabels /\ pc'[c] \notin LoginLabels \cup LeaveLabels
             /\ pc[c] = "close" => Registered(c) # c
  <2>1. c \in ConnsOf(u) /\ c \in ConnsOf(u)'
    BY <1>2 DEF ConnsOf
  <2> QED  BY <2>1 DEF Settled, Contending
<1>3. ASSUME NEW c \in Conns, HandlerStep(c), UserOf[c] = u
      PROVE  UNCHANGED <<state, userConnMap>>
  <2>1. ~Relogin(c) /\ ~Register(c) /\ ~SetOnline(c) /\ ~SetOffline(c)
    BY <1>2, <1>3 DEF Relogin, Register, SetOnline, SetOffline, LoginLabels, LeaveLabels
  <2>2. CloseErase(c) => UNCHANGED <<state, userConnMap>>
    BY <1>2, <1>3 DEF CloseErase, db
  <2> QED  BY <1>3, <2>1, <2>2 DEF HandlerStep, Subscribe, FetchOffline, QueryFriends, Ack, RemoveOffline,
              Unsubscribe, Untrack, NotifyFriendState, SendNear, LookUp, StoreOffline, Publish, Return, tables, db
<1>4. ASSUME NEW c \in Conns, ClientStep(c), UserOf[c] = u
      PROVE  UNCHANGED <<state, userConnMap>>
  <2>1. ~Logout(c)
    <3>1. Logout(c) => pc'[c] = "unsubscribe"
      BY GoesTo DEF Logout
    <3> QED  BY <1>2, <1>4, <3>1 DEF LeaveLabels
  <2> QED  BY <1>4, <2>1 DEF ClientStep, Login, PeerClose, Heartbeat, OneChat, GroupChat, Send, tables, db
<1>5. CASE \E c \in Conns : HeartbeatTimeout(c)
  BY <1>5 DEF HeartbeatTimeout, tables, db
<1>6. CASE \E s \in Servers : ServerStep(s)
  BY <1>6 DEF ServerStep, RedisSubscription, ObserverLookUp, ObserverForward, tables, db
<1> QED  BY <1>1, <1>3, <1>4, <1>5, <1>6 DEF Next

(* As long as a message is on its way, its addressee does not move *)
LEMMA UnderwaySteady ==
  ASSUME NEW m \in Msgs, NEW u \in Users, Before(m, u), NEW t, NEW a, In(m, u, t, a),
         t \notin {"inbox", "offline"}
  PROVE  Steady(u) /\ ~Removing(u) /\ InTransit(m, u)
<1>1. InTransit(m, u)
  BY DEF In, InHand, InRedis, InTransit, Has, Addressed
<1>2. Steady(u)
  BY <1>1 DEF Before, Carries, Disturbing
<1>3. ~Removing(u)
  BY <1>2 DEF Removing, Steady, Settled, Contending, LoginLabels
<1> QED  BY <1>1, <1>2, <1>3

(* What a step leaves in the hands of the handlers, of Redis and the       *)
(* observers, and of a client                                              *)
HandsKeep(m, u) ==
    \A c \in Conns : /\ payload'[c] = m <=> payload[c] = m
                     /\ payload[c] = m => /\ todo'[c] = todo[c] /\ aim'[c] = aim[c]
                                          /\ far'[c] = far[c] /\ near'[c] = near[c]
RedisKeeps(m, u) ==
    \A s \in Servers : /\ Has(bus'[s], Addressed(m, u)) <=> Has(bus[s], Addressed(m, u))
                       /\ AtMostOnce(bus[s], Addressed(m, u)) => AtMostOnce(bus'[s], Addressed(m, u))
                       /\ (obs'[s] # NoJob /\ obs'[s].to = u /\ obs'[s].what = m)
                             <=> (obs[s] # NoJob /\ obs[s].to = u /\ obs[s].what = m)
InboxesKeep(m, u) ==
    \A c \in ConnsOf(u) : /\ Has(inbox'[c], m) <=> Has(inbox[c], m)
                          /\ AtMostOnce(inbox[c], m) => AtMostOnce(inbox'[c], m)
RowsKeep(m, u) ==
    /\ Stored(m, u)' <=> Stored(m, u)
    /\ AtMostOnce(offline[u], m) => AtMostOnce(offline'[u], m)

(* A step that keeps all four keeps the message *)
LEMMA AllKeep ==
  ASSUME NEW m \in Msgs, NEW u \in Users, Somewhere(m, u), Once(m, u),
         HandsKeep(m, u), RedisKeeps(m, u), InboxesKeep(m, u), RowsKeep(m, u)
  PROVE  Somewhere(m, u)' /\ Once(m, u)'
<1>1. \A c \in Conns, t \in Kinds : InHand(c, m, u, t)' <=> InHand(c, m, u, t)
  BY DEF HandsKeep, InHand
<1>2. \A s \in Servers, t \in Kinds : InRedis(s, m, u, t)' <=> InRedis(s, m, u, t)
  <2>1. ASSUME NEW s \in Servers, NEW t PROVE InRedis(s, m, u, t)' <=> InRedis(s, m, u, t)
    <3>1. Addressed(m, u)' = Addressed(m, u)
      BY DEF Addressed
    <3> QED  BY <3>1 DEF RedisKeeps, InRedis
  <2> QED  BY <2>1
<1>3. Somewhere(m, u)'
  BY <1>1, <1>2, Stays DEF InboxesKeep, RowsKeep
<1>4. Once(m, u)'
  BY DEF Once, RedisKeeps, InboxesKeep, RowsKeep, ConnsOf, Addressed
<1> QED  BY <1>3, <1>4

(* Where a handler looks for the addressee is where the addressee still is *)
LEMMA AimedNext ==
  ASSUME NEW m \in Msgs, NEW u \in Users, Before(m, u), Next, ~Disturbing(m, u)',
         \A c \in Conns : payload'[c] = m =>
            /\ u \in far'[c] => state[u] = "online" /\ Steady(u)
            /\ \A d \in near'[c] : UserOf[d] = u => userConnMap[ServerOf[c]][u] = d /\ Steady(u),
         \A s \in Servers : obs'[s] # NoJob /\ obs'[s].to = u /\ obs'[s].what = m =>
            obs'[s].conn = userConnMap[s][u] /\ Steady(u)
  PROVE  Aimed(m, u)'
<1>1. ASSUME Steady(u), InTransit(m, u)'
      PROVE  state'[u] = state[u] /\ \A s \in Servers : userConnMap'[s][u] = userConnMap[s][u]
  <2>1. Settled(u) /\ Settled(u)'
    BY <1>1 DEF Disturbing, Steady
  <2> QED  BY <2>1, SteadyStill DEF Before
<1>2. ASSUME NEW c \in Conns, payload'[c] = m, u \in far'[c] PROVE state'[u] = "online"
  <2>1. InTransit(m, u)'
    BY <1>2 DEF InTransit
  <2> QED  BY <1>1, <1>2, <2>1
<1>3. ASSUME NEW c \in Conns, payload'[c] = m, NEW d \in near'[c], UserOf[d] = u
      PROVE  userConnMap'[ServerOf[c]][u] = d
  <2>1. InTransit(m, u)'
    BY <1>3 DEF InTransit
  <2> QED  BY <1>1, <1>3, <2>1, Own
<1>4. ASSUME NEW s \in Servers, obs'[s] # NoJob, obs'[s].to = u, obs'[s].what = m
      PROVE  obs'[s].conn = userConnMap'[s][u]
  <2>1. InTransit(m, u)'
    BY <1>4 DEF InTransit
  <2> QED  BY <1>1, <1>4, <2>1
<1> QED  BY <1>2, <1>3, <1>4 DEF Aimed
HandsAimed(m, u) ==
    \A c \in Conns : payload'[c] = m =>
        /\ u \in far'[c] => state[u] = "online" /\ Steady(u)
        /\ \A d \in near'[c] : UserOf[d] = u => userConnMap[ServerOf[c]][u] = d /\ Steady(u)
RedisAimed(m, u) ==
    \A s \in Servers : obs'[s] # NoJob /\ obs'[s].to = u /\ obs'[s].what = m =>
        obs'[s].conn = userConnMap[s][u] /\ Steady(u)

(* What a step does with a message on its way *)
Moved(m, u) ==
    Somewhere(m, u)' /\ Once(m, u)' /\ HandsAimed(m, u) /\ RedisAimed(m, u)

(* A handler that does not add to what it holds of a message *)
LEMMA HandsShrink ==
  ASSUME NEW m \in Msgs, NEW u \in Users, Before(m, u),
         \A c \in Conns : payload'[c] = m =>
             payload[c] = m /\ near'[c] \subseteq near[c] /\ (u \in far'[c] => u \in far[c])
  PROVE  HandsAimed(m, u)
<1>1. Aimed(m, u)
  BY DEF Before, Carries
<1>2. ASSUME NEW c \in Conns, payload[c] = m, u \in far[c] \/ \E d \in near[c] : UserOf[d] = u
      PROVE  Steady(u)
  BY <1>2 DEF InTransit, Before, Carries, Disturbing
<1> QED  BY <1>1, <1>2 DEF HandsAimed, Aimed

(* ... and an observer *)
LEMMA RedisShrink ==
  ASSUME NEW m \in Msgs, NEW u \in Users, Before(m, u),
         \A s \in Servers : obs'[s] # NoJob /\ obs'[s].to = u /\ obs'[s].what = m => obs'[s] = obs[s]
  PROVE  RedisAimed(m, u)
<1>1. Aimed(m, u)
  BY DEF Before, Carries
<1>2. ASSUME NEW s \in Servers, obs[s] # NoJob, obs[s].to = u, obs[s].what = m
      PROVE  Steady(u)
  BY <1>2 DEF InTransit, Before, Carries, Disturbing
<1> QED  BY <1>1, <1>2 DEF RedisAimed, Aimed

(* A step of something else *)
LEMMA QuietMoved ==
  ASSUME NEW m \in Msgs, NEW u \in Users, Before(m, u),
         UNCHANGED <<inbox, offline, bus, obs, routing>>, Removing(u)' <=> Removing(u)
  PROVE  Moved(m, u)
<1>1. HandsKeep(m, u) /\ RedisKeeps(m, u) /\ InboxesKeep(m, u) /\ RowsKeep(m, u)
  BY DEF HandsKeep, RedisKeeps, InboxesKeep, RowsKeep, routing, Stored
<1>2. Somewhere(m, u)' /\ Once(m, u)'
  BY <1>1, AllKeep DEF Before, Carries
<1>3. HandsAimed(m, u)
  BY HandsShrink DEF routing
<1>4. RedisAimed(m, u)
  BY RedisShrink
<1> QED  BY <1>2, <1>3, <1>4 DEF Moved

(* Whether a login of u is about to remove the rows of u, after a step on c *)
LEMMA RemovingSame ==
  ASSUME SessionInv, NEW c \in Conns, NEW u \in Users, NEW l, Goto(c, l) \/ pc' = pc,
         UserOf[c] = u => (pc[c] # "remove" /\ l # "remove") \/ pc' = pc
  PROVE  Removing(u)' <=> Removing(u)
<1>1. CASE pc' = pc
  BY <1>1 DEF Removing, ConnsOf
<1>2. CASE Goto(c, l)
  <2>1. pc'[c] = l /\ \A d \in Conns : d # c => pc'[d] = pc[d]
    BY <1>2, GoesTo
  <2> QED  BY <1>1, <2>1 DEF Removing, ConnsOf
<1> QED  BY <1>1, <1>2

(* Sessions, the queries of a login and Redis' subscriptions *)
LEMMA SessionMoved ==
  ASSUME NEW m \in Msgs, NEW u \in Users, Before(m, u),
         \/ \E c \in Conns : SessionStep(c) \/ FetchOffline(c) \/ QueryFriends(c)
         \/ \E s \in Servers : RedisSubscription(s)
  PROVE  Moved(m, u)
<1>0. SessionInv
  BY DEF Before
<1>1. ASSUME NEW c \in Conns, SessionStep(c) \/ FetchOffline(c) \/ QueryFriends(c) PROVE Moved(m, u)
  <2>1. UNCHANGED <<inbox, offline, bus, obs, routing>>
    BY <1>1, SessionCarries DEF FetchOffline, QueryFriends, carried, locals, net, db, redis
  <2>2. \E l : (Goto(c, l) \/ pc' = pc) /\ (pc' # pc => pc[c] # "remove" /\ l # "remove")
    <3>1. CASE Login(c) \/ Logout(c) \/ PeerClose(c) \/ Heartbeat(c)
      BY <3>1, SMTT(30) DEF Login, Logout, PeerClose, Heartbeat, Receive
    <3>2. CASE HeartbeatTimeout(c) \/ Relogin(c) \/ Register(c) \/ Subscribe(c) \/ SetOnline(c)
      BY <3>2, SMTT(30) DEF HeartbeatTimeout, Relogin, Register, Subscribe, SetOnline
    <3>3. CASE CloseErase(c) \/ Unsubscribe(c) \/ Untrack(c) \/ SetOffline(c)
      BY <3>3, SMTT(30) DEF CloseErase, Unsubscribe, Untrack, SetOffline
    <3>4. CASE FetchOffline(c) \/ QueryFriends(c)
      BY <3>4 DEF FetchOffline, QueryFriends
    <3> QED  BY <1>1, <3>1, <3>2, <3>3, <3>4 DEF SessionStep
  <2>3. Removing(u)' <=> Removing(u)
    BY <1>0, <2>2, RemovingSame
  <2> QED  BY <2>1, <2>3, QuietMoved
<1>2. ASSUME NEW s \in Servers, RedisSubscription(s) PROVE Moved(m, u)
  <2>1. UNCHANGED <<inbox, offline, bus, obs, routing, pc>>
    BY <1>2 DEF RedisSubscription, locals, net, db
  <2> QED  BY <2>1, QuietMoved DEF Removing, ConnsOf
<1> QED  BY <1>1, <1>2

(* notifyFriendState, and the end of a handler *)
LEMMA NotifyMoved ==
  ASSUME NEW m \in Msgs, NEW u \in Users, Before(m, u), NEW c \in Conns, NotifyFriendState(c) \/ Return(c)
  PROVE  Moved(m, u)
<1>0. SessionInv /\ DataTypes /\ Holds(c) /\ Once(m, u) /\ Somewhere(m, u)
  BY DEF Before, WorkInv, Carries
<1>1. UNCHANGED <<inbox, offline, bus, obs>>
  BY DEF NotifyFriendState, Return, net, db, redis
<1>2. Removing(u)' <=> Removing(u)
  <2>1. Goto(c, "send") \/ Goto(c, "idle")
    BY DEF NotifyFriendState, Return
  <2>2. pc[c] # "remove"
    BY DEF NotifyFriendState, Return
  <2> QED  BY <1>0, <2>1, <2>2, RemovingSame
<1>3. NoJob # m /\ News(c) # m
  BY Own, MessageAssumption DEF News, Notice, Notices, States, Payloads
<1>4. /\ \A d \in Conns : d # c => payload'[d] = payload[d] /\ near'[d] = near[d] /\ far'[d] = far[d]
      /\ payload'[c] # m /\ UNCHANGED <<todo, aim>>
  BY <1>0, <1>3 DEF NotifyFriendState, Return, DataTypes
<1>5. \A t \in Kinds : ~InHand(c, m, u, t)
  <2>1. near[c] = {} /\ far[c] = {} /\ todo[c] = {} /\ aim[c] = {}
    BY <1>0 DEF NotifyFriendState, Return, Holds
  <2> QED  BY <2>1 DEF InHand
<1>6. \A d \in Conns, t \in Kinds : InHand(d, m, u, t)' <=> InHand(d, m, u, t)
  BY <1>4, <1>5 DEF InHand
<1>7. \A s \in Servers, t \in Kinds : InRedis(s, m, u, t)' <=> InRedis(s, m, u, t)
  BY <1>1 DEF InRedis, Addressed
<1>8. Somewhere(m, u)'
  BY <1>0, <1>1, <1>2, <1>6, <1>7, Stays DEF Stored
<1>9. Once(m, u)'
  BY <1>0, <1>1 DEF Once, ConnsOf, Addressed
<1>10. HandsAimed(m, u)
  BY <1>4, HandsShrink
<1>11. RedisAimed(m, u)
  BY <1>1, RedisShrink
<1> QED  BY <1>8, <1>9, <1>10, <1>11 DEF Moved

(* Another message is sent *)
LEMMA ChatMoved ==
  ASSUME NEW m \in Msgs, NEW u \in Users, Before(m, u), m \in sent,
         NEW c \in Conns, NEW n \in Msgs, OneChat(c, n) \/ GroupChat(c, n)
  PROVE  Moved(m, u)
<1>0. SessionInv /\ DataTypes /\ Holds(c) /\ Once(m, u) /\ Somewhere(m, u)
  BY DEF Before, WorkInv, Carries
<1>1. /\ UNCHANGED <<offline, bus, obs>> /\ n # m /\ Goto(c, "send") /\ pc[c] = "idle"
      /\ payload' = [payload EXCEPT ![c] = n]
      /\ \A d \in Conns : d # c => near'[d] = near[d] /\ todo'[d] = todo[d]
      /\ UNCHANGED <<far, aim>>
  BY <1>0 DEF OneChat, GroupChat, Send, Receive, db, redis, DataTypes
<1>2. Removing(u)' <=> Removing(u)
  BY <1>0, <1>1, RemovingSame
<1>3. payload'[c] # m /\ payload[c] # m /\ \A d \in Conns : d # c => payload'[d] = payload[d]
  <2>1. payload[c] = NoJob
    BY <1>0, <1>1 DEF Holds
  <2> QED  BY <1>0, <1>1, <2>1, MessageAssumption DEF DataTypes, Payloads
<1>4. HandsKeep(m, u)
  BY <1>1, <1>3 DEF HandsKeep
<1>5. RedisKeeps(m, u)
  BY <1>1 DEF RedisKeeps
<1>6. InboxesKeep(m, u)
  <2>1. ASSUME NEW d \in ConnsOf(u)
        PROVE  /\ Has(inbox'[d], m) <=> Has(inbox[d], m)
               /\ AtMostOnce(inbox[d], m) => AtMostOnce(inbox'[d], m)
    <3>1. d \in Conns /\ inbox[d] \in Seq(Msgs)
      BY <1>0 DEF ConnsOf, DataTypes
    <3>2. inbox'[d] = inbox[d] \/ inbox'[d] = Append(inbox[d], n)
      BY <3>1 DEF OneChat, GroupChat
    <3>3. /\ Has(Append(inbox[d], n), m) <=> Has(inbox[d], m)
          /\ AtMostOnce(inbox[d], m) => AtMostOnce(Append(inbox[d], n), m)
      BY <1>1, <3>1, HasAppend, OnceAppend
    <3> QED  BY <3>2, <3>3
  <2> QED  BY <2>1 DEF InboxesKeep
<1>7. RowsKeep(m, u)
  BY <1>1, <1>2 DEF RowsKeep, Stored
<1>8. Somewhere(m, u)' /\ Once(m, u)'
  BY <1>0, <1>4, <1>5, <1>6, <1>7, AllKeep
<1>9. HandsAimed(m, u)
  BY <1>1, <1>3, HandsShrink
<1>10. RedisAimed(m, u)
  BY <1>1, RedisShrink
<1> QED  BY <1>8, <1>9, <1>10 DEF Moved
(* A message that leaves the place a of kind t for the place b of kind k *)
LEMMA MovesBy ==
  ASSUME NEW m, NEW u \in Users, Somewhere(m, u), NEW t, NEW a, In(m, u, t, a),
         NEW k, NEW b, In(m, u, k, b)',
         \A e \in Conns, l \in Kinds : InHand(e, m, u, l)' =>
             (l = k /\ e = b) \/ (InHand(e, m, u, l) /\ ~(l = t /\ e = a)),
         \A e \in Servers, l \in Kinds : InRedis(e, m, u, l)' =>
             (l = k /\ e = b) \/ (InRedis(e, m, u, l) /\ ~(l = t /\ e = a)),
         \A e \in ConnsOf(u) : Has(inbox'[e], m) =>
             (k = "inbox" /\ e = b) \/ (Has(inbox[e], m) /\ ~(t = "inbox" /\ e = a)),
         Stored(m, u)' => (k = "offline" /\ b = u) \/ (Stored(m, u) /\ ~(t = "offline" /\ a = u))
  PROVE  Somewhere(m, u)'
<1>1. k \in Kinds /\ b \in Spots
  BY DEF In, InHand, InRedis, Kinds, Spots, ConnsOf
<1>2. \A l \in Kinds, e \in Spots : In(m, u, l, e)' =>
          (l = k /\ e = b) \/ (In(m, u, l, e) /\ ~(l = t /\ e = a))
  BY DEF In, ConnsOf
<1> QED  BY <1>1, <1>2, Moves

(* A client that is sent something it has not seen sees it once *)
LEMMA DeliverOnce ==
  ASSUME DataTypes, NEW d \in Conns, NEW what \in Payloads, Deliver(d, what), NEW e \in Conns, NEW m \in Msgs,
         AtMostOnce(inbox[e], m), e = d /\ what = m => ~Has(inbox[e], m)
  PROVE  AtMostOnce(inbox'[e], m)
<1>1. CASE Shows(d) /\ what \in Msgs /\ e = d
  <2>1. inbox'[e] = Append(inbox[e], what) /\ inbox[e] \in Seq(Msgs)
    BY <1>1 DEF Deliver, DataTypes
  <2> QED  BY <1>1, <2>1, OnceAppend
<1>2. CASE ~(Shows(d) /\ what \in Msgs /\ e = d)
  BY <1>2 DEF Deliver, DataTypes
<1> QED  BY <1>1, <1>2

(* The addressee registered here is sent the message *)
LEMMA SendNearMoved ==
  ASSUME NEW m \in Msgs, NEW u \in Users, Before(m, u), NEW c \in Conns, SendNear(c)
  PROVE  Moved(m, u)
<1>0. /\ SessionInv /\ DataTypes /\ Holds(c) /\ Once(m, u) /\ Somewhere(m, u) /\ Aimed(m, u)
      /\ (\A d \in Conns : Holds(d))
  BY DEF Before, WorkInv, Carries
<1>1. UNCHANGED <<offline, bus, obs, payload, far, todo, aim, pc>> /\ pc[c] = "send"
  BY DEF SendNear, tables, db, redis
<1>2. PICK d \in near[c] : Deliver(d, payload[c]) /\ near' = [near EXCEPT ![c] = near[c] \ {d}]
  BY DEF SendNear
<1>3. payload[c] \in Payloads /\ d \in Conns
  BY <1>0, <1>1 DEF Holds, DataTypes
<1>4. \A e \in Conns : near'[e] = IF e = c THEN near[c] \ {d} ELSE near[e]
  BY <1>0, <1>2 DEF DataTypes
<1>5. \A e \in Conns : Has(inbox'[e], m) <=> Has(inbox[e], m) \/ (e = d /\ Shows(d) /\ payload[c] = m)
  BY <1>0, <1>2, <1>3, DeliverHas
<1>6. \A s \in Servers, t \in Kinds : InRedis(s, m, u, t)' <=> InRedis(s, m, u, t)
  BY <1>1 DEF InRedis, Addressed
<1>7. Stored(m, u)' <=> Stored(m, u)
  BY <1>1 DEF Stored, Removing, ConnsOf
<1>8. HandsAimed(m, u)
  BY <1>1, <1>4, HandsShrink
<1>9. RedisAimed(m, u)
  BY <1>1, RedisShrink
<1>10. ASSUME \A e \in ConnsOf(u) : AtMostOnce(inbox'[e], m) PROVE Once(m, u)'
  BY <1>0, <1>1, <1>10 DEF Once, ConnsOf, Addressed
<1>11. CASE payload[c] = m /\ UserOf[d] = u
  <2>1. InHand(c, m, u, "near") /\ In(m, u, "near", c)
    BY <1>11 DEF InHand, In
  <2>2. Steady(u)
    BY <2>1, UnderwaySteady
  <2>3. userConnMap[ServerOf[c]][u] = d /\ \A e \in near[c] : UserOf[e] = u => e = d
    BY <1>0, <1>11 DEF Aimed
  <2>4. Shows(d) /\ d \in ConnsOf(u)
    <3>1. d # NoConn /\ ServerOf[c] \in Servers
      BY <1>3, Own
    <3> QED  BY <1>0, <2>2, <2>3, <3>1, SteadyShows
  <2>5. In(m, u, "inbox", d)'
    BY <1>3, <1>5, <1>11, <2>4 DEF In, ConnsOf
  <2>6. \A e \in Conns, l \in Kinds : InHand(e, m, u, l)' => InHand(e, m, u, l) /\ ~(l = "near" /\ e = c)
    BY <1>1, <1>4, <2>3 DEF InHand
  <2>7. \A e \in ConnsOf(u) : Has(inbox'[e], m) => Has(inbox[e], m) \/ e = d
    BY <1>5 DEF ConnsOf
  <2>8. Somewhere(m, u)'
    BY <1>0, <1>6, <1>7, <2>1, <2>5, <2>6, <2>7, MovesBy DEF InRedis
  <2>9. ~Has(inbox[d], m)
    <3>1. Has(inbox[d], m) => In(m, u, "inbox", d)
      BY <2>4 DEF In
    <3> QED  BY <1>0, <2>1, <3>1, OnePlace
  <2>10. \A e \in ConnsOf(u) : AtMostOnce(inbox'[e], m)
    <3>1. \A e \in ConnsOf(u) : e \in Conns /\ AtMostOnce(inbox[e], m)
      BY <1>0 DEF ConnsOf, Once
    <3> QED  BY <1>0, <1>2, <1>3, <2>9, <3>1, DeliverOnce
  <2> QED  BY <1>8, <1>9, <1>10, <2>8, <2>10 DEF Moved
<1>12. CASE ~(payload[c] = m /\ UserOf[d] = u)
  <2>1. \A e \in Conns, t \in Kinds : InHand(e, m, u, t)' <=> InHand(e, m, u, t)
    BY <1>1, <1>4, <1>12 DEF InHand
  <2>2. \A e \in ConnsOf(u) : e \in Conns /\ (Has(inbox'[e], m) <=> Has(inbox[e], m)) /\ AtMostOnce(inbox[e], m)
    BY <1>0, <1>5, <1>12 DEF ConnsOf, Once
  <2>3. Somewhere(m, u)'
    BY <1>0, <1>6, <1>7, <2>1, <2>2, Stays
  <2>4. \A e \in ConnsOf(u) : AtMostOnce(inbox'[e], m)
    <3>1. ASSUME NEW e \in ConnsOf(u) PROVE ~(e = d /\ payload[c] = m)
      BY <1>12 DEF ConnsOf
    <3> QED  BY <1>0, <1>2, <1>3, <2>2, <3>1, DeliverOnce
  <2> QED  BY <1>8, <1>9, <1>10, <2>3, <2>4 DEF Moved
<1> QED  BY <1>11, <1>12

(* An addressee is looked up in the database *)
LEMMA LookUpMoved ==
  ASSUME NEW m \in Msgs, NEW u \in Users, Before(m, u), NEW c \in Conns, LookUp(c)
  PROVE  Moved(m, u)
<1>0. /\ SessionInv /\ DataTypes /\ Once(m, u) /\ Somewhere(m, u) /\ Aimed(m, u)
  BY DEF Before, WorkInv, Carries
<1>1. UNCHANGED <<inbox, offline, bus, obs, payload, near, pc>> /\ pc[c] = "send" /\ aim[c] = {}
  BY DEF LookUp, net, db, redis
<1>2. PICK v \in todo[c] :
         /\ todo' = [todo EXCEPT ![c] = todo[c] \ {v}]
         /\ \/ state[v] = "online" /\ far' = [far EXCEPT ![c] = far[c] \cup {v}] /\ aim' = aim
            \/ aim' = [aim EXCEPT ![c] = {v}] /\ far' = far
  BY DEF LookUp
<1>3. /\ \A e \in Conns : e # c => todo'[e] = todo[e] /\ far'[e] = far[e] /\ aim'[e] = aim[e]
      /\ todo'[c] = todo[c] \ {v}
      /\ \/ state[v] = "online" /\ far'[c] = far[c] \cup {v} /\ aim'[c] = {}
         \/ aim'[c] = {v} /\ far'[c] = far[c]
  BY <1>0, <1>1, <1>2 DEF DataTypes
<1>4. \A s \in Servers, t \in Kinds : InRedis(s, m, u, t)' <=> InRedis(s, m, u, t)
  BY <1>1 DEF InRedis, Addressed
<1>5. Stored(m, u)' <=> Stored(m, u)
  BY <1>1 DEF Stored, Removing, ConnsOf
<1>6. Once(m, u)'
  BY <1>0, <1>1 DEF Once, ConnsOf, Addressed
<1>7. RedisAimed(m, u)
  BY <1>1, RedisShrink
<1>8. CASE payload[c] = m /\ v = u
  <2>1. In(m, u, "todo", c)
    BY <1>8 DEF InHand, In
  <2>2. Steady(u)
    BY <2>1, UnderwaySteady
  <2>3. Somewhere(m, u)'
    <3>1. CASE far'[c] = far[c] \cup {v} /\ aim'[c] = {}
      <4>1. In(m, u, "far", c)'
        BY <1>1, <1>8, <3>1 DEF In, InHand
      <4>2. \A e \in Conns, l \in Kinds : InHand(e, m, u, l)' =>
               (l = "far" /\ e = c) \/ (InHand(e, m, u, l) /\ ~(l = "todo" /\ e = c))
        BY <1>1, <1>3, <1>8, <3>1 DEF InHand
      <4> QED  BY <1>0, <1>1, <1>4, <1>5, <2>1, <4>1, <4>2, MovesBy DEF InRedis
    <3>2. CASE far'[c] = far[c] /\ aim'[c] = {v}
      <4>1. In(m, u, "aim", c)'
        BY <1>1, <1>8, <3>2 DEF In, InHand
      <4>2. \A e \in Conns, l \in Kinds : InHand(e, m, u, l)' =>
               (l = "aim" /\ e = c) \/ (InHand(e, m, u, l) /\ ~(l = "todo" /\ e = c))
        BY <1>1, <1>3, <1>8, <3>2 DEF InHand
      <4> QED  BY <1>0, <1>1, <1>4, <1>5, <2>1, <4>1, <4>2, MovesBy DEF InRedis
    <3> QED  BY <1>3, <3>1, <3>2
  <2>4. HandsAimed(m, u)
    <3>1. \A e \in Conns : \A d \in near[e] : payload[e] = m /\ UserOf[d] = u => userConnMap[ServerOf[e]][u] = d
      BY <1>0 DEF Aimed
    <3>2. \A e \in Conns : payload[e] = m /\ u \in far'[e] => state[u] = "online"
      BY <1>0, <1>3, <1>8 DEF Aimed
    <3> QED  BY <1>1, <2>2, <3>1, <3>2 DEF HandsAimed
  <2> QED  BY <1>6, <1>7, <2>3, <2>4 DEF Moved
<1>9. CASE ~(payload[c] = m /\ v = u)
  <2>1. \A e \in Conns, t \in Kinds : InHand(e, m, u, t)' <=> InHand(e, m, u, t)
    BY <1>1, <1>3, <1>9 DEF InHand
  <2>2. Somewhere(m, u)'
    BY <1>0, <1>1, <1>4, <1>5, <2>1, Stays
  <2>3. HandsAimed(m, u)
    BY <1>1, <1>3, <1>9, HandsShrink
  <2> QED  BY <1>6, <1>7, <2>2, <2>3 DEF Moved
<1> QED  BY <1>8, <1>9
(* An addressee found offline: the message is stored, ... *)
LEMMA StoreMoved ==
  ASSUME NEW m \in Msgs, NEW u \in Users, Before(m, u), NEW c \in Conns, StoreOffline(c), offline' # offline
  PROVE  Moved(m, u)
<1>0. /\ SessionInv /\ DataTypes /\ Holds(c) /\ Once(m, u) /\ Somewhere(m, u)
  BY DEF Before, WorkInv, Carries
<1>1. UNCHANGED <<inbox, bus, obs, payload, near, far, todo, pc>> /\ aim' = [aim EXCEPT ![c] = {}]
  BY DEF StoreOffline, net, redis
<1>2. PICK v \in aim[c] : offline' = [offline EXCEPT ![v] = Append(offline[v], payload[c])]
  BY DEF StoreOffline, Store
<1>3. v \in Users /\ payload[c] \in Msgs /\ \A w \in aim[c] : w = v
  BY <1>0, <1>2 DEF DataTypes, Holds
<1>4. aim'[c] = {} /\ \A e \in Conns : e # c => aim'[e] = aim[e]
  BY <1>0, <1>1 DEF DataTypes
<1>5. offline[u] \in Seq(Msgs) /\ offline'[u] = IF v = u THEN Append(offline[u], payload[c]) ELSE offline[u]
  BY <1>0, <1>2 DEF DataTypes
<1>6. \A s \in Servers, t \in Kinds : InRedis(s, m, u, t)' <=> InRedis(s, m, u, t)
  BY <1>1 DEF InRedis, Addressed
<1>7. Removing(u)' <=> Removing(u)
  BY <1>1 DEF Removing, ConnsOf
<1>8. HandsAimed(m, u)
  BY <1>1, HandsShrink
<1>9. RedisAimed(m, u)
  BY <1>1, RedisShrink
<1>10. ASSUME AtMostOnce(offline'[u], m) PROVE Once(m, u)'
  BY <1>0, <1>1, <1>10 DEF Once, ConnsOf, Addressed
<1>11. CASE payload[c] = m /\ v = u
  <2>1. In(m, u, "aim", c)
    BY <1>11 DEF InHand, In
  <2>2. ~Removing(u)
    BY <2>1, UnderwaySteady
  <2>3. ~Has(offline[u], m)
    <3>1. Has(offline[u], m) => In(m, u, "offline", u)
      BY <2>2 DEF In, Stored
    <3> QED  BY <1>0, <2>1, <3>1, OnePlace
  <2>4. Has(offline'[u], m) /\ AtMostOnce(offline'[u], m)
    BY <1>0, <1>5, <1>11, <2>3, HasAppend, OnceAppend DEF Once
  <2>5. In(m, u, "offline", u)'
    BY <1>7, <2>2, <2>4 DEF In, Stored
  <2>6. \A e \in Conns, l \in Kinds : InHand(e, m, u, l)' => InHand(e, m, u, l) /\ ~(l = "aim" /\ e = c)
    BY <1>1, <1>4 DEF InHand
  <2>7. Somewhere(m, u)'
    BY <1>0, <1>1, <1>6, <2>1, <2>5, <2>6, MovesBy DEF InRedis
  <2> QED  BY <1>8, <1>9, <1>10, <2>4, <2>7 DEF Moved
<1>12. CASE ~(payload[c] = m /\ v = u)
  <2>1. \A e \in Conns, t \in Kinds : InHand(e, m, u, t)' <=> InHand(e, m, u, t)
    BY <1>1, <1>3, <1>4, <1>12 DEF InHand
  <2>2. (Has(offline'[u], m) <=> Has(offline[u], m)) /\ AtMostOnce(offline'[u], m)
    <3>1. CASE v = u
      <4>1. payload[c] # m
        BY <1>12, <3>1
      <4> QED  BY <1>0, <1>3, <1>5, <3>1, <4>1, HasAppend, OnceAppend DEF Once
    <3>2. CASE v # u
      BY <1>0, <1>5, <3>2 DEF Once
    <3> QED  BY <3>1, <3>2
  <2>3. Somewhere(m, u)'
    BY <1>0, <1>1, <1>6, <1>7, <2>1, <2>2, Stays DEF Stored
  <2> QED  BY <1>8, <1>9, <1>10, <2>2, <2>3 DEF Moved
<1> QED  BY <1>11, <1>12

(* ... or another one is lost *)
LEMMA StoreFailedMoved ==
  ASSUME NEW m \in Msgs, NEW u \in Users, Before(m, u), NEW c \in Conns, StoreOffline(c), offline' = offline,
         ~Unstored(m, u)
  PROVE  Moved(m, u)
<1>0. DataTypes /\ Once(m, u) /\ Somewhere(m, u)
  BY DEF Before, WorkInv, Carries
<1>1. UNCHANGED <<inbox, offline, bus, obs, payload, near, far, todo, pc>> /\ aim' = [aim EXCEPT ![c] = {}]
  BY DEF StoreOffline, net, redis
<1>2. aim'[c] = {} /\ \A e \in Conns : e # c => aim'[e] = aim[e]
  BY <1>0, <1>1 DEF DataTypes
<1>3. ~(payload[c] = m /\ u \in aim[c])
  BY <1>2 DEF Unstored
<1>4. \A e \in Conns, t \in Kinds : InHand(e, m, u, t)' <=> InHand(e, m, u, t)
  BY <1>1, <1>2, <1>3 DEF InHand
<1>5. \A s \in Servers, t \in Kinds : InRedis(s, m, u, t)' <=> InRedis(s, m, u, t)
  BY <1>1 DEF InRedis, Addressed
<1>6. Somewhere(m, u)'
  BY <1>0, <1>1, <1>4, <1>5, Stays DEF Stored, Removing, ConnsOf
<1>7. Once(m, u)'
  BY <1>0, <1>1 DEF Once, ConnsOf, Addressed
<1>8. HandsAimed(m, u) /\ RedisAimed(m, u)
  BY <1>1, HandsShrink, RedisShrink
<1> QED  BY <1>6, <1>7, <1>8 DEF Moved

(* The addressee found online is published to: one server is subscribed *)
LEMMA PublishMoved ==
  ASSUME NEW m \in Msgs, NEW u \in Users, Before(m, u), NEW c \in Conns, Publish(c)
  PROVE  Moved(m, u)
<1>0. /\ SessionInv /\ RedisTypes /\ DataTypes /\ Holds(c) /\ Once(m, u) /\ Somewhere(m, u) /\ Aimed(m, u)
      /\ Ways(u) /\ Recorded(u)
  BY DEF Before, WorkInv, Carries
<1> DEFINE E == [to : Users, what : Payloads]
<1>1. UNCHANGED <<inbox, offline, obs, payload, near, todo, aim, pc>> /\ pc[c] = "send"
  BY DEF Publish, net, db
<1>2. PICK v \in far[c] :
        /\ bus' = [s \in Servers |-> IF v \in subs[s] THEN Append(bus[s], [to |-> v, what |-> payload[c]])
                                                      ELSE bus[s]]
        /\ far' = [far EXCEPT ![c] = far[c] \ {v}]
  BY DEF Publish
<1> DEFINE x == [to |-> v, what |-> payload[c]]
<1>3. x \in E /\ (x = Addressed(m, u) <=> payload[c] = m /\ v = u)
  BY <1>0, <1>1 DEF Holds, DataTypes, Addressed
<1>4. \A s \in Servers : bus[s] \in Seq(E) /\ bus'[s] = IF v \in subs[s] THEN Append(bus[s], x) ELSE bus[s]
  BY <1>0, <1>2 DEF DataTypes
<1>5. far'[c] = far[c] \ {v} /\ \A e \in Conns : e # c => far'[e] = far[e]
  BY <1>0, <1>2 DEF DataTypes
<1> HIDE DEF x, E
<1>6. \A s \in Servers : Has(bus'[s], Addressed(m, u)) <=>
          Has(bus[s], Addressed(m, u)) \/ (v \in subs[s] /\ payload[c] = m /\ v = u)
  <2>1. ASSUME NEW s \in Servers, v \in subs[s]
        PROVE  Has(Append(bus[s], x), Addressed(m, u)) <=> Has(bus[s], Addressed(m, u)) \/ (payload[c] = m /\ v = u)
    BY <1>3, <1>4, HasAppend
  <2> QED  BY <1>4, <2>1
<1>7. ASSUME \A s \in Servers : v \in subs[s] /\ payload[c] = m /\ v = u => ~Has(bus[s], Addressed(m, u))
      PROVE  Once(m, u)'
  <2>1. ASSUME NEW s \in Servers PROVE AtMostOnce(bus'[s], Addressed(m, u))
    <3>1. AtMostOnce(bus[s], Addressed(m, u))
      BY <1>0 DEF Once
    <3>2. v \in subs[s] => AtMostOnce(Append(bus[s], x), Addressed(m, u))
      BY <1>3, <1>4, <1>7, <3>1, OnceAppend
    <3> QED  BY <1>4, <3>1, <3>2
  <2> QED  BY <1>0, <1>1, <2>1 DEF Once, ConnsOf, Addressed
<1>8. Stored(m, u)' <=> Stored(m, u)
  BY <1>1 DEF Stored, Removing, ConnsOf
<1>9. HandsAimed(m, u)
  BY <1>1, <1>5, HandsShrink
<1>10. RedisAimed(m, u)
  BY <1>1, RedisShrink
<1>11. CASE payload[c] = m /\ v = u
  <2>1. In(m, u, "far", c)
    BY <1>11 DEF InHand, In
  <2>2. Settled(u) /\ state[u] = "online"
    BY <1>0, <1>11, <2>1, UnderwaySteady DEF Steady, Aimed
  <2>3. Homes(u) # {} /\ {s \in Servers : u \in subs[s]} = Homes(u)
    BY <1>0, <2>2, Agreed
  <2>4. PICK h \in Homes(u) : TRUE
    BY <2>3
  <2>5. h \in Servers /\ \A s \in Servers : u \in subs[s] <=> s = h
    BY <1>0, <2>3, <2>4, OneHome DEF Ways
  <2>6. In(m, u, "bus", h)'
    <3>1. Has(bus'[h], Addressed(m, u))
      BY <1>6, <1>11, <2>5
    <3> QED  BY <2>5, <3>1 DEF In, InRedis, Addressed
  <2>7. \A e \in Conns, l \in Kinds : InHand(e, m, u, l)' => InHand(e, m, u, l) /\ ~(l = "far" /\ e = c)
    BY <1>1, <1>5, <1>11 DEF InHand
  <2>8. \A e \in Servers, l \in Kinds : InRedis(e, m, u, l)' =>
            (l = "bus" /\ e = h) \/ (InRedis(e, m, u, l) /\ l # "far")
    BY <1>1, <1>6, <2>5 DEF InRedis, Addressed
  <2>9. Somewhere(m, u)'
    BY <1>0, <1>1, <1>8, <2>1, <2>6, <2>7, <2>8, MovesBy
  <2>10. \A s \in Servers : ~Has(bus[s], Addressed(m, u))
    <3>1. ASSUME NEW s \in Servers, Has(bus[s], Addressed(m, u)) PROVE FALSE
      <4>1. In(m, u, "bus", s)
        BY <3>1 DEF In, InRedis
      <4> QED  BY <1>0, <2>1, <4>1, OnePlace
    <3> QED  BY <3>1
  <2>11. Once(m, u)'
    BY <1>7, <2>10
  <2> QED  BY <1>9, <1>10, <2>9, <2>11 DEF Moved
<1>12. CASE ~(payload[c] = m /\ v = u)
  <2>1. \A e \in Conns, t \in Kinds : InHand(e, m, u, t)' <=> InHand(e, m, u, t)
    BY <1>1, <1>5, <1>12 DEF InHand
  <2>2. \A s \in Servers, t \in Kinds : InRedis(s, m, u, t)' <=> InRedis(s, m, u, t)
    BY <1>1, <1>6, <1>12 DEF InRedis, Addressed
  <2>3. Somewhere(m, u)'
    BY <1>0, <1>1, <1>8, <2>1, <2>2, Stays
  <2>4. Once(m, u)'
    BY <1>7, <1>12
  <2> QED  BY <1>9, <1>10, <2>3, <2>4 DEF Moved
<1> QED  BY <1>11, <1>12

(* The observer takes a payload and looks the addressee up *)
LEMMA ObserverLookUpMoved ==
  ASSUME NEW m \in Msgs, NEW u \in Users, Before(m, u), NEW s \in Servers, ObserverLookUp(s)
  PROVE  Moved(m, u)
<1>0. /\ SessionInv /\ DataTypes /\ Once(m, u) /\ Somewhere(m, u)
  BY DEF Before, WorkInv, Carries
<1> DEFINE E == [to : Users, what : Payloads]
           e == Head(bus[s])
           j == [to |-> e.to, what |-> e.what, conn |-> userConnMap[s][e.to]]
<1>1. /\ UNCHANGED <<inbox, offline, payload, near, far, todo, aim, pc>>
      /\ obs[s] = NoJob /\ obs' = [obs EXCEPT ![s] = j]
      /\ bus[s] \in Seq(E) /\ bus[s] # <<>> /\ bus' = [bus EXCEPT ![s] = Tail(bus[s])]
  BY <1>0 DEF ObserverLookUp, net, db, locals, routing, DataTypes
<1>2. e \in E
  <2> HIDE DEF E
  <2> QED  BY <1>1
<1>3. j # NoJob /\ (j.to = u /\ j.what = m <=> e = Addressed(m, u)) /\ (j.to = u => j.conn = userConnMap[s][u])
  <2>1. userConnMap[s][e.to] \in Conns \cup {NoConn}
    BY <1>0, <1>2 DEF SessionInv, CoreTypes
  <2>2. j \in Jobs
    BY <1>2, <2>1 DEF Jobs
  <2>3. e = [to |-> e.to, what |-> e.what]
    BY <1>2
  <2> QED  BY <2>2, <2>3, MessageAssumption DEF Addressed
<1>4. obs'[s] = j /\ bus'[s] = Tail(bus[s]) /\ \A r \in Servers : r # s => obs'[r] = obs[r] /\ bus'[r] = bus[r]
  BY <1>0, <1>1 DEF DataTypes
<1> HIDE DEF e, j, E
<1>5. /\ Has(bus[s], Addressed(m, u)) <=> e = Addressed(m, u) \/ Has(Tail(bus[s]), Addressed(m, u))
      /\ AtMostOnce(Tail(bus[s]), Addressed(m, u))
      /\ e = Addressed(m, u) => ~Has(Tail(bus[s]), Addressed(m, u))
  BY <1>0, <1>1, HasTail, OnceTail DEF Once, e
<1>6. Once(m, u)'
  <2>1. \A r \in Servers : AtMostOnce(bus'[r], Addressed(m, u))
    BY <1>0, <1>4, <1>5 DEF Once
  <2> QED  BY <1>0, <1>1, <2>1 DEF Once, ConnsOf, Addressed
<1>7. Stored(m, u)' <=> Stored(m, u)
  BY <1>1 DEF Stored, Removing, ConnsOf
<1>8. \A d \in Conns, t \in Kinds : InHand(d, m, u, t)' <=> InHand(d, m, u, t)
  BY <1>1 DEF InHand
<1>9. HandsAimed(m, u)
  BY <1>1, HandsShrink
<1>10. CASE e = Addressed(m, u)
  <2>1. In(m, u, "bus", s)
    BY <1>5, <1>10 DEF In, InRedis
  <2>2. In(m, u, "obs", s)'
    BY <1>3, <1>4, <1>10 DEF In, InRedis
  <2>3. \A r \in Servers, l \in Kinds : InRedis(r, m, u, l)' =>
            (l = "obs" /\ r = s) \/ (InRedis(r, m, u, l) /\ ~(l = "bus" /\ r = s))
    BY <1>4, <1>5, <1>10 DEF InRedis, Addressed
  <2>4. Somewhere(m, u)'
    BY <1>0, <1>1, <1>7, <1>8, <2>1, <2>2, <2>3, MovesBy DEF InHand
  <2>5. RedisAimed(m, u)
    <3>1. Steady(u)
      BY <2>1, UnderwaySteady
    <3>2. Aimed(m, u)
      BY DEF Before, Carries
    <3> QED  BY <1>3, <1>4, <1>10, <3>1, <3>2 DEF RedisAimed, Aimed
  <2> QED  BY <1>6, <1>9, <2>4, <2>5 DEF Moved
<1>11. CASE e # Addressed(m, u)
  <2>1. \A r \in Servers, t \in Kinds : InRedis(r, m, u, t)' <=> InRedis(r, m, u, t)
    BY <1>1, <1>3, <1>4, <1>5, <1>11 DEF InRedis, Addressed
  <2>2. Somewhere(m, u)'
    BY <1>0, <1>1, <1>7, <1>8, <2>1, Stays
  <2>3. RedisAimed(m, u)
    BY <1>3, <1>4, <1>11, RedisShrink
  <2> QED  BY <1>6, <1>9, <2>2, <2>3 DEF Moved
<1> QED  BY <1>10, <1>11
(* The observer sends it on, or stores it *)
LEMMA ObserverForwardMoved ==
  ASSUME NEW m \in Msgs, NEW u \in Users, Before(m, u), NEW s \in Servers, ObserverForward(s), ~Unstored(m, u)
  PROVE  Moved(m, u)
<1> DEFINE job == obs[s]
<1>0. /\ SessionInv /\ DataTypes /\ Once(m, u) /\ Somewhere(m, u) /\ Aimed(m, u) /\ Found(s)
      /\ (\A d \in Conns : Holds(d))
  BY DEF Before, WorkInv, Carries
<1>1. /\ UNCHANGED <<bus, payload, near, far, todo, aim, pc>>
      /\ job # NoJob /\ obs' = [obs EXCEPT ![s] = NoJob]
      /\ \/ job.conn # NoConn /\ Deliver(job.conn, job.what) /\ UNCHANGED offline
         \/ job.conn = NoConn /\ job.what \notin Msgs /\ UNCHANGED <<inbox, offline>>
         \/ job.conn = NoConn /\ job.what \in Msgs /\ UNCHANGED inbox
            /\ \/ offline' = [offline EXCEPT ![job.to] = Append(offline[job.to], job.what)]
               \/ UNCHANGED offline
  BY DEF ObserverForward, Store, locals, routing
<1>2. job.to \in Users /\ job.what \in Payloads /\ (job.conn # NoConn => job.conn \in Conns /\ UserOf[job.conn] = job.to)
  BY <1>0, <1>1 DEF DataTypes, Jobs, Found
<1>3. obs'[s] = NoJob /\ \A r \in Servers : r # s => obs'[r] = obs[r]
  BY <1>0, <1>1 DEF DataTypes
<1>4. \A d \in Conns, t \in Kinds : InHand(d, m, u, t)' <=> InHand(d, m, u, t)
  BY <1>1 DEF InHand
<1>5. \A r \in Servers, l \in Kinds : InRedis(r, m, u, l)' =>
          InRedis(r, m, u, l) /\ ~(l = "obs" /\ r = s)
  BY <1>1, <1>3 DEF InRedis, Addressed
<1>6. HandsAimed(m, u)
  BY <1>1, HandsShrink
<1>7. RedisAimed(m, u)
  BY <1>3, RedisShrink
<1>8. Removing(u)' <=> Removing(u)
  BY <1>1 DEF Removing, ConnsOf
<1>9. ASSUME AtMostOnce(offline'[u], m), \A d \in ConnsOf(u) : AtMostOnce(inbox'[d], m)
      PROVE  Once(m, u)'
  BY <1>0, <1>1, <1>9 DEF Once, ConnsOf, Addressed
<1>10. AtMostOnce(offline[u], m) /\ \A d \in ConnsOf(u) : d \in Conns /\ AtMostOnce(inbox[d], m)
  BY <1>0 DEF Once, ConnsOf
<1>11. CASE job.to = u /\ job.what = m
  <2>1. In(m, u, "obs", s)
    BY <1>1, <1>11 DEF In, InRedis
  <2>2. Steady(u) /\ ~Removing(u) /\ job.conn = userConnMap[s][u]
    BY <1>0, <1>1, <1>11, <2>1, UnderwaySteady DEF Aimed
  <2>3. CASE job.conn # NoConn
    <3>0. PICK d \in Conns : d = job.conn
      BY <1>2, <2>3
    <3>1. Shows(d) /\ d \in ConnsOf(u)
      BY <1>0, <2>2, <2>3, <3>0, SteadyShows
    <3>2. Deliver(d, job.what) /\ UNCHANGED offline
      BY <1>1, <2>3, <3>0
    <3> HIDE DEF job
    <3>3. \A f \in Conns : Has(inbox'[f], m) <=> Has(inbox[f], m) \/ f = d
      BY <1>0, <1>2, <1>11, <3>1, <3>2, DeliverHas
    <3>4. In(m, u, "inbox", d)'
      BY <3>1, <3>3 DEF In, ConnsOf
    <3>5. \A f \in ConnsOf(u) : Has(inbox'[f], m) => f = d \/ Has(inbox[f], m)
      BY <3>3 DEF ConnsOf
    <3>6. Stored(m, u)' <=> Stored(m, u)
      BY <1>8, <3>2 DEF Stored
    <3>7. Somewhere(m, u)'
      BY <1>0, <1>4, <1>5, <2>1, <3>4, <3>5, <3>6, MovesBy DEF InHand
    <3>8. ~Has(inbox[d], m)
      <4>1. Has(inbox[d], m) => In(m, u, "inbox", d)
        BY <3>1 DEF In
      <4> QED  BY <1>0, <2>1, <4>1, OnePlace
    <3>9. \A f \in ConnsOf(u) : AtMostOnce(inbox'[f], m)
      BY <1>0, <1>2, <1>10, <3>1, <3>2, <3>8, DeliverOnce
    <3>10. Once(m, u)'
      BY <1>9, <1>10, <3>2, <3>9
    <3> QED  BY <1>6, <1>7, <3>7, <3>10 DEF Moved
  <2>4. CASE job.conn = NoConn
    <3>0. offline' # offline
      <4>1. job \in Jobs
        BY <1>0, <1>1 DEF DataTypes
      <4>2. job = [to |-> u, what |-> m, conn |-> NoConn]
        BY <1>11, <2>4, <4>1 DEF Jobs
      <4> QED  BY <1>3, <4>2 DEF Unstored
    <3>1. UNCHANGED inbox /\ offline' = [offline EXCEPT ![u] = Append(offline[u], m)]
      BY <1>1, <1>11, <2>4, <3>0
    <3>2. offline[u] \in Seq(Msgs) /\ offline'[u] = Append(offline[u], m)
      BY <1>0, <3>1 DEF DataTypes
    <3>3. ~Has(offline[u], m)
      <4>1. Has(offline[u], m) => In(m, u, "offline", u)
        BY <2>2 DEF In, Stored
      <4> QED  BY <1>0, <2>1, <4>1, OnePlace
    <3>4. Has(offline'[u], m) /\ AtMostOnce(offline'[u], m)
      BY <1>10, <3>2, <3>3, HasAppend, OnceAppend
    <3>5. In(m, u, "offline", u)'
      BY <1>8, <2>2, <3>4 DEF In, Stored
    <3>6. Somewhere(m, u)'
      BY <1>0, <1>4, <1>5, <2>1, <3>1, <3>5, MovesBy DEF InHand
    <3>7. Once(m, u)'
      BY <1>9, <1>10, <3>1, <3>4
    <3> QED  BY <1>6, <1>7, <3>6, <3>7 DEF Moved
  <2> QED  BY <2>3, <2>4
<1>12. CASE ~(job.to = u /\ job.what = m)
  <2>1. \A r \in Servers, l \in Kinds : InRedis(r, m, u, l)' <=> InRedis(r, m, u, l)
    BY <1>1, <1>3, <1>12 DEF InRedis, Addressed
  <2>2. \A d \in ConnsOf(u) : (Has(inbox'[d], m) <=> Has(inbox[d], m)) /\ AtMostOnce(inbox'[d], m)
    <3>1. CASE job.conn # NoConn /\ Deliver(job.conn, job.what)
      <4>1. ASSUME NEW d \in ConnsOf(u) PROVE ~(d = job.conn /\ job.what = m)
        BY <1>2, <1>12, <3>1 DEF ConnsOf
      <4> HIDE DEF job
      <4>2. ASSUME NEW d \in ConnsOf(u) PROVE Has(inbox'[d], m) <=> Has(inbox[d], m)
        BY <1>0, <1>2, <1>10, <3>1, <4>1, DeliverHas
      <4>3. ASSUME NEW d \in ConnsOf(u) PROVE AtMostOnce(inbox'[d], m)
        BY <1>0, <1>2, <1>10, <3>1, <4>1, DeliverOnce
      <4> QED  BY <4>2, <4>3
    <3> QED  BY <1>1, <1>10, <3>1
  <2>3. (Has(offline'[u], m) <=> Has(offline[u], m)) /\ AtMostOnce(offline'[u], m)
    <3>1. CASE offline' = offline
      BY <1>10, <3>1
    <3>2. CASE job.what \in Msgs /\ offline' = [offline EXCEPT ![job.to] = Append(offline[job.to], job.what)]
      <4>1. CASE job.to # u
        BY <1>0, <1>10, <3>2, <4>1 DEF DataTypes
      <4>2. CASE job.to = u
        <5>1. offline[u] \in Seq(Msgs) /\ offline'[u] = Append(offline[u], job.what) /\ job.what # m
          BY <1>0, <1>12, <3>2, <4>2 DEF DataTypes
        <5> QED  BY <1>10, <3>2, <5>1, HasAppend, OnceAppend
      <4> QED  BY <4>1, <4>2
    <3> QED  BY <1>1, <3>1, <3>2
  <2>4. Stored(m, u)' <=> Stored(m, u)
    BY <1>8, <2>3 DEF Stored
  <2>5. Somewhere(m, u)'
    BY <1>0, <1>4, <2>1, <2>2, <2>4, Stays
  <2>6. Once(m, u)'
    BY <1>9, <2>2, <2>3
  <2> QED  BY <1>6, <1>7, <2>5, <2>6 DEF Moved
<1> QED  BY <1>11, <1>12

(* The acknowledgement of a login hands the stored messages over *)
LEMMA AckMoved ==
  ASSUME NEW m \in Msgs, NEW u \in Users, Before(m, u), NEW c \in Conns, Ack(c)
  PROVE  Moved(m, u)
<1>0. /\ SessionInv /\ DataTypes /\ Once(m, u) /\ Somewhere(m, u) /\ Fetched(m, u) /\ ~Racing(u)
      /\ ~AckInVain(u)
  BY DEF Before, WorkInv, Carries, Ways, Disturbing
<1>1. /\ UNCHANGED <<offline, bus, obs, payload, near, far, todo, aim>> /\ pc[c] = "ack"
      /\ Goto(c, IF got[c] # <<>> THEN "remove" ELSE "notify")
      /\ (link[c] = "open" /\ inbox' = [inbox EXCEPT ![c] = inbox[c] \o got[c]]) \/ (link[c] # "open" /\ inbox' = inbox)
  BY DEF Ack, db, redis, locals, routing
<1>2. inbox[c] \in Seq(Msgs) /\ got[c] \in Seq(Msgs)
  BY <1>0 DEF DataTypes
<1>3. \A d \in Conns : d # c => inbox'[d] = inbox[d]
  BY <1>0, <1>1 DEF DataTypes
<1>4. \A d \in Conns, t \in Kinds : InHand(d, m, u, t)' <=> InHand(d, m, u, t)
  BY <1>1 DEF InHand
<1>5. \A s \in Servers, t \in Kinds : InRedis(s, m, u, t)' <=> InRedis(s, m, u, t)
  BY <1>1 DEF InRedis, Addressed
<1>6. HandsAimed(m, u)
  BY <1>1, HandsShrink
<1>7. RedisAimed(m, u)
  BY <1>1, RedisShrink
<1>8. ASSUME \A d \in ConnsOf(u) : AtMostOnce(inbox'[d], m)
      PROVE  Once(m, u)'
  BY <1>0, <1>1, <1>8 DEF Once, ConnsOf, Addressed
<1>9. CASE UserOf[c] = u
  <2>1. c \in ConnsOf(u) /\ link[c] = "open" /\ inbox'[c] = inbox[c] \o got[c]
    <3>1. c \in ConnsOf(u)
      BY <1>9 DEF ConnsOf
    <3> QED  BY <1>0, <1>1, <3>1 DEF AckInVain, DataTypes
  <2>0. CASE got[c] = <<>>
    <3>1. inbox' = inbox /\ Goto(c, "notify")
      BY <1>0, <1>1, <1>2, <2>0, <2>1 DEF DataTypes
    <3>2. Removing(u)' <=> Removing(u)
      BY <1>0, <1>1, <3>1, RemovingSame
    <3>3. Somewhere(m, u)'
      BY <1>0, <1>1, <1>4, <1>5, <3>1, <3>2, Stays DEF Stored
    <3>4. Once(m, u)'
      BY <1>0, <1>8, <3>1 DEF Once
    <3> QED  BY <1>6, <1>7, <3>3, <3>4 DEF Moved
  <2> SUFFICES ASSUME got[c] # <<>> PROVE Moved(m, u)
    BY <2>0
  <2>2. AtMostOnce(got[c], m) /\ (Has(got[c], m) <=> Has(offline[u], m))
    BY <1>0, <1>1, <2>1 DEF Fetched
  <2>3. Has(inbox'[c], m) <=> Has(inbox[c], m) \/ Has(offline[u], m)
    BY <1>2, <2>1, <2>2, HasJoin
  <2>4. \A d \in ConnsOf(u) : d # c => pc[d] # "remove" /\ pc'[d] = pc[d]
    <3>1. Contending(c)
      BY <1>1 DEF Contending, LoginLabels
    <3>2. \A d \in Conns : d # c => pc'[d] = pc[d]
      BY <1>0, <1>1, GoesTo
    <3> QED  BY <1>0, <2>1, <3>1, <3>2, Alone DEF LoginLabels, ConnsOf
  <2>5. ~Removing(u)
    BY <1>1, <2>4 DEF Removing
  <2>6. Has(offline[u], m) => Removing(u)'
    <3>1. Has(offline[u], m) => got[c] # <<>>
      BY <2>2 DEF Has
    <3>2. Has(offline[u], m) => pc'[c] = "remove"
      BY <1>0, <1>1, <3>1, GoesTo
    <3> QED  BY <2>1, <3>2 DEF Removing, ConnsOf
  <2>7. ~Stored(m, u)'
    BY <1>1, <2>6 DEF Stored
  <2>8. Has(offline[u], m) => In(m, u, "offline", u)
    BY <2>5 DEF In, Stored
  <2>9. Has(inbox[c], m) => In(m, u, "inbox", c)
    BY <2>1 DEF In
  <2>10. ~(Has(inbox[c], m) /\ Has(offline[u], m))
    BY <1>0, <2>8, <2>9, OnePlace
  <2>11. \A d \in ConnsOf(u) : AtMostOnce(inbox'[d], m)
    <3>1. AtMostOnce(inbox'[c], m)
      BY <1>0, <1>2, <2>1, <2>2, <2>10, OnceJoin DEF Once
    <3> QED  BY <1>0, <1>3, <3>1 DEF Once, ConnsOf
  <2>12. Somewhere(m, u)'
    <3>1. CASE Has(offline[u], m)
      <4>1. In(m, u, "inbox", c)'
        BY <2>1, <2>3, <3>1 DEF In, ConnsOf
      <4>2. \A d \in ConnsOf(u) : Has(inbox'[d], m) => d = c \/ Has(inbox[d], m)
        BY <1>3 DEF ConnsOf
      <4> QED  BY <1>0, <1>4, <1>5, <2>7, <2>8, <3>1, <4>1, <4>2, MovesBy DEF InHand, InRedis
    <3>2. CASE ~Has(offline[u], m)
      <4>1. ~Stored(m, u)
        BY <3>2 DEF Stored
      <4>2. \A d \in ConnsOf(u) : Has(inbox'[d], m) <=> Has(inbox[d], m)
        BY <1>3, <2>3, <3>2 DEF ConnsOf
      <4> QED  BY <1>0, <1>4, <1>5, <2>7, <4>1, <4>2, Stays
    <3> QED  BY <3>1, <3>2
  <2>13. Once(m, u)'
    BY <1>8, <2>11
  <2> QED  BY <1>6, <1>7, <2>12, <2>13 DEF Moved
<1>10. CASE UserOf[c] # u
  <2>1. \A d \in ConnsOf(u) : inbox'[d] = inbox[d]
    BY <1>3, <1>10 DEF ConnsOf
  <2>2. Removing(u)' <=> Removing(u)
    BY <1>0, <1>1, <1>10, RemovingSame
  <2>3. Somewhere(m, u)'
    BY <1>0, <1>1, <1>4, <1>5, <2>1, <2>2, Stays DEF Stored
  <2>4. Once(m, u)'
    BY <1>0, <1>8, <2>1 DEF Once
  <2> QED  BY <1>6, <1>7, <2>3, <2>4 DEF Moved
<1> QED  BY <1>9, <1>10

(* ... and then removes them *)
LEMMA RemoveMoved ==
  ASSUME NEW m \in Msgs, NEW u \in Users, Before(m, u), NEW c \in Conns, RemoveOffline(c), ~Unremoved(m, u)
  PROVE  Moved(m, u)
<1>0. /\ SessionInv /\ DataTypes /\ Once(m, u) /\ Somewhere(m, u) /\ Fetched(m, u)
  BY DEF Before, WorkInv, Carries
<1>1. /\ UNCHANGED <<inbox, bus, obs, payload, near, far, todo, aim>> /\ pc[c] = "remove"
      /\ offline' = offline \/ offline' = [offline EXCEPT ![UserOf[c]] = <<>>]
      /\ Goto(c, "notify")
  BY DEF RemoveOffline, net, redis, locals, routing
<1>2. \A d \in Conns, t \in Kinds : InHand(d, m, u, t)' <=> InHand(d, m, u, t)
  BY <1>1 DEF InHand
<1>3. \A s \in Servers, t \in Kinds : InRedis(s, m, u, t)' <=> InRedis(s, m, u, t)
  BY <1>1 DEF InRedis, Addressed
<1>4. HandsAimed(m, u)
  BY <1>1, HandsShrink
<1>5. RedisAimed(m, u)
  BY <1>1, RedisShrink
<1>6. (Stored(m, u)' <=> Stored(m, u)) /\ AtMostOnce(offline'[u], m)
  <2>1. CASE UserOf[c] = u
    <3>1. Removing(u)
      BY <1>1, <2>1 DEF Removing, ConnsOf
    <3>2. CASE offline' = offline
      <4>1. c \in ConnsOf(u) /\ pc'[c] = "notify"
        BY <1>0, <1>1, <2>1, GoesTo DEF ConnsOf
      <4>2. ~Has(got[c], m)
        BY <1>1, <3>2, <4>1 DEF Unremoved, Has
      <4>3. ~Has(offline[u], m)
        BY <1>0, <1>1, <4>1, <4>2 DEF Fetched
      <4> QED  BY <1>0, <3>2, <4>3 DEF Stored, Once
    <3>3. CASE offline' = [offline EXCEPT ![u] = <<>>]
      <4>1. offline'[u] = <<>>
        BY <1>0, <3>3 DEF DataTypes
      <4> QED  BY <3>1, <4>1 DEF Stored, Has, AtMostOnce
    <3> QED  BY <1>1, <2>1, <3>2, <3>3
  <2>2. CASE UserOf[c] # u
    <3>1. Removing(u)' <=> Removing(u)
      BY <1>0, <1>1, <2>2, RemovingSame
    <3> QED  BY <1>0, <1>1, <2>2, <3>1 DEF Stored, DataTypes, Once
  <2> QED  BY <2>1, <2>2
<1>7. Somewhere(m, u)'
  BY <1>0, <1>1, <1>2, <1>3, <1>6, Stays
<1>8. Once(m, u)'
  BY <1>0, <1>1, <1>6 DEF Once, ConnsOf, Addressed
<1> QED  BY <1>4, <1>5, <1>7, <1>8 DEF Moved
(* Every step leaves a message that was sent before in one place *)
LEMMA NextMoved ==
  ASSUME NEW m \in Msgs, NEW u \in Users, Before(m, u), m \in sent, Next, ~Failing(m, u)
  PROVE  Moved(m, u)
<1>1. ~Unstored(m, u) /\ ~Unremoved(m, u)
  BY DEF Failing
<1> QED  BY <1>1, StepCases, SessionMoved, NotifyMoved, ChatMoved, SendNearMoved, LookUpMoved, StoreMoved,
            StoreFailedMoved, PublishMoved, ObserverLookUpMoved, ObserverForwardMoved, AckMoved, RemoveMoved

(* While a login of u works with the rows of u, none is added or removed *)
LEMMA RowsSame ==
  ASSUME NEW m \in Msgs, NEW u \in Users, Before(m, u), Next,
         NEW c \in ConnsOf(u), pc[c] \in {"friends", "ack", "remove"}, ~RemoveOffline(c)
  PROVE  Has(offline'[u], m) <=> Has(offline[u], m)
<1>0. DataTypes /\ (\A d \in Conns : Holds(d)) /\ ~Racing(u)
  BY DEF Before, WorkInv, Ways
<1>1. Contending(c)
  BY DEF Contending, LoginLabels
<1>2. ~Steady(u)
  BY <1>1 DEF Steady, Settled
<1>3. ASSUME NEW d \in Conns, StoreOffline(d) PROVE Has(offline'[u], m) <=> Has(offline[u], m)
  <2>1. PICK v \in aim[d] :
          offline' = offline \/ offline' = [offline EXCEPT ![v] = Append(offline[v], payload[d])]
    BY <1>3 DEF StoreOffline, Store
  <2>2. payload[d] \in Msgs /\ offline[u] \in Seq(Msgs)
    BY <1>0 DEF Holds, DataTypes
  <2>3. ~(payload[d] = m /\ v = u)
    <3>1. payload[d] = m /\ v = u => In(m, u, "aim", d)
      BY DEF In, InHand
    <3> QED  BY <1>2, <3>1, UnderwaySteady
  <2>4. Has(Append(offline[u], payload[d]), m) <=> Has(offline[u], m) \/ payload[d] = m
    BY <2>2, HasAppend
  <2> QED  BY <1>0, <2>1, <2>3, <2>4 DEF DataTypes
<1>4. ASSUME NEW s \in Servers, ObserverForward(s) PROVE Has(offline'[u], m) <=> Has(offline[u], m)
  <2>1. CASE offline' = offline
    BY <2>1
  <2>2. CASE obs[s].what \in Msgs /\ offline' = [offline EXCEPT ![obs[s].to] = Append(offline[obs[s].to], obs[s].what)]
    <3>1. offline[u] \in Seq(Msgs)
      BY <1>0 DEF DataTypes
    <3>2. ~(obs[s].what = m /\ obs[s].to = u)
      <4>1. obs[s].what = m /\ obs[s].to = u => In(m, u, "obs", s)
        BY <1>4 DEF In, InRedis, ObserverForward
      <4> QED  BY <1>2, <4>1, UnderwaySteady
    <3>3. Has(Append(offline[u], obs[s].what), m) <=> Has(offline[u], m) \/ obs[s].what = m
      BY <2>2, <3>1, HasAppend
    <3> QED  BY <1>0, <2>2, <3>2, <3>3 DEF DataTypes
  <2> QED  BY <1>4, <2>1, <2>2 DEF ObserverForward, Store
<1>5. ASSUME NEW d \in Conns, RemoveOffline(d) PROVE Has(offline'[u], m) <=> Has(offline[u], m)
  <2>1. UserOf[d] # u
    <3>1. ASSUME UserOf[d] = u PROVE FALSE
      <4>1. d \in ConnsOf(u) /\ pc[d] = "remove" /\ d # c
        BY <1>5, <3>1 DEF ConnsOf, RemoveOffline
      <4> QED  BY <1>0, <1>1, <4>1, Alone DEF LoginLabels
    <3> QED  BY <3>1
  <2> QED  BY <1>0, <1>5, <2>1 DEF RemoveOffline, DataTypes
<1>6. CASE \E d \in Conns : SessionStep(d)
  BY <1>6, SessionCarries DEF carried
<1> QED  BY <1>3, <1>4, <1>5, <1>6, StepCases DEF FetchOffline, QueryFriends, Ack, NotifyFriendState, SendNear,
            LookUp, Publish, Return, OneChat, GroupChat, RedisSubscription, ObserverLookUp, db

(* What a login has fetched stays what is stored *)
LEMMA FetchedNext ==
  ASSUME NEW m \in Msgs, NEW u \in Users, Before(m, u), Next
  PROVE  Fetched(m, u)'
<1>0. SessionInv /\ DataTypes /\ Fetched(m, u) /\ Once(m, u)
  BY DEF Before, WorkInv, Carries
<1>1. ASSUME NEW c \in ConnsOf(u), pc'[c] \in {"friends", "ack", "remove"}
      PROVE  /\ got'[c] # <<>> => AtMostOnce(got'[c], m) /\ (Has(got'[c], m) <=> Has(offline'[u], m))
             /\ pc'[c] = "remove" => got'[c] # <<>>
  <2>0. c \in Conns /\ UserOf[c] = u
    BY DEF ConnsOf
  <2>1. CASE FetchOffline(c)
    <3>1. (got'[c] = offline[u] \/ got'[c] = <<>>) /\ offline' = offline
      BY <1>0, <2>0, <2>1 DEF FetchOffline, db, DataTypes
    <3>2. pc'[c] = "friends"
      BY <1>0, <2>0, <2>1, GoesTo DEF FetchOffline
    <3> QED  BY <1>0, <3>1, <3>2 DEF Once
  <2>2. CASE ~FetchOffline(c)
    <3>0. ~RemoveOffline(c)
      <4>1. RemoveOffline(c) => pc'[c] = "notify"
        BY <1>0, <2>0, GoesTo DEF RemoveOffline
      <4> QED  BY <1>1, <4>1
    <3>1. /\ pc[c] \in {"friends", "ack", "remove"} /\ got'[c] = got[c]
          /\ pc'[c] = "remove" /\ pc[c] # "remove" => got[c] # <<>>
      <4>1. ASSUME NEW d \in Conns, d # c, HandlerStep(d) \/ ClientStep(d) PROVE pc'[c] = pc[c] /\ got'[c] = got[c]
        BY <1>0, <2>0, <4>1, HandlerElsewhere, ClientElsewhere DEF Elsewhere
      <4>2. CASE HandlerStep(c) \/ ClientStep(c)
        <5>1. CASE QueryFriends(c)
          BY <1>0, <2>0, <5>1, GoesTo DEF QueryFriends
        <5>2. CASE \E n \in Msgs : OneChat(c, n) \/ GroupChat(c, n)
          BY <1>0, <1>1, <2>0, <5>2, GoesTo DEF OneChat, GroupChat, Send
        <5>3. CASE Ack(c)
          BY <1>0, <1>1, <2>0, <5>3, GoesTo DEF Ack, locals
        <5>7. CASE RemoveOffline(c) \/ NotifyFriendState(c) \/ Return(c)
          <6>1. Goto(c, "notify") \/ Goto(c, "send") \/ Goto(c, "idle")
            BY <5>7 DEF RemoveOffline, NotifyFriendState, Return
          <6> QED  BY <1>0, <1>1, <2>0, <6>1, GoesTo
        <5>4. CASE SendNear(c) \/ LookUp(c) \/ StoreOffline(c) \/ Publish(c)
          BY <1>1, <5>4 DEF SendNear, LookUp, StoreOffline, Publish
        <5>5. CASE Relogin(c) \/ Register(c) \/ Subscribe(c) \/ SetOnline(c) \/ CloseErase(c) \/ Unsubscribe(c)
                   \/ Untrack(c) \/ SetOffline(c) \/ Login(c) \/ Logout(c) \/ PeerClose(c)
          <6>1. \E l : Goto(c, l) /\ l \notin {"friends", "ack", "remove"}
            BY <5>5 DEF Relogin, Register, Subscribe, SetOnline, CloseErase, Unsubscribe, Untrack, SetOffline,
               Login, Logout, PeerClose
          <6> QED  BY <1>0, <1>1, <2>0, <6>1, GoesTo
        <5>6. CASE Heartbeat(c)
          BY <1>1, <5>6 DEF Heartbeat, locals
        <5> QED  BY <2>2, <4>2, <5>1, <5>2, <5>3, <5>4, <5>5, <5>6, <5>7 DEF HandlerStep, ClientStep
      <4>3. CASE \E d \in Conns : HeartbeatTimeout(d)
        BY <1>1, <4>3 DEF HeartbeatTimeout, locals
      <4>4. CASE \E s \in Servers : ServerStep(s)
        BY <1>1, <4>4 DEF ServerStep, RedisSubscription, ObserverLookUp, ObserverForward, locals
      <4> QED  BY <1>1, <2>0, <4>1, <4>2, <4>3, <4>4 DEF Next
    <3>2. Has(offline'[u], m) <=> Has(offline[u], m)
      BY <3>0, <3>1, RowsSame
    <3> QED  BY <1>0, <3>1, <3>2 DEF Fetched
  <2> QED  BY <2>1, <2>2
<1> QED  BY <1>1 DEF Fetched, ConnsOf

(* A message comes into one place first *)
LEMMA FirstPlace ==
  ASSUME NEW m, NEW u \in Users, NEW k, NEW b, In(m, u, k, b)',
         \A e \in Conns, l \in Kinds : InHand(e, m, u, l)' => l = k /\ e = b,
         \A e \in Servers, l \in Kinds : ~InRedis(e, m, u, l)',
         \A e \in ConnsOf(u) : Has(inbox'[e], m) => k = "inbox" /\ e = b,
         ~Stored(m, u)'
  PROVE  Somewhere(m, u)'
<1>1. k \in Kinds /\ b \in Spots
  BY DEF In, InHand, InRedis, Kinds, Spots, ConnsOf
<1>2. \A l \in Kinds, e \in Spots : In(m, u, l, e)' => l = k /\ e = b
  BY DEF In, ConnsOf
<1> QED  BY <1>1, <1>2 DEF Somewhere, Only

(* groupChat finds the members, unless nobody gets the message *)
LEMMA MembersFound ==
  ASSUME WorkInv, NEW m \in Msgs, m \notin sent, NEW u \in Users, NEW c \in Conns, GroupChat(c, m),
         ~NoMember(m, u)
  PROVE  LET here == userConnMap[ServerOf[c]]
             reached == {d \in Conns : Shows(d) /\ \E v \in To[m] : here[v] = d}
         IN  /\ inbox' = [d \in Conns |-> IF d \in reached THEN Append(inbox[d], m) ELSE inbox[d]]
             /\ todo' = [todo EXCEPT ![c] = {v \in To[m] : here[v] = NoConn}]
<1> DEFINE here == userConnMap[ServerOf[c]]
           Reached(members) == {d \in Conns : Shows(d) /\ \E v \in members : here[v] = d}
<1>0. DataTypes /\ Holds(c) /\ Nowhere(m)
  BY DEF WorkInv
<1>1. PICK members \in {To[m], {}} :
        /\ inbox' = [d \in Conns |-> IF d \in Reached(members) THEN Append(inbox[d], m) ELSE inbox[d]]
        /\ todo' = [todo EXCEPT ![c] = {v \in members : here[v] = NoConn}]
  BY DEF GroupChat
<1>2. ASSUME members = {} PROVE FALSE
  <2>1. inbox' = inbox /\ todo'[c] = {}
    BY <1>0, <1>1, <1>2 DEF DataTypes
  <2>2. /\ UNCHANGED <<bus, obs, near, far, aim>> /\ payload' = [payload EXCEPT ![c] = m] /\ pc[c] = "idle"
        /\ sent' = sent \cup {m}
    BY DEF GroupChat, Send, Receive, redis
  <2>3. near'[c] = {} /\ far'[c] = {} /\ aim'[c] = {} /\ \A e \in Conns : e # c => payload'[e] # m
    BY <1>0, <2>2 DEF Holds, Nowhere, DataTypes
  <2>4. \A r \in Servers : ~Has(bus'[r], Addressed(m, u)) /\ ~(obs'[r] # NoJob /\ obs'[r].what = m)
    BY <1>0, <2>2 DEF Nowhere
  <2>5. ~InTransit(m, u)'
    BY <2>1, <2>3, <2>4 DEF InTransit, Has, Addressed
  <2> QED  BY <2>1, <2>2, <2>5 DEF NoMember
<1> QED  BY <1>1, <1>2

(* The author sends a message: oneChat and groupChat find the addressee    *)
(* registered here, or note that the database is to be asked               *)
LEMMA SentCarries ==
  ASSUME SessionInv, RedisTypes, WorkInv, NEW m \in Msgs, m \notin sent, NEW u \in To[m], Steady(u),
         NEW c \in Conns, OneChat(c, m) \/ GroupChat(c, m), ~Disturbing(m, u)', ~NoMember(m, u)
  PROVE  Carries(m, u)'
<1> DEFINE here == userConnMap[ServerOf[c]]
<1>0. /\ DataTypes /\ Holds(c) /\ Nowhere(m) /\ u \in Users /\ To[m] \subseteq Users /\ (\A d \in Conns : Holds(d))
      /\ ServerOf[c] \in Servers /\ NoConn \notin Conns
  BY ChatAssumption DEF WorkInv
<1>1. /\ UNCHANGED <<offline, bus, obs, far, aim, userConnMap>> /\ Goto(c, "send") /\ pc[c] = "idle"
      /\ payload' = [payload EXCEPT ![c] = m]
      /\ todo' = [todo EXCEPT ![c] = {v \in To[m] : here[v] = NoConn}]
  <2>1. todo' = [todo EXCEPT ![c] = {v \in To[m] : here[v] = NoConn}]
    BY <1>0, MembersFound DEF OneChat
  <2> HIDE DEF here
  <2> QED  BY <2>1 DEF OneChat, GroupChat, Send, Receive, db, redis
<1>2. /\ near[c] = {} /\ far'[c] = {} /\ aim'[c] = {} /\ payload'[c] = m
      /\ \A e \in Conns : e # c => payload'[e] # m
      /\ todo'[c] = {v \in To[m] : here[v] = NoConn}
  BY <1>0, <1>1 DEF Holds, Nowhere, DataTypes
<1>3. \A v \in To[m] : here[v] # NoConn => here[v] \in Conns /\ UserOf[here[v]] = v
  BY <1>0, Listed
<1>4. \A s \in Servers : /\ ~Has(bus'[s], Addressed(m, u)) /\ AtMostOnce(bus'[s], Addressed(m, u))
                         /\ ~(obs'[s] # NoJob /\ obs'[s].what = m)
  BY <1>0, <1>1 DEF Nowhere, AtMostOnce, Has
<1>5. ~Has(offline'[u], m) /\ AtMostOnce(offline'[u], m) /\ ~Stored(m, u)'
  BY <1>0, <1>1 DEF Nowhere, AtMostOnce, Has, Stored
<1>6. \A e \in Servers, l \in Kinds : ~InRedis(e, m, u, l)'
  BY <1>4 DEF InRedis, Addressed
<1>7. \A d \in near'[c] : UserOf[d] = u => d = here[u] /\ d # NoConn
  <2>1. near'[c] = {} \/ near'[c] = {here[v] : v \in To[m]} \ {NoConn}
    BY <1>0, <1>2 DEF OneChat, GroupChat, DataTypes
  <2> HIDE DEF here
  <2> QED  BY <1>3, <2>1
<1>8. here[u] = NoConn => \A e \in Conns, l \in Kinds : InHand(e, m, u, l)' => l = "todo" /\ e = c
  <2> HIDE DEF here
  <2> QED  BY <1>2, <1>7 DEF InHand
<1>9. here[u] = NoConn => In(m, u, "todo", c)'
  BY <1>2 DEF In, InHand
<1>10. Aimed(m, u)'
  <2>1. \A d \in near'[c] : UserOf[d] = u => userConnMap'[ServerOf[c]][u] = d
    BY <1>1, <1>7
  <2> QED  BY <1>2, <1>4, <2>1 DEF Aimed
<1>11. Fetched(m, u)'
  <2>1. \A d \in ConnsOf(u) : pc[d] \notin {"friends", "ack", "remove"}
    BY DEF Steady, Settled, Contending, LoginLabels
  <2>2. \A d \in ConnsOf(u) : pc'[d] \notin {"friends", "ack", "remove"}
    BY <1>1, <2>1, GoesTo DEF ConnsOf
  <2> QED  BY <2>2 DEF Fetched, ConnsOf
<1>12. Somewhere(m, u)' /\ \A d \in ConnsOf(u) : AtMostOnce(inbox'[d], m)
  <2>1. CASE OneChat(c, m)
    <3>1. near'[c] = {here[v] : v \in To[m]} \ {NoConn} /\ inbox' = inbox
      BY <1>0, <2>1 DEF OneChat, DataTypes
    <3>2. \A d \in ConnsOf(u) : ~Has(inbox'[d], m) /\ AtMostOnce(inbox'[d], m)
      BY <1>0, <3>1 DEF Nowhere, AtMostOnce, Has, ConnsOf
    <3>3. CASE here[u] = NoConn
      BY <1>0, <1>5, <1>6, <1>8, <1>9, <3>2, <3>3, FirstPlace
    <3>4. CASE here[u] # NoConn
      <4>1. here[u] \in near'[c] /\ UserOf[here[u]] = u
        BY <1>3, <3>1, <3>4
      <4>2. In(m, u, "near", c)'
        BY <1>2, <4>1 DEF In, InHand
      <4>3. u \notin todo'[c]
        BY <1>2, <3>4
      <4>4. \A e \in Conns, l \in Kinds : InHand(e, m, u, l)' => l = "near" /\ e = c
        BY <1>2, <4>3 DEF InHand
      <4> QED  BY <1>0, <1>5, <1>6, <3>2, <4>2, <4>4, FirstPlace
    <3> QED  BY <3>2, <3>3, <3>4
  <2>2. CASE GroupChat(c, m)
    <3> DEFINE reached == {d \in Conns : Shows(d) /\ \E v \in To[m] : here[v] = d}
    <3>1. near'[c] = {} /\ \A d \in Conns : inbox'[d] = IF d \in reached THEN Append(inbox[d], m) ELSE inbox[d]
      <4>1. near' = near
        BY <2>2 DEF GroupChat
      <4>2. inbox' = [d \in Conns |-> IF d \in reached THEN Append(inbox[d], m) ELSE inbox[d]]
        BY <1>0, <2>2, MembersFound
      <4> QED  BY <1>2, <4>1, <4>2
    <3>2. \A d \in Conns : ~Has(inbox[d], m) /\ AtMostOnce(inbox[d], m) /\ inbox[d] \in Seq(Msgs)
      BY <1>0 DEF Nowhere, AtMostOnce, Has, DataTypes
    <3>3. ASSUME NEW d \in ConnsOf(u) PROVE d \in Conns /\ (d \in reached => d = here[u])
      <4>1. d \in Conns /\ UserOf[d] = u
        BY DEF ConnsOf
      <4> HIDE DEF here
      <4>2. ASSUME d \in reached PROVE d = here[u]
        <5>1. PICK v \in To[m] : here[v] = d
          BY <4>2
        <5>2. UserOf[d] = v
          BY <1>0, <1>3, <4>1, <5>1
        <5> QED  BY <4>1, <5>1, <5>2
      <4> QED  BY <4>1, <4>2
    <3>4. here[u] # NoConn => here[u] \in reached /\ here[u] \in ConnsOf(u)
      BY <1>0, <1>3, SteadyShows
    <3> HIDE DEF reached
    <3>5. \A d \in ConnsOf(u) : AtMostOnce(inbox'[d], m)
      <4>1. ASSUME NEW d \in ConnsOf(u) PROVE AtMostOnce(Append(inbox[d], m), m)
        BY <3>2, <3>3, OnceAppend
      <4> QED  BY <3>1, <3>2, <3>3, <4>1
    <3>6. CASE here[u] = NoConn
      <4>1. \A d \in ConnsOf(u) : ~Has(inbox'[d], m)
        BY <1>0, <3>1, <3>2, <3>3, <3>6
      <4>2. Somewhere(m, u)'
        BY <1>0, <1>5, <1>6, <1>8, <1>9, <3>6, <4>1, FirstPlace
      <4> QED  BY <3>5, <4>2
    <3>7. CASE here[u] # NoConn
      <4>0. PICK d0 \in ConnsOf(u) : d0 = here[u]
        BY <3>4, <3>7
      <4>1. Has(inbox'[d0], m)
        <5>1. inbox'[d0] = Append(inbox[d0], m)
          BY <3>1, <3>3, <3>4, <3>7, <4>0
        <5>2. Has(Append(inbox[d0], m), m)
          BY <3>2, <3>3, HasAppend
        <5> QED  BY <5>1, <5>2
      <4>2. In(m, u, "inbox", d0)'
        BY <4>1 DEF In, ConnsOf
      <4>3. \A e \in ConnsOf(u) : Has(inbox'[e], m) => e = d0
        BY <3>1, <3>2, <3>3, <4>0
      <4>4. \A e \in Conns, l \in Kinds : ~InHand(e, m, u, l)'
        <5>1. u \notin todo'[c]
          BY <1>2, <3>7
        <5> QED  BY <1>2, <3>1, <5>1 DEF InHand
      <4>5. Somewhere(m, u)'
        BY <1>0, <1>5, <1>6, <4>2, <4>3, <4>4, FirstPlace
      <4> QED  BY <3>5, <4>5
    <3> QED  BY <3>6, <3>7
  <2> QED  BY <2>1, <2>2
<1>13. Once(m, u)'
  BY <1>4, <1>5, <1>12 DEF Once, ConnsOf, Addressed
<1> QED  BY <1>10, <1>11, <1>12, <1>13 DEF Carries

(* Every step keeps the messages that are promised *)
LEMMA NextDelivery ==
  ASSUME PresenceInv, WorkInv, DeliveryInv, [HNext]_hvars
  PROVE  DeliveryInv'
<1>1. CASE HNext
  <2> SUFFICES ASSUME NEW m \in Msgs, NEW u \in Users, Promised(m, u)' PROVE Carries(m, u)'
    BY DEF DeliveryInv
  <2>1. /\ Next /\ u \in To[m] /\ u \notin raced /\ <<m, u>> \notin disturbed
        /\ ~Disturbing(m, u)' /\ ~Failing(m, u) /\ (m \in sent' \ sent => Steady(u))
    BY <1>1 DEF HNext, Record, Promised
  <2>2. CASE m \in sent
    <3>1. Before(m, u)
      BY <2>1, <2>2 DEF PresenceInv, DeliveryInv, Promised, Before
    <3>2. Moved(m, u)
      BY <2>1, <2>2, <3>1, NextMoved
    <3>3. Aimed(m, u)'
      BY <2>1, <3>1, <3>2, AimedNext DEF Moved, HandsAimed, RedisAimed
    <3>4. Fetched(m, u)'
      BY <2>1, <3>1, FetchedNext
    <3> QED  BY <2>1, <3>2, <3>3, <3>4 DEF Moved, Carries
  <2>3. CASE m \notin sent
    <3>1. \E c \in Conns : OneChat(c, m) \/ GroupChat(c, m)
      <4>1. m \in sent'
        BY DEF Promised
      <4>2. ASSUME NEW c \in Conns, NEW n \in Msgs, OneChat(c, n) \/ GroupChat(c, n) PROVE sent' = sent \cup {n}
        BY <4>2 DEF OneChat, GroupChat, Send
      <4>3. CASE \E c \in Conns : SessionStep(c)
        BY <2>3, <4>1, <4>3, SessionCarries DEF carried
      <4> QED  BY <2>1, <2>3, <4>1, <4>2, <4>3, StepCases DEF FetchOffline, QueryFriends, Ack, RemoveOffline,
                  NotifyFriendState, SendNear, LookUp, StoreOffline, Publish, Return, RedisSubscription,
                  ObserverLookUp, ObserverForward, net
    <3>2. Steady(u)
      BY <2>1, <2>3 DEF Promised
    <3>3. ~NoMember(m, u)
      BY <2>1 DEF Failing
    <3> QED  BY <2>1, <2>3, <3>1, <3>2, <3>3, SentCarries DEF PresenceInv
  <2> QED  BY <2>2, <2>3
<1>2. CASE UNCHANGED hvars
  <2>1. /\ UNCHANGED <<link, client, pc, userConnMap, state, cmds, inbox, offline, bus, obs, got, payload>>
        /\ UNCHANGED <<near, far, todo, aim, sent, raced, disturbed>>
    BY <1>2 DEF hvars, vars, net, tables, db, redis, locals, routing
  <2> SUFFICES ASSUME NEW m \in Msgs, NEW u \in Users, Promised(m, u)' PROVE Carries(m, u)'
    BY DEF DeliveryInv
  <2>2. Carries(m, u)
    BY <2>1 DEF DeliveryInv, Promised
  <2>3. \A t, a : In(m, u, t, a)' <=> In(m, u, t, a)
    BY <2>1 DEF In, InHand, InRedis, Stored, Removing, ConnsOf, Addressed
  <2>4. Somewhere(m, u)'
    BY <2>2, <2>3 DEF Carries, Somewhere, Only
  <2>5. Once(m, u)' /\ Aimed(m, u)' /\ Fetched(m, u)'
    BY <2>1, <2>2 DEF Carries, Once, Aimed, Fetched, ConnsOf, Addressed
  <2>6. ~Disturbing(m, u)'
    BY <2>1, <2>2 DEF Carries, Disturbing, InTransit, AckInVain, Steady, Settled, Contending, CommandsPending,
       Registered, ConnsOf
  <2> QED  BY <2>4, <2>5, <2>6 DEF Carries
<1> QED  BY <1>1, <1>2

(* Nothing is sent yet *)
LEMMA InitDelivery ==
  ASSUME HInit
  PROVE  DeliveryInv
BY DEF HInit, Init, DeliveryInv, Promised

(* Wherever oneChat, groupChat and the observers stand: a message that is  *)
(* promised is in exactly one place of one kind, once, what was looked up  *)
(* about its addressee is still so, and a login that has fetched the rows  *)
(* hands over what remove deletes.  (Not promised is what met a moving     *)
(* session or a failed insert, delete or query of the members.)            *)
THEOREM DeliveryInvariant == HSpec => []DeliveryInv
<1>1. HInit => DeliveryInv
  BY InitDelivery
<1>2. PresenceInv /\ WorkInv /\ DeliveryInv /\ [HNext]_hvars => DeliveryInv'
  BY NextDelivery
<1> QED  BY <1>1, <1>2, PresenceInvariant, WorkInvariant, PTL DEF HSpec

(* The copies, one by one *)
LEMMA CopyIs ==
  ASSUME NEW m, NEW u, NEW x
  PROVE  x \in Copies(m, u) <=>
            \/ \E c \in ConnsOf(u) : \E j \in DOMAIN inbox[c] : inbox[c][j] = m /\ x = <<c, j>>
            \/ \E j \in DOMAIN offline[u] : offline[u][j] = m /\ x = <<NoConn, j>>
<1> DEFINE shown(c) == {<<c, i>> : i \in {j \in DOMAIN inbox[c] : inbox[c][j] = m}}
           all == UNION {shown(c) : c \in ConnsOf(u)}
           stored == {<<NoConn, i>> : i \in {j \in DOMAIN offline[u] : offline[u][j] = m}}
<1>1. Copies(m, u) = all \cup stored
  BY Zenon DEF Copies
<1>2. \A c : x \in shown(c) <=> \E j \in DOMAIN inbox[c] : inbox[c][j] = m /\ x = <<c, j>>
  OBVIOUS
<1>3. x \in stored <=> \E j \in DOMAIN offline[u] : offline[u][j] = m /\ x = <<NoConn, j>>
  OBVIOUS
<1> HIDE DEF shown, stored
<1>4. x \in all <=> \E c \in ConnsOf(u) : x \in shown(c)
  OBVIOUS
<1> HIDE DEF all
<1>5. x \in Copies(m, u) <=> x \in all \/ x \in stored
  BY <1>1
<1> QED  BY <1>2, <1>3, <1>4, <1>5

(* The one copy of a message that has arrived *)
LEMMA OneCopy ==
  ASSUME SessionInv, WorkInv, NEW m \in Msgs, NEW u \in Users, Carries(m, u), ~InTransit(m, u), ~Removing(u)
  PROVE  Cardinality(Copies(m, u)) = 1
<1>1. PICK t \in Kinds, a \in Spots : Only(m, u, t, a)
  BY DEF Carries, Somewhere
<1>2. In(m, u, t, a) /\ \A k \in Kinds, b \in Spots : In(m, u, k, b) => k = t /\ b = a
  BY <1>1 DEF Only
<1>3. t \in {"inbox", "offline"}
  <2>1. \A c \in Conns : ~InHand(c, m, u, t)
    BY DEF InHand, InTransit
  <2>2. \A s \in Servers : ~InRedis(s, m, u, t)
    BY DEF InRedis, InTransit, Has, Addressed
  <2> QED  BY <1>2, <2>1, <2>2 DEF In
<1>4. \A c \in ConnsOf(u) : Has(inbox[c], m) => t = "inbox" /\ a = c
  BY <1>2 DEF In, Kinds, Spots, ConnsOf
<1>5. Has(offline[u], m) => t = "offline"
  BY <1>2 DEF In, Kinds, Spots, Stored
<1>6. CASE t = "inbox"
  <2>1. a \in ConnsOf(u) /\ Has(inbox[a], m)
    BY <1>2, <1>6 DEF In, InHand, InRedis
  <2>2. PICK i \in DOMAIN inbox[a] : inbox[a][i] = m
    BY <2>1 DEF Has
  <2>3. \A j \in DOMAIN inbox[a] : inbox[a][j] = m => j = i
    BY <2>1, <2>2 DEF Carries, Once, AtMostOnce
  <2>4. {j \in DOMAIN inbox[a] : inbox[a][j] = m} = {i}
    BY <2>2, <2>3
  <2>5. \A c \in ConnsOf(u) : c # a => {j \in DOMAIN inbox[c] : inbox[c][j] = m} = {}
    BY <1>4 DEF Has
  <2>6. {j \in DOMAIN offline[u] : offline[u][j] = m} = {}
    BY <1>5, <1>6 DEF Has
  <2>7. Copies(m, u) = {<<a, i>>}
    <3>1. ASSUME NEW x PROVE x \in Copies(m, u) <=> x = <<a, i>>
      BY <2>1, <2>2, <2>3, <2>5, <2>6, CopyIs
    <3> QED  BY <3>1
  <2> QED  BY <2>7, FS_Singleton
<1>7. CASE t = "offline"
  <2>1. Has(offline[u], m)
    BY <1>2, <1>7 DEF In, InHand, InRedis, Stored
  <2>2. PICK i \in DOMAIN offline[u] : offline[u][i] = m
    BY <2>1 DEF Has
  <2>3. {j \in DOMAIN offline[u] : offline[u][j] = m} = {i}
    BY <2>2 DEF Carries, Once, AtMostOnce
  <2>4. \A c \in ConnsOf(u) : {j \in DOMAIN inbox[c] : inbox[c][j] = m} = {}
    BY <1>4, <1>7 DEF Has
  <2>5. Copies(m, u) = {<<NoConn, i>>}
    <3>1. ASSUME NEW x PROVE x \in Copies(m, u) <=> x = <<NoConn, i>>
      BY <2>2, <2>3, <2>4, CopyIs
    <3> QED  BY <3>1
  <2> QED  BY <2>5, FS_Singleton
<1> QED  BY <1>3, <1>6, <1>7

(* oneChat and groupChat, whichever way a message takes (a session of the  *)
(* same server, Redis and the observer of another one, the offline table   *)
(* and a later login), lose none and double none, as long as no session of *)
(* the addressee moves while the message is on its way (chatservice.cpp)   *)
(* and no statement fails that was to find its addressees, to store it or  *)
(* to remove it after a login (offlinemessagemodel.cpp, groupmodel.cpp).   *)
THEOREM DeliveredExactlyOnce == HSpec => []ExactlyOnce
<1>1. PresenceInv /\ WorkInv /\ DeliveryInv => ExactlyOnce
  <2> SUFFICES ASSUME PresenceInv, WorkInv, DeliveryInv, NEW m \in sent, NEW u \in To[m] \ raced,
                      ~InTransit(m, u), <<m, u>> \notin disturbed, ~(\E c \in ConnsOf(u) : pc[c] = "remove")
               PROVE  Cardinality(Copies(m, u)) = 1
    BY DEF ExactlyOnce
  <2>1. m \in Msgs
    BY DEF WorkInv, DataTypes
  <2>2. u \in Users
    BY <2>1, ChatAssumption
  <2>3. Carries(m, u)
    BY <2>1, <2>2 DEF DeliveryInv, Promised
  <2> QED  BY <2>1, <2>2, <2>3, OneCopy DEF PresenceInv, Removing
<1> QED  BY <1>1, PresenceInvariant, WorkInvariant, DeliveryInvariant, PTL

----------------------------------------------------------------------------
(* The views of friends.  x is a state notice about u *)
NoticeOf(x, u) == x \in Notices /\ x.of = u

(* A job or an entry of a queue is one for v *)
About(e, u, v) == e.to = v /\ NoticeOf(e.what, u)

(* The last one of a queue says x *)
Newest(q, u, v, x) ==
    \E i \in DOMAIN q : /\ About(q[i], u, v) /\ q[i].what.is = x
                        /\ \A j \in DOMAIN q : j > i => ~About(q[j], u, v)

Waiting(q, u, v) == \E i \in DOMAIN q : About(q[i], u, v)
InObs(s, u, v) == obs[s] # NoJob /\ About(obs[s], u, v)

(* The handler on d has still to tell c, or the server c is on *)
Telling(d, c) == payload[d] \in Notices /\ (c \in near[d] \/ UserOf[c] \in far[d])

(* What c will show of u once the observer of its server has worked off    *)
(* what waits there is x                                                   *)
Coming(c, u, x) ==
    LET s == ServerOf[c]
        v == UserOf[c]
    IN  \/ Newest(bus[s], u, v, x)
        \/ ~Waiting(bus[s], u, v) /\ InObs(s, u, v) /\ obs[s].what.is = x
        \/ ~Waiting(bus[s], u, v) /\ ~InObs(s, u, v) /\ view[c][u] = x

(* ... and that, or what a handler of u is about to tell, is the state *)
Current(c, u) ==
    \/ \E d \in ConnsOf(u) : Telling(d, c) /\ payload[d].is = state[u]
    \/ (\A d \in ConnsOf(u) : ~Telling(d, c)) /\ Coming(c, u, state[u])

(* A handler of u is changing the state of u, or has not yet begun to tell *)
Busy(u) == \E d \in ConnsOf(u) : Contending(d) \/ pc[d] = "notify"

Follows(c, u) ==
    LET s == ServerOf[c]
        v == UserOf[c]
    IN  /\ ~Blurring(c, u)
        /\ \A d \in ConnsOf(u) : pc[d] = "notify" => News(d).is = state[u]
        /\ pc[c] = "ack" => snap[c][u] = state[u]
        /\ InObs(s, u, v) => obs[s].conn = userConnMap[s][v]
        /\ Shows(c) /\ Registered(c) = c /\ ~Busy(u) => Current(c, u)

Followed(c, u) ==
    u \in Friends[UserOf[c]] /\ {u, UserOf[c]} \cap raced = {} /\ <<c, u>> \notin blurred

ViewInv == \A c \in Conns, u \in Users : Followed(c, u) => Follows(c, u)

(* The last notice of a queue, after something is added, ... *)
LEMMA NewestAppend ==
  ASSUME NEW S, NEW q \in Seq(S), NEW e \in S, NEW u, NEW v
  PROVE  /\ About(e, u, v) => \A x : Newest(Append(q, e), u, v, x) <=> e.what.is = x
         /\ ~About(e, u, v) => /\ \A x : Newest(Append(q, e), u, v, x) <=> Newest(q, u, v, x)
                               /\ Waiting(Append(q, e), u, v) <=> Waiting(q, u, v)
<1> DEFINE a == Append(q, e)
<1>1. /\ Len(q) \in Nat /\ DOMAIN q = 1..Len(q) /\ DOMAIN a = 1..(Len(q) + 1)
      /\ a[Len(q) + 1] = e /\ \A i \in 1..Len(q) : a[i] = q[i]
  OBVIOUS
<1>2. /\ Len(q) + 1 \in DOMAIN a
      /\ \A i \in DOMAIN a : i \in DOMAIN q \/ i = Len(q) + 1
      /\ \A i \in DOMAIN q : i \in DOMAIN a /\ a[i] = q[i] /\ Len(q) + 1 > i
      /\ \A i \in DOMAIN a : ~(i > Len(q) + 1)
  BY <1>1
<1> HIDE DEF a
<1>3. CASE About(e, u, v)
  <2>1. ASSUME NEW x PROVE Newest(a, u, v, x) <=> e.what.is = x
    <3>1. ASSUME Newest(a, u, v, x) PROVE e.what.is = x
      <4>1. PICK i \in DOMAIN a : a[i].what.is = x /\ \A j \in DOMAIN a : j > i => ~About(a[j], u, v)
        BY <3>1 DEF Newest
      <4>2. i = Len(q) + 1
        BY <1>1, <1>2, <1>3, <4>1
      <4> QED  BY <1>1, <4>1, <4>2
    <3>2. ASSUME e.what.is = x PROVE Newest(a, u, v, x)
      BY <1>1, <1>2, <1>3, <3>2 DEF Newest
    <3> QED  BY <3>1, <3>2
  <2> QED  BY <1>3, <2>1 DEF a
<1>4. CASE ~About(e, u, v)
  <2>1. ASSUME NEW x PROVE Newest(a, u, v, x) <=> Newest(q, u, v, x)
    <3>1. ASSUME Newest(a, u, v, x) PROVE Newest(q, u, v, x)
      <4>1. PICK i \in DOMAIN a : /\ About(a[i], u, v) /\ a[i].what.is = x
                                  /\ \A j \in DOMAIN a : j > i => ~About(a[j], u, v)
        BY <3>1 DEF Newest
      <4>2. i \in DOMAIN q
        BY <1>1, <1>2, <1>4, <4>1
      <4> QED  BY <1>2, <4>1, <4>2 DEF Newest
    <3>2. ASSUME Newest(q, u, v, x) PROVE Newest(a, u, v, x)
      <4>1. PICK i \in DOMAIN q : /\ About(q[i], u, v) /\ q[i].what.is = x
                                  /\ \A j \in DOMAIN q : j > i => ~About(q[j], u, v)
        BY <3>2 DEF Newest
      <4>2. ASSUME NEW j \in DOMAIN a, j > i PROVE ~About(a[j], u, v)
        BY <1>1, <1>2, <1>4, <4>1, <4>2
      <4> QED  BY <1>2, <4>1, <4>2 DEF Newest
    <3> QED  BY <3>1, <3>2
  <2>2. Waiting(a, u, v) <=> Waiting(q, u, v)
    BY <1>1, <1>2, <1>4 DEF Waiting
  <2> QED  BY <1>4, <2>1, <2>2 DEF a
<1> QED  BY <1>3, <1>4

(* ... or the first entry is taken *)
LEMMA NewestTail ==
  ASSUME NEW S, NEW q \in Seq(S), q # <<>>, NEW u, NEW v
  PROVE  /\ Waiting(q, u, v) <=> About(Head(q), u, v) \/ Waiting(Tail(q), u, v)
         /\ \A x : Newest(q, u, v, x) <=>
               \/ Newest(Tail(q), u, v, x)
               \/ ~Waiting(Tail(q), u, v) /\ About(Head(q), u, v) /\ Head(q).what.is = x
<1> DEFINE w == Tail(q)
           e == Head(q)
<1>1. /\ Len(q) \in Nat /\ Len(q) > 0 /\ DOMAIN q = 1..Len(q) /\ DOMAIN w = 1..(Len(q) - 1)
      /\ \A i \in 1..(Len(q) - 1) : w[i] = q[i + 1]
      /\ e = q[1]
  OBVIOUS
<1>2. /\ 1 \in DOMAIN q
      /\ \A i \in DOMAIN w : i + 1 \in DOMAIN q /\ w[i] = q[i + 1] /\ i + 1 > 1
      /\ \A i \in DOMAIN q : i = 1 \/ (i - 1 \in DOMAIN w /\ w[i - 1] = q[i])
      /\ \A i \in DOMAIN q : i = 1 \/ i > 1
  <2>1. \A i \in 1..Len(q) : i = 1 \/ (i - 1 \in 1..(Len(q) - 1) /\ (i - 1) + 1 = i)
    BY <1>1
  <2> QED  BY <1>1, <2>1
<1> HIDE DEF w, e
<1>3. Waiting(q, u, v) <=> About(e, u, v) \/ Waiting(w, u, v)
  <2>1. ASSUME Waiting(q, u, v), ~About(e, u, v) PROVE Waiting(w, u, v)
    <3>1. PICK i \in DOMAIN q : About(q[i], u, v)
      BY <2>1 DEF Waiting
    <3>2. i - 1 \in DOMAIN w /\ w[i - 1] = q[i]
      BY <1>1, <1>2, <2>1, <3>1
    <3> QED  BY <3>1, <3>2 DEF Waiting
  <2> QED  BY <1>1, <1>2, <2>1 DEF Waiting
<1>4. ASSUME NEW x
      PROVE  Newest(q, u, v, x) <=>
                Newest(w, u, v, x) \/ (~Waiting(w, u, v) /\ About(e, u, v) /\ e.what.is = x)
  <2>1. ASSUME Newest(q, u, v, x), ~Newest(w, u, v, x)
        PROVE  ~Waiting(w, u, v) /\ About(e, u, v) /\ e.what.is = x
    <3>1. PICK i \in DOMAIN q : /\ About(q[i], u, v) /\ q[i].what.is = x
                                /\ \A j \in DOMAIN q : j > i => ~About(q[j], u, v)
      BY <2>1 DEF Newest
    <3>2. i = 1
      <4>1. ASSUME i # 1 PROVE FALSE
        <5>1. i - 1 \in DOMAIN w /\ w[i - 1] = q[i] /\ i \in Int
          BY <1>1, <1>2, <3>1, <4>1
        <5>2. ASSUME NEW j \in DOMAIN w, j > i - 1 PROVE ~About(w[j], u, v)
          <6>1. j + 1 > i /\ j + 1 \in DOMAIN q /\ w[j] = q[j + 1]
            BY <1>1, <1>2, <5>1, <5>2
          <6> QED  BY <3>1, <6>1
        <5> QED  BY <2>1, <3>1, <5>1, <5>2 DEF Newest
      <4> QED  BY <4>1
    <3>3. ~Waiting(w, u, v)
      BY <1>2, <3>1, <3>2 DEF Waiting
    <3> QED  BY <1>1, <3>1, <3>2, <3>3
  <2>2. ASSUME Newest(w, u, v, x) PROVE Newest(q, u, v, x)
    <3>1. PICK i \in DOMAIN w : /\ About(w[i], u, v) /\ w[i].what.is = x
                                /\ \A j \in DOMAIN w : j > i => ~About(w[j], u, v)
      BY <2>2 DEF Newest
    <3>2. i + 1 \in DOMAIN q /\ q[i + 1] = w[i] /\ i \in Int
      BY <1>1, <1>2, <3>1
    <3>3. ASSUME NEW j \in DOMAIN q, j > i + 1 PROVE ~About(q[j], u, v)
      <4>1. j - 1 \in DOMAIN w /\ w[j - 1] = q[j] /\ j - 1 > i
        BY <1>1, <1>2, <3>1, <3>3
      <4> QED  BY <3>1, <4>1
    <3> QED  BY <3>1, <3>2, <3>3 DEF Newest
  <2>3. ASSUME ~Waiting(w, u, v), About(e, u, v), e.what.is = x PROVE Newest(q, u, v, x)
    <3>1. ASSUME NEW j \in DOMAIN q, j > 1 PROVE ~About(q[j], u, v)
      <4>1. j - 1 \in DOMAIN w /\ w[j - 1] = q[j]
        BY <1>1, <1>2, <3>1
      <4> QED  BY <2>3, <4>1 DEF Waiting
    <3> QED  BY <1>1, <1>2, <2>3, <3>1 DEF Newest
  <2> QED  BY <2>1, <2>2, <2>3
<1> QED  BY <1>3, <1>4 DEF w, e

----------------------------------------------------------------------------
(* What is known of a viewer and a friend before a step *)
Viewing(c, u) ==
    LET v == UserOf[c]
    IN  /\ SessionInv /\ RedisTypes /\ WorkInv
        /\ Ways(u) /\ Recorded(u) /\ Ways(v) /\ Recorded(v) /\ Shown(v)
        /\ u \in Friends[v] /\ Follows(c, u)

(* A view that is not blurred: the viewer stands still while something     *)
(* happens to the friend, one handler of the friend is at it, and what it  *)
(* sends directly overtakes nothing                                        *)
LEMMA Unblurred ==
  ASSUME NEW c, NEW u, ~Blurring(c, u)
  PROVE  /\ NoticePending(u) \/ ~Settled(u) => Steady(UserOf[c])
         /\ \A d, e \in ConnsOf(u) :
               (Contending(d) \/ Notifying(d)) /\ (Contending(e) \/ Notifying(e)) => d = e
         /\ \A d \in ConnsOf(u) : Notifying(d) /\ c \in near[d] => ~NoticeAt(ServerOf[c], u)
BY DEF Blurring

(* ... also after a step *)
LEMMA UnblurredNext ==
  ASSUME NEW c, NEW u, ~Blurring(c, u)'
  PROVE  /\ NoticePending(u)' \/ ~Settled(u)' => Steady(UserOf[c])'
         /\ \A d, e \in ConnsOf(u) :
               (Contending(d) \/ Notifying(d))' /\ (Contending(e) \/ Notifying(e))' => d = e
BY DEF Blurring, ConnsOf

(* Only login and logout write the state of a user *)
LEMMA StateMoves ==
  ASSUME SessionInv, RedisTypes, Next, NEW u \in Users, state'[u] # state[u]
  PROVE  \E d \in ConnsOf(u) : SetOnline(d) \/ SetOffline(d)
<1>1. ASSUME NEW d \in Conns, HandlerStep(d) \/ ClientStep(d) PROVE UserOf[d] = u
  BY <1>1, HandlerAway, ClientAway DEF Away
<1>2. ASSUME NEW d \in Conns, HandlerStep(d), ~SetOnline(d), ~SetOffline(d) PROVE state' = state
  BY <1>2 DEF HandlerStep, Relogin, Register, Subscribe, FetchOffline, QueryFriends, Ack, RemoveOffline, CloseErase,
     Unsubscribe, Untrack, NotifyFriendState, SendNear, LookUp, StoreOffline, Publish, Return, db
<1>3. ASSUME NEW d \in Conns, ClientStep(d) PROVE state' = state
  BY <1>3 DEF ClientStep, Login, Logout, PeerClose, Heartbeat, OneChat, GroupChat, Send, db
<1>4. ASSUME NEW d \in Conns, HeartbeatTimeout(d) PROVE state' = state
  BY <1>4 DEF HeartbeatTimeout, db
<1>5. ASSUME NEW s \in Servers, ServerStep(s) PROVE state' = state
  BY <1>5 DEF ServerStep, RedisSubscription, ObserverLookUp, ObserverForward, db
<1> QED  BY <1>1, <1>2, <1>3, <1>4, <1>5 DEF Next, ConnsOf

(* A connection that is down stays so; only its peer takes it down *)
LEMMA LinkMoves ==
  ASSUME SessionInv, Next, NEW d \in Conns
  PROVE  /\ link[d] = "down" => link'[d] = "down"
         /\ link'[d] = "down" /\ link[d] # "down" => PeerClose(d)
<1>0. link \in [Conns -> {"open", "half", "down"}]
  BY DEF SessionInv, CoreTypes
<1>1. ASSUME NEW e \in Conns, HandlerStep(e) PROVE link'[d] = "down" <=> link[d] = "down"
  <2>1. CASE Relogin(e)
    BY <1>0, <2>1 DEF Relogin
  <2>2. CASE ~Relogin(e)
    <3>1. link' = link
      BY <1>1, <2>2 DEF HandlerStep, Register, Subscribe, SetOnline, FetchOffline, QueryFriends, Ack, RemoveOffline,
         CloseErase, Unsubscribe, Untrack, SetOffline, NotifyFriendState, SendNear, LookUp, StoreOffline, Publish,
         Return, net
    <3> QED  BY <3>1
  <2> QED  BY <2>1, <2>2
<1>2. ASSUME NEW e \in Conns, ClientStep(e), ~PeerClose(e) PROVE link' = link
  BY <1>2 DEF ClientStep, Login, Logout, Heartbeat, OneChat, GroupChat, net
<1>3. ASSUME NEW e \in Conns, PeerClose(e) PROVE link' = [link EXCEPT ![e] = "down"]
  BY <1>3 DEF PeerClose
<1>4. ASSUME NEW e \in Conns, HeartbeatTimeout(e) PROVE link'[d] = "down" <=> link[d] = "down"
  BY <1>0, <1>4 DEF HeartbeatTimeout
<1>5. ASSUME NEW s \in Servers, ServerStep(s) PROVE link' = link
  BY <1>5 DEF ServerStep, RedisSubscription, ObserverLookUp, ObserverForward, net
<1> QED  BY <1>0, <1>1, <1>2, <1>3, <1>4, <1>5 DEF Next

(* Only the step of its own changes what a handler holds *)
LEMMA Rests ==
  ASSUME SessionInv, DataTypes, Next, NEW d \in Conns, ~HandlerStep(d), ~ClientStep(d)
  PROVE  /\ pc'[d] = pc[d] /\ client'[d] = client[d] /\ payload'[d] = payload[d]
         /\ near'[d] = near[d] /\ far'[d] = far[d] /\ snap'[d] = snap[d]
<1>1. ASSUME NEW e \in Conns, HandlerStep(e) \/ ClientStep(e) PROVE e # d /\ Elsewhere(e)
  BY <1>1, HandlerElsewhere, ClientElsewhere
<1>2. ASSUME NEW e \in Conns, HeartbeatTimeout(e) PROVE UNCHANGED <<pc, client, payload, near, far, snap>>
  BY <1>2 DEF HeartbeatTimeout, locals, routing
<1>3. ASSUME NEW s \in Servers, ServerStep(s) PROVE UNCHANGED <<pc, client, payload, near, far, snap>>
  BY <1>3 DEF ServerStep, RedisSubscription, ObserverLookUp, ObserverForward, net, locals, routing
<1> QED  BY <1>1, <1>2, <1>3 DEF Elsewhere, Next

(* Who is about to tell the friends tells them the recorded state *)
LEMMA NewsNext ==
  ASSUME NEW c \in Conns, NEW u \in Users, Viewing(c, u), Next, NEW d \in ConnsOf(u), pc'[d] = "notify"
  PROVE  News(d)'.is = state'[u]
<1>0. /\ SessionInv /\ RedisTypes /\ DataTypes /\ ~Blurring(c, u) /\ d \in Conns /\ UserOf[d] = u
      /\ Ways(u) /\ Recorded(u)
      /\ pc[d] = "notify" => News(d).is = state[u]
  BY DEF Viewing, Follows, WorkInv, ConnsOf
<1>1. /\ News(d).is = (IF client[d] = "out" \/ link[d] = "down" THEN "offline" ELSE "online")
      /\ News(d)'.is = (IF client'[d] = "out" \/ link'[d] = "down" THEN "offline" ELSE "online")
  BY DEF News, Notice
<1>2. ~PeerClose(d)
  BY <1>0, GoesTo DEF PeerClose
<1>3. link'[d] = "down" <=> link[d] = "down"
  BY <1>0, <1>2, LinkMoves
<1>4. CASE pc[d] = "notify"
  <2>1. ~HandlerStep(d) /\ ~ClientStep(d)
    <3>1. NotifyFriendState(d) => pc'[d] = "send"
      BY <1>0, GoesTo DEF NotifyFriendState
    <3> QED  BY <1>4, <3>1 DEF HandlerStep, ClientStep, Relogin, Register, Subscribe, SetOnline, FetchOffline,
                QueryFriends, Ack, RemoveOffline, CloseErase, Unsubscribe, Untrack, SetOffline, SendNear, LookUp,
                StoreOffline, Publish, Return, Login, Logout, PeerClose, Heartbeat, OneChat, GroupChat, Send, Receive
  <2>2. client'[d] = client[d]
    BY <1>0, <2>1, Rests
  <2>3. state'[u] = state[u]
    <3>1. ASSUME NEW e \in ConnsOf(u), SetOnline(e) \/ SetOffline(e) PROVE FALSE
      <4>1. Contending(e) /\ pc[e] # "notify"
        BY <3>1 DEF SetOnline, SetOffline, Contending, LoginLabels, LeaveLabels
      <4>2. Notifying(d)
        BY <1>4 DEF Notifying
      <4> QED  BY <1>0, <1>4, <4>1, <4>2, Unblurred
    <3> QED  BY <1>0, <3>1, StateMoves
  <2> QED  BY <1>0, <1>1, <1>3, <1>4, <2>2, <2>3
<1>5. CASE pc[d] # "notify"
  <2>1. HandlerStep(d) \/ ClientStep(d)
    BY <1>0, <1>5, Rests
  <2>2. Ack(d) \/ RemoveOffline(d) \/ SetOffline(d)
    <3>1. ASSUME NEW l, Goto(d, l) PROVE l = "notify"
      BY <1>0, <3>1, GoesTo
    <3>2. ASSUME NEW m \in Msgs PROVE ~OneChat(d, m) /\ ~GroupChat(d, m)
      BY <3>1 DEF OneChat, GroupChat, Send
    <3>3. ~Login(d)
      BY <3>1 DEF Login
    <3>4. ~Untrack(d) /\ ~CloseErase(d)
      BY <3>1 DEF Untrack, CloseErase
    <3>5. ~SendNear(d) /\ ~LookUp(d) /\ ~StoreOffline(d) /\ ~Publish(d) /\ ~Heartbeat(d)
      BY <1>5 DEF SendNear, LookUp, StoreOffline, Publish, Heartbeat
    <3> QED  BY <2>1, <3>1, <3>2, <3>3, <3>4, <3>5 DEF HandlerStep, ClientStep, Relogin, Register, Subscribe,
                SetOnline, FetchOffline, QueryFriends, Unsubscribe, NotifyFriendState, Return, Logout, PeerClose
  <2>3. CASE SetOffline(d)
    <3>1. state'[u] = "offline" /\ client' = client /\ pc[d] \in LeaveLabels
      BY <1>0, <2>3 DEF SetOffline, net, RedisTypes, LeaveLabels
    <3>2. client[d] = "out" \/ link[d] = "down"
      BY <1>0, <3>1 DEF SessionInv, LeaveWhenGone
    <3> QED  BY <1>1, <1>3, <3>1, <3>2
  <2>4. CASE Ack(d) \/ RemoveOffline(d)
    <3>1. /\ pc[d] \in {"ack", "remove"} /\ state' = state
          /\ client'[d] = client[d] \/ client'[d] = "in"
      BY <1>0, <2>4 DEF Ack, RemoveOffline, db, net, SessionInv, CoreTypes
    <3>2. client[d] # "out" /\ link[d] # "down"
      BY <1>0, <3>1 DEF SessionInv, LoginOnLive, LoginLabels
    <3>3. Registered(d) = d /\ d # NoConn /\ ServerOf[d] \in Servers
      BY <1>0, <3>1, Own DEF Ways, Entered
    <3>4. Homes(u) # {}
      BY <1>0, <3>3 DEF Homes, Registered
    <3>5. \A e \in ConnsOf(u) : pc[e] \notin {"subscribe", "setOnline"}
      <4>1. Contending(d)
        BY <3>1 DEF Contending, LoginLabels
      <4>2. \A e \in ConnsOf(u) : e # d => pc[e] \notin LoginLabels
        BY <1>0, <4>1, Alone DEF Ways
      <4> QED  BY <3>1, <4>2 DEF LoginLabels
    <3>6. state[u] = "online"
      BY <1>0, <3>4, <3>5 DEF Recorded
    <3> QED  BY <1>1, <1>3, <3>1, <3>2, <3>6
  <2> QED  BY <2>2, <2>3, <2>4
<1> QED  BY <1>4, <1>5

(* What LOGIN_MSG_ACK is about to carry is the recorded state *)
LEMMA SnapNext ==
  ASSUME NEW c \in Conns, NEW u \in Users, Viewing(c, u), Next, pc'[c] = "ack", ~Misread(c, u)
  PROVE  snap'[c][u] = state'[u]
<1>0. /\ SessionInv /\ RedisTypes /\ DataTypes /\ ~Blurring(c, u)
      /\ pc[c] = "ack" => snap[c][u] = state[u]
  BY DEF Viewing, Follows, WorkInv
<1>1. CASE pc[c] = "ack"
  <2>1. ~HandlerStep(c) /\ ~ClientStep(c)
    <3>1. ~Ack(c)
      <4>1. Ack(c) => Goto(c, "remove") \/ Goto(c, "notify")
        BY DEF Ack
      <4> QED  BY <1>0, <4>1, GoesTo
    <3> QED  BY <1>1, <3>1 DEF HandlerStep, ClientStep, Relogin, Register, Subscribe, SetOnline, FetchOffline,
                QueryFriends, RemoveOffline, CloseErase, Unsubscribe, Untrack, SetOffline, NotifyFriendState, SendNear,
                LookUp, StoreOffline, Publish, Return, Login, Logout, PeerClose, Heartbeat, OneChat, GroupChat, Send,
                Receive
  <2>2. Settled(u)
    <3>1. Contending(c) /\ c \in ConnsOf(UserOf[c])
      BY <1>1, Own DEF Contending, LoginLabels
    <3>2. ~Steady(UserOf[c])
      BY <3>1 DEF Steady, Settled
    <3> QED  BY <1>0, <3>2, Unblurred
  <2>3. state'[u] = state[u]
    <3>1. \A e \in ConnsOf(u) : ~SetOnline(e) /\ ~SetOffline(e)
      BY <2>2 DEF Settled, Contending, SetOnline, SetOffline, LoginLabels, LeaveLabels
    <3> QED  BY <1>0, <3>1, StateMoves
  <2> QED  BY <1>0, <1>1, <2>1, <2>3, Rests
<1>2. CASE pc[c] # "ack"
  <2>1. HandlerStep(c) \/ ClientStep(c)
    BY <1>0, <1>2, Rests
  <2>2. QueryFriends(c)
    <3>1. ASSUME NEW l, Goto(c, l) PROVE l = "ack"
      BY <1>0, <3>1, GoesTo
    <3>2. ASSUME NEW m \in Msgs PROVE ~OneChat(c, m) /\ ~GroupChat(c, m)
      BY <3>1 DEF OneChat, GroupChat, Send
    <3>3. ~Login(c) /\ ~Ack(c)
      BY <3>1 DEF Login, Ack
    <3>4. ~Untrack(c) /\ ~CloseErase(c)
      BY <3>1 DEF Untrack, CloseErase
    <3>5. ~SendNear(c) /\ ~LookUp(c) /\ ~StoreOffline(c) /\ ~Publish(c) /\ ~Heartbeat(c)
      BY <1>2 DEF SendNear, LookUp, StoreOffline, Publish, Heartbeat
    <3> QED  BY <2>1, <3>1, <3>2, <3>3, <3>4, <3>5 DEF HandlerStep, ClientStep, Relogin, Register, Subscribe,
                SetOnline, SetOffline, FetchOffline, RemoveOffline, Unsubscribe, NotifyFriendState, Return, Logout,
                PeerClose
  <2>3. snap'[c][u] = state[u]
    BY <2>2 DEF QueryFriends, Misread
  <2> QED  BY <2>2, <2>3 DEF QueryFriends, db
<1> QED  BY <1>1, <1>2

(* A notice is one of those that NoticeAt knows *)
LEMMA NoticeSeen ==
  ASSUME NEW s \in Servers, NEW u, NEW v
  PROVE  /\ Waiting(bus[s], u, v) => NoticeAt(s, u)
         /\ InObs(s, u, v) => NoticeAt(s, u)
<1>1. ASSUME NEW x, NoticeOf(x, u) PROVE x \in {Notice(u, y) : y \in States}
  <2>1. x \in [of : Users, is : States] /\ x.of = u
    BY <1>1 DEF NoticeOf, Notices
  <2>2. x = [of |-> u, is |-> x.is] /\ x.is \in States
    BY <2>1
  <2> QED  BY <2>2 DEF Notice
<1> QED  BY <1>1 DEF Waiting, InObs, About, NoticeAt

(* The observer's job about u goes where the viewer is *)
LEMMA ObsNext ==
  ASSUME NEW c \in Conns, NEW u \in Users, Viewing(c, u), Next, ~Blurring(c, u)',
         InObs(ServerOf[c], u, UserOf[c])'
  PROVE  obs'[ServerOf[c]].conn = userConnMap'[ServerOf[c]][UserOf[c]]
<1> DEFINE s == ServerOf[c]
           v == UserOf[c]
<1>0. /\ SessionInv /\ RedisTypes /\ DataTypes /\ ~Blurring(c, u) /\ s \in Servers /\ v \in Users
      /\ InObs(s, u, v) => obs[s].conn = userConnMap[s][v]
  BY Own DEF Viewing, Follows, WorkInv
<1>1. CASE ObserverLookUp(s)
  <2>1. obs'[s].conn = userConnMap[s][obs'[s].to] /\ userConnMap' = userConnMap
    BY <1>0, <1>1 DEF ObserverLookUp, DataTypes, tables
  <2> QED  BY <2>1 DEF InObs, About
<1>2. CASE ~ObserverLookUp(s)
  <2>1. obs'[s] = obs[s]
    <3>1. ~ObserverForward(s)
      BY <1>0 DEF ObserverForward, DataTypes, InObs
    <3>2. ASSUME NEW e \in Conns, HandlerStep(e) \/ ClientStep(e) \/ HeartbeatTimeout(e) PROVE obs' = obs
      BY <3>2 DEF HandlerStep, ClientStep, HeartbeatTimeout, Relogin, Register, Subscribe, SetOnline, FetchOffline,
         QueryFriends, Ack, RemoveOffline, CloseErase, Unsubscribe, Untrack, SetOffline, NotifyFriendState, SendNear,
         LookUp, StoreOffline, Publish, Return, Login, Logout, PeerClose, Heartbeat, OneChat, GroupChat, redis
    <3>3. ASSUME NEW r \in Servers, ServerStep(r) PROVE obs'[s] = obs[s]
      BY <1>0, <1>2, <3>1, <3>3 DEF ServerStep, RedisSubscription, ObserverLookUp, ObserverForward, DataTypes
    <3> QED  BY <3>2, <3>3 DEF Next
  <2>2. InObs(s, u, v)
    BY <2>1 DEF InObs, About, NoticeOf
  <2>3. NoticePending(u) /\ NoticePending(u)'
    <3>1. NoticeAt(s, u)
      BY <1>0, <2>2, NoticeSeen
    <3>2. obs[s] # NoJob /\ obs[s].what \in {Notice(u, x) : x \in States}
      <4>1. obs[s].what \in [of : Users, is : States] /\ obs[s].what.of = u
        BY <2>2 DEF InObs, About, NoticeOf, Notices
      <4>2. obs[s].what = [of |-> u, is |-> obs[s].what.is] /\ obs[s].what.is \in States
        BY <4>1
      <4> QED  BY <2>2, <4>2 DEF InObs, Notice
    <3>3. NoticeAt(s, u)'
      <4>1. {Notice(u, x) : x \in States}' = {Notice(u, x) : x \in States}
        BY DEF Notice, States
      <4> QED  BY <2>1, <3>2, <4>1 DEF NoticeAt
    <3> QED  BY <1>0, <3>1, <3>3 DEF NoticePending
  <2>4. Settled(v) /\ Settled(v)'
    BY <1>0, <2>3, Unblurred, UnblurredNext DEF Steady
  <2> QED  BY <1>0, <2>1, <2>2, <2>4, SteadyStill
<1> QED  BY <1>1, <1>2

(* Where a user is registered is changed by a handler that then has more   *)
(* to do                                                                   *)
LEMMA MapMoves ==
  ASSUME SessionInv, RedisTypes, Next, NEW u \in Users, NEW s \in Servers, userConnMap'[s][u] # userConnMap[s][u]
  PROVE  \E d \in ConnsOf(u) : pc'[d] \in LoginLabels \cup LeaveLabels
<1>1. ASSUME NEW d \in Conns, HandlerStep(d) \/ ClientStep(d) PROVE UserOf[d] = u
  BY <1>1, HandlerAway, ClientAway DEF Away
<1>2. ASSUME NEW d \in Conns, HandlerStep(d), pc'[d] \notin LoginLabels \cup LeaveLabels
      PROVE  userConnMap' = userConnMap
  <2>1. ~Relogin(d) /\ ~Register(d)
    <3>1. Relogin(d) => Goto(d, "setOnline")
      BY DEF Relogin
    <3>2. Register(d) => Goto(d, "subscribe")
      BY DEF Register
    <3> QED  BY <1>2, <3>1, <3>2, GoesTo DEF LoginLabels
  <2>2. CloseErase(d) => userConnMap' = userConnMap
    <3>1. CloseErase(d) => userConnMap' = userConnMap \/ Goto(d, "unsubscribe")
      BY DEF CloseErase
    <3> QED  BY <1>2, <3>1, GoesTo DEF LeaveLabels
  <2> QED  BY <1>2, <2>1, <2>2 DEF HandlerStep, Subscribe, SetOnline, FetchOffline, QueryFriends, Ack, RemoveOffline,
              Unsubscribe, Untrack, SetOffline, NotifyFriendState, SendNear, LookUp, StoreOffline, Publish, Return,
              tables
<1>3. ASSUME NEW d \in Conns, ClientStep(d), pc'[d] \notin LoginLabels \cup LeaveLabels
      PROVE  userConnMap' = userConnMap
  <2>1. ~Logout(d)
    <3>1. Logout(d) => Goto(d, "unsubscribe")
      BY DEF Logout
    <3> QED  BY <1>3, <3>1, GoesTo DEF LeaveLabels
  <2> QED  BY <1>3, <2>1 DEF ClientStep, Login, PeerClose, Heartbeat, OneChat, GroupChat, tables
<1>4. ASSUME NEW d \in Conns, HeartbeatTimeout(d) PROVE userConnMap' = userConnMap
  BY <1>4 DEF HeartbeatTimeout, tables
<1>5. ASSUME NEW r \in Servers, ServerStep(r) PROVE userConnMap' = userConnMap
  BY <1>5 DEF ServerStep, RedisSubscription, ObserverLookUp, ObserverForward, tables
<1> QED  BY <1>1, <1>2, <1>3, <1>4, <1>5 DEF Next, ConnsOf

(* A handler that changes the state of its user ends with telling it *)
LEMMA BusyEnds ==
  ASSUME SessionInv, RedisTypes, DataTypes, Next, NEW u \in Users, Busy(u), ~Busy(u)'
  PROVE  \E d \in ConnsOf(u) : NotifyFriendState(d)
<1>1. PICK d \in ConnsOf(u) : Contending(d) \/ pc[d] = "notify"
  BY DEF Busy
<1>2. d \in Conns /\ UserOf[d] = u /\ ServerOf[d] \in Servers
  BY Own DEF ConnsOf
<1>3. \A e \in ConnsOf(u) : /\ pc'[e] \notin LoginLabels \cup LeaveLabels \cup {"notify"}
                            /\ ~(pc'[e] = "close" /\ Registered(e)' = e)
  BY DEF Busy, Contending, ConnsOf
<1>4. pc[d] \in LoginLabels \cup LeaveLabels \cup {"notify"}
  <2>1. ASSUME pc[d] = "close", Registered(d) = d PROVE FALSE
    <3>1. userConnMap'[ServerOf[d]][u] = userConnMap[ServerOf[d]][u]
      BY <1>2, <1>3, MapMoves
    <3>2. pc'[d] # "close"
      BY <1>2, <1>3, <2>1, <3>1 DEF Registered
    <3>3. HandlerStep(d) \/ ClientStep(d)
      BY <1>2, <2>1, <3>2, Rests
    <3>4. CloseErase(d)
      BY <2>1, <3>3 DEF HandlerStep, ClientStep, Relogin, Register, Subscribe, SetOnline, FetchOffline, QueryFriends,
         Ack, RemoveOffline, Unsubscribe, Untrack, SetOffline, NotifyFriendState, SendNear, LookUp, StoreOffline,
         Publish, Return, Login, Logout, PeerClose, Heartbeat, OneChat, GroupChat, Send, Receive
    <3>5. Goto(d, "unsubscribe")
      BY <2>1, <3>4 DEF CloseErase
    <3> QED  BY <1>2, <1>3, <3>5, GoesTo DEF LeaveLabels
  <2> QED  BY <1>1, <2>1 DEF Contending
<1>5. HandlerStep(d) \/ ClientStep(d)
  <2>1. pc'[d] # pc[d]
    BY <1>3, <1>4
  <2> QED  BY <1>2, <2>1, Rests
<1>6. \A l \in LoginLabels \cup LeaveLabels \cup {"notify"} : ~Goto(d, l)
  BY <1>2, <1>3, GoesTo
<1>7. ~Relogin(d) /\ ~Register(d) /\ ~Subscribe(d) /\ ~SetOnline(d) /\ ~FetchOffline(d) /\ ~QueryFriends(d)
  BY <1>6 DEF Relogin, Register, Subscribe, SetOnline, FetchOffline, QueryFriends, LoginLabels
<1>8. ~Ack(d)
  <2>1. Ack(d) => Goto(d, "remove") \/ Goto(d, "notify")
    BY DEF Ack
  <2> QED  BY <1>6, <2>1 DEF LoginLabels
<1>9. ~RemoveOffline(d) /\ ~Unsubscribe(d) /\ ~SetOffline(d)
  BY <1>6 DEF RemoveOffline, Unsubscribe, SetOffline, LeaveLabels
<1>10. ~Untrack(d)
  <2>1. Untrack(d) => Goto(d, "setOffline")
    BY <1>4 DEF Untrack, LoginLabels, LeaveLabels
  <2> QED  BY <1>6, <2>1 DEF LeaveLabels
<1>11. ~CloseErase(d) /\ ~SendNear(d) /\ ~LookUp(d) /\ ~StoreOffline(d) /\ ~Publish(d) /\ ~Return(d) /\ ~ClientStep(d)
  BY <1>4 DEF CloseErase, SendNear, LookUp, StoreOffline, Publish, Return, ClientStep, Login, Logout, PeerClose,
     Heartbeat, OneChat, GroupChat, Send, Receive, LoginLabels, LeaveLabels
<1> QED  BY <1>5, <1>7, <1>8, <1>9, <1>10, <1>11 DEF HandlerStep

(* A client begins to show what it is sent with its LOGIN_MSG_ACK *)
LEMMA ViewerAcks ==
  ASSUME SessionInv, DataTypes, Next, NEW c \in Conns, Shows(c)', ~Shows(c)
  PROVE  Ack(c)
<1>1. link'[c] = "open" => link[c] = "open"
  <2>1. ASSUME NEW e \in Conns, HandlerStep(e) \/ ClientStep(e), e # c PROVE link'[c] = "open" => link[c] = "open"
    BY <2>1, HandlerElsewhere, ClientElsewhere DEF Elsewhere
  <2>2. ASSUME HandlerStep(c) \/ ClientStep(c), ~Relogin(c), ~PeerClose(c) PROVE link' = link
    BY <2>2 DEF HandlerStep, ClientStep, Register, Subscribe, SetOnline, FetchOffline, QueryFriends, Ack, RemoveOffline,
       CloseErase, Unsubscribe, Untrack, SetOffline, NotifyFriendState, SendNear, LookUp, StoreOffline, Publish,
       Return, Login, Logout, Heartbeat, OneChat, GroupChat, net
  <2>3. ASSUME Relogin(c) \/ PeerClose(c) PROVE link'[c] = "open" => link[c] = "open"
    BY <2>3 DEF Relogin, PeerClose, SessionInv, CoreTypes
  <2>4. ASSUME NEW e \in Conns, HeartbeatTimeout(e) PROVE link'[c] = "open" => link[c] = "open"
    BY <2>4 DEF HeartbeatTimeout, SessionInv, CoreTypes
  <2>5. ASSUME NEW s \in Servers, ServerStep(s) PROVE link' = link
    BY <2>5 DEF ServerStep, RedisSubscription, ObserverLookUp, ObserverForward, net
  <2> QED  BY <2>1, <2>2, <2>3, <2>4, <2>5 DEF Next
<1>2. client'[c] = "in" /\ client[c] # "in"
  BY <1>1 DEF Shows
<1>3. HandlerStep(c) \/ ClientStep(c)
  BY <1>2, Rests
<1>4. ~Login(c) /\ ~Logout(c)
  BY <1>2 DEF Login, Logout, SessionInv, CoreTypes
<1> QED  BY <1>2, <1>3, <1>4 DEF HandlerStep, ClientStep, Relogin, Register, Subscribe, SetOnline, FetchOffline,
            QueryFriends, RemoveOffline, CloseErase, Unsubscribe, Untrack, SetOffline, NotifyFriendState, SendNear,
            LookUp, StoreOffline, Publish, Return, PeerClose, Heartbeat, OneChat, GroupChat, net

(* What will be shown, when the queues and the view stay as they are *)
LEMMA SameComing ==
  ASSUME NEW c \in Conns, NEW u,
         view'[c][u] = view[c][u],
         \A x : Newest(bus'[ServerOf[c]], u, UserOf[c], x) <=> Newest(bus[ServerOf[c]], u, UserOf[c], x),
         Waiting(bus'[ServerOf[c]], u, UserOf[c]) <=> Waiting(bus[ServerOf[c]], u, UserOf[c]),
         obs'[ServerOf[c]] = obs[ServerOf[c]]
  PROVE  \A x : Coming(c, u, x)' <=> Coming(c, u, x)
<1> DEFINE s == ServerOf[c]
           v == UserOf[c]
<1>1. InObs(s, u, v)' <=> InObs(s, u, v)
  BY DEF InObs, About, NoticeOf
<1>2. Waiting(bus[s], u, v)' <=> Waiting(bus'[s], u, v)
  BY DEF Waiting, About, NoticeOf
<1>3. \A x : Newest(bus[s], u, v, x)' <=> Newest(bus'[s], u, v, x)
  BY DEF Newest, About, NoticeOf
<1> QED  BY <1>1, <1>2, <1>3 DEF Coming

(* ... and nobody begins or ends to tell *)
LEMMA SameCurrent ==
  ASSUME NEW c \in Conns, NEW u, Current(c, u), state'[u] = state[u],
         \A d \in ConnsOf(u) : /\ Telling(d, c)' <=> Telling(d, c)
                               /\ Telling(d, c) => payload'[d] = payload[d],
         \A x : Coming(c, u, x)' <=> Coming(c, u, x)
  PROVE  Current(c, u)'
<1>1. PICK x : x = state[u]
  OBVIOUS
<1>2. CASE \E d \in ConnsOf(u) : Telling(d, c) /\ payload[d].is = state[u]
  BY <1>2 DEF Current, ConnsOf
<1>3. CASE (\A d \in ConnsOf(u) : ~Telling(d, c)) /\ Coming(c, u, state[u])
  <2>1. Coming(c, u, x)'
    BY <1>1, <1>3
  <2>2. Coming(c, u, state[u])'
    BY <1>1, <2>1 DEF Coming
  <2> QED  BY <1>3, <2>2 DEF Current, ConnsOf
<1> QED  BY <1>2, <1>3 DEF Current

(* A viewer who is up to date, while nothing changes the friend's state *)
UpToDate(c, u) ==
    Viewing(c, u) /\ Shows(c) /\ ~Busy(u) /\ Current(c, u) /\ state'[u] = state[u]

(* The facts about it *)
LEMMA UpToDateFacts ==
  ASSUME NEW c \in Conns, NEW u \in Users, UpToDate(c, u)
  PROVE  /\ SessionInv /\ RedisTypes /\ DataTypes /\ ~Blurring(c, u)
         /\ (\A d \in Conns : Holds(d)) /\ (\A s \in Servers : Found(s))
         /\ Registered(c) = c /\ Current(c, u) /\ state'[u] = state[u]
         /\ ServerOf[c] \in Servers /\ UserOf[c] \in Users /\ c \in ConnsOf(UserOf[c])
         /\ u # UserOf[c] /\ NoJob \notin Notices /\ NoConn \notin Conns
         /\ Ways(UserOf[c]) /\ Recorded(UserOf[c])
         /\ (InObs(ServerOf[c], u, UserOf[c]) => obs[ServerOf[c]].conn = userConnMap[ServerOf[c]][UserOf[c]])
<1>1. ServerOf[c] \in Servers /\ UserOf[c] \in Users /\ c \in ConnsOf(UserOf[c]) /\ NoConn \notin Conns
  BY Own
<1>2. u # UserOf[c]
  BY <1>1, ChatAssumption DEF UpToDate, Viewing
<1>3. NoJob \notin Notices
  BY MessageAssumption DEF Payloads
<1>4. Registered(c) = c
  BY <1>1 DEF UpToDate, Viewing, Shown
<1> QED  BY <1>1, <1>2, <1>3, <1>4 DEF UpToDate, Viewing, WorkInv, Follows

(* Steps that have nothing to do with the notices *)
LEMMA AsideCurrent ==
  ASSUME NEW c \in Conns, NEW u \in Users, UpToDate(c, u), NEW d \in Conns,
         \/ SessionStep(d) \/ FetchOffline(d) \/ QueryFriends(d) \/ Ack(d) \/ RemoveOffline(d)
         \/ NotifyFriendState(d) \/ LookUp(d) \/ StoreOffline(d) \/ Return(d)
         \/ \E m \in Msgs : OneChat(d, m) \/ GroupChat(d, m)
  PROVE  Current(c, u)'
<1>0. /\ DataTypes /\ (\A e \in Conns : Holds(e)) /\ Current(c, u) /\ state'[u] = state[u] /\ NoJob \notin Notices
      /\ Shows(c)
  BY UpToDateFacts DEF UpToDate
<1>1. bus' = bus /\ obs' = obs
  BY SessionCarries DEF carried, FetchOffline, QueryFriends, Ack, RemoveOffline, NotifyFriendState, LookUp,
     StoreOffline, Return, OneChat, GroupChat, redis
<1>2. view'[c][u] = view[c][u]
  <2>1. CASE Ack(d)
    <3>1. d # c
      BY <1>0, <2>1 DEF Ack, Holds, Shows, LoginLabels
    <3> QED  BY <1>0, <2>1, <3>1 DEF Ack, DataTypes
  <2>2. CASE ~Ack(d)
    BY <2>2, SessionCarries DEF carried, FetchOffline, QueryFriends, RemoveOffline, NotifyFriendState, LookUp,
       StoreOffline, Return, OneChat, GroupChat, net
  <2> QED  BY <2>1, <2>2
<1>3. \A x : Coming(c, u, x)' <=> Coming(c, u, x)
  BY <1>1, <1>2, SameComing
<1>4. ASSUME NEW e \in ConnsOf(u)
      PROVE  (Telling(e, c)' <=> Telling(e, c)) /\ (Telling(e, c) => payload'[e] = payload[e])
  <2>0. e \in Conns /\ UserOf[e] = u
    BY DEF ConnsOf
  <2>1. CASE UNCHANGED <<payload, near, far>>
    BY <2>1 DEF Telling
  <2>2. CASE NotifyFriendState(d)
    <3>1. d # e
      BY <2>2 DEF NotifyFriendState, UpToDate, Busy
    <3>2. payload'[e] = payload[e] /\ near'[e] = near[e] /\ far'[e] = far[e]
      BY <1>0, <2>0, <2>2, <3>1 DEF NotifyFriendState, DataTypes
    <3> QED  BY <3>2 DEF Telling
  <2>3. CASE LookUp(d)
    <3>1. payload' = payload /\ near' = near /\ \A f \in Conns : f # d => far'[f] = far[f]
      BY <1>0, <2>3 DEF LookUp, DataTypes
    <3>2. payload[d] \notin Notices
      BY <1>0, <2>3, MessageAssumption DEF LookUp, Holds
    <3> QED  BY <2>0, <3>1, <3>2 DEF Telling
  <2>4. CASE Return(d)
    <3>1. /\ near' = near /\ far' = far /\ near[d] = {} /\ far[d] = {}
          /\ \A f \in Conns : f # d => payload'[f] = payload[f]
      BY <1>0, <2>4 DEF Return, DataTypes
    <3> QED  BY <2>0, <3>1 DEF Telling
  <2>5. CASE \E m \in Msgs : OneChat(d, m) \/ GroupChat(d, m)
    <3>1. PICK m \in Msgs : OneChat(d, m) \/ GroupChat(d, m)
      BY <2>5
    <3>2. /\ pc[d] = "idle" /\ payload' = [payload EXCEPT ![d] = m] /\ far' = far
          /\ \A f \in Conns : f # d => near'[f] = near[f]
      BY <1>0, <3>1 DEF OneChat, GroupChat, Send, Receive, DataTypes
    <3>3. payload[d] = NoJob /\ payload'[d] \notin Notices
      BY <1>0, <3>2, MessageAssumption DEF Holds, DataTypes
    <3>4. \A f \in Conns : f # d => payload'[f] = payload[f]
      BY <1>0, <3>2 DEF DataTypes
    <3> QED  BY <1>0, <2>0, <3>2, <3>3, <3>4 DEF Telling
  <2>6. UNCHANGED <<payload, near, far>> \/ NotifyFriendState(d) \/ LookUp(d) \/ Return(d)
           \/ \E m \in Msgs : OneChat(d, m) \/ GroupChat(d, m)
    BY SessionCarries DEF carried, locals, routing, FetchOffline, QueryFriends, Ack, RemoveOffline, StoreOffline
  <2> QED  BY <2>1, <2>2, <2>3, <2>4, <2>5, <2>6
<1> QED  BY <1>0, <1>3, <1>4, SameCurrent

(* Who is to be told of a friend is told by a handler that notifies *)
LEMMA TellingNotifies ==
  ASSUME NEW c \in Conns, NEW d \in Conns, Holds(d), payload[d] \in Notices
  PROVE  Notifying(d) /\ pc[d] = "send" /\ payload[d] \notin Msgs /\ payload[d].of = UserOf[d]
BY MessageAssumption DEF Holds, Notifying, Payloads

(* One handler tells *)
LEMMA OneTells ==
  ASSUME NEW c \in Conns, NEW u \in Users, UpToDate(c, u), NEW d \in ConnsOf(u), payload[d] \in Notices
  PROVE  /\ Notifying(d) /\ Steady(UserOf[c])
         /\ \A e \in ConnsOf(u) : Telling(e, c) => e = d
         /\ Telling(d, c) => payload[d].is = state[u]
<1>0. ~Blurring(c, u) /\ (\A e \in Conns : Holds(e)) /\ Current(c, u)
  BY UpToDateFacts
<1>1. \A e \in ConnsOf(u) : payload[e] \in Notices => Notifying(e)
  BY <1>0, TellingNotifies DEF ConnsOf
<1>2. \A e \in ConnsOf(u) : Telling(e, c) => e = d
  BY <1>0, <1>1, Unblurred DEF Telling
<1>3. Steady(UserOf[c])
  BY <1>0, <1>1, Unblurred DEF NoticePending
<1> QED  BY <1>0, <1>1, <1>2, <1>3 DEF Current

(* A handler sends to a friend who is registered here *)
LEMMA SendNearCurrent ==
  ASSUME NEW c \in Conns, NEW u \in Users, UpToDate(c, u), NEW d \in Conns, SendNear(d)
  PROVE  Current(c, u)'
<1>0. /\ DataTypes /\ Holds(d) /\ Current(c, u) /\ state'[u] = state[u] /\ NoJob \notin Notices
      /\ Shows(c) /\ ~Blurring(c, u) /\ ServerOf[c] \in Servers
  BY UpToDateFacts DEF UpToDate
<1>1. PICK e \in near[d] : Deliver(e, payload[d]) /\ near' = [near EXCEPT ![d] = @ \ {e}]
  BY DEF SendNear
<1>2. /\ bus' = bus /\ obs' = obs /\ payload' = payload /\ far' = far /\ pc[d] = "send" /\ e \in Conns
      /\ (\A f \in Conns : f # d => near'[f] = near[f]) /\ near'[d] = near[d] \ {e}
      /\ payload[d] \in Msgs \cup Notices
  BY <1>0, <1>1 DEF SendNear, redis, DataTypes, Holds, Payloads
<1>3. CASE payload[d] \in Notices /\ UserOf[d] = u /\ e = c
  <2>0. /\ payload[d] \notin Msgs /\ payload[d].of = u /\ Notifying(d) /\ d \in ConnsOf(u)
    BY <1>0, <1>3, TellingNotifies DEF ConnsOf
  <2>1. Telling(d, c)
    BY <1>1, <1>3 DEF Telling
  <2>2. payload[d].is = state[u] /\ \A f \in ConnsOf(u) : Telling(f, c) => f = d
    BY <1>3, <2>0, <2>1, OneTells
  <2>3. view'[c][u] = state[u]
    BY <1>0, <1>1, <1>3, <2>0, <2>2 DEF Deliver, DataTypes
  <2>4. ~Waiting(bus[ServerOf[c]], u, UserOf[c]) /\ ~InObs(ServerOf[c], u, UserOf[c])
    <3>1. ~NoticeAt(ServerOf[c], u)
      BY <1>0, <1>1, <1>3, <2>0, Unblurred
    <3> QED  BY <1>0, <3>1, NoticeSeen
  <2>5. CASE UserOf[c] \in far[d]
    <3>1. Telling(d, c)' /\ payload'[d].is = state'[u]
      BY <1>0, <1>2, <1>3, <2>2, <2>5 DEF Telling
    <3> QED  BY <2>0, <3>1 DEF Current, ConnsOf
  <2>6. CASE UserOf[c] \notin far[d]
    <3>1. \A f \in ConnsOf(u) : ~Telling(f, c)'
      BY <1>2, <1>3, <2>2, <2>6 DEF Telling, ConnsOf
    <3>2. Coming(c, u, state[u])'
      BY <1>0, <1>2, <2>3, <2>4 DEF Coming, Waiting, InObs, About, NoticeOf
    <3> QED  BY <3>1, <3>2 DEF Current, ConnsOf
  <2> QED  BY <2>5, <2>6
<1>4. CASE ~(payload[d] \in Notices /\ UserOf[d] = u /\ e = c)
  <2>1. view'[c][u] = view[c][u]
    <3>1. CASE payload[d] \in Msgs
      BY <1>1, <3>1 DEF Deliver
    <3>2. CASE payload[d] \in Notices
      <4>1. payload[d].of = UserOf[d] /\ payload[d].of \in Users
        BY <1>0, <3>2 DEF Holds, Notices
      <4> QED  BY <1>0, <1>1, <1>2, <1>4, <3>2, <4>1 DEF Deliver, DataTypes
    <3> QED  BY <1>2, <3>1, <3>2
  <2>2. \A x : Coming(c, u, x)' <=> Coming(c, u, x)
    BY <1>2, <2>1, SameComing
  <2>3. ASSUME NEW f \in ConnsOf(u)
        PROVE  (Telling(f, c)' <=> Telling(f, c)) /\ (Telling(f, c) => payload'[f] = payload[f])
    BY <1>2, <1>4, <2>3 DEF Telling, ConnsOf
  <2> QED  BY <1>0, <2>2, <2>3, SameCurrent
<1> QED  BY <1>3, <1>4

(* A handler publishes to a friend who is not *)
LEMMA PublishCurrent ==
  ASSUME NEW c \in Conns, NEW u \in Users, UpToDate(c, u), NEW d \in Conns, Publish(d)
  PROVE  Current(c, u)'
<1> DEFINE s == ServerOf[c]
           v == UserOf[c]
           E == [to : Users, what : Payloads]
<1>0. /\ DataTypes /\ Holds(d) /\ Current(c, u) /\ state'[u] = state[u] /\ NoJob \notin Notices
      /\ Registered(c) = c /\ s \in Servers /\ v \in Users /\ NoConn \notin Conns
      /\ SessionInv /\ RedisTypes /\ Ways(v) /\ Recorded(v)
  BY UpToDateFacts
<1>1. PICK w \in far[d] : /\ far' = [far EXCEPT ![d] = @ \ {w}]
                          /\ bus' = [r \in Servers |-> IF w \in subs[r]
                                                       THEN Append(bus[r], [to |-> w, what |-> payload[d]]) ELSE bus[r]]
  BY DEF Publish
<1>2. /\ view' = view /\ obs' = obs /\ payload' = payload /\ near' = near /\ near[d] = {} /\ pc[d] = "send"
      /\ (\A f \in Conns : f # d => far'[f] = far[f]) /\ far'[d] = far[d] \ {w}
      /\ payload[d] \in Payloads /\ w \in Users
  BY <1>0, <1>1 DEF Publish, net, DataTypes, Holds
<1>3. PICK e : e = [to |-> w, what |-> payload[d]]
  OBVIOUS
<1>4. e \in E /\ e.to = w /\ e.what = payload[d] /\ bus[s] \in Seq(E)
  BY <1>0, <1>2, <1>3 DEF DataTypes
<1>5. bus'[s] = IF w \in subs[s] THEN Append(bus[s], e) ELSE bus[s]
  BY <1>0, <1>1, <1>3
<1> HIDE DEF E
<1>6. CASE payload[d] \in Notices /\ UserOf[d] = u /\ w = v
  <2>0. d \in ConnsOf(u) /\ payload[d].of = u
    BY <1>0, <1>6, TellingNotifies DEF ConnsOf
  <2>1. Telling(d, c)
    BY <1>1, <1>6 DEF Telling
  <2>2. payload[d].is = state[u] /\ Steady(v) /\ \A f \in ConnsOf(u) : Telling(f, c) => f = d
    BY <1>6, <2>0, <2>1, OneTells
  <2>3. v \in subs[s]
    <3>1. Settled(v)
      BY <2>2 DEF Steady
    <3>2. {r \in Servers : v \in subs[r]} = Homes(v)
      BY <1>0, <3>1, Agreed
    <3>3. s \in Homes(v)
      BY <1>0 DEF Homes, Registered
    <3> QED  BY <3>2, <3>3
  <2>4. About(e, u, v)
    BY <1>4, <1>6, <2>0 DEF About, NoticeOf
  <2>5. Newest(bus'[s], u, v, state[u])
    BY <1>4, <1>5, <1>6, <2>2, <2>3, <2>4, NewestAppend
  <2>6. Coming(c, u, state[u])'
    <3>1. Newest(bus[s], u, v, state[u])'
      BY <1>0, <2>5 DEF Newest, About, NoticeOf
    <3> QED  BY <3>1 DEF Coming
  <2>7. \A f \in ConnsOf(u) : ~Telling(f, c)'
    BY <1>2, <1>6, <2>2 DEF Telling, ConnsOf
  <2> QED  BY <2>6, <2>7 DEF Current, ConnsOf
<1>7. CASE ~(payload[d] \in Notices /\ UserOf[d] = u /\ w = v)
  <2>1. ~About(e, u, v)
    BY <1>0, <1>4, <1>7 DEF About, NoticeOf, Holds
  <2>2. /\ \A x : Newest(bus'[s], u, v, x) <=> Newest(bus[s], u, v, x)
        /\ Waiting(bus'[s], u, v) <=> Waiting(bus[s], u, v)
    BY <1>4, <1>5, <2>1, NewestAppend
  <2>3. \A x : Coming(c, u, x)' <=> Coming(c, u, x)
    BY <1>2, <2>2, SameComing
  <2>4. ASSUME NEW f \in ConnsOf(u)
        PROVE  (Telling(f, c)' <=> Telling(f, c)) /\ (Telling(f, c) => payload'[f] = payload[f])
    BY <1>2, <1>7, <2>4 DEF Telling, ConnsOf
  <2> QED  BY <1>0, <2>3, <2>4, SameCurrent
<1> QED  BY <1>6, <1>7

(* The observer of a server takes what waits first *)
LEMMA ObserverLookUpCurrent ==
  ASSUME NEW c \in Conns, NEW u \in Users, UpToDate(c, u), NEW r \in Servers, ObserverLookUp(r)
  PROVE  Current(c, u)'
<1> DEFINE s == ServerOf[c]
           v == UserOf[c]
           E == [to : Users, what : Payloads]
<1>0. DataTypes /\ Current(c, u) /\ state'[u] = state[u] /\ s \in Servers
  BY UpToDateFacts
<1>1. view' = view /\ payload' = payload /\ near' = near /\ far' = far
  BY DEF ObserverLookUp, net, locals, routing
<1>2. \A x : Coming(c, u, x)' <=> Coming(c, u, x)
  <2>1. CASE r # s
    <3>1. bus'[s] = bus[s] /\ obs'[s] = obs[s]
      BY <1>0, <2>1 DEF ObserverLookUp, DataTypes
    <3> QED  BY <1>1, <3>1, SameComing
  <2>2. CASE r = s
    <3>1. bus[s] # <<>> /\ obs[s] = NoJob /\ bus'[s] = Tail(bus[s])
      BY <1>0, <2>2 DEF ObserverLookUp, DataTypes
    <3>2. PICK e : e = Head(bus[s])
      OBVIOUS
    <3>3. obs'[s] = [to |-> e.to, what |-> e.what, conn |-> userConnMap[s][e.to]]
      BY <1>0, <2>2, <3>2 DEF ObserverLookUp, DataTypes
    <3>4. obs'[s] # NoJob /\ obs'[s].to = e.to /\ obs'[s].what = e.what
      <4>1. obs'[s] # NoJob
        <5>1. bus[s] \in Seq(E)
          BY <1>0 DEF DataTypes
        <5> HIDE DEF E
        <5>2. e \in E
          BY <3>1, <3>2, <5>1
        <5>3. e.to \in Users /\ e.what \in Payloads
          BY <5>2 DEF E
        <5>4. userConnMap[s][e.to] \in Conns \cup {NoConn}
          BY <1>0, <5>3 DEF UpToDate, Viewing, SessionInv, CoreTypes
        <5> QED  BY <3>3, <5>3, <5>4, MessageAssumption DEF Jobs
      <4> QED  BY <3>3, <4>1
    <3>5. /\ Waiting(bus[s], u, v) <=> About(e, u, v) \/ Waiting(bus'[s], u, v)
          /\ \A x : Newest(bus[s], u, v, x) <=>
                \/ Newest(bus'[s], u, v, x)
                \/ ~Waiting(bus'[s], u, v) /\ About(e, u, v) /\ e.what.is = x
      <4>1. bus[s] \in Seq(E)
        BY <1>0 DEF DataTypes
      <4> HIDE DEF E
      <4>2. PICK q \in Seq(E) : q = bus[s]
        BY <4>1
      <4>3. q # <<>> /\ bus'[s] = Tail(q) /\ e = Head(q)
        BY <3>1, <3>2, <4>2
      <4>4. /\ Waiting(q, u, v) <=> About(e, u, v) \/ Waiting(Tail(q), u, v)
            /\ \A x : Newest(q, u, v, x) <=>
                  \/ Newest(Tail(q), u, v, x)
                  \/ ~Waiting(Tail(q), u, v) /\ About(e, u, v) /\ e.what.is = x
        BY <4>3, NewestTail
      <4> QED  BY <4>2, <4>3, <4>4
    <3>6. /\ InObs(s, u, v)' <=> About(e, u, v)
          /\ ~InObs(s, u, v)
      BY <3>1, <3>4 DEF InObs, About, NoticeOf
    <3>7. Waiting(bus[s], u, v)' <=> Waiting(bus'[s], u, v)
      BY DEF Waiting, About, NoticeOf
    <3>8. \A x : Newest(bus[s], u, v, x)' <=> Newest(bus'[s], u, v, x)
      BY DEF Newest, About, NoticeOf
    <3> QED  BY <1>1, <3>4, <3>5, <3>6, <3>7, <3>8 DEF Coming
  <2> QED  BY <2>1, <2>2
<1>3. ASSUME NEW f \in ConnsOf(u)
      PROVE  (Telling(f, c)' <=> Telling(f, c)) /\ (Telling(f, c) => payload'[f] = payload[f])
  BY <1>1 DEF Telling
<1> QED  BY <1>0, <1>2, <1>3, SameCurrent

(* ... and sends it on *)
LEMMA ObserverForwardCurrent ==
  ASSUME NEW c \in Conns, NEW u \in Users, UpToDate(c, u), NEW r \in Servers, ObserverForward(r)
  PROVE  Current(c, u)'
<1> DEFINE s == ServerOf[c]
           v == UserOf[c]
<1>0. /\ DataTypes /\ Current(c, u) /\ state'[u] = state[u] /\ s \in Servers /\ Registered(c) = c /\ Shows(c)
      /\ NoConn \notin Conns /\ Found(r)
      /\ (InObs(s, u, v) => obs[s].conn = userConnMap[s][v])
  BY UpToDateFacts DEF UpToDate
<1>1. bus' = bus /\ payload' = payload /\ near' = near /\ far' = far
  BY DEF ObserverForward, locals, routing
<1>2. /\ obs[r] # NoJob /\ obs' = [obs EXCEPT ![r] = NoJob]
      /\ \/ obs[r].conn # NoConn /\ Deliver(obs[r].conn, obs[r].what)
         \/ obs[r].conn = NoConn /\ view' = view
  BY DEF ObserverForward
<1>3. obs[r] \in Jobs
  BY <1>0, <1>2 DEF DataTypes
<1>4. obs[r].what \in Msgs \cup Notices
  BY <1>3 DEF Jobs, Payloads
<1>5. ASSUME ~(r = s /\ InObs(s, u, v)) PROVE view'[c][u] = view[c][u]
  <2>1. CASE obs[r].conn = c /\ obs[r].what \in Notices
    <3>1. r = s /\ obs[r].to = v
      BY <1>0, <1>2, <2>1 DEF Found
    <3>2. obs[r].what.of # u
      BY <1>2, <1>5, <2>1, <3>1 DEF InObs, About, NoticeOf
    <3>3. obs[r].what.of \in Users
      BY <2>1 DEF Notices
    <3> QED  BY <1>0, <1>2, <2>1, <3>2, <3>3 DEF Deliver, DataTypes
  <2>2. CASE obs[r].what \in Msgs
    BY <1>2, <2>2 DEF Deliver
  <2>3. CASE obs[r].conn # c
    BY <1>0, <1>2, <2>3 DEF Deliver, DataTypes
  <2> QED  BY <1>4, <2>1, <2>2, <2>3
<1>6. \A x : Coming(c, u, x)' <=> Coming(c, u, x)
  <2>1. CASE r # s
    <3>1. obs'[s] = obs[s] /\ view'[c][u] = view[c][u]
      BY <1>0, <1>2, <1>5, <2>1 DEF DataTypes
    <3> QED  BY <1>1, <3>1, SameComing
  <2>2. CASE r = s
    <3>1. obs'[s] = NoJob
      BY <1>0, <1>2, <2>2 DEF DataTypes
    <3>2. ~InObs(s, u, v)'
      BY <3>1 DEF InObs
    <3>3. Waiting(bus[s], u, v)' <=> Waiting(bus[s], u, v)
      BY <1>1 DEF Waiting, About, NoticeOf
    <3>4. \A x : Newest(bus[s], u, v, x)' <=> Newest(bus[s], u, v, x)
      BY <1>1 DEF Newest, About, NoticeOf
    <3>5. InObs(s, u, v) => view'[c][u] = obs[s].what.is
      <4>1. ASSUME InObs(s, u, v) PROVE view'[c][u] = obs[s].what.is
        <5>1. obs[s].conn = c /\ c # NoConn
          BY <1>0, <4>1 DEF Registered
        <5>2. obs[s].what \notin Msgs /\ obs[s].what.of = u
          BY <4>1, MessageAssumption DEF InObs, About, NoticeOf
        <5> QED  BY <1>0, <1>2, <2>2, <5>1, <5>2 DEF Deliver, DataTypes
      <4> QED  BY <4>1
    <3>6. ~InObs(s, u, v) => view'[c][u] = view[c][u]
      BY <1>5
    <3> QED  BY <3>2, <3>3, <3>4, <3>5, <3>6 DEF Coming
  <2> QED  BY <2>1, <2>2
<1>7. ASSUME NEW f \in ConnsOf(u)
      PROVE  (Telling(f, c)' <=> Telling(f, c)) /\ (Telling(f, c) => payload'[f] = payload[f])
  BY <1>1 DEF Telling
<1> QED  BY <1>0, <1>6, <1>7, SameCurrent

(* Whatever happens meanwhile, a viewer stays up to date *)
LEMMA KeptCurrent ==
  ASSUME NEW c \in Conns, NEW u \in Users, UpToDate(c, u), Next
  PROVE  Current(c, u)'
<1>1. ASSUME NEW s \in Servers, RedisSubscription(s) PROVE Current(c, u)'
  <2>1. UNCHANGED <<view, bus, obs, payload, near, far>>
    BY <1>1 DEF RedisSubscription, net, locals, routing
  <2>2. \A x : Coming(c, u, x)' <=> Coming(c, u, x)
    BY <2>1, SameComing
  <2>3. ASSUME NEW f \in ConnsOf(u)
        PROVE  (Telling(f, c)' <=> Telling(f, c)) /\ (Telling(f, c) => payload'[f] = payload[f])
    BY <2>1 DEF Telling
  <2> QED  BY <2>2, <2>3, UpToDateFacts, SameCurrent
<1> QED  BY <1>1, StepCases, AsideCurrent, SendNearCurrent, PublishCurrent, ObserverLookUpCurrent,
            ObserverForwardCurrent

(* A viewer who has just logged in shows what the ACK brought *)
LEMMA AckCurrent ==
  ASSUME NEW c \in Conns, NEW u \in Users, Viewing(c, u), Next, Ack(c), Shows(c)'
  PROVE  Current(c, u)'
<1> DEFINE s == ServerOf[c]
           v == UserOf[c]
<1>0. /\ SessionInv /\ RedisTypes /\ DataTypes /\ ~Blurring(c, u) /\ (\A d \in Conns : Holds(d)) /\ s \in Servers
      /\ u \in Friends[v] /\ (pc[c] = "ack" => snap[c][u] = state[u])
  BY Own DEF Viewing, Follows, WorkInv
<1>1. pc[c] = "ack" /\ UNCHANGED <<state, bus, obs, payload, near, far, link>>
  BY DEF Ack, db, redis, locals, routing
<1>2. ~Steady(v)
  <2>1. Contending(c) /\ c \in ConnsOf(v)
    BY <1>1, Own DEF Contending, LoginLabels
  <2> QED  BY <2>1 DEF Steady, Settled
<1>3. ~NoticePending(u)
  BY <1>0, <1>2, Unblurred
<1>4. ~Waiting(bus[s], u, v) /\ ~InObs(s, u, v)
  BY <1>0, <1>3, NoticeSeen DEF NoticePending
<1>5. \A d \in ConnsOf(u) : ~Telling(d, c)
  BY <1>0, <1>3, TellingNotifies DEF NoticePending, Telling, ConnsOf
<1>6. view'[c][u] = state[u]
  BY <1>0, <1>1 DEF Ack, Shows, DataTypes
<1>7. \A d \in ConnsOf(u) : ~Telling(d, c)'
  BY <1>1, <1>5 DEF Telling
<1>8. Coming(c, u, state[u])'
  BY <1>1, <1>4, <1>6 DEF Coming, Waiting, InObs, About, NoticeOf
<1> QED  BY <1>7, <1>8 DEF Current, ConnsOf

(* A handler that begins to tell has the viewer among those it tells *)
LEMMA NotifyCurrent ==
  ASSUME NEW c \in Conns, NEW u \in Users, Viewing(c, u), NEW d \in ConnsOf(u), NotifyFriendState(d),
         Registered(c) = c, ~Untold(u)
  PROVE  Current(c, u)'
<1> DEFINE v == UserOf[c]
<1>0. /\ SessionInv /\ DataTypes /\ d \in Conns /\ UserOf[d] = u /\ v \in Users /\ ServerOf[d] \in Servers
      /\ ServerOf[c] \in Servers /\ NoConn \notin Conns /\ ~Racing(v)
      /\ (pc[d] = "notify" => News(d).is = state[u]) /\ u \in Friends[v]
  BY Own DEF Viewing, Follows, WorkInv, ConnsOf, Ways
<1>1. v \in Friends[u]
  BY <1>0, ChatAssumption
<1>2. /\ pc[d] = "notify" /\ state' = state /\ payload'[d] = News(d)
      /\ near'[d] = {userConnMap[ServerOf[d]][w] : w \in Friends[u]} \ {NoConn}
      /\ far'[d] = {w \in Friends[u] : userConnMap[ServerOf[d]][w] = NoConn}
  <2>1. PICK friends \in {Friends[u], {}} :
          /\ near' = [near EXCEPT ![d] = {userConnMap[ServerOf[d]][w] : w \in friends} \ {NoConn}]
          /\ far' = [far EXCEPT ![d] = {w \in friends : userConnMap[ServerOf[d]][w] = NoConn}]
    BY <1>0 DEF NotifyFriendState
  <2>2. /\ pc[d] = "notify" /\ state' = state /\ payload'[d] = News(d) /\ pc'[d] = "send"
    BY <1>0, GoesTo DEF NotifyFriendState, DataTypes, db
  <2>3. friends = {} => near'[d] = {} /\ far'[d] = {}
    BY <1>0, <2>1 DEF DataTypes
  <2>4. friends = Friends[u]
    BY <2>2, <2>3 DEF Untold
  <2> QED  BY <1>0, <2>1, <2>2, <2>4 DEF DataTypes
<1>3. News(d) \in Notices
  BY <1>0 DEF News, Notice, Notices, States
<1>4. c \in near'[d] \/ v \in far'[d]
  <2>1. CASE userConnMap[ServerOf[d]][v] = NoConn
    BY <1>1, <1>2, <2>1
  <2>2. CASE userConnMap[ServerOf[d]][v] # NoConn
    <3>1. ServerOf[d] \in Homes(v) /\ ServerOf[c] \in Homes(v)
      BY <1>0, <2>2 DEF Homes, Registered
    <3>2. ServerOf[d] = ServerOf[c]
      BY <1>0, <3>1, OneHome
    <3>3. userConnMap[ServerOf[d]][v] = c
      BY <3>2 DEF Registered
    <3> QED  BY <1>0, <1>1, <1>2, <3>3
  <2> QED  BY <2>1, <2>2
<1>5. Telling(d, c)' /\ payload'[d].is = state'[u]
  BY <1>0, <1>2, <1>3, <1>4 DEF Telling
<1> QED  BY <1>5 DEF Current, ConnsOf

(* Every step keeps what a viewer is to know *)
LEMMA NextFollows ==
  ASSUME NEW c \in Conns, NEW u \in Users, Viewing(c, u), Next, ~Blurring(c, u)', Shown(UserOf[c])',
         ~Misread(c, u), ~Untold(u)
  PROVE  Follows(c, u)'
<1>0. /\ SessionInv /\ RedisTypes /\ DataTypes /\ Shown(UserOf[c]) /\ c \in ConnsOf(UserOf[c])
      /\ (Shows(c) /\ Registered(c) = c /\ ~Busy(u) => Current(c, u))
  BY Own DEF Viewing, Follows, WorkInv
<1>1. \A d \in ConnsOf(u) : pc'[d] = "notify" => News(d)'.is = state'[u]
  BY NewsNext
<1>2. pc'[c] = "ack" => snap'[c][u] = state'[u]
  BY SnapNext
<1>3. InObs(ServerOf[c], u, UserOf[c])' => obs'[ServerOf[c]].conn = userConnMap'[ServerOf[c]][UserOf[c]]
  BY ObsNext
<1>4. ASSUME Shows(c)', ~Busy(u)' PROVE Current(c, u)'
  <2>1. CASE ~Shows(c)
    BY <1>0, <1>4, <2>1, ViewerAcks, AckCurrent
  <2>2. CASE Shows(c) /\ Busy(u)
    <3>1. Registered(c) = c
      BY <1>0, <2>2 DEF Shown
    <3>2. PICK d \in ConnsOf(u) : NotifyFriendState(d)
      BY <1>0, <1>4, <2>2, BusyEnds
    <3> QED  BY <3>1, <3>2, NotifyCurrent
  <2>3. CASE Shows(c) /\ ~Busy(u)
    <3>1. state'[u] = state[u]
      <4>1. \A d \in ConnsOf(u) : ~SetOnline(d) /\ ~SetOffline(d)
        BY <2>3 DEF Busy, Contending, SetOnline, SetOffline, LoginLabels, LeaveLabels
      <4> QED  BY <1>0, <4>1, StateMoves
    <3>2. Current(c, u)
      BY <1>0, <2>3 DEF Shown
    <3> QED  BY <2>3, <3>1, <3>2, KeptCurrent DEF UpToDate
  <2> QED  BY <2>1, <2>2, <2>3
<1>5. \A d \in ConnsOf(u) : (pc[d] = "notify" => News(d).is = state[u])'
  BY <1>1
<1> QED  BY <1>1, <1>2, <1>3, <1>4 DEF Follows, ConnsOf

(* At the start nobody sees anything and nothing is under way *)
LEMMA InitView ==
  ASSUME HInit
  PROVE  ViewInv
<1>1. /\ Init /\ PresenceInv
  BY InitPresence DEF HInit
<1>2. /\ \A c \in Conns : pc[c] = "idle" /\ client[c] = "fresh" /\ link[c] = "open" /\ payload[c] = NoJob
      /\ \A s \in Servers : cmds[s] = <<>> /\ bus[s] = <<>> /\ obs[s] = NoJob /\ \A u \in Users : userConnMap[s][u] = NoConn
  BY <1>1 DEF Init
<1>3. ASSUME NEW c \in Conns PROVE ~Contending(c) /\ ~Notifying(c) /\ ~Shows(c) /\ Registered(c) # c
  BY <1>2, Own DEF Contending, Notifying, Shows, Registered, LoginLabels, LeaveLabels
<1>4. ASSUME NEW u \in Users PROVE Steady(u) /\ ~\E s \in Servers : NoticeAt(s, u)
  <2>1. ~CommandsPending(u)
    BY <1>2 DEF CommandsPending
  <2> QED  BY <1>2, <1>3, <2>1 DEF Steady, Settled, ConnsOf, NoticeAt
<1>5. ASSUME NEW c \in Conns, NEW u \in Users, Followed(c, u) PROVE Follows(c, u)
  <2>1. ~Blurring(c, u)
    BY <1>3, <1>4, Own DEF Blurring, ConnsOf
  <2>2. ~InObs(ServerOf[c], u, UserOf[c])
    BY <1>2, Own DEF InObs
  <2>3. \A d \in ConnsOf(u) : pc[d] # "notify"
    BY <1>2 DEF ConnsOf
  <2> QED  BY <1>2, <1>3, <2>1, <2>2, <2>3 DEF Follows
<1> QED  BY <1>5 DEF ViewInv

(* A step that changes nothing *)
LEMMA StutterFollows ==
  ASSUME NEW c \in Conns, NEW u \in Users, Follows(c, u), UNCHANGED hvars
  PROVE  Follows(c, u)'
<1> DEFINE s == ServerOf[c]
           v == UserOf[c]
<1>1. /\ UNCHANGED <<link, client, view, pc, userConnMap, state, cmds, bus, obs, snap, payload, near, far>>
  BY DEF hvars, vars, net, tables, db, redis, locals, routing
<1>2. /\ \A w : (Steady(w)' <=> Steady(w)) /\ (Settled(w)' <=> Settled(w)) /\ (NoticePending(w)' <=> NoticePending(w))
      /\ \A d : (Contending(d)' <=> Contending(d)) /\ (Notifying(d)' <=> Notifying(d))
      /\ NoticeAt(s, u)' <=> NoticeAt(s, u)
  BY <1>1 DEF Steady, Settled, CommandsPending, Contending, Registered, ConnsOf, NoticePending, Notifying, NoticeAt
<1>3. ~Blurring(c, u)'
  BY <1>1, <1>2 DEF Follows, Blurring, ConnsOf
<1>4. InObs(s, u, v)' <=> InObs(s, u, v)
  BY <1>1 DEF InObs, About, NoticeOf
<1>5. \A x : Coming(c, u, x)' <=> Coming(c, u, x)
  BY <1>1, SameComing
<1>6. \A d \in ConnsOf(u) : (Telling(d, c)' <=> Telling(d, c)) /\ payload'[d] = payload[d]
  BY <1>1 DEF Telling
<1>7. Current(c, u) => Current(c, u)'
  BY <1>1, <1>5, <1>6, SameCurrent
<1>8. (Busy(u)' <=> Busy(u)) /\ (Shows(c)' <=> Shows(c)) /\ (Registered(c)' = Registered(c))
  BY <1>1, <1>2 DEF Busy, Shows, Registered, ConnsOf
<1>9. \A d : News(d)'.is = News(d).is
  BY <1>1 DEF News, Notice
<1> QED  BY <1>1, <1>3, <1>4, <1>7, <1>8, <1>9 DEF Follows, ConnsOf

(* Every step keeps the views that are promised *)
LEMMA NextView ==
  ASSUME PresenceInv, PresenceInv', WorkInv, ViewInv, [HNext]_hvars
  PROVE  ViewInv'
<1> SUFFICES ASSUME NEW c \in Conns, NEW u \in Users, Followed(c, u)' PROVE Follows(c, u)'
  BY DEF ViewInv
<1>0. UserOf[c] \in Users
  BY Own
<1>1. CASE HNext
  <2>1. /\ Next /\ u \in Friends[UserOf[c]] /\ u \notin raced' /\ UserOf[c] \notin raced'
        /\ u \notin raced /\ UserOf[c] \notin raced
        /\ <<c, u>> \notin blurred /\ <<c, u>> \notin blurred'
    <3>1. /\ Next /\ u \in Friends[UserOf[c]] /\ u \notin raced' /\ UserOf[c] \notin raced'
          /\ <<c, u>> \notin blurred'
      BY <1>1 DEF HNext, Followed
    <3>2. u \in Users
      BY <1>0, <3>1, ChatAssumption
    <3>3. raced \cap Users \subseteq raced' /\ blurred \cap (Conns \X Users) \subseteq blurred'
      BY <1>1 DEF HNext, Record
    <3> QED  BY <1>0, <3>1, <3>2, <3>3
  <2>2. Viewing(c, u)
    BY <1>0, <2>1 DEF Followed, Viewing, ViewInv, PresenceInv
  <2>3. ~Blurring(c, u)' /\ ~Misread(c, u) /\ ~Untold(u)
    <3>1. \A d \in Conns \X Users :
             d[2] \in Friends[UserOf[d[1]]] /\ (Blurring(d[1], d[2])' \/ Misread(d[1], d[2]) \/ Untold(d[2]))
                => d \in blurred'
      BY <1>1 DEF HNext, Record
    <3>2. <<c, u>> \in Conns \X Users /\ <<c, u>>[1] = c /\ <<c, u>>[2] = u
      OBVIOUS
    <3> QED  BY <2>1, <3>1, <3>2
  <2>4. Shown(UserOf[c])'
    BY <1>0, <2>1 DEF PresenceInv
  <2> QED  BY <2>1, <2>2, <2>3, <2>4, NextFollows
<1>2. CASE UNCHANGED hvars
  <2>1. Follows(c, u)
    BY <1>2 DEF hvars, Followed, ViewInv
  <2> QED  BY <1>2, <2>1, StutterFollows
<1> QED  BY <1>1, <1>2

(* Wherever login, loginout, notifyFriendState and the observers stand:    *)
(* for each friend, the last notice that is still to reach a viewer says   *)
(* the recorded state, or, if there is none, the view does.                *)
THEOREM ViewInvariant == HSpec => []ViewInv
<1>1. HInit => ViewInv
  BY InitView
<1>2. PresenceInv /\ PresenceInv' /\ WorkInv /\ ViewInv /\ [HNext]_hvars => ViewInv'
  BY NextView
<1> QED  BY <1>1, <1>2, PresenceInvariant, WorkInvariant, PTL DEF HSpec

(* Friend-state notices, sent here directly or through Redis and the       *)
(* observer of another server, come through in the order of the events: a  *)
(* logged-in client shows the recorded state of each friend when no notice *)
(* is under way (chatservice.cpp), unless the history says that something  *)
(* about the friend met a login of the viewer, another handler of the      *)
(* friend, an older notice that it overtook, or a failed query of friends. *)
THEOREM FriendViews == HSpec => []FriendViewCurrent
<1>1. TypeOK /\ PresenceInv /\ WorkInv /\ ViewInv => FriendViewCurrent
  <2> SUFFICES ASSUME PresenceInv, WorkInv, ViewInv, NEW c \in Conns, NEW u \in Friends[UserOf[c]],
                      Shows(c), Registered(c) = c, Settled(u), ~NoticePending(u),
                      {u, UserOf[c]} \cap raced = {}, <<c, u>> \notin blurred
               PROVE  view[c][u] = state[u]
    BY DEF FriendViewCurrent
  <2>1. u \in Users /\ UserOf[c] \in Users /\ ServerOf[c] \in Servers
    BY ChatAssumption
  <2>2. Follows(c, u)
    BY <2>1 DEF ViewInv, Followed
  <2>3. ~Busy(u)
    BY DEF Busy, Settled, NoticePending, Notifying
  <2>4. Current(c, u)
    BY <2>2, <2>3 DEF Follows
  <2>5. \A d \in ConnsOf(u) : ~Telling(d, c)
    BY TellingNotifies DEF WorkInv, NoticePending, Telling, ConnsOf
  <2>6. ~Waiting(bus[ServerOf[c]], u, UserOf[c]) /\ ~InObs(ServerOf[c], u, UserOf[c])
    BY <2>1, NoticeSeen DEF NoticePending
  <2>7. Coming(c, u, state[u])
    BY <2>4, <2>5 DEF Current
  <2> QED  BY <2>6, <2>7 DEF Coming, Newest, Waiting
<1> QED  BY <1>1, ServiceTypes, PresenceInvariant, WorkInvariant, ViewInvariant, PTL
=============================================================================
