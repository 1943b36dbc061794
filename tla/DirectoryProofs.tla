-------------------------- MODULE DirectoryProofs --------------------------
(***************************************************************************)
(* Proofs about registration, friends, groups and renaming: for any        *)
(* clients, names and pooled connections, however their statements         *)
(* interleave and fail.                                                    *)
(***************************************************************************)
EXTENDS Directory, TLAPS

Handlers == [pc : PCs, arg : Names \cup Nat, conn : Conns \cup {NoOne}, seen : SUBSET Nat]

Row == [name : Names, by : Clients]
GroupRow == [by : Clients]
MemberRow == [group : Nat, user : Nat, role : {"creator", "normal"}]

Types ==
    /\ user \in Seq(Row) /\ group \in Seq(GroupRow)
    /\ friend \in SUBSET (Nat \X Nat) /\ groupUser \in SUBSET MemberRow
    /\ holder \in [Conns -> Clients \cup {NoOne}] /\ insertId \in [Conns -> Nat]
    /\ h \in [Clients -> Handlers] /\ me \in [Clients -> Nat]
    /\ shown \in [Clients -> [friends : SUBSET Int, groups : SUBSET Int]]
    /\ myName \in [Clients -> Names \cup {NoOne}] /\ asked \in [Clients -> Nat]
    /\ stale \in SUBSET Clients /\ late \in SUBSET (stale \X Names)

UserIds == 1..Len(user)
GroupIds == 1..Len(group)

(* Rows refer to rows *)
Dangling ==
    /\ \A p \in friend : p[1] \in UserIds /\ p[2] \in UserIds
    /\ \A r \in groupUser : r.group \in GroupIds /\ r.user \in UserIds

(* A connection is held exactly by who waits for a generated id *)
Waits(c) == At(c, "regid") \/ At(c, "createid")
Holding ==
    /\ \A k \in Conns : holder[k] # NoOne => Waits(holder[k]) /\ h[holder[k]].conn = k
    /\ \A c \in Clients : Waits(c) => h[c].conn \in Conns /\ holder[h[c].conn] = c

TheId(c) == insertId[h[c].conn]

(* A client has one account, or has just inserted it *)
OneAccount ==
    \A i \in UserIds : \/ me[user[i].by] = i
                       \/ /\ me[user[i].by] = 0 /\ At(user[i].by, "regid")
                          /\ TheId(user[i].by) = i

(* The window shows the stored name, or is about to *)
Named(c, n) == n = user[me[c]].name
NameShown(c) ==
    /\ At(c, "groups") \/ At(c, "renamed") => h[c].arg \in Names
    /\ me[c] # 0 /\ c \notin stale =>
          /\ ~At(c, "renamed") => Named(c, myName[c])
          /\ At(c, "groups") \/ At(c, "renamed") => Named(c, h[c].arg)
    /\ me[c] = 0 => c \notin stale

Account(c) ==
    /\ me[c] # 0 => me[c] \in UserIds /\ user[me[c]].by = c
    /\ NameShown(c)
    /\ At(c, "regid") => TheId(c) \in UserIds /\ user[TheId(c)].by = c /\ user[TheId(c)].name = h[c].arg
    /\ At(c, "reg") \/ At(c, "rename") => h[c].arg \in Names
    /\ At(c, "reg") \/ At(c, "regid") => me[c] = 0
    /\ me[c] = 0 => /\ At(c, "idle") \/ At(c, "reg") \/ At(c, "regid")
                    /\ shown[c].friends = {} /\ shown[c].groups = {}

(* A friend or a membership that is stored, up to lost rows *)
IsFriend(a, b) == <<a, b>> \in friend \/ <<"friend", a, b>> \in lost
Entered(g, i) == \E r \in groupUser : r.group = g /\ r.user = i
IsMember(g, i) == Entered(g, i) \/ <<"normal", g, i>> \in lost \/ <<"creator", g, i>> \in lost

(* What the handler of a client has done so far, and its window *)
Befriending(c) ==
    /\ At(c, "befriend") \/ At(c, "friendback") \/ At(c, "friendquery") => h[c].arg \in Nat \ {0}
    /\ At(c, "friendback") \/ At(c, "friendquery") => IsFriend(me[c], h[c].arg)
    /\ At(c, "groups") => \A i \in h[c].seen : <<me[c], i>> \in friend
    /\ \A i \in shown[c].friends : i # NoId => IsFriend(me[c], i)

Grouping(c) ==
    /\ At(c, "createid") => /\ TheId(c) \in GroupIds /\ group[TheId(c)].by = c
                            /\ ~Entered(TheId(c), me[c])
    /\ At(c, "creator") => /\ h[c].arg \in GroupIds /\ group[h[c].arg].by = c
                           /\ ~Entered(h[c].arg, me[c])
    /\ At(c, "created") => h[c].arg \in Nat /\ IsMember(h[c].arg, me[c])
    /\ At(c, "join") => h[c].arg \in Nat
    /\ At(c, "joinquery") => h[c].arg \in Nat /\ IsMember(h[c].arg, me[c])
    /\ \A g \in shown[c].groups : g # NoId => IsMember(g, me[c])

ClientOK(c) == Account(c) /\ Befriending(c) /\ Grouping(c)

(* Stored as a whole *)
BothWays ==
    \A a, b \in Nat : <<a, b>> \in friend =>
        \/ IsFriend(b, a)
        \/ \E c \in Clients : At(c, "friendback") /\ me[c] = a /\ h[c].arg = b

OwnCreators ==
    \A r \in groupUser : r.role = "creator" => group[r.group].by = user[r.user].by

HasCreator(g, i) == \E r \in groupUser : r.group = g /\ r.user = i /\ r.role = "creator"

AllOwned ==
    \A g \in GroupIds :
       \/ HasCreator(g, me[group[g].by])
       \/ <<"creator", g, me[group[g].by]>> \in lost
       \/ At(group[g].by, "createid") /\ TheId(group[g].by) = g
       \/ At(group[g].by, "creator") /\ h[group[g].by].arg = g

DInv ==
    /\ Types /\ Dangling /\ Holding /\ OneAccount
    /\ \A c \in Clients : ClientOK(c)
    /\ BothWays /\ OwnCreators /\ AllOwned /\ \A g \in GroupIds : me[group[g].by] # 0

----------------------------------------------------------------------------
(* A step of c is one of c alone, and the tables only grow by it: a row    *)
(* that was lost is so until it is there                                   *)
Local(c) ==
    /\ \A d \in Clients : d # c =>
          /\ h'[d] = h[d] /\ me'[d] = me[d] /\ shown'[d] = shown[d] /\ myName'[d] = myName[d]
          /\ d \in stale' <=> d \in stale
    /\ \A k \in Conns :
          /\ holder[k] \notin {c, NoOne} => holder'[k] = holder[k] /\ insertId'[k] = insertId[k]
          /\ holder'[k] \in {holder[k], c, NoOne}

Grows(c) ==
    /\ Len(user) <= Len(user') /\ Len(group) <= Len(group')
    /\ \A i \in UserIds : user'[i].by = user[i].by /\ (me[c] # i => user'[i] = user[i])
    /\ \A g \in GroupIds : group'[g] = group[g]
    /\ friend \subseteq friend' /\ groupUser \subseteq groupUser'
    /\ \A r \in groupUser' : r \in groupUser \/ (r.user = me[c] /\ me[c] # 0)
    /\ \A a, b : <<"friend", a, b>> \in lost => IsFriend(a, b)'
    /\ \A g, i : <<"normal", g, i>> \in lost => IsMember(g, i)'
    /\ \A g, i : <<"creator", g, i>> \in lost => <<"creator", g, i>> \in lost' \/ HasCreator(g, i)'

HoldsOwn(c) ==
    /\ \A k \in Conns : holder[k] = c => Waits(c) /\ h[c].conn = k
    /\ Waits(c) => h[c].conn \in Conns /\ holder[h[c].conn] = c

(* What is stored, or lost, stays so *)
LEMMA Stays ==
  ASSUME NEW c, Grows(c), NEW a, NEW b
  PROVE  /\ IsFriend(a, b) => IsFriend(a, b)'
         /\ Entered(a, b) => Entered(a, b)'
         /\ IsMember(a, b) => IsMember(a, b)'
         /\ HasCreator(a, b) => HasCreator(a, b)'
<1>1. IsFriend(a, b) => IsFriend(a, b)'
  BY DEF Grows, IsFriend
<1>2. Entered(a, b) => Entered(a, b)'
  BY DEF Grows, Entered
<1>3. HasCreator(a, b) => HasCreator(a, b)'
  BY DEF Grows, HasCreator
<1>4. HasCreator(a, b)' => Entered(a, b)'
  BY DEF HasCreator, Entered
<1>5. IsMember(a, b) => IsMember(a, b)'
  <2>1. <<"normal", a, b>> \in lost => IsMember(a, b)'
    BY DEF Grows
  <2>2. <<"creator", a, b>> \in lost => IsMember(a, b)'
    BY <1>4 DEF Grows, IsMember
  <2> QED  BY <1>2, <2>1, <2>2 DEF IsMember
<1> QED  BY <1>1, <1>2, <1>3, <1>5

(* Two clients have two accounts *)
LEMMA Apart ==
  ASSUME DInv, NEW c \in Clients, NEW d \in Clients, d # c
  PROVE  /\ me[d] # 0 => me[d] # me[c]
         /\ At(d, "regid") => TheId(d) # me[c]
<1>1. Account(c) /\ Account(d)
  BY DEF DInv, ClientOK
<1>2. TheId(d) \in UserIds => TheId(d) # 0
  BY DEF UserIds
<1> QED  BY <1>1, <1>2 DEF Account

(* The other clients do not notice *)
LEMMA OthersKeep ==
  ASSUME DInv, NEW c \in Clients, Local(c), Grows(c), NEW d \in Clients, d # c
  PROVE  ClientOK(d)'
<1>1. h'[d] = h[d] /\ me'[d] = me[d] /\ shown'[d] = shown[d] /\ myName'[d] = myName[d]
      /\ (d \in stale' <=> d \in stale)
  BY DEF Local
<1>2. \A pc : At(d, pc)' <=> At(d, pc)
  BY <1>1 DEF At
<1>3. Waits(d) => TheId(d)' = TheId(d)
  <2>1. Waits(d) => h[d].conn \in Conns /\ holder[h[d].conn] = d
    BY DEF DInv, Holding
  <2> QED  BY <1>1, <2>1, DirectoryAssumption DEF Local, TheId
<1>4. Account(d) /\ Befriending(d) /\ Grouping(d)
  BY DEF DInv, ClientOK
<1>5. \A i \in UserIds : i \in UserIds' /\ (i # me[c] => user'[i] = user[i])
  <2>1. Len(user) \in Nat /\ Len(user') \in Nat /\ Len(user) <= Len(user')
    BY DEF DInv, Types, Grows
  <2> QED  BY <2>1 DEF Grows, UserIds
<1>6. \A g \in GroupIds : g \in GroupIds' /\ group'[g] = group[g]
  <2>1. Len(group) \in Nat /\ Len(group') \in Nat /\ Len(group) <= Len(group')
    BY DEF DInv, Types, Grows
  <2> QED  BY <2>1 DEF Grows, GroupIds
<1>7. Account(d)'
  BY <1>1, <1>2, <1>3, <1>4, <1>5, Apart DEF Account, NameShown, Named, Waits
<1>8. Befriending(d)'
  <2>1. \A i \in h[d].seen : <<me[d], i>> \in friend => <<me[d], i>> \in friend'
    BY DEF Grows
  <2> QED  BY <1>1, <1>2, <1>4, <2>1, Stays DEF Befriending
<1>9. Grouping(d)'
  <2>1. ASSUME NEW g, me[d] # 0, ~Entered(g, me[d]) PROVE ~Entered(g, me[d])'
    BY <1>1, <2>1, Apart DEF Entered, Grows
  <2>2. At(d, "createid") \/ At(d, "creator") => me[d] # 0
    BY <1>4 DEF Account, At
  <2>3. At(d, "createid")' => /\ TheId(d)' \in GroupIds' /\ group'[TheId(d)'].by = d
                              /\ ~Entered(TheId(d), me[d])'
    BY <1>1, <1>2, <1>3, <1>4, <1>6, <2>1, <2>2 DEF Grouping, Waits
  <2>4. At(d, "creator")' => /\ h'[d].arg \in GroupIds' /\ group'[h'[d].arg].by = d
                             /\ ~Entered(h[d].arg, me[d])'
    BY <1>1, <1>2, <1>4, <1>6, <2>1, <2>2 DEF Grouping
  <2> QED  BY <1>1, <1>2, <1>4, <2>3, <2>4, Stays DEF Grouping
<1> QED  BY <1>7, <1>8, <1>9 DEF ClientOK

(* A step of c on the connections that it holds, or that are free *)
LEMMA HoldingKeeps ==
  ASSUME DInv, NEW c \in Clients, Local(c), HoldsOwn(c)', Types'
  PROVE  Holding'
<1>1. ASSUME NEW d \in Clients, d # c PROVE Waits(d)' <=> Waits(d)
  BY <1>1 DEF Local, Waits, At
<1>2. ASSUME NEW k \in Conns, NEW d \in Clients, holder'[k] = d
      PROVE  Waits(d)' /\ h'[d].conn = k
  <2>1. CASE d = c
    BY <1>2, <2>1 DEF HoldsOwn
  <2>2. CASE d # c
    <3>1. holder[k] = d
      BY <1>2, <2>2, DirectoryAssumption DEF Local
    <3>2. Waits(d) /\ h[d].conn = k
      BY <3>1, DirectoryAssumption DEF DInv, Holding
    <3> QED  BY <1>1, <2>2, <3>2 DEF Local
  <2> QED  BY <2>1, <2>2
<1>3. ASSUME NEW d \in Clients, Waits(d)' PROVE h'[d].conn \in Conns /\ holder'[h'[d].conn] = d
  <2>1. CASE d = c
    BY <1>3, <2>1 DEF HoldsOwn
  <2>2. CASE d # c
    <3>1. h[d].conn \in Conns /\ holder[h[d].conn] = d
      BY <1>1, <1>3, <2>2 DEF DInv, Holding
    <3> QED  BY <2>2, <3>1, DirectoryAssumption DEF Local
  <2> QED  BY <2>1, <2>2
<1>4. \A k \in Conns : holder'[k] # NoOne => holder'[k] \in Clients
  BY DEF Types
<1>5. \A k \in Conns : holder'[k] # NoOne => Waits(holder[k])' /\ h'[holder'[k]].conn = k
  BY <1>2, <1>4 DEF Waits, At
<1> QED  BY <1>3, <1>5 DEF Holding

(* Together: what remains to be shown of a step of c *)
LEMMA Turn ==
  ASSUME DInv, NEW c \in Clients, Types', Local(c), Grows(c), HoldsOwn(c)', ClientOK(c)',
         Dangling', OneAccount', BothWays', OwnCreators', AllOwned',
         \A g \in GroupIds' : me'[group'[g].by] # 0
  PROVE  DInv'
<1>1. Holding'
  BY HoldingKeeps
<1>2. \A d \in Clients : ClientOK(d)'
  BY OthersKeep
<1> QED  BY <1>1, <1>2 DEF DInv

(* A row of User and of AllGroup has a client that inserted it *)
LEMMA RowTypes ==
  ASSUME Types
  PROVE  /\ \A i \in UserIds : user[i] \in Row /\ user[i].by \in Clients
         /\ \A g \in GroupIds : group[g] \in GroupRow /\ group[g].by \in Clients
<1>1. \A i \in UserIds : user[i] \in Row
  BY DEF Types, UserIds
<1>2. \A g \in GroupIds : group[g] \in GroupRow
  BY DEF Types, GroupIds
<1> QED  BY <1>1, <1>2 DEF Row, GroupRow

(* A step of c without a connection of its own *)
LEMMA NoConnection ==
  ASSUME DInv, NEW c \in Clients, NEW x \in Handlers, h' = [h EXCEPT ![c] = x],
         ~Waits(c), x.pc \notin {"regid", "createid"}, holder' = holder, me' = me,
         \A k \in Conns : holder[k] # NoOne => insertId'[k] = insertId[k],
         \A d \in Clients : d # c => /\ shown'[d] = shown[d] /\ myName'[d] = myName[d]
                                     /\ d \in stale' <=> d \in stale
  PROVE  /\ Local(c) /\ HoldsOwn(c)' /\ h' \in [Clients -> Handlers]
         /\ h'[c] = x /\ \A d \in Clients : d # c => h'[d] = h[d]
<1>1. h \in [Clients -> Handlers]
  BY DEF DInv, Types
<1>2. /\ h'[c] = x /\ h' \in [Clients -> Handlers]
      /\ \A d \in Clients : d # c => h'[d] = h[d]
  BY <1>1
<1>3. Local(c)
  BY <1>2 DEF Local
<1>4. \A k \in Conns : holder[k] # c
  BY DirectoryAssumption DEF DInv, Holding
<1>5. HoldsOwn(c)'
  BY <1>2, <1>4 DEF HoldsOwn, Waits, At
<1> QED  BY <1>2, <1>3, <1>5

(* A step of c that leaves the tables alone, and does not stand between    *)
(* two statements of theirs                                                *)
LEMMA ReadOnly ==
  ASSUME DInv, NEW c \in Clients, Types', Local(c), HoldsOwn(c)', ClientOK(c)',
         user' = user, friend' = friend, group' = group, groupUser' = groupUser, lost' = lost,
         me' = me, ~Waits(c), ~At(c, "friendback"), ~At(c, "creator")
  PROVE  DInv'
<1>1. Grows(c)
  BY DEF Grows, IsFriend, IsMember, Entered, HasCreator, DInv, Types
<1>2. Dangling' /\ OwnCreators'
  BY DEF Dangling, OwnCreators, UserIds, GroupIds, DInv
<1>3. \A d \in Clients : d # c => h'[d] = h[d]
  BY DEF Local
<1>4. \A d \in Clients : Waits(d) => At(d, "regid")' = At(d, "regid") /\ At(d, "createid")' = At(d, "createid") /\ TheId(d)' = TheId(d)
  <2>1. \A d \in Clients : Waits(d) => d # c /\ h[d].conn \in Conns /\ holder[h[d].conn] = d
    BY DEF DInv, Holding
  <2> QED  BY <1>3, <2>1, DirectoryAssumption DEF Local, TheId, At
<1>5. \A i \in UserIds : user[i].by \in Clients
  BY RowTypes DEF DInv
<1>6. \A g \in GroupIds : group[g].by \in Clients
  BY RowTypes DEF DInv
<1>7. OneAccount'
  BY <1>4, <1>5 DEF OneAccount, UserIds, DInv, Waits
<1>8. BothWays'
  BY <1>3 DEF BothWays, IsFriend, DInv, At
<1>9. AllOwned'
  <2>1. \A g \in GroupIds : HasCreator(g, me[group[g].by])' <=> HasCreator(g, me[group[g].by])
    BY DEF HasCreator
  <2>2. \A d \in Clients : At(d, "creator") => At(d, "creator")' /\ h'[d].arg = h[d].arg
    BY <1>3 DEF At
  <2> QED  BY <1>4, <1>6, <2>1, <2>2 DEF AllOwned, GroupIds, DInv, Waits
<1>10. \A g \in GroupIds' : me'[group'[g].by] # 0
  BY DEF DInv, GroupIds
<1> QED  BY <1>1, <1>2, <1>7, <1>8, <1>9, <1>10, Turn

(* The requests *)
LEMMA AskInv ==
  ASSUME DInv, NEW c \in Clients, NEW pc \in PCs \ {"regid", "createid"}, NEW arg \in Names \cup Nat,
         Ask(c, pc, arg),
         pc \in {"reg", "rename"} => arg \in Names,
         pc = "reg" => me[c] = 0,
         pc # "reg" => me[c] # 0,
         pc \in {"befriend"} => arg \in Nat \ {0},
         pc = "join" => arg \in Nat,
         pc \notin {"friendback", "friendquery", "groups", "creator", "created", "joinquery", "renamed"}
  PROVE  DInv'
<1> DEFINE x == [Idle EXCEPT !.pc = pc, !.arg = arg]
<1>1. x \in Handlers /\ x.pc = pc /\ x.arg = arg
  BY DEF Idle, Handlers, PCs
<1>2. /\ At(c, "idle") /\ h' = [h EXCEPT ![c] = x] /\ asked' = [asked EXCEPT ![c] = @ + 1]
      /\ user' = user /\ friend' = friend /\ group' = group /\ groupUser' = groupUser /\ lost' = lost
      /\ late' = late /\ stale' = stale
      /\ holder' = holder /\ insertId' = insertId /\ me' = me /\ shown' = shown /\ myName' = myName
  BY DEF Ask, tables, window, unanswered
<1> HIDE DEF x
<1>3. ~Waits(c) /\ ~At(c, "friendback") /\ ~At(c, "creator")
  BY <1>2 DEF Waits, At
<1>4. /\ Local(c) /\ HoldsOwn(c)' /\ h' \in [Clients -> Handlers] /\ h'[c] = x
  BY <1>1, <1>2, <1>3, NoConnection
<1>5. Types'
  BY <1>2, <1>4 DEF DInv, Types
<1>6. Account(c) /\ Befriending(c) /\ Grouping(c)
  BY DEF DInv, ClientOK
<1>7. \A q : At(c, q)' <=> pc = q
  BY <1>1, <1>4 DEF At
<1>8. Account(c)'
  BY <1>1, <1>2, <1>4, <1>6, <1>7 DEF Account, NameShown, Named, UserIds, At
<1>9. Befriending(c)'
  BY <1>1, <1>2, <1>4, <1>6, <1>7 DEF Befriending, IsFriend
<1>10. Grouping(c)'
  BY <1>1, <1>2, <1>4, <1>6, <1>7 DEF Grouping, IsMember, Entered
<1> QED  BY <1>2, <1>3, <1>4, <1>5, <1>8, <1>9, <1>10, ReadOnly DEF ClientOK

(* Every request of a client, and the first query of its login *)
LEMMA RequestInv == ASSUME DInv, NEW c \in Clients, Request(c) PROVE DInv'
<1>1. Len(user) \in Nat /\ Len(group) \in Nat
  BY DEF DInv, Types
<1>2. ASSUME AskReg(c) PROVE DInv'
  <2>1. PICK n \in Names : me[c] = 0 /\ Ask(c, "reg", n)
    BY <1>2 DEF AskReg
  <2> QED  BY <2>1, AskInv DEF PCs
<1>3. ASSUME AskAddFriend(c) PROVE DInv'
  <2>1. PICK i \in 1..(Len(user) + 1) : me[c] # 0 /\ Ask(c, "befriend", i)
    BY <1>3 DEF AskAddFriend
  <2>2. i \in Nat \ {0}
    BY <1>1
  <2> QED  BY <2>1, <2>2, AskInv DEF PCs
<1>4. ASSUME AskCreateGroup(c) PROVE DInv'
  BY <1>4, AskInv DEF PCs, AskCreateGroup
<1>5. ASSUME AskAddGroup(c) PROVE DInv'
  <2>1. PICK g \in 1..(Len(group) + 1) : me[c] # 0 /\ Ask(c, "join", g)
    BY <1>5 DEF AskAddGroup
  <2>2. g \in Nat
    BY <1>1
  <2> QED  BY <2>1, <2>2, AskInv DEF PCs
<1>6. ASSUME AskUpdateName(c) PROVE DInv'
  <2>1. PICK n \in Names : me[c] # 0 /\ Ask(c, "rename", n)
    BY <1>6 DEF AskUpdateName
  <2> QED  BY <2>1, AskInv DEF PCs
<1>7. ASSUME LoadFriends(c) PROVE DInv'
  <2>1. PICK F \in {FriendsOf(me[c]), {}} : 
           h' = [h EXCEPT ![c] = [Idle EXCEPT !.pc = "groups", !.arg = user[me[c]].name, !.seen = F]]
    BY <1>7 DEF LoadFriends
  <2> DEFINE x == [Idle EXCEPT !.pc = "groups", !.arg = user[me[c]].name, !.seen = F]
  <2>2. /\ me[c] # 0 /\ At(c, "idle") /\ asked' = [asked EXCEPT ![c] = @ + 1]
        /\ user' = user /\ friend' = friend /\ group' = group /\ groupUser' = groupUser /\ lost' = lost
      /\ late' = late /\ stale' = stale
        /\ holder' = holder /\ insertId' = insertId /\ me' = me /\ shown' = shown /\ myName' = myName
    BY <1>7 DEF LoadFriends, tables, window, unanswered
  <2>3. F \in SUBSET Nat /\ \A i \in F : <<me[c], i>> \in friend
    <3>1. friend \in SUBSET (Nat \X Nat)
      BY DEF DInv, Types
    <3>2. \A p \in friend : p = <<p[1], p[2]>> /\ p[2] \in Nat
      BY <3>1
    <3> QED  BY <3>2 DEF FriendsOf
  <2>4. x \in Handlers /\ x.pc = "groups" /\ x.seen = F /\ x.arg = user[me[c]].name /\ x.arg \in Names
    <3>1. me[c] \in UserIds
      BY <2>2 DEF DInv, ClientOK, Account
    <3>2. user[me[c]].name \in Names
      BY <3>1, RowTypes DEF DInv, Row
    <3> QED  BY <2>3, <3>2 DEF Idle, Handlers, PCs
  <2> HIDE DEF x
  <2>5. ~Waits(c) /\ ~At(c, "friendback") /\ ~At(c, "creator")
    BY <2>2 DEF Waits, At
  <2>6. Local(c) /\ HoldsOwn(c)' /\ h' \in [Clients -> Handlers] /\ h'[c] = x
    BY <2>1, <2>2, <2>4, <2>5, NoConnection DEF x
  <2>7. Types'
    <3>1. asked' \in [Clients -> Nat]
      BY <2>2 DEF DInv, Types
    <3> QED  BY <2>2, <2>6, <3>1 DEF DInv, Types
  <2>8. Account(c) /\ Befriending(c) /\ Grouping(c)
    BY DEF DInv, ClientOK
  <2>9. \A q : At(c, q)' <=> "groups" = q
    BY <2>4, <2>6 DEF At
  <2>10. Account(c)'
    BY <2>2, <2>4, <2>6, <2>8, <2>9 DEF Account, NameShown, Named, UserIds, At
  <2>11. Befriending(c)'
    BY <2>2, <2>3, <2>4, <2>6, <2>8, <2>9 DEF Befriending, IsFriend
  <2>12. Grouping(c)'
    BY <2>2, <2>6, <2>8, <2>9 DEF Grouping, IsMember, Entered
  <2> QED  BY <2>2, <2>5, <2>6, <2>7, <2>10, <2>11, <2>12, ReadOnly DEF ClientOK
<1> QED  BY <1>2, <1>3, <1>4, <1>5, <1>6, <1>7 DEF Request
----------------------------------------------------------------------------
(* The handlers that end with an answer and change no table.  What the     *)
(* window shows after it is stored, or a row of it was lost.               *)
LEMMA FinishInv ==
  ASSUME DInv, NEW c \in Clients, Finish(c), ~Waits(c), ~At(c, "friendback"), ~At(c, "creator"),
         user' = user, friend' = friend, group' = group, groupUser' = groupUser, lost' = lost,
         holder' = holder, insertId' = insertId, me' = me, asked' = asked,
         shown' \in [Clients -> [friends : SUBSET Int, groups : SUBSET Int]],
         myName' \in [Clients -> Names \cup {NoOne}],
         stale' \in SUBSET Clients, late' \in SUBSET (stale' \X Names),
         \A d \in Clients : d # c => /\ shown'[d] = shown[d] /\ myName'[d] = myName[d]
                                     /\ d \in stale' <=> d \in stale,
         me[c] = 0 => shown'[c] = shown[c] /\ c \notin stale',
         me[c] # 0 /\ c \notin stale' => Named(c, myName'[c]),
         \A i \in shown'[c].friends : i # NoId => IsFriend(me[c], i),
         \A g \in shown'[c].groups : g # NoId => IsMember(g, me[c])
  PROVE  DInv'
<1>1. Idle \in Handlers /\ Idle.pc = "idle"
  BY DEF Idle, Handlers, PCs
<1>2. Local(c) /\ HoldsOwn(c)' /\ h' \in [Clients -> Handlers] /\ h'[c] = Idle
  BY <1>1, NoConnection DEF Finish
<1>3. Types'
  BY <1>2 DEF DInv, Types
<1>4. Account(c) /\ Befriending(c) /\ Grouping(c)
  BY DEF DInv, ClientOK
<1>5. \A q : At(c, q)' <=> "idle" = q
  BY <1>1, <1>2 DEF At
<1>6. Account(c)'
  BY <1>4, <1>5 DEF Account, NameShown, Named, UserIds, At
<1>7. Befriending(c)'
  BY <1>5 DEF Befriending, IsFriend
<1>8. Grouping(c)'
  BY <1>5 DEF Grouping, IsMember, Entered
<1> QED  BY <1>2, <1>3, <1>6, <1>7, <1>8, ReadOnly DEF ClientOK

(* A handler that gives up leaves nothing behind *)
LEMMA FailsInv ==
  ASSUME DInv, NEW c \in Clients, RegFails(c) \/ CreateFails(c) \/ RenameFails(c)
  PROVE  DInv'
<1>1. /\ Finish(c)
      /\ user' = user /\ friend' = friend /\ group' = group /\ groupUser' = groupUser /\ lost' = lost
      /\ late' = late /\ stale' = stale
      /\ holder' = holder /\ insertId' = insertId /\ me' = me /\ asked' = asked
      /\ shown' = shown /\ myName' = myName
  BY DEF RegFails, CreateFails, RenameFails, tables, window, unanswered
<1>2. ~Waits(c) /\ ~At(c, "friendback") /\ ~At(c, "creator")
  BY DEF RegFails, CreateFails, RenameFails, Waits, At
<1>3. Account(c) /\ Befriending(c) /\ Grouping(c)
  BY DEF DInv, ClientOK
<1>4. /\ shown \in [Clients -> [friends : SUBSET Int, groups : SUBSET Int]]
      /\ myName \in [Clients -> Names \cup {NoOne}]
      /\ stale \in SUBSET Clients /\ late \in SUBSET (stale \X Names)
  BY DEF DInv, Types
<1>5. ~At(c, "renamed")
  BY DEF RegFails, CreateFails, RenameFails, At
<1> QED  BY <1>1, <1>2, <1>3, <1>4, <1>5, FinishInv DEF Account, NameShown, Befriending, Grouping

(* A friend is in the list *)
LEMMA AnswerFriendInv ==
  ASSUME DInv, NEW c \in Clients, AnswerFriend(c)
  PROVE  DInv'
<1>1. PICK i \in QueryUser(h[c].arg) : shown' = [shown EXCEPT ![c].friends = @ \cup {i}]
  BY DEF AnswerFriend, OnFriendAdded
<1>2. /\ Finish(c) /\ At(c, "friendquery")
      /\ user' = user /\ friend' = friend /\ group' = group /\ groupUser' = groupUser /\ lost' = lost
      /\ late' = late /\ stale' = stale
      /\ holder' = holder /\ insertId' = insertId /\ me' = me /\ asked' = asked /\ myName' = myName
  BY DEF AnswerFriend, OnFriendAdded, tables, unanswered
<1>3. ~Waits(c) /\ ~At(c, "friendback") /\ ~At(c, "creator")
  BY <1>2 DEF Waits, At
<1>4. Account(c) /\ Befriending(c) /\ Grouping(c)
  BY DEF DInv, ClientOK
<1>5. /\ shown \in [Clients -> [friends : SUBSET Int, groups : SUBSET Int]]
      /\ myName \in [Clients -> Names \cup {NoOne}]
      /\ stale \in SUBSET Clients /\ late \in SUBSET (stale \X Names)
  BY DEF DInv, Types
<1>6. i \in {h[c].arg, NoId} /\ h[c].arg \in Nat /\ i \in Int
  BY <1>2, <1>4 DEF QueryUser, NoId, Befriending
<1>7. /\ shown' \in [Clients -> [friends : SUBSET Int, groups : SUBSET Int]]
      /\ shown'[c].friends = shown[c].friends \cup {i} /\ shown'[c].groups = shown[c].groups
      /\ \A d \in Clients : d # c => shown'[d] = shown[d]
  BY <1>1, <1>5, <1>6
<1>8. \A j \in shown'[c].friends : j # NoId => IsFriend(me[c], j)
  BY <1>2, <1>4, <1>6, <1>7 DEF Befriending
<1>9. me[c] # 0 /\ ~At(c, "renamed") /\ (c \notin stale => Named(c, myName[c]))
  BY <1>2, <1>4 DEF Account, NameShown, At
<1> QED  BY <1>2, <1>3, <1>4, <1>5, <1>7, <1>8, <1>9, FinishInv DEF Grouping

(* So is a group, its creator's or a member's *)
LEMMA AnswerGroupInv ==
  ASSUME DInv, NEW c \in Clients, AnswerCreated(c) \/ AnswerJoined(c)
  PROVE  DInv'
<1>1. /\ At(c, "created") \/ At(c, "joinquery")
      /\ \E g \in {h[c].arg, NoId} : shown' = [shown EXCEPT ![c].groups = @ \cup {g}]
  BY DEF AnswerCreated, AnswerJoined, OnGroupCreated, QueryGroup
<1>2. PICK g \in {h[c].arg, NoId} : shown' = [shown EXCEPT ![c].groups = @ \cup {g}]
  BY <1>1
<1>3. /\ Finish(c)
      /\ user' = user /\ friend' = friend /\ group' = group /\ groupUser' = groupUser /\ lost' = lost
      /\ late' = late /\ stale' = stale
      /\ holder' = holder /\ insertId' = insertId /\ me' = me /\ asked' = asked /\ myName' = myName
  BY DEF AnswerCreated, AnswerJoined, OnGroupCreated, tables, unanswered
<1>4. ~Waits(c) /\ ~At(c, "friendback") /\ ~At(c, "creator")
  BY <1>1 DEF Waits, At
<1>5. Account(c) /\ Befriending(c) /\ Grouping(c)
  BY DEF DInv, ClientOK
<1>6. /\ shown \in [Clients -> [friends : SUBSET Int, groups : SUBSET Int]]
      /\ myName \in [Clients -> Names \cup {NoOne}]
      /\ stale \in SUBSET Clients /\ late \in SUBSET (stale \X Names)
  BY DEF DInv, Types
<1>7. h[c].arg \in Nat /\ g \in Int /\ IsMember(h[c].arg, me[c])
  BY <1>1, <1>5 DEF NoId, Grouping
<1>8. /\ shown' \in [Clients -> [friends : SUBSET Int, groups : SUBSET Int]]
      /\ shown'[c].groups = shown[c].groups \cup {g} /\ shown'[c].friends = shown[c].friends
      /\ \A d \in Clients : d # c => shown'[d] = shown[d]
  BY <1>2, <1>6, <1>7
<1>9. \A j \in shown'[c].groups : j # NoId => IsMember(j, me[c])
  BY <1>5, <1>7, <1>8 DEF Grouping
<1>10. me[c] # 0 /\ ~At(c, "renamed") /\ (c \notin stale => Named(c, myName[c]))
  BY <1>1, <1>5 DEF Account, NameShown, At
<1> QED  BY <1>3, <1>4, <1>5, <1>6, <1>8, <1>9, <1>10, FinishInv DEF Befriending

(* A window that a login has filled *)
LEMMA LoadGroupsInv ==
  ASSUME DInv, NEW c \in Clients, LoadGroups(c)
  PROVE  DInv'
<1>1. PICK G \in {GroupsOf(me[c]), {}} :
         shown' = [shown EXCEPT ![c] = [friends |-> h[c].seen, groups |-> G]]
  BY DEF LoadGroups
<1>2. /\ Finish(c) /\ At(c, "groups") /\ myName' = [myName EXCEPT ![c] = h[c].arg]
      /\ user' = user /\ friend' = friend /\ group' = group /\ groupUser' = groupUser /\ lost' = lost
      /\ late' = late /\ stale' = stale
      /\ holder' = holder /\ insertId' = insertId /\ me' = me /\ asked' = asked
  BY DEF LoadGroups, tables, unanswered
<1>3. ~Waits(c) /\ ~At(c, "friendback") /\ ~At(c, "creator")
  BY <1>2 DEF Waits, At
<1>4. Account(c) /\ Befriending(c) /\ Grouping(c)
  BY DEF DInv, ClientOK
<1>5. /\ shown \in [Clients -> [friends : SUBSET Int, groups : SUBSET Int]]
      /\ myName \in [Clients -> Names \cup {NoOne}] /\ Types
      /\ stale \in SUBSET Clients /\ late \in SUBSET (stale \X Names)
      /\ h \in [Clients -> Handlers] /\ groupUser \in SUBSET MemberRow
  BY DEF DInv, Types
<1>6. me[c] # 0 /\ me[c] \in UserIds
  BY <1>2, <1>4 DEF Account, At
<1>7. h[c].arg \in Names /\ (c \notin stale => Named(c, h[c].arg))
  BY <1>2, <1>4, <1>6 DEF Account, NameShown
<1>8. h[c].seen \in SUBSET Int
  <2>1. h[c].seen \in SUBSET Nat
    BY <1>5 DEF Handlers
  <2> QED  BY <2>1
<1>9. G \in SUBSET Int /\ \A g \in G : Entered(g, me[c])
  <2>1. \A r \in groupUser : r.group \in Int
    BY <1>5 DEF MemberRow
  <2> QED  BY <2>1 DEF GroupsOf, Entered
<1>10. /\ shown' \in [Clients -> [friends : SUBSET Int, groups : SUBSET Int]]
       /\ shown'[c].friends = h[c].seen /\ shown'[c].groups = G
       /\ \A d \in Clients : d # c => shown'[d] = shown[d]
  BY <1>1, <1>5, <1>8, <1>9
<1>11. /\ myName' \in [Clients -> Names \cup {NoOne}] /\ myName'[c] = h[c].arg
       /\ \A d \in Clients : d # c => myName'[d] = myName[d]
  BY <1>2, <1>5, <1>7
<1>12. \A i \in h[c].seen : IsFriend(me[c], i)
  BY <1>2, <1>4 DEF Befriending, IsFriend
<1> QED  BY <1>2, <1>3, <1>5, <1>6, <1>7, <1>9, <1>10, <1>11, <1>12, FinishInv DEF IsMember
----------------------------------------------------------------------------
(* The steps on the tables.  What they keep between all clients, by the    *)
(* tables that they leave alone                                            *)
LEMMA RowsStay ==
  ASSUME DInv, Types', NEW c, Grows(c)
  PROVE  UserIds \subseteq UserIds' /\ GroupIds \subseteq GroupIds'
<1>1. /\ Len(user) \in Nat /\ Len(user') \in Nat /\ Len(group) \in Nat /\ Len(group') \in Nat
  BY DEF DInv, Types
<1> QED  BY <1>1 DEF Grows, UserIds, GroupIds

(* No one else moves, nor is the id it waits for overwritten *)
LEMMA OthersIds ==
  ASSUME DInv, NEW c \in Clients, Local(c), NEW d \in Clients, d # c
  PROVE  (\A pc : At(d, pc)' <=> At(d, pc)) /\ (Waits(d) => TheId(d)' = TheId(d))
<1>1. h'[d] = h[d]
  BY DEF Local
<1>2. Waits(d) => h[d].conn \in Conns /\ holder[h[d].conn] = d
  BY DEF DInv, Holding
<1> QED  BY <1>1, <1>2, DirectoryAssumption DEF Local, TheId, At

(* A step that registers nobody leaves every account with its client *)
LEMMA AccountsStay ==
  ASSUME DInv, Types', NEW c \in Clients, Local(c), Grows(c), Len(user') = Len(user), me' = me,
         ~At(c, "regid")
  PROVE  OneAccount'
<1>1. \A i \in UserIds : user'[i].by = user[i].by /\ user[i].by \in Clients
  BY RowTypes DEF Grows, DInv
<1>2. \A d \in Clients : At(d, "regid") => At(d, "regid")' /\ TheId(d)' = TheId(d)
  BY OthersIds DEF Waits
<1> QED  BY <1>1, <1>2 DEF OneAccount, UserIds, DInv

(* A group keeps its creator while others' handlers run *)
LEMMA OwnedStay ==
  ASSUME DInv, NEW c \in Clients, Local(c), Grows(c), group' = group, me' = me,
         ~At(c, "createid"), ~At(c, "creator")
  PROVE  AllOwned' /\ \A g \in GroupIds' : me'[group'[g].by] # 0
<1>1. \A g \in GroupIds : group[g].by \in Clients
  BY RowTypes DEF DInv
<1>2. \A d \in Clients : At(d, "createid") => At(d, "createid")' /\ TheId(d)' = TheId(d)
  BY OthersIds DEF Waits
<1>3. \A d \in Clients : At(d, "creator") => At(d, "creator")' /\ h'[d].arg = h[d].arg
  BY DEF Local, At
<1>4. \A g \in GroupIds : HasCreator(g, me[group[g].by]) => HasCreator(g, me[group[g].by])'
  BY Stays
<1>5. \A g \in GroupIds : <<"creator", g, me[group[g].by]>> \in lost =>
         <<"creator", g, me[group[g].by]>> \in lost' \/ HasCreator(g, me[group[g].by])'
  <2> SUFFICES ASSUME NEW g \in GroupIds, NEW i, i = me[group[g].by], <<"creator", g, i>> \in lost
               PROVE  <<"creator", g, i>> \in lost' \/ HasCreator(g, me[group[g].by])'
    OBVIOUS
  <2>1. <<"creator", g, i>> \in lost' \/ HasCreator(g, i)'
    BY DEF Grows
  <2> QED  BY <2>1 DEF HasCreator
<1> QED  BY <1>1, <1>2, <1>3, <1>4, <1>5 DEF AllOwned, GroupIds, DInv

(* Only addFriend's second insert may leave a friendship one-way *)
LEMMA BothWaysStay ==
  ASSUME DInv, NEW c \in Clients, Local(c), Grows(c), friend' = friend, me' = me,
         ~At(c, "friendback")
  PROVE  BothWays'
<1>1. \A d \in Clients : At(d, "friendback") => At(d, "friendback")' /\ h'[d] = h[d]
  BY DEF Local, At
<1> QED  BY <1>1, Stays DEF BothWays, DInv

(* Nobody becomes a creator, and no row dangles, when nothing is inserted *)
LEMMA CreatorsStay ==
  ASSUME DInv, Types', NEW c, Grows(c), groupUser' = groupUser
  PROVE  OwnCreators' /\ (friend' = friend => Dangling')
<1>1. OwnCreators'
  BY DEF OwnCreators, Grows, Dangling, DInv
<1>2. friend' = friend => Dangling'
  BY RowsStay DEF Dangling, DInv
<1> QED  BY <1>1, <1>2

(* A connection for a single statement *)
LEMMA OnFreeFacts ==
  ASSUME Types, OnFree \/ (holder' = holder /\ insertId' = insertId)
  PROVE  /\ holder' = holder /\ insertId' \in [Conns -> Nat]
         /\ \A k \in Conns : holder[k] # NoOne => insertId'[k] = insertId[k]
<1>1. CASE OnFree
  <2>1. PICK k \in Conns : /\ holder[k] = NoOne /\ insertId' = [insertId EXCEPT ![k] = 0]
                           /\ holder' = holder
    BY <1>1 DEF OnFree
  <2> QED  BY <2>1 DEF Types
<1>2. CASE holder' = holder /\ insertId' = insertId
  BY <1>2 DEF Types
<1> QED  BY <1>1, <1>2

(* UserModel::insert: the id is for the row that this client has inserted *)
LEMMA RegInsertInv ==
  ASSUME DInv, NEW c \in Clients, RegInsert(c)
  PROVE  DInv'
<1> DEFINE row == [name |-> h[c].arg, by |-> c]
           n == Len(user) + 1
<1>1. PICK k \in Conns : /\ holder[k] = NoOne
                         /\ holder' = [holder EXCEPT ![k] = c]
                         /\ insertId' = [insertId EXCEPT ![k] = n]
                         /\ h' = [h EXCEPT ![c].pc = "regid", ![c].conn = k]
  BY DEF RegInsert, Generated
<1>2. /\ At(c, "reg") /\ user' = Append(user, row)
      /\ friend' = friend /\ group' = group /\ groupUser' = groupUser /\ lost' = lost
      /\ late' = late /\ stale' = stale
      /\ me' = me /\ shown' = shown /\ myName' = myName /\ asked' = asked
  BY DEF RegInsert, window, unanswered
<1>3. Types /\ Account(c) /\ Befriending(c) /\ Grouping(c) /\ h \in [Clients -> Handlers]
      /\ holder \in [Conns -> Clients \cup {NoOne}] /\ insertId \in [Conns -> Nat] /\ user \in Seq(Row)
  BY DEF DInv, ClientOK, Types
<1>4. row \in Row /\ row.by = c /\ row.name = h[c].arg
  BY <1>2, <1>3 DEF Row, Account
<1> HIDE DEF row
<1>5. /\ Len(user) \in Nat /\ user' \in Seq(Row) /\ Len(user') = n /\ n \in Nat /\ Len(user) <= n
      /\ \A i \in UserIds : user'[i] = user[i] /\ i # n
      /\ user'[n] = row /\ n \in UserIds'
      /\ \A i \in UserIds' : i \in UserIds \/ i = n
  <2>1. Len(user) \in Nat /\ user' \in Seq(Row) /\ Len(user') = n /\ n \in Nat
    BY <1>2, <1>3, <1>4
  <2>2. \A i \in 1..Len(user) : user'[i] = user[i] /\ i # n
    BY <1>2, <1>3, <1>4
  <2>3. user'[n] = row
    BY <1>2, <1>3, <1>4
  <2>4. Len(user) <= n
    BY <2>1
  <2> QED  BY <2>1, <2>2, <2>3, <2>4 DEF UserIds
<1> HIDE DEF n
<1>6. /\ h' \in [Clients -> Handlers] /\ h'[c].pc = "regid" /\ h'[c].conn = k /\ h'[c].arg = h[c].arg
      /\ \A d \in Clients : d # c => h'[d] = h[d]
  BY <1>1, <1>3, ZenonT(40) DEF Handlers, PCs
<1>7. /\ holder' \in [Conns -> Clients \cup {NoOne}] /\ insertId' \in [Conns -> Nat]
      /\ holder'[k] = c /\ insertId'[k] = n
      /\ \A j \in Conns : j # k => holder'[j] = holder[j] /\ insertId'[j] = insertId[j]
  BY <1>1, <1>3, <1>5
<1>8. Types'
  BY <1>2, <1>3, <1>5, <1>6, <1>7 DEF Types
<1>9. Local(c)
  BY <1>1, <1>2, <1>6, <1>7 DEF Local
<1>10. \A pc : At(c, pc)' <=> pc = "regid"
  BY <1>6 DEF At
<1>11. \A j \in Conns : holder[j] # c
  BY <1>2, DirectoryAssumption DEF DInv, Holding, Waits, At
<1>12. HoldsOwn(c)'
  BY <1>6, <1>7, <1>10, <1>11 DEF HoldsOwn, Waits
<1>13. Grows(c)
  <2>1. Len(group) <= Len(group')
    BY <1>2, <1>3 DEF Types
  <2>2. /\ \A a, b : <<"friend", a, b>> \in lost => IsFriend(a, b)'
        /\ \A g, i : <<"normal", g, i>> \in lost => IsMember(g, i)'
        /\ \A g, i : <<"creator", g, i>> \in lost => <<"creator", g, i>> \in lost'
    BY <1>2 DEF IsFriend, IsMember
  <2> QED  BY <1>2, <1>5, <2>1, <2>2 DEF Grows
<1>14. TheId(c)' = n /\ me[c] = 0
  BY <1>2, <1>3, <1>6, <1>7 DEF TheId, Account
<1>15. ClientOK(c)'
  <2>1. Account(c)'
    BY <1>2, <1>3, <1>4, <1>5, <1>6, <1>10, <1>14 DEF Account, NameShown, Named, At
  <2>2. Befriending(c)'
    BY <1>2, <1>3, <1>10 DEF Befriending, IsFriend
  <2>3. Grouping(c)'
    BY <1>2, <1>3, <1>10 DEF Grouping, IsMember, Entered
  <2> QED  BY <2>1, <2>2, <2>3 DEF ClientOK
<1>16. OneAccount'
  <2>1. \A i \in UserIds : user[i].by \in Clients /\ user[i].by # c
    BY <1>2, <1>14, <1>3, RowTypes DEF DInv, OneAccount, At, UserIds
  <2>2. \A d \in Clients : d # c /\ At(d, "regid") => At(d, "regid")' /\ TheId(d)' = TheId(d)
    BY <1>9, OthersIds DEF Waits
  <2>3. ASSUME NEW i \in UserIds', NEW d \in Clients, d = user'[i].by
        PROVE  me'[d] = i \/ (me'[d] = 0 /\ At(d, "regid")' /\ TheId(d)' = i)
    <3>1. CASE i = n
      BY <1>2, <1>4, <1>5, <1>10, <1>14, <2>3, <3>1
    <3>2. CASE i \in UserIds
      <4>1. d # c /\ d = user[i].by
        BY <1>5, <2>1, <2>3, <3>2
      <4> QED  BY <1>2, <2>2, <3>2, <4>1 DEF DInv, OneAccount
    <3> QED  BY <1>5, <2>3, <3>1, <3>2
  <2>4. \A i \in UserIds' : user'[i].by \in Clients
    BY <1>2, <1>4, <1>5, <2>1
  <2> QED  BY <2>3, <2>4 DEF OneAccount, At, TheId
<1>17. Dangling' /\ OwnCreators' /\ BothWays'
  BY <1>2, <1>8, <1>9, <1>13, CreatorsStay, BothWaysStay DEF At
<1>18. AllOwned' /\ \A g \in GroupIds' : me'[group'[g].by] # 0
  BY <1>2, <1>9, <1>13, OwnedStay DEF At
<1> QED  BY <1>8, <1>9, <1>12, <1>13, <1>15, <1>16, <1>17, <1>18, Turn

(* A step that inserts no friend and no member *)
LEMMA GrowsQuietly ==
  ASSUME NEW c, friend' = friend, groupUser' = groupUser, lost' = lost,
         Len(user) <= Len(user'), Len(group) <= Len(group'),
         \A i \in UserIds : user'[i].by = user[i].by /\ (me[c] # i => user'[i] = user[i]),
         \A g \in GroupIds : group'[g] = group[g]
  PROVE  Grows(c)
<1>1. /\ \A a, b : <<"friend", a, b>> \in lost => IsFriend(a, b)'
      /\ \A g, i : <<"normal", g, i>> \in lost => IsMember(g, i)'
      /\ \A g, i : <<"creator", g, i>> \in lost => <<"creator", g, i>> \in lost'
  BY DEF IsFriend, IsMember
<1> QED  BY <1>1 DEF Grows

(* The client is told its id: it is that of its own row *)
LEMMA RegAnswerInv ==
  ASSUME DInv, NEW c \in Clients, RegAnswer(c)
  PROVE  DInv'
<1> DEFINE n == TheId(c)
<1>1. /\ At(c, "regid") /\ h' = [h EXCEPT ![c] = Idle] /\ me' = [me EXCEPT ![c] = n]
      /\ myName' = [myName EXCEPT ![c] = h[c].arg]
      /\ holder' = [holder EXCEPT ![h[c].conn] = NoOne]
      /\ user' = user /\ friend' = friend /\ group' = group /\ groupUser' = groupUser /\ lost' = lost
      /\ late' = late /\ stale' = stale
      /\ insertId' = insertId /\ shown' = shown /\ asked' = asked
  BY DEF RegAnswer, Finish, tables, unanswered, TheId
<1>2. Types /\ Account(c) /\ Befriending(c) /\ Grouping(c) /\ h \in [Clients -> Handlers]
      /\ holder \in [Conns -> Clients \cup {NoOne}] /\ insertId \in [Conns -> Nat]
      /\ me \in [Clients -> Nat] /\ myName \in [Clients -> Names \cup {NoOne}]
  BY DEF DInv, ClientOK, Types
<1>3. h[c].conn \in Conns /\ holder[h[c].conn] = c
  BY <1>1 DEF DInv, Holding, Waits
<1>4. n \in UserIds /\ user[n].by = c /\ user[n].name = h[c].arg /\ me[c] = 0 /\ n \in Nat /\ n # 0
      /\ h[c].arg \in Names /\ shown[c].friends = {} /\ shown[c].groups = {}
  <2>1. n \in UserIds /\ user[n].by = c /\ user[n].name = h[c].arg /\ me[c] = 0
    BY <1>1, <1>2 DEF Account
  <2>2. n \in Nat /\ n # 0
    BY <1>2, <2>1 DEF UserIds, Types
  <2>3. user[n].name \in Names
    BY <1>2, <2>1, RowTypes DEF Row
  <2> QED  BY <1>2, <2>1, <2>2, <2>3 DEF Account
<1> HIDE DEF n
<1>5. Idle \in Handlers /\ Idle.pc = "idle"
  BY DEF Idle, Handlers, PCs
<1>6. /\ h' \in [Clients -> Handlers] /\ h'[c] = Idle /\ me'[c] = n /\ myName'[c] = h[c].arg
      /\ me' \in [Clients -> Nat] /\ myName' \in [Clients -> Names \cup {NoOne}]
      /\ \A d \in Clients : d # c => h'[d] = h[d] /\ me'[d] = me[d] /\ myName'[d] = myName[d]
  BY <1>1, <1>2, <1>4, <1>5
<1>7. /\ holder' \in [Conns -> Clients \cup {NoOne}] /\ holder'[h[c].conn] = NoOne
      /\ \A j \in Conns : j # h[c].conn => holder'[j] = holder[j]
  BY <1>1, <1>2, <1>3
<1>8. Types'
  BY <1>1, <1>2, <1>6, <1>7 DEF Types
<1>9. Local(c)
  BY <1>1, <1>3, <1>6, <1>7 DEF Local
<1>10. \A pc : At(c, pc)' <=> pc = "idle"
  BY <1>5, <1>6 DEF At
<1>11. HoldsOwn(c)'
  <2>1. \A j \in Conns : holder'[j] # c
    BY <1>7, DirectoryAssumption DEF DInv, Holding
  <2> QED  BY <1>10, <2>1 DEF HoldsOwn, Waits
<1>12. Grows(c)
  BY <1>1, <1>2, GrowsQuietly DEF Types
<1>13. ClientOK(c)'
  <2>1. Account(c)'
    BY <1>1, <1>4, <1>6, <1>10 DEF Account, NameShown, Named, UserIds, At
  <2>2. Befriending(c)' /\ Grouping(c)'
    BY <1>1, <1>4, <1>10 DEF Befriending, Grouping
  <2> QED  BY <2>1, <2>2 DEF ClientOK
<1>14. OneAccount'
  <2>1. \A i \in UserIds : user[i].by \in Clients
    BY <1>2, RowTypes
  <2>2. \A d \in Clients : d # c /\ At(d, "regid") => At(d, "regid")' /\ TheId(d)' = TheId(d)
    BY <1>9, OthersIds DEF Waits
  <2>3. \A i \in UserIds : user[i].by = c => i = n
    BY <1>4 DEF DInv, OneAccount, n, UserIds
  <2> QED  BY <1>1, <1>6, <2>1, <2>2, <2>3 DEF DInv, OneAccount, UserIds
<1>15. Dangling' /\ OwnCreators'
  BY <1>1, <1>8, <1>12, CreatorsStay
<1>16. BothWays'
  <2>1. \A d \in Clients : At(d, "friendback") => At(d, "friendback")' /\ h'[d] = h[d] /\ me'[d] = me[d]
    BY <1>1, <1>6 DEF At
  <2> QED  BY <1>1, <2>1 DEF BothWays, DInv, IsFriend
<1>17. AllOwned' /\ \A g \in GroupIds' : me'[group'[g].by] # 0
  <2>1. \A g \in GroupIds : group[g].by \in Clients /\ group[g].by # c
    BY <1>2, <1>4, RowTypes DEF DInv
  <2>2. \A d \in Clients : d # c /\ At(d, "createid") => At(d, "createid")' /\ TheId(d)' = TheId(d)
    BY <1>9, OthersIds DEF Waits
  <2>3. \A d \in Clients : d # c /\ At(d, "creator") => At(d, "creator")' /\ h'[d].arg = h[d].arg
    BY <1>6 DEF At
  <2>4. \A g \in GroupIds : HasCreator(g, me[group[g].by]) => HasCreator(g, me[group[g].by])'
    BY <1>1, <1>6, <2>1 DEF HasCreator
  <2> QED  BY <1>1, <1>6, <2>1, <2>2, <2>3, <2>4 DEF AllOwned, GroupIds, DInv
<1> QED  BY <1>8, <1>9, <1>11, <1>12, <1>13, <1>14, <1>15, <1>16, <1>17, Turn

(* GroupModel::createGroup: a new row, which nobody has entered yet *)
LEMMA CreateInsertInv ==
  ASSUME DInv, NEW c \in Clients, CreateInsert(c)
  PROVE  DInv'
<1> DEFINE row == [by |-> c]
           n == Len(group) + 1
<1>1. PICK k \in Conns : /\ holder[k] = NoOne
                         /\ holder' = [holder EXCEPT ![k] = c]
                         /\ insertId' = [insertId EXCEPT ![k] = n]
                         /\ h' = [h EXCEPT ![c].pc = "createid", ![c].conn = k]
  BY DEF CreateInsert, Generated
<1>2. /\ At(c, "create") /\ group' = Append(group, row)
      /\ user' = user /\ friend' = friend /\ groupUser' = groupUser /\ lost' = lost
      /\ late' = late /\ stale' = stale
      /\ me' = me /\ shown' = shown /\ myName' = myName /\ asked' = asked
  BY DEF CreateInsert, window, unanswered
<1>3. Types /\ Account(c) /\ Befriending(c) /\ Grouping(c) /\ h \in [Clients -> Handlers]
      /\ holder \in [Conns -> Clients \cup {NoOne}] /\ insertId \in [Conns -> Nat]
      /\ group \in Seq(GroupRow)
  BY DEF DInv, ClientOK, Types
<1>4. row \in GroupRow /\ row.by = c
  BY DEF GroupRow
<1> HIDE DEF row
<1>5. /\ Len(group) \in Nat /\ group' \in Seq(GroupRow) /\ Len(group') = n /\ n \in Nat
      /\ Len(group) <= n
      /\ \A g \in GroupIds : group'[g] = group[g] /\ g # n
      /\ group'[n] = row /\ n \in GroupIds' /\ n \notin GroupIds
      /\ \A g \in GroupIds' : g \in GroupIds \/ g = n
  <2>1. Len(group) \in Nat /\ group' \in Seq(GroupRow) /\ Len(group') = n /\ n \in Nat
    BY <1>2, <1>3, <1>4
  <2>2. \A i \in 1..Len(group) : group'[i] = group[i] /\ i # n
    BY <1>2, <1>3, <1>4
  <2>3. group'[n] = row
    BY <1>2, <1>3, <1>4
  <2>4. Len(group) <= n
    BY <2>1
  <2> QED  BY <2>1, <2>2, <2>3, <2>4 DEF GroupIds
<1> HIDE DEF n
<1>6. /\ h' \in [Clients -> Handlers] /\ h'[c].pc = "createid" /\ h'[c].conn = k
      /\ \A d \in Clients : d # c => h'[d] = h[d]
  <2> DEFINE x == [h[c] EXCEPT !.pc = "createid", !.conn = k]
  <2>1. x \in Handlers /\ x.pc = "createid" /\ x.conn = k
    BY <1>3 DEF Handlers, PCs
  <2>2. h' = [h EXCEPT ![c] = x]
    BY <1>1
  <2> HIDE DEF x
  <2> QED  BY <1>3, <2>1, <2>2
<1>7. /\ holder' \in [Conns -> Clients \cup {NoOne}] /\ insertId' \in [Conns -> Nat]
      /\ holder'[k] = c /\ insertId'[k] = n
      /\ \A j \in Conns : j # k => holder'[j] = holder[j] /\ insertId'[j] = insertId[j]
  BY <1>1, <1>3, <1>5
<1>8. Types'
  BY <1>2, <1>3, <1>5, <1>6, <1>7 DEF Types
<1>9. Local(c)
  BY <1>1, <1>2, <1>6, <1>7 DEF Local
<1>10. \A pc : At(c, pc)' <=> pc = "createid"
  BY <1>6 DEF At
<1>11. HoldsOwn(c)'
  <2>1. \A j \in Conns : holder[j] # c
    BY <1>2, DirectoryAssumption DEF DInv, Holding, Waits, At
  <2> QED  BY <1>6, <1>7, <1>10, <2>1 DEF HoldsOwn, Waits
<1>12. Grows(c)
  <2>1. Len(user) <= Len(user')
    BY <1>2, <1>3 DEF Types
  <2> QED  BY <1>2, <1>5, <2>1, GrowsQuietly
<1>13. me[c] # 0
  BY <1>2, <1>3 DEF Account, At
<1>14. TheId(c)' = n
  BY <1>6, <1>7 DEF TheId
<1>15. ClientOK(c)'
  <2>1. Account(c)'
    BY <1>2, <1>3, <1>10, <1>13 DEF Account, NameShown, Named, UserIds, At
  <2>2. Befriending(c)'
    BY <1>2, <1>3, <1>10 DEF Befriending, IsFriend
  <2>3. ~Entered(n, me[c])
    BY <1>5 DEF Entered, DInv, Dangling
  <2>4. ~Entered(TheId(c), me[c])'
    BY <1>2, <1>14, <2>3 DEF Entered
  <2>5. \A g \in shown'[c].groups : g # NoId => IsMember(g, me[c])'
    BY <1>2, <1>3 DEF Grouping, IsMember, Entered
  <2>6. Grouping(c)'
    BY <1>4, <1>5, <1>10, <1>14, <2>4, <2>5 DEF Grouping
  <2> QED  BY <2>1, <2>2, <2>6 DEF ClientOK
<1>16. OneAccount'
  BY <1>2, <1>8, <1>9, <1>12, AccountsStay DEF At
<1>17. Dangling' /\ OwnCreators' /\ BothWays'
  BY <1>2, <1>8, <1>9, <1>12, CreatorsStay, BothWaysStay DEF At
<1>18. AllOwned' /\ \A g \in GroupIds' : me'[group'[g].by] # 0
  <2>1. \A g \in GroupIds : group[g].by \in Clients
    BY <1>3, RowTypes
  <2>2. \A d \in Clients : At(d, "createid") => d # c /\ At(d, "createid")' /\ TheId(d)' = TheId(d)
    BY <1>2, <1>9, OthersIds DEF Waits, At
  <2>3. \A d \in Clients : At(d, "creator") => At(d, "creator")' /\ h'[d].arg = h[d].arg
    BY <1>2, <1>6 DEF At
  <2>4. ASSUME NEW g \in GroupIds', NEW d \in Clients, d = group'[g].by
        PROVE  /\ me[d] # 0
               /\ \/ HasCreator(g, me[d]) \/ <<"creator", g, me[d]>> \in lost
                  \/ At(d, "createid")' /\ TheId(d)' = g
                  \/ At(d, "creator")' /\ h'[d].arg = g
    <3>1. CASE g = n
      BY <1>4, <1>5, <1>10, <1>13, <1>14, <2>4, <3>1
    <3>2. CASE g \in GroupIds
      BY <1>5, <2>2, <2>3, <2>4, <3>2 DEF DInv, AllOwned
    <3> QED  BY <1>5, <3>1, <3>2
  <2>5. \A g \in GroupIds' : group'[g].by \in Clients
    BY <1>4, <1>5, <2>1
  <2> QED  BY <1>2, <2>4, <2>5, ZenonT(40) DEF AllOwned, HasCreator, At, TheId
<1> QED  BY <1>8, <1>9, <1>11, <1>12, <1>15, <1>16, <1>17, <1>18, Turn

(* mysql_insert_id: the creator enters its own group next *)
LEMMA CreateIdInv ==
  ASSUME DInv, NEW c \in Clients, CreateId(c)
  PROVE  DInv'
<1> DEFINE n == TheId(c)
           x == [Idle EXCEPT !.pc = "creator", !.arg = n]
<1>1. /\ At(c, "createid") /\ h' = [h EXCEPT ![c] = x]
      /\ holder' = [holder EXCEPT ![h[c].conn] = NoOne]
      /\ user' = user /\ friend' = friend /\ group' = group /\ groupUser' = groupUser /\ lost' = lost
      /\ late' = late /\ stale' = stale
      /\ insertId' = insertId /\ me' = me /\ shown' = shown /\ myName' = myName /\ asked' = asked
  BY DEF CreateId, tables, window, unanswered, TheId
<1>2. Types /\ Account(c) /\ Befriending(c) /\ Grouping(c) /\ h \in [Clients -> Handlers]
      /\ holder \in [Conns -> Clients \cup {NoOne}] /\ insertId \in [Conns -> Nat]
  BY DEF DInv, ClientOK, Types
<1>3. h[c].conn \in Conns /\ holder[h[c].conn] = c
  BY <1>1 DEF DInv, Holding, Waits
<1>4. n \in Nat /\ n \in GroupIds /\ group[n].by = c /\ ~Entered(n, me[c]) /\ me[c] # 0
  <2>1. n \in Nat
    BY <1>2, <1>3 DEF TheId
  <2>2. me[c] # 0
    BY <1>1, <1>2 DEF Account, At
  <2> QED  BY <1>1, <1>2, <2>1, <2>2 DEF Grouping
<1> HIDE DEF n
<1>5. x \in Handlers /\ x.pc = "creator" /\ x.arg = n
  BY <1>4 DEF Idle, Handlers, PCs
<1> HIDE DEF x
<1>6. /\ h' \in [Clients -> Handlers] /\ h'[c] = x
      /\ \A d \in Clients : d # c => h'[d] = h[d]
  BY <1>1, <1>2, <1>5
<1>7. /\ holder' \in [Conns -> Clients \cup {NoOne}] /\ holder'[h[c].conn] = NoOne
      /\ \A j \in Conns : j # h[c].conn => holder'[j] = holder[j]
  BY <1>1, <1>2, <1>3
<1>8. Types'
  BY <1>1, <1>2, <1>6, <1>7 DEF Types
<1>9. Local(c)
  BY <1>1, <1>3, <1>6, <1>7 DEF Local
<1>10. \A pc : At(c, pc)' <=> pc = "creator"
  BY <1>5, <1>6 DEF At
<1>11. HoldsOwn(c)'
  <2>1. \A j \in Conns : holder'[j] # c
    BY <1>7, DirectoryAssumption DEF DInv, Holding
  <2> QED  BY <1>10, <2>1 DEF HoldsOwn, Waits
<1>12. Grows(c)
  <2>1. Len(user) <= Len(user') /\ Len(group) <= Len(group')
    BY <1>1, <1>2 DEF Types
  <2> QED  BY <1>1, <2>1, GrowsQuietly
<1>13. ClientOK(c)'
  <2>1. Account(c)'
    BY <1>1, <1>2, <1>4, <1>10 DEF Account, NameShown, Named, UserIds, At
  <2>2. Befriending(c)'
    BY <1>1, <1>2, <1>10 DEF Befriending, IsFriend
  <2>3. Grouping(c)'
    BY <1>1, <1>2, <1>4, <1>5, <1>6, <1>10 DEF Grouping, IsMember, Entered, GroupIds
  <2> QED  BY <2>1, <2>2, <2>3 DEF ClientOK
<1>14. OneAccount'
  BY <1>1, <1>8, <1>9, <1>12, AccountsStay DEF At
<1>15. Dangling' /\ OwnCreators' /\ BothWays'
  BY <1>1, <1>8, <1>9, <1>12, CreatorsStay, BothWaysStay DEF At
<1>16. AllOwned' /\ \A g \in GroupIds' : me'[group'[g].by] # 0
  <2>1. \A g \in GroupIds : group[g].by \in Clients
    BY <1>2, RowTypes
  <2>2. \A d \in Clients : d # c /\ At(d, "createid") => At(d, "createid")' /\ TheId(d)' = TheId(d)
    BY <1>9, OthersIds DEF Waits
  <2>3. \A d \in Clients : At(d, "creator") => At(d, "creator")' /\ h'[d].arg = h[d].arg
    BY <1>1, <1>6 DEF At
  <2>4. At(c, "creator")' /\ h'[c].arg = TheId(c)
    BY <1>5, <1>6, <1>10 DEF n
  <2>5. \A g \in GroupIds : HasCreator(g, me[group[g].by])' <=> HasCreator(g, me[group[g].by])
    BY <1>1 DEF HasCreator
  <2> QED  BY <1>1, <2>1, <2>2, <2>3, <2>4, <2>5 DEF AllOwned, GroupIds, DInv
<1> QED  BY <1>8, <1>9, <1>11, <1>12, <1>13, <1>14, <1>15, <1>16, Turn

(* Only the name of the client's own row changes *)
RowRenamed(c, n) ==
    /\ user' \in Seq(Row) /\ Len(user') = Len(user) /\ Len(user) \in Nat
    /\ user'[me[c]].name = n /\ user'[me[c]].by = c
    /\ \A i \in UserIds : i # me[c] => user'[i] = user[i]

LEMMA RowUpdate ==
  ASSUME DInv, NEW c \in Clients, NEW n \in Names, me[c] # 0,
         user' = [user EXCEPT ![me[c]].name = n]
  PROVE  RowRenamed(c, n)
<1>1. Types /\ Account(c) /\ user \in Seq(Row)
  BY DEF DInv, ClientOK, Types
<1>2. me[c] \in UserIds /\ user[me[c]].by = c
  BY <1>1 DEF Account
<1> DEFINE row == [user[me[c]] EXCEPT !.name = n]
<1>3. row \in Row /\ row.name = n /\ row.by = c
  BY <1>1, <1>2, RowTypes DEF Row
<1>4. user' = [user EXCEPT ![me[c]] = row]
  OBVIOUS
<1> HIDE DEF row
<1> QED  BY <1>1, <1>2, <1>3, <1>4 DEF UserIds, RowRenamed

(* What a renamed row does to the tables *)
LEMMA RenamedGrows ==
  ASSUME DInv, NEW c \in Clients, NEW n, me[c] # 0, RowRenamed(c, n),
         friend' = friend, group' = group, groupUser' = groupUser, lost' = lost
  PROVE  Grows(c)
<1>1. user[me[c]].by = c
  BY DEF DInv, ClientOK, Account
<1>2. Len(user) <= Len(user') /\ Len(group) <= Len(group')
  BY DEF RowRenamed, DInv, Types
<1>3. \A i \in UserIds : user'[i].by = user[i].by /\ (me[c] # i => user'[i] = user[i])
  BY <1>1 DEF RowRenamed
<1> QED  BY <1>2, <1>3, GrowsQuietly

(* UserModel::updateName, whose answer is to come *)
LEMMA RenameInv ==
  ASSUME DInv, NEW c \in Clients, Rename(c)
  PROVE  DInv'
<1> DEFINE x == [h[c] EXCEPT !.pc = "renamed"]
<1>1. /\ At(c, "rename") /\ h' = [h EXCEPT ![c].pc = "renamed"] /\ OnFree
      /\ user' = [user EXCEPT ![me[c]].name = h[c].arg]
      /\ friend' = friend /\ group' = group /\ groupUser' = groupUser /\ lost' = lost
      /\ late' = late /\ stale' = stale
      /\ me' = me /\ shown' = shown /\ myName' = myName /\ asked' = asked
  BY DEF Rename, Goto, window, unanswered
<1>2. Types /\ Account(c) /\ Befriending(c) /\ Grouping(c) /\ h \in [Clients -> Handlers]
  BY DEF DInv, ClientOK, Types
<1>3. ~Waits(c) /\ me[c] \in UserIds /\ h[c].arg \in Names /\ me[c] # 0
  BY <1>1, <1>2 DEF Waits, Account, At
<1>4. holder' = holder /\ insertId' \in [Conns -> Nat]
      /\ \A k \in Conns : holder[k] # NoOne => insertId'[k] = insertId[k]
  BY <1>1, <1>2, OnFreeFacts DEF Types
<1>5. RowRenamed(c, h[c].arg)
  BY <1>1, <1>3, RowUpdate
<1>6. h' = [h EXCEPT ![c] = x] /\ x \in Handlers /\ x.pc = "renamed" /\ x.arg = h[c].arg
  <2>1. h[c] \in Handlers
    BY <1>2
  <2> QED  BY <1>1, <1>2, <2>1 DEF Handlers, PCs
<1> HIDE DEF x
<1>7. Local(c) /\ HoldsOwn(c)' /\ h' \in [Clients -> Handlers] /\ h'[c] = x
  BY <1>1, <1>3, <1>4, <1>6, NoConnection
<1>8. Types'
  BY <1>1, <1>2, <1>4, <1>5, <1>7 DEF Types, RowRenamed
<1>9. \A pc : At(c, pc)' <=> pc = "renamed"
  BY <1>6, <1>7 DEF At
<1>10. Grows(c)
  BY <1>1, <1>3, <1>5, RenamedGrows
<1>11. ClientOK(c)'
  <2>1. Account(c)'
    BY <1>1, <1>2, <1>3, <1>5, <1>6, <1>7, <1>9 DEF Account, NameShown, Named, UserIds, RowRenamed
  <2>2. Befriending(c)' /\ Grouping(c)'
    BY <1>1, <1>2, <1>9 DEF Befriending, IsFriend, Grouping, IsMember, Entered
  <2> QED  BY <2>1, <2>2 DEF ClientOK
<1>12. OneAccount'
  BY <1>1, <1>5, <1>7, <1>8, <1>10, AccountsStay DEF At, RowRenamed
<1>13. Dangling' /\ OwnCreators' /\ BothWays'
  BY <1>1, <1>7, <1>8, <1>10, CreatorsStay, BothWaysStay DEF At
<1>14. AllOwned' /\ \A g \in GroupIds' : me'[group'[g].by] # 0
  BY <1>1, <1>7, <1>10, OwnedStay DEF At
<1> QED  BY <1>7, <1>8, <1>10, <1>11, <1>12, <1>13, <1>14, Turn

(* OnNameUpdated; an answer that gets lost; a renaming that is cut off *)
LEMMA AnswerRenamedInv ==
  ASSUME DInv, NEW c \in Clients, AnswerRenamed(c) \/ AnswerLost(c) \/ RenameCutOff(c)
  PROVE  DInv'
<1>1. /\ Finish(c) /\ h[c].pc \in {"friendquery", "created", "joinquery", "renamed", "groups", "rename"}
      /\ user' = user /\ friend' = friend /\ group' = group /\ groupUser' = groupUser /\ lost' = lost
      /\ holder' = holder /\ insertId' = insertId /\ me' = me /\ asked' = asked /\ shown' = shown
  BY DEF AnswerRenamed, AnswerLost, RenameCutOff, OnNameUpdated, tables, window, unanswered, At
<1>2. ~Waits(c) /\ ~At(c, "friendback") /\ ~At(c, "creator")
  BY <1>1 DEF Waits, At
<1>3. Account(c) /\ NameShown(c) /\ Befriending(c) /\ Grouping(c)
  BY DEF DInv, ClientOK, Account
<1>4. /\ shown \in [Clients -> [friends : SUBSET Int, groups : SUBSET Int]]
      /\ myName \in [Clients -> Names \cup {NoOne}]
      /\ stale \in SUBSET Clients /\ late \in SUBSET (stale \X Names)
  BY DEF DInv, Types
<1>5. me[c] # 0
  BY <1>1, <1>3 DEF Account, At
<1>6. /\ myName' \in [Clients -> Names \cup {NoOne}]
      /\ \A d \in Clients : d # c => myName'[d] = myName[d]
      /\ stale' \in SUBSET Clients /\ late' \in SUBSET (stale' \X Names)
      /\ \A d \in Clients : d # c => (d \in stale' <=> d \in stale)
      /\ c \notin stale' => Named(c, myName'[c])
  <2>1. CASE AnswerRenamed(c)
    <3>1. /\ At(c, "renamed") /\ myName' = [myName EXCEPT ![c] = h[c].arg]
          /\ late' = late /\ stale' = stale
      BY <2>1 DEF AnswerRenamed, OnNameUpdated, unanswered
    <3>2. h[c].arg \in Names /\ (c \notin stale => Named(c, h[c].arg))
      BY <1>3, <1>5, <3>1 DEF NameShown
    <3> QED  BY <1>4, <3>1, <3>2
  <2>2. CASE AnswerLost(c)
    <3>1. /\ myName' = myName /\ late' = late
          /\ stale' = IF At(c, "renamed") THEN stale \cup {c} ELSE stale
      BY <2>2 DEF AnswerLost, window
    <3>2. /\ stale' \in SUBSET Clients /\ stale \subseteq stale'
          /\ \A d \in Clients : d # c => (d \in stale' <=> d \in stale)
          /\ c \notin stale' => c \notin stale /\ ~At(c, "renamed")
      BY <1>4, <3>1
    <3> QED  BY <1>3, <1>4, <1>5, <3>1, <3>2 DEF NameShown
  <2>3. CASE RenameCutOff(c)
    <3>1. /\ myName' = myName /\ At(c, "rename") /\ late' = late \cup {<<c, h[c].arg>>}
          /\ stale' = stale \cup {c}
      BY <2>3 DEF RenameCutOff, window
    <3>2. h[c].arg \in Names
      BY <1>3, <3>1 DEF Account
    <3> QED  BY <1>4, <3>1, <3>2
  <2> QED  BY <2>1, <2>2, <2>3
<1> QED  BY <1>1, <1>2, <1>3, <1>4, <1>5, <1>6, FinishInv DEF Befriending, Grouping

(* The UPDATE of a renaming that was cut off, beside whatever its client   *)
(* does now                                                                *)
LEMMA LateRenameInv ==
  ASSUME DInv, NEW c \in Clients, LateRename(c)
  PROVE  DInv'
<1>1. PICK n \in Names :
         /\ <<c, n>> \in late /\ late' = late \ {<<c, n>>}
         /\ \/ UNCHANGED <<user, holder, insertId>>
            \/ OnFree /\ user' = [user EXCEPT ![me[c]].name = n]
  BY DEF LateRename
<1>2. /\ friend' = friend /\ group' = group /\ groupUser' = groupUser /\ lost' = lost /\ stale' = stale
      /\ h' = h /\ me' = me /\ shown' = shown /\ myName' = myName /\ asked' = asked
  BY DEF LateRename, window
<1>3. Types /\ Holding /\ Account(c) /\ Befriending(c) /\ Grouping(c) /\ user \in Seq(Row)
      /\ stale \in SUBSET Clients /\ late \in SUBSET (stale \X Names)
  BY DEF DInv, ClientOK, Types
<1>4. c \in stale /\ me[c] # 0 /\ me[c] \in UserIds /\ user[me[c]].by = c
  BY <1>1, <1>3 DEF Account, NameShown
<1>5. holder' = holder /\ insertId' \in [Conns -> Nat]
      /\ \A k \in Conns : holder[k] # NoOne => insertId'[k] = insertId[k]
  BY <1>1, <1>3, OnFreeFacts DEF Types
<1>6. /\ user' \in Seq(Row) /\ Len(user') = Len(user) /\ Len(user) \in Nat /\ user'[me[c]].by = c
      /\ \A i \in UserIds : i # me[c] => user'[i] = user[i]
  <2>1. CASE user' = user
    BY <1>3, <1>4, <2>1
  <2>2. CASE user' = [user EXCEPT ![me[c]].name = n]
    BY <1>4, <2>2, RowUpdate DEF RowRenamed
  <2> QED  BY <1>1, <2>1, <2>2
<1>7. Types'
  BY <1>1, <1>2, <1>3, <1>5, <1>6 DEF Types
<1>8. Local(c)
  BY <1>2, <1>5 DEF Local
<1>9. \A d \in Clients : Waits(d) => TheId(d)' = TheId(d)
  BY <1>2, <1>3, <1>5, DirectoryAssumption DEF Holding, TheId
<1>10. HoldsOwn(c)'
  BY <1>2, <1>3, <1>5, DirectoryAssumption DEF HoldsOwn, Holding, Waits, At
<1>11. Grows(c)
  <2>1. Len(user) <= Len(user') /\ Len(group) <= Len(group')
    BY <1>2, <1>3, <1>6 DEF Types
  <2>2. \A i \in UserIds : user'[i].by = user[i].by /\ (me[c] # i => user'[i] = user[i])
    BY <1>4, <1>6
  <2> QED  BY <1>2, <2>1, <2>2, GrowsQuietly
<1>12. ClientOK(c)'
  <2>1. Account(c)'
    BY <1>2, <1>3, <1>4, <1>6 DEF Account, NameShown, UserIds, At
  <2>2. Befriending(c)' /\ Grouping(c)'
    BY <1>2, <1>3, <1>9 DEF Befriending, IsFriend, Grouping, IsMember, Entered, GroupIds, Waits, At
  <2> QED  BY <2>1, <2>2 DEF ClientOK
<1>13. \A i \in UserIds : user'[i].by = user[i].by /\ user[i].by \in Clients
  BY <1>3, <1>4, <1>6, RowTypes
<1>14. OneAccount'
  BY <1>2, <1>6, <1>9, <1>13 DEF DInv, OneAccount, UserIds, Waits, At
<1>15. Dangling' /\ OwnCreators'
  BY <1>2, <1>7, <1>11, CreatorsStay
<1>16. BothWays'
  BY <1>2 DEF DInv, BothWays, IsFriend, At
<1>17. AllOwned' /\ \A g \in GroupIds' : me'[group'[g].by] # 0
  <2>1. \A g \in GroupIds : group[g].by \in Clients
    BY <1>3, RowTypes
  <2> QED  BY <1>2, <1>9, <2>1 DEF DInv, AllOwned, HasCreator, GroupIds, Waits, At
<1> QED  BY <1>7, <1>8, <1>10, <1>11, <1>12, <1>14, <1>15, <1>16, <1>17, Turn

(* An insertion into Friend, or its failure, on whatever connection *)
Friended(a, b) ==
    /\ friend \subseteq friend' /\ IsFriend(a, b)'
    /\ \A p \in friend' : p \in friend \/ (p = <<a, b>> /\ a \in UserIds /\ b \in UserIds)
    /\ \A x \in lost : x \in lost' \/ (x = <<"friend", a, b>> /\ <<a, b>> \in friend')

(* FriendModel::insert stores a pair of users, and what it does not is lost *)
LEMMA InsertFriendFacts ==
  ASSUME Types, NEW a, NEW b,
         InsertFriend(a, b) \/ (lost' = lost \cup {<<"friend", a, b>>} /\ friend' = friend)
  PROVE  Friended(a, b)
<1>1. DOMAIN user = UserIds
  BY DEF Types, UserIds
<1> QED  BY <1>1 DEF InsertFriend, IsUser, Friended, IsFriend

(* A step of addFriend *)
LEMMA FriendStep ==
  ASSUME DInv, NEW c \in Clients, NEW pc \in {"friendback", "friendquery"},
         At(c, "befriend") \/ At(c, "friendback"), h' = [h EXCEPT ![c].pc = pc],
         NEW a \in Nat, NEW b \in Nat, Friended(a, b), IsFriend(me[c], h[c].arg)', BothWays',
         OnFree \/ (holder' = holder /\ insertId' = insertId),
         user' = user, group' = group, groupUser' = groupUser,
         me' = me, shown' = shown, myName' = myName, asked' = asked, late' = late, stale' = stale
  PROVE  DInv'
<1> DEFINE x == [h[c] EXCEPT !.pc = pc]
<1>2. Types /\ Account(c) /\ Befriending(c) /\ Grouping(c) /\ h \in [Clients -> Handlers]
      /\ friend \in SUBSET (Nat \X Nat)
  BY DEF DInv, ClientOK, Types
<1>3. ~Waits(c) /\ me[c] # 0 /\ h[c].arg \in Nat \ {0}
  BY <1>2 DEF Waits, Account, At, Befriending
<1>4. holder' = holder /\ insertId' \in [Conns -> Nat]
      /\ \A k \in Conns : holder[k] # NoOne => insertId'[k] = insertId[k]
  BY <1>2, OnFreeFacts
<1>5. x \in Handlers /\ x.pc = pc /\ x.arg = h[c].arg /\ h' = [h EXCEPT ![c] = x]
  BY <1>2 DEF Handlers, PCs
<1> HIDE DEF x
<1>6. Local(c) /\ HoldsOwn(c)' /\ h' \in [Clients -> Handlers] /\ h'[c] = x
  BY <1>3, <1>4, <1>5, NoConnection
<1>7. Types'
  <2>1. friend' \in SUBSET (Nat \X Nat)
    BY <1>2 DEF Friended
  <2> QED  BY <1>2, <1>4, <1>6, <2>1 DEF Types
<1>8. \A q : At(c, q)' <=> q = pc
  BY <1>5, <1>6 DEF At
<1>9. Grows(c)
  <2>1. Len(user) <= Len(user') /\ Len(group) <= Len(group')
    BY <1>2 DEF Types
  <2>2. \A g, i : <<"normal", g, i>> # <<"friend", a, b>> /\ <<"creator", g, i>> # <<"friend", a, b>>
    OBVIOUS
  <2>3. \A g, i : <<"normal", g, i>> \in lost => IsMember(g, i)'
    BY <2>2 DEF Friended, IsMember
  <2>4. \A d, e : <<"friend", d, e>> \in lost => IsFriend(d, e)'
    BY DEF Friended, IsFriend
  <2>5. \A g, i : <<"creator", g, i>> \in lost => <<"creator", g, i>> \in lost'
    BY <2>2 DEF Friended
  <2> QED  BY <2>1, <2>3, <2>4, <2>5 DEF Grows, Friended
<1>10. ClientOK(c)'
  <2>1. Account(c)'
    BY <1>2, <1>3, <1>8 DEF Account, NameShown, Named, UserIds, At
  <2>2. \A i \in shown[c].friends : i # NoId => IsFriend(me[c], i)'
    BY <1>2, <1>9, Stays DEF Befriending
  <2>3. Befriending(c)'
    BY <1>3, <1>5, <1>6, <1>8, <2>2 DEF Befriending, IsFriend
  <2>4. \A g \in shown[c].groups : g # NoId => IsMember(g, me[c])'
    BY <1>2, <1>9, Stays DEF Grouping
  <2>5. Grouping(c)'
    BY <1>8, <2>4 DEF Grouping, IsMember, Entered
  <2> QED  BY <2>1, <2>3, <2>5 DEF ClientOK
<1>11. OneAccount'
  BY <1>2, <1>6, <1>7, <1>9, AccountsStay DEF At
<1>12. OwnCreators' /\ Dangling'
  <2>1. \A p \in friend' : p[1] \in UserIds' /\ p[2] \in UserIds'
    BY DEF Friended, DInv, Dangling, UserIds
  <2>2. \A r \in groupUser' : r.group \in GroupIds' /\ r.user \in UserIds'
    BY DEF DInv, Dangling, UserIds, GroupIds
  <2> QED  BY <1>7, <1>9, <2>1, <2>2, CreatorsStay DEF Dangling
<1>13. AllOwned' /\ \A g \in GroupIds' : me'[group'[g].by] # 0
  BY <1>6, <1>9, OwnedStay DEF At
<1> QED  BY <1>6, <1>7, <1>9, <1>10, <1>11, <1>12, <1>13, Turn

(* The first insert of addFriend: the second is to come *)
LEMMA BefriendInv ==
  ASSUME DInv, NEW c \in Clients, Befriend(c)
  PROVE  DInv'
<1>1. /\ At(c, "befriend") /\ h' = [h EXCEPT ![c].pc = "friendback"]
      /\ OnFree \/ (holder' = holder /\ insertId' = insertId)
      /\ InsertFriend(me[c], h[c].arg)
         \/ (lost' = lost \cup {<<"friend", me[c], h[c].arg>>} /\ friend' = friend)
      /\ user' = user /\ group' = group /\ groupUser' = groupUser
      /\ me' = me /\ shown' = shown /\ myName' = myName /\ asked' = asked
      /\ late' = late /\ stale' = stale
  BY DEF Befriend, Goto, window, unanswered
<1>2. Types /\ h[c].arg \in Nat /\ me[c] \in Nat /\ h \in [Clients -> Handlers]
  BY <1>1 DEF DInv, ClientOK, Befriending, Types
<1>3. Friended(me[c], h[c].arg)
  BY <1>1, <1>2, InsertFriendFacts
<1>4. IsFriend(me[c], h[c].arg)'
  <2>1. h'[c].arg = h[c].arg
    BY <1>1, <1>2
  <2> QED  BY <1>1, <1>3, <2>1 DEF Friended, IsFriend
<1>5. BothWays'
  <2> SUFFICES ASSUME NEW a \in Nat, NEW b \in Nat, <<a, b>> \in friend'
               PROVE  \/ IsFriend(b, a)'
                      \/ \E d \in Clients : At(d, "friendback")' /\ me'[d] = a /\ h'[d].arg = b
    BY DEF BothWays
  <2>1. At(c, "friendback")' /\ me'[c] = me[c] /\ h'[c].arg = h[c].arg
    BY <1>1, <1>2 DEF At, Handlers
  <2>2. CASE a = me[c] /\ b = h[c].arg
    BY <2>1, <2>2
  <2>3. CASE <<a, b>> \in friend
    <3>1. IsFriend(b, a) \/ \E d \in Clients : At(d, "friendback") /\ me[d] = a /\ h[d].arg = b
      BY <2>3 DEF DInv, BothWays
    <3>2. IsFriend(b, a) => IsFriend(b, a)'
      BY <1>3 DEF Friended, IsFriend
    <3>3. \A d \in Clients : At(d, "friendback") => At(d, "friendback")' /\ h'[d].arg = h[d].arg
      BY <1>1, <1>2 DEF At
    <3> QED  BY <1>1, <3>1, <3>2, <3>3
  <2> QED  BY <1>3, <2>2, <2>3 DEF Friended
<1> QED  BY <1>1, <1>2, <1>3, <1>4, <1>5, FriendStep

(* The second insert: the friendship is whole, or the row is lost *)
LEMMA BefriendBackInv ==
  ASSUME DInv, NEW c \in Clients, BefriendBack(c)
  PROVE  DInv'
<1>1. /\ At(c, "friendback") /\ h' = [h EXCEPT ![c].pc = "friendquery"]
      /\ OnFree \/ (holder' = holder /\ insertId' = insertId)
      /\ InsertFriend(h[c].arg, me[c])
         \/ (lost' = lost \cup {<<"friend", h[c].arg, me[c]>>} /\ friend' = friend)
      /\ user' = user /\ group' = group /\ groupUser' = groupUser
      /\ me' = me /\ shown' = shown /\ myName' = myName /\ asked' = asked
      /\ late' = late /\ stale' = stale
  BY DEF BefriendBack, Goto, window, unanswered
<1>2. Types /\ h[c].arg \in Nat /\ me[c] \in Nat /\ h \in [Clients -> Handlers]
      /\ IsFriend(me[c], h[c].arg)
  BY <1>1 DEF DInv, ClientOK, Befriending, Types
<1>3. Friended(h[c].arg, me[c])
  BY <1>1, <1>2, InsertFriendFacts
<1>4. h'[c].arg = h[c].arg /\ IsFriend(me[c], h[c].arg)'
  <2>1. h'[c].arg = h[c].arg
    BY <1>1, <1>2
  <2> QED  BY <1>1, <1>2, <1>3, <2>1 DEF Friended, IsFriend
<1>5. BothWays'
  <2> SUFFICES ASSUME NEW a \in Nat, NEW b \in Nat, <<a, b>> \in friend'
               PROVE  \/ IsFriend(b, a)'
                      \/ \E d \in Clients : At(d, "friendback")' /\ me'[d] = a /\ h'[d].arg = b
    BY DEF BothWays
  <2>1. CASE b = me[c] /\ a = h[c].arg
    BY <1>1, <1>4, <2>1 DEF IsFriend
  <2>2. CASE a = me[c] /\ b = h[c].arg
    BY <1>1, <1>3, <2>2 DEF IsFriend, Friended
  <2>3. CASE <<a, b>> \in friend /\ ~(a = me[c] /\ b = h[c].arg)
    <3>1. IsFriend(b, a) \/ \E d \in Clients : At(d, "friendback") /\ me[d] = a /\ h[d].arg = b
      BY <2>3 DEF DInv, BothWays
    <3>2. IsFriend(b, a) => IsFriend(b, a)'
      BY <1>3 DEF Friended, IsFriend
    <3>3. \A d \in Clients : d # c => h'[d] = h[d]
      BY <1>1, <1>2
    <3> QED  BY <1>1, <2>3, <3>1, <3>2, <3>3 DEF At
  <2> QED  BY <1>3, <2>1, <2>2, <2>3 DEF Friended
<1> QED  BY <1>1, <1>2, <1>3, <1>4, <1>5, FriendStep

(* An insertion into GroupUser, or its failure, on whatever connection *)
Membered(g, i, role) ==
    /\ groupUser \subseteq groupUser' /\ IsMember(g, i)'
    /\ \A r \in groupUser' :
          \/ r \in groupUser
          \/ /\ r = [group |-> g, user |-> i, role |-> role]
             /\ g \in GroupIds /\ i \in UserIds /\ ~Entered(g, i)
    /\ \A x \in lost : x \in lost' \/ (x = <<role, g, i>> /\ Entered(g, i)')
    /\ ~Entered(g, i) => \/ [group |-> g, user |-> i, role |-> role] \in groupUser'
                         \/ <<role, g, i>> \in lost'

(* GroupModel::addGroup enters one member, if there is none yet, and what  *)
(* it does not enter is lost                                               *)
LEMMA InsertMemberFacts ==
  ASSUME Types, NEW g, NEW i, NEW role \in {"creator", "normal"},
         InsertMember(g, i, role) \/ (lost' = lost \cup {<<role, g, i>>} /\ groupUser' = groupUser)
  PROVE  Membered(g, i, role)
<1> DEFINE row == [group |-> g, user |-> i, role |-> role]
<1>0. DOMAIN user = UserIds /\ DOMAIN group = GroupIds
  BY DEF Types, UserIds, GroupIds
<1>1. row.group = g /\ row.user = i /\ row.role = role
  OBVIOUS
<1>2. CASE lost' = lost \cup {<<role, g, i>>} /\ groupUser' = groupUser
  BY <1>2 DEF Membered, IsMember
<1>3. CASE IsGroup(g) /\ IsUser(i) /\ InsertMember(g, i, role)
  <2>1. /\ groupUser' = IF Entered(g, i) THEN groupUser ELSE groupUser \cup {row}
        /\ lost' = lost \ {<<role, g, i>>}
    BY <1>3 DEF InsertMember, Entered
  <2> HIDE DEF row
  <2>2. Entered(g, i)'
    BY <1>1, <2>1 DEF Entered
  <2>3. g \in GroupIds /\ i \in UserIds
    BY <1>0, <1>3 DEF IsGroup, IsUser
  <2> QED  BY <2>1, <2>2, <2>3 DEF Membered, IsMember, row
<1>4. CASE ~(IsGroup(g) /\ IsUser(i)) /\ InsertMember(g, i, role)
  <2>1. groupUser' = groupUser /\ lost' = lost \cup {<<role, g, i>>}
    BY <1>4 DEF InsertMember
  <2> QED  BY <2>1 DEF Membered, IsMember
<1> QED  BY <1>2, <1>3, <1>4

(* A step that enters a member *)
LEMMA GroupStep ==
  ASSUME DInv, NEW c \in Clients, NEW pc \in {"created", "joinquery"},
         NEW role \in {"creator", "normal"}, NEW g \in Nat,
         At(c, "creator") \/ At(c, "join"), role = "creator" <=> At(c, "creator"),
         h' = [h EXCEPT ![c].pc = pc], g = h[c].arg, Membered(g, me[c], role),
         OnFree \/ (holder' = holder /\ insertId' = insertId),
         user' = user, group' = group, friend' = friend,
         me' = me, shown' = shown, myName' = myName, asked' = asked, late' = late, stale' = stale
  PROVE  DInv'
<1> DEFINE x == [h[c] EXCEPT !.pc = pc]
           row == [group |-> g, user |-> me[c], role |-> role]
<1>1. row.group = g /\ row.user = me[c] /\ row.role = role
  OBVIOUS
<1>2. /\ Types /\ Account(c) /\ Befriending(c) /\ Grouping(c) /\ h \in [Clients -> Handlers]
      /\ groupUser \in SUBSET MemberRow /\ me[c] \in Nat
  BY DEF DInv, ClientOK, Types
<1>3. /\ ~Waits(c) /\ me[c] # 0 /\ ~At(c, "friendback")
      /\ me[c] \in UserIds /\ user[me[c]].by = c
  BY <1>2 DEF Waits, Account, At
<1>4. holder' = holder /\ insertId' \in [Conns -> Nat]
      /\ \A k \in Conns : holder[k] # NoOne => insertId'[k] = insertId[k]
  BY <1>2, OnFreeFacts
<1>5. x \in Handlers /\ x.pc = pc /\ x.arg = g /\ h' = [h EXCEPT ![c] = x]
  BY <1>2 DEF Handlers, PCs
<1>6. role = "creator" => g \in GroupIds /\ group[g].by = c /\ ~Entered(g, me[c])
  BY <1>2 DEF Grouping
<1>7. /\ groupUser \subseteq groupUser' /\ IsMember(g, me[c])'
      /\ \A r \in groupUser' :
            \/ r \in groupUser
            \/ r = row /\ g \in GroupIds /\ me[c] \in UserIds /\ ~Entered(g, me[c])
      /\ \A y \in lost : y \in lost' \/ (y = <<role, g, me[c]>> /\ Entered(g, me[c])')
      /\ ~Entered(g, me[c]) => row \in groupUser' \/ <<role, g, me[c]>> \in lost'
  BY DEF Membered
<1>8. row \in MemberRow
  BY <1>2 DEF MemberRow
<1> HIDE DEF x, row
<1>9. Local(c) /\ HoldsOwn(c)' /\ h' \in [Clients -> Handlers] /\ h'[c] = x
  BY <1>3, <1>4, <1>5, NoConnection
<1>10. Types'
  <2>1. groupUser' \in SUBSET MemberRow
    BY <1>2, <1>7, <1>8
  <2> QED  BY <1>2, <1>4, <1>9, <2>1 DEF Types
<1>11. \A q : At(c, q)' <=> q = pc
  BY <1>5, <1>9 DEF At
<1>12. Grows(c)
  <2>1. Len(user) <= Len(user') /\ Len(group) <= Len(group')
    BY <1>2 DEF Types
  <2>2. \A r \in groupUser' : r \in groupUser \/ (r.user = me[c] /\ me[c] # 0)
    BY <1>1, <1>3, <1>7
  <2>3. \A a, b : <<"friend", a, b>> \in lost => IsFriend(a, b)'
    BY <1>7 DEF IsFriend
  <2>4. \A f, i : <<"normal", f, i>> \in lost => IsMember(f, i)'
    BY <1>7 DEF IsMember
  <2>5. \A f, i : <<"creator", f, i>> \in lost => <<"creator", f, i>> \in lost' \/ HasCreator(f, i)'
    BY <1>1, <1>6, <1>7 DEF HasCreator
  <2> QED  BY <1>7, <2>1, <2>2, <2>3, <2>4, <2>5 DEF Grows
<1>13. ClientOK(c)'
  <2>1. Account(c)'
    BY <1>2, <1>3, <1>11 DEF Account, NameShown, Named, UserIds, At
  <2>2. Befriending(c)'
    BY <1>2, <1>11, <1>12, Stays DEF Befriending
  <2>3. \A f \in shown[c].groups : f # NoId => IsMember(f, me[c])'
    BY <1>2, <1>12, Stays DEF Grouping
  <2>4. h'[c].arg = g
    BY <1>5, <1>9
  <2>5. IsMember(h[c].arg, me[c])'
    BY <1>7
  <2>6. Grouping(c)'
    BY <1>7, <1>11, <2>3, <2>4 DEF Grouping, IsMember, Entered
  <2> QED  BY <2>1, <2>2, <2>6 DEF ClientOK
<1>14. OneAccount'
  BY <1>2, <1>3, <1>9, <1>10, <1>12, AccountsStay DEF At, Waits
<1>15. BothWays'
  BY <1>3, <1>9, <1>12, BothWaysStay
<1>16. Dangling'
  <2>1. \A r \in groupUser' : r.group \in GroupIds /\ r.user \in UserIds
    BY <1>1, <1>7 DEF DInv, Dangling
  <2> QED  BY <2>1 DEF DInv, Dangling, UserIds, GroupIds
<1>17. OwnCreators'
  <2>1. \A r \in groupUser' : r.role = "creator" => group[r.group].by = user[r.user].by
    BY <1>1, <1>3, <1>6, <1>7 DEF DInv, OwnCreators
  <2> QED  BY <2>1 DEF OwnCreators
<1>18. AllOwned'
  <2> SUFFICES ASSUME NEW f \in GroupIds, NEW d \in Clients, d = group[f].by
               PROVE  \/ HasCreator(f, me[d])' \/ <<"creator", f, me[d]>> \in lost'
                      \/ At(d, "createid")' /\ TheId(d)' = f
                      \/ At(d, "creator")' /\ h'[d].arg = f
    BY <1>2, RowTypes DEF AllOwned, GroupIds, HasCreator, At, TheId
  <2>1. CASE At(d, "creator") /\ h[d].arg = f /\ d = c
    <3>1. f = g /\ role = "creator"
      BY <2>1
    <3> QED  BY <1>1, <1>6, <1>7, <3>1, <2>1 DEF HasCreator
  <2>2. CASE At(d, "creator") /\ h[d].arg = f /\ d # c
    BY <1>9, <2>2 DEF Local, At
  <2>3. CASE At(d, "createid") /\ TheId(d) = f
    <3>1. d # c /\ Waits(d)
      BY <1>3, <2>3 DEF Waits
    <3> QED  BY <1>9, <2>3, <3>1, OthersIds
  <2>4. CASE HasCreator(f, me[d]) \/ <<"creator", f, me[d]>> \in lost
    <3>1. HasCreator(f, me[d]) => HasCreator(f, me[d])'
      BY <1>7 DEF HasCreator
    <3>2. <<"creator", f, me[d]>> \in lost => <<"creator", f, me[d]>> \in lost' \/ HasCreator(f, me[d])'
      <4>1. \A i : <<"creator", f, i>> \in lost => <<"creator", f, i>> \in lost' \/ HasCreator(f, i)'
        BY <1>12 DEF Grows
      <4> DEFINE i == me[d]
      <4>2. <<"creator", f, i>> \in lost => <<"creator", f, i>> \in lost' \/ HasCreator(f, me[d])'
        BY <4>1 DEF HasCreator
      <4> QED  BY <4>2
    <3> QED  BY <2>4, <3>1, <3>2
  <2> QED  BY <2>1, <2>2, <2>3, <2>4 DEF DInv, AllOwned
<1>19. \A f \in GroupIds' : me'[group'[f].by] # 0
  BY DEF DInv, GroupIds
<1> QED  BY <1>9, <1>10, <1>12, <1>13, <1>14, <1>15, <1>16, <1>17, <1>18, <1>19, Turn

(* The creator enters the group that it has inserted, and no other client  *)
(* has entered it in its name                                              *)
LEMMA AddCreatorInv ==
  ASSUME DInv, NEW c \in Clients, AddCreator(c)
  PROVE  DInv'
<1>1. /\ At(c, "creator") /\ h' = [h EXCEPT ![c].pc = "created"]
      /\ OnFree \/ (holder' = holder /\ insertId' = insertId)
      /\ InsertMember(h[c].arg, me[c], "creator")
         \/ (lost' = lost \cup {<<"creator", h[c].arg, me[c]>>} /\ groupUser' = groupUser)
      /\ user' = user /\ group' = group /\ friend' = friend
      /\ me' = me /\ shown' = shown /\ myName' = myName /\ asked' = asked
      /\ late' = late /\ stale' = stale
  BY DEF AddCreator, Goto, window, unanswered
<1>2. Types /\ h[c].arg \in Nat
  BY <1>1 DEF DInv, ClientOK, Grouping, GroupIds
<1>3. Membered(h[c].arg, me[c], "creator")
  BY <1>1, <1>2, InsertMemberFacts
<1> QED  BY <1>1, <1>2, <1>3, GroupStep

(* addGroup: the handler enters its client as an ordinary member *)
LEMMA JoinInv ==
  ASSUME DInv, NEW c \in Clients, Join(c)
  PROVE  DInv'
<1>1. /\ At(c, "join") /\ h' = [h EXCEPT ![c].pc = "joinquery"]
      /\ OnFree \/ (holder' = holder /\ insertId' = insertId)
      /\ InsertMember(h[c].arg, me[c], "normal")
         \/ (lost' = lost \cup {<<"normal", h[c].arg, me[c]>>} /\ groupUser' = groupUser)
      /\ user' = user /\ group' = group /\ friend' = friend
      /\ me' = me /\ shown' = shown /\ myName' = myName /\ asked' = asked
      /\ late' = late /\ stale' = stale
  BY DEF Join, Goto, window, unanswered
<1>2. Types /\ h[c].arg \in Nat
  BY <1>1 DEF DInv, ClientOK, Grouping
<1>3. Membered(h[c].arg, me[c], "normal")
  BY <1>1, <1>2, InsertMemberFacts
<1>4. ~At(c, "creator")
  BY <1>1 DEF At
<1> QED  BY <1>1, <1>2, <1>3, <1>4, GroupStep

----------------------------------------------------------------------------
(* No rows, no handler at work, no window filled *)
LEMMA InitInv ==
  ASSUME Init
  PROVE  DInv
<1>1. /\ user = <<>> /\ friend = {} /\ group = <<>> /\ groupUser = {} /\ lost = {}
      /\ holder = [k \in Conns |-> NoOne] /\ insertId = [k \in Conns |-> 0]
      /\ h = [c \in Clients |-> Idle] /\ me = [c \in Clients |-> 0]
      /\ shown = [c \in Clients |-> [friends |-> {}, groups |-> {}]]
      /\ myName = [c \in Clients |-> NoOne] /\ asked = [c \in Clients |-> 0]
      /\ late = {} /\ stale = {}
  BY DEF Init
<1>2. Idle \in Handlers /\ Idle.pc = "idle"
  BY DEF Idle, Handlers, PCs
<1>3. user \in Seq(Row) /\ group \in Seq(GroupRow) /\ Len(user) = 0 /\ Len(group) = 0
  BY <1>1
<1>4. UserIds = {} /\ GroupIds = {}
  BY <1>3 DEF UserIds, GroupIds
<1>5. Types
  <2>1. shown \in [Clients -> [friends : SUBSET Int, groups : SUBSET Int]]
    BY <1>1
  <2> QED  BY <1>1, <1>2, <1>3, <2>1 DEF Types
<1>6. \A c \in Clients : \A pc : At(c, pc) <=> pc = "idle"
  BY <1>1, <1>2 DEF At
<1>7. Holding
  BY <1>1, <1>6 DEF Holding, Waits
<1>8. ASSUME NEW c \in Clients PROVE ClientOK(c)
  <2>1. me[c] = 0 /\ shown[c].friends = {} /\ shown[c].groups = {}
    BY <1>1
  <2>2. Account(c)
    BY <1>1, <1>6, <2>1 DEF Account, NameShown
  <2>3. Befriending(c) /\ Grouping(c)
    BY <1>6, <2>1 DEF Befriending, Grouping
  <2> QED  BY <2>2, <2>3 DEF ClientOK
<1> QED
  BY <1>1, <1>4, <1>5, <1>7, <1>8 DEF DInv, Dangling, OneAccount, BothWays, OwnCreators, AllOwned

(* Every statement of every handler keeps the invariant *)
LEMMA NextInv ==
  ASSUME DInv, [Next]_vars
  PROVE  DInv'
<1>1. CASE UNCHANGED vars
  <2>1. Types' /\ Dangling' /\ Holding'
    BY <1>1 DEF vars, DInv, Types, Dangling, Holding, UserIds, GroupIds, Waits, At
  <2>2. OneAccount' /\ BothWays' /\ OwnCreators' /\ AllOwned' /\ \A g \in GroupIds' : me'[group'[g].by] # 0
    BY <1>1 DEF vars, DInv, OneAccount, BothWays, OwnCreators, AllOwned, HasCreator, IsFriend, TheId,
                UserIds, GroupIds, At
  <2>3. \A c \in Clients : ClientOK(c)'
    BY <1>1 DEF vars, DInv, ClientOK, Account, NameShown, Named, Befriending, Grouping, IsFriend, IsMember, Entered, TheId,
                UserIds, GroupIds, At
  <2> QED  BY <2>1, <2>2, <2>3 DEF DInv
<1>2. ASSUME NEW c \in Clients, Request(c) PROVE DInv'
  BY <1>2, RequestInv
<1>3. ASSUME NEW c \in Clients, Handler(c) PROVE DInv'
  <2>1. CASE RegFails(c) \/ CreateFails(c) \/ RenameFails(c)
    BY <2>1, FailsInv
  <2>2. CASE RegInsert(c)
    BY <2>2, RegInsertInv
  <2>3. CASE RegAnswer(c)
    BY <2>3, RegAnswerInv
  <2>4. CASE Befriend(c)
    BY <2>4, BefriendInv
  <2>5. CASE BefriendBack(c)
    BY <2>5, BefriendBackInv
  <2>6. CASE AnswerFriend(c)
    BY <2>6, AnswerFriendInv
  <2>7. CASE CreateInsert(c)
    BY <2>7, CreateInsertInv
  <2>8. CASE CreateId(c)
    BY <2>8, CreateIdInv
  <2>9. CASE AddCreator(c)
    BY <2>9, AddCreatorInv
  <2>10. CASE AnswerCreated(c) \/ AnswerJoined(c)
    BY <2>10, AnswerGroupInv
  <2>11. CASE Join(c)
    BY <2>11, JoinInv
  <2>12. CASE Rename(c)
    BY <2>12, RenameInv
  <2>13. CASE LoadGroups(c)
    BY <2>13, LoadGroupsInv
  <2>14. CASE AnswerRenamed(c) \/ AnswerLost(c) \/ RenameCutOff(c)
    BY <2>14, AnswerRenamedInv
  <2>15. CASE LateRename(c)
    BY <2>15, LateRenameInv
  <2> QED
    BY <1>3, <2>1, <2>2, <2>3, <2>4, <2>5, <2>6, <2>7, <2>8, <2>9, <2>10, <2>11, <2>12, <2>13, <2>14,
       <2>15 DEF Handler
<1> QED  BY <1>1, <1>2, <1>3 DEF Next

(* Whatever statements interleave and fail (chatservice.cpp: reg,          *)
(* addFriend, createGroup, addGroup, updateName, login), the tables, the   *)
(* ids that the handlers have been told, and the windows agree: a client   *)
(* has one account and the groups it has created, and what is missing in   *)
(* a table is what a failed statement has lost.                            *)
THEOREM DirectoryInvariant == Spec => []DInv
<1> QED  BY InitInv, NextInv, PTL DEF Spec

(* The generated id that a handler asks for (UserModel::insert and         *)
(* GroupModel::createGroup, mysql_insert_id) is that of its own row: a     *)
(* pooled connection is not given to anyone between the INSERT and the     *)
(* question.  Rows refer to rows.                                          *)
THEOREM OwnIds == Spec => []IdsOwn
<1>1. DInv => IdsOwn
  <2> SUFFICES ASSUME DInv PROVE IdsOwn
    OBVIOUS
  <2>1. Types /\ Dangling /\ Holding /\ OwnCreators /\ \A c \in Clients : Account(c)
    BY DEF DInv, ClientOK
  <2>2. DOMAIN user = UserIds /\ DOMAIN group = GroupIds
    BY <2>1 DEF Types, UserIds, GroupIds
  <2>3. friend \subseteq (DOMAIN user) \X (DOMAIN user)
    BY <2>1, <2>2 DEF Types, Dangling
  <2>4. groupUser \subseteq [group : DOMAIN group, user : DOMAIN user, role : {"creator", "normal"}]
    BY <2>1, <2>2 DEF Types, Dangling, MemberRow
  <2>5. \A c \in Clients : h[c].pc \in PCs
    BY <2>1 DEF Types, Handlers
  <2>6. TypeOK
    BY <2>1, <2>3, <2>4, <2>5 DEF TypeOK, Types, Holding, Waits, At, Row, GroupRow
  <2> QED  BY <2>1, <2>2, <2>6 DEF IdsOwn, Account, OwnCreators
<1> QED  BY <1>1, DirectoryInvariant, PTL

(* Neither a friendship nor a group stays half stored, but where a         *)
(* statement has failed or is still to come: addFriend inserts both pairs, *)
(* createGroup the group and its only creator (chatservice.cpp).           *)
THEOREM TwoInsertsWhole == Spec => []StoredWhole
<1>1. DInv => StoredWhole
  <2> SUFFICES ASSUME DInv PROVE StoredWhole
    OBVIOUS
  <2>1. Types /\ Dangling /\ OneAccount /\ BothWays /\ OwnCreators /\ AllOwned
        /\ \A g \in GroupIds : me[group[g].by] # 0
    BY DEF DInv
  <2>2. FriendsMutual
    <3> SUFFICES ASSUME NEW p \in friend
                 PROVE  \/ <<p[2], p[1]>> \in friend \/ <<"friend", p[2], p[1]>> \in lost
                        \/ \E c \in Clients : At(c, "friendback") /\ me[c] = p[1] /\ h[c].arg = p[2]
      BY DEF FriendsMutual
    <3>1. PICK a, b \in Nat : p = <<a, b>>
      BY <2>1 DEF Types
    <3> QED  BY <2>1, <3>1 DEF BothWays, IsFriend
  <2>3. GroupsOwned
    <3>1. DOMAIN group = GroupIds
      BY <2>1 DEF Types, GroupIds
    <3> SUFFICES ASSUME NEW g \in GroupIds, HasCreator(g, me[group[g].by])
                 PROVE  {r.user : r \in {q \in groupUser : q.group = g /\ q.role = "creator"}}
                           = {me[group[g].by]}
      BY <2>1, <3>1 DEF GroupsOwned, AllOwned
    <3>2. ASSUME NEW r \in groupUser, r.group = g, r.role = "creator"
          PROVE  r.user = me[group[g].by]
      BY <2>1, <3>2 DEF OwnCreators, OneAccount, Dangling
    <3> QED  BY <3>2 DEF HasCreator
  <2> QED  BY <2>2, <2>3 DEF StoredWhole
<1> QED  BY <1>1, DirectoryInvariant, PTL

(* A friend or a group that a window lists is one in MySQL, up to the      *)
(* failures that addFriend, createGroup and addGroup answer as success,    *)
(* and the name shown is the stored one, but between a renaming and its    *)
(* answer and for a client that has lost such an answer (updateName,       *)
(* Widget::onNameUpdated, and the slot of the reconnection's login, which  *)
(* takes no name).                                                         *)
THEOREM WindowsTrue == Spec => []ShownIsStored
<1>1. DInv => ShownIsStored
  <2> SUFFICES ASSUME DInv PROVE ShownIsStored
    OBVIOUS
  <2>1. \A c \in Clients : Account(c) /\ Befriending(c) /\ Grouping(c)
    BY DEF DInv, ClientOK
  <2>2. ASSUME NEW c \in Clients, NEW g, IsMember(g, me[c])
        PROVE  \/ g \in GroupsOf(me[c])
               \/ <<"normal", g, me[c]>> \in lost \/ <<"creator", g, me[c]>> \in lost
    BY <2>2 DEF IsMember, Entered, GroupsOf
  <2> QED
    BY <2>1, <2>2 DEF ShownIsStored, Account, NameShown, Named, Befriending, Grouping, IsFriend
<1> QED  BY <1>1, DirectoryInvariant, PTL
=============================================================================
