----------------------------- MODULE Directory -----------------------------
(***************************************************************************)
(* Registration, friends, groups and renaming: the handlers reg, addFriend,*)
(* createGroup, addGroup and updateName of ChatService                     *)
(* (src/ChatServer/src/server/chatservice.cpp) with the model classes they *)
(* call, the tables of src/README.md, and the lists the Qt client shows.   *)
(*                                                                         *)
(* The handlers of one client run one after the other, those of different  *)
(* clients concurrently.  One step is one SQL statement on a pooled        *)
(* connection; an INSERT whose generated id is asked for keeps its         *)
(* connection until mysql_insert_id.  Every statement may fail: acquire    *)
(* gives up after its timeout, or MySQL reports an error.  The connection  *)
(* of a client may drop while its handler runs: the answer goes nowhere,   *)
(* the window stays as it is, and the handler goes on.  For a renaming,    *)
(* whose UPDATE would undo a later one, the model lets it go on also       *)
(* beside the requests that follow; insertions, which only add rows, are   *)
(* over before the next request.                                           *)
(***************************************************************************)
EXTENDS Integers, Sequences

CONSTANTS Clients, Names, Conns, NoOne,
          MaxRequests   \* bound: requests of one client

ASSUME DirectoryAssumption == NoOne \notin Clients /\ MaxRequests \in Nat

VARIABLES
    user,        \* table User: the row with id i is user[i]
    friend,      \* table Friend: pairs of ids
    group,       \* table AllGroup: the row with id g is group[g]
    groupUser,   \* table GroupUser
    holder,      \* who holds a pooled connection between two calls
    insertId,    \* what mysql_insert_id returns on a connection
    h,           \* the handler of a client: where it stands, its argument, its
                 \* connection, and what it has read
    me,          \* the id under which a client acts, 0 before it has one
    shown,       \* friends and groups that the client's window lists
    myName,      \* the name it shows
    asked,       \* how many requests a client has made
    late,        \* renamings whose connection is gone and whose UPDATE is to come
    stale,       \* clients that got no answer to a renaming (steers nothing)
    lost         \* rows whose last insertion failed or was ignored (steers nothing)

vars == <<user, friend, group, groupUser, holder, insertId, h, me, shown, myName, asked,
          late, stale, lost>>
tables == <<user, friend, group, groupUser>>
window == <<me, shown, myName>>
unanswered == <<late, stale>>

Idle == [pc |-> "idle", arg |-> 0, conn |-> NoOne, seen |-> {}]

(* A default-constructed User or Group has the id -1 *)
NoId == -1

Init ==
    /\ user = <<>> /\ friend = {} /\ group = <<>> /\ groupUser = {}
    /\ holder = [k \in Conns |-> NoOne] /\ insertId = [k \in Conns |-> 0]
    /\ h = [c \in Clients |-> Idle]
    /\ me = [c \in Clients |-> 0]
    /\ shown = [c \in Clients |-> [friends |-> {}, groups |-> {}]]
    /\ myName = [c \in Clients |-> NoOne]
    /\ asked = [c \in Clients |-> 0]
    /\ late = {} /\ stale = {} /\ lost = {}

----------------------------------------------------------------------------
At(c, pc) == h[c].pc = pc
Goto(c, pc) == h' = [h EXCEPT ![c].pc = pc]
Finish(c) == h' = [h EXCEPT ![c] = Idle]

(* A request of the client.  The ids that a user types in need not exist. *)
Ask(c, pc, arg) ==
    /\ At(c, "idle") /\ asked[c] < MaxRequests
    /\ asked' = [asked EXCEPT ![c] = @ + 1]
    /\ h' = [h EXCEPT ![c] = [Idle EXCEPT !.pc = pc, !.arg = arg]]
    /\ UNCHANGED <<tables, holder, insertId, window, unanswered, lost>>

AskReg(c) == me[c] = 0 /\ \E n \in Names : Ask(c, "reg", n)
AskAddFriend(c) == me[c] # 0 /\ \E i \in 1..(Len(user) + 1) : Ask(c, "befriend", i)
AskCreateGroup(c) == me[c] # 0 /\ Ask(c, "create", 0)
AskAddGroup(c) == me[c] # 0 /\ \E g \in 1..(Len(group) + 1) : Ask(c, "join", g)
AskUpdateName(c) == me[c] # 0 /\ \E n \in Names : Ask(c, "rename", n)

(* A statement without generated id runs on any connection that is free *)
OnFree == \E k \in Conns : /\ holder[k] = NoOne
                           /\ insertId' = [insertId EXCEPT ![k] = 0]
                           /\ UNCHANGED holder

----------------------------------------------------------------------------
(* MySQL: the constraints of the tables *)

NameTaken(n, i) == \E j \in DOMAIN user : j # i /\ user[j].name = n
IsUser(i) == i \in DOMAIN user
IsGroup(g) == g \in DOMAIN group

(* INSERT IGNORE: a duplicate or a dangling id leaves the table as it is *)
InsertFriend(a, b) ==
    IF IsUser(a) /\ IsUser(b)
    THEN friend' = friend \cup {<<a, b>>} /\ lost' = lost \ {<<"friend", a, b>>}
    ELSE UNCHANGED friend /\ lost' = lost \cup {<<"friend", a, b>>}

(* INSERT, whose errors GroupModel::addGroup ignores *)
InsertMember(g, i, role) ==
    IF IsGroup(g) /\ IsUser(i)
    THEN /\ groupUser' = IF \E r \in groupUser : r.group = g /\ r.user = i THEN groupUser
                         ELSE groupUser \cup {[group |-> g, user |-> i, role |-> role]}
         /\ lost' = lost \ {<<role, g, i>>}
    ELSE UNCHANGED groupUser /\ lost' = lost \cup {<<role, g, i>>}

(* SELECT: the row, or a default-constructed one if it is not there or the *)
(* statement fails                                                         *)
QueryUser(i) == {j \in {i, NoId} : j = NoId \/ IsUser(j)}
QueryGroup(g) == {j \in {g, NoId} : j = NoId \/ IsGroup(j)}

(* An INSERT with generated id, which is i, on connection k *)
Generated(c, k, i, pc) ==
    /\ holder[k] = NoOne
    /\ holder' = [holder EXCEPT ![k] = c]
    /\ insertId' = [insertId EXCEPT ![k] = i]
    /\ h' = [h EXCEPT ![c].pc = pc, ![c].conn = k]

----------------------------------------------------------------------------
(* The slots of the client's window *)

OnFriendAdded(c, i) ==
    shown' = [shown EXCEPT ![c].friends = @ \cup {i}] /\ UNCHANGED <<me, myName>>

OnGroupCreated(c, g) ==
    shown' = [shown EXCEPT ![c].groups = @ \cup {g}] /\ UNCHANGED <<me, myName>>

OnNameUpdated(c, n) ==
    myName' = [myName EXCEPT ![c] = n] /\ UNCHANGED <<me, shown>>

----------------------------------------------------------------------------
(* reg *)

RegFails(c) ==
    /\ At(c, "reg") /\ Finish(c)
    /\ UNCHANGED <<tables, holder, insertId, window, asked, unanswered, lost>>

(* Mutant: the connection is given back before the id is asked for *)
RegInsertReleases(c) ==
    /\ At(c, "reg") /\ ~NameTaken(h[c].arg, 0)
    /\ user' = Append(user, [name |-> h[c].arg, by |-> c])
    /\ \E k \in Conns : /\ holder[k] = NoOne
                        /\ insertId' = [insertId EXCEPT ![k] = Len(user) + 1]
                        /\ h' = [h EXCEPT ![c].pc = "regid", ![c].conn = k]
    /\ UNCHANGED <<friend, group, groupUser, holder, window, asked, unanswered, lost>>

(* UserModel::insert *)
RegInsert(c) ==
    /\ At(c, "reg") /\ ~NameTaken(h[c].arg, 0)
    /\ user' = Append(user, [name |-> h[c].arg, by |-> c])
    /\ \E k \in Conns : Generated(c, k, Len(user) + 1, "regid")
    /\ UNCHANGED <<friend, group, groupUser, window, asked, unanswered, lost>>

(* The client learns its id, and logs in with it *)
RegAnswer(c) ==
    /\ At(c, "regid") /\ Finish(c)
    /\ me' = [me EXCEPT ![c] = insertId[h[c].conn]]
    /\ myName' = [myName EXCEPT ![c] = h[c].arg]
    /\ holder' = [holder EXCEPT ![h[c].conn] = NoOne]
    /\ UNCHANGED <<tables, insertId, shown, asked, unanswered, lost>>

----------------------------------------------------------------------------
(* addFriend: two inserts, then the answer, whatever became of them *)

Befriend(c) ==
    /\ At(c, "befriend") /\ Goto(c, "friendback")
    /\ \/ OnFree /\ InsertFriend(me[c], h[c].arg)
       \/ lost' = lost \cup {<<"friend", me[c], h[c].arg>>} /\ UNCHANGED <<friend, holder, insertId>>
    /\ UNCHANGED <<user, group, groupUser, window, asked, unanswered>>

BefriendBack(c) ==
    /\ At(c, "friendback") /\ Goto(c, "friendquery")
    /\ \/ OnFree /\ InsertFriend(h[c].arg, me[c])
       \/ lost' = lost \cup {<<"friend", h[c].arg, me[c]>>} /\ UNCHANGED <<friend, holder, insertId>>
    /\ UNCHANGED <<user, group, groupUser, window, asked, unanswered>>

AnswerFriend(c) ==
    /\ At(c, "friendquery") /\ Finish(c)
    /\ \E i \in QueryUser(h[c].arg) : OnFriendAdded(c, i)
    /\ UNCHANGED <<tables, holder, insertId, asked, unanswered, lost>>

----------------------------------------------------------------------------
(* createGroup; nothing is answered when the first INSERT fails *)

CreateFails(c) ==
    /\ At(c, "create") /\ Finish(c)
    /\ UNCHANGED <<tables, holder, insertId, window, asked, unanswered, lost>>

CreateInsert(c) ==
    /\ At(c, "create")
    /\ group' = Append(group, [by |-> c])
    /\ \E k \in Conns : Generated(c, k, Len(group) + 1, "createid")
    /\ UNCHANGED <<user, friend, groupUser, window, asked, unanswered, lost>>

(* mysql_insert_id, and the connection is given back *)
CreateId(c) ==
    /\ At(c, "createid")
    /\ h' = [h EXCEPT ![c] = [Idle EXCEPT !.pc = "creator", !.arg = insertId[h[c].conn]]]
    /\ holder' = [holder EXCEPT ![h[c].conn] = NoOne]
    /\ UNCHANGED <<tables, insertId, window, asked, unanswered, lost>>

(* Mutant: the creator is entered like anyone who joins *)
AddCreatorAsNormal(c) ==
    /\ At(c, "creator") /\ Goto(c, "created")
    /\ \/ OnFree /\ InsertMember(h[c].arg, me[c], "normal")
       \/ lost' = lost \cup {<<"creator", h[c].arg, me[c]>>} /\ UNCHANGED <<groupUser, holder, insertId>>
    /\ UNCHANGED <<user, friend, group, window, asked, unanswered>>

AddCreator(c) ==
    /\ At(c, "creator") /\ Goto(c, "created")
    /\ \/ OnFree /\ InsertMember(h[c].arg, me[c], "creator")
       \/ lost' = lost \cup {<<"creator", h[c].arg, me[c]>>} /\ UNCHANGED <<groupUser, holder, insertId>>
    /\ UNCHANGED <<user, friend, group, window, asked, unanswered>>

AnswerCreated(c) ==
    /\ At(c, "created") /\ Finish(c)
    /\ OnGroupCreated(c, h[c].arg)
    /\ UNCHANGED <<tables, holder, insertId, asked, unanswered, lost>>

----------------------------------------------------------------------------
(* addGroup *)

Join(c) ==
    /\ At(c, "join") /\ Goto(c, "joinquery")
    /\ \/ OnFree /\ InsertMember(h[c].arg, me[c], "normal")
       \/ lost' = lost \cup {<<"normal", h[c].arg, me[c]>>} /\ UNCHANGED <<groupUser, holder, insertId>>
    /\ UNCHANGED <<user, friend, group, window, asked, unanswered>>

AnswerJoined(c) ==
    /\ At(c, "joinquery") /\ Finish(c)
    /\ \E g \in QueryGroup(h[c].arg) : OnGroupCreated(c, g)
    /\ UNCHANGED <<tables, holder, insertId, asked, unanswered, lost>>

----------------------------------------------------------------------------
(* updateName: "Name already exists" is answered to every failure *)

RenameFails(c) ==
    /\ At(c, "rename") /\ Finish(c)
    /\ UNCHANGED <<tables, holder, insertId, window, asked, unanswered, lost>>

(* Mutant: the answer does not depend on the success of the UPDATE *)
RenameAnswersAlways(c) ==
    /\ At(c, "rename") /\ Goto(c, "renamed")
    /\ OnFree
    /\ user' = IF NameTaken(h[c].arg, me[c]) THEN user ELSE [user EXCEPT ![me[c]].name = h[c].arg]
    /\ UNCHANGED <<friend, group, groupUser, window, asked, unanswered, lost>>

Rename(c) ==
    /\ At(c, "rename") /\ Goto(c, "renamed")
    /\ OnFree /\ ~NameTaken(h[c].arg, me[c])
    /\ user' = [user EXCEPT ![me[c]].name = h[c].arg]
    /\ UNCHANGED <<friend, group, groupUser, window, asked, unanswered, lost>>

AnswerRenamed(c) ==
    /\ At(c, "renamed") /\ Finish(c)
    /\ OnNameUpdated(c, h[c].arg)
    /\ UNCHANGED <<tables, holder, insertId, asked, unanswered, lost>>

----------------------------------------------------------------------------
(* The connection drops.  The slot of the reconnection's login takes       *)
(* neither the lists nor the name of that login.                           *)

AnswerLost(c) ==
    /\ h[c].pc \in {"friendquery", "created", "joinquery", "renamed", "groups"} /\ Finish(c)
    /\ stale' = IF At(c, "renamed") THEN stale \cup {c} ELSE stale
    /\ UNCHANGED <<tables, holder, insertId, window, asked, late, lost>>

RenameCutOff(c) ==
    /\ At(c, "rename") /\ Finish(c)
    /\ late' = late \cup {<<c, h[c].arg>>} /\ stale' = stale \cup {c}
    /\ UNCHANGED <<tables, holder, insertId, window, asked, lost>>

(* The UPDATE of a renaming that nobody waits for any more *)
LateRename(c) ==
    /\ \E n \in Names :
          /\ <<c, n>> \in late /\ late' = late \ {<<c, n>>}
          /\ \/ UNCHANGED <<user, holder, insertId>>
             \/ /\ OnFree /\ ~NameTaken(n, me[c])
                /\ user' = [user EXCEPT ![me[c]].name = n]
    /\ UNCHANGED <<friend, group, groupUser, h, window, asked, stale, lost>>

----------------------------------------------------------------------------
(* login fills a new window: FriendModel::query, then queryGroups; a       *)
(* statement that fails leaves its list empty.  The name is the one that   *)
(* login has read at its beginning.                                        *)

FriendsOf(i) == {p[2] : p \in {q \in friend : q[1] = i}}
GroupsOf(i) == {r.group : r \in {q \in groupUser : q.user = i}}

LoadFriends(c) ==
    /\ me[c] # 0 /\ At(c, "idle") /\ asked[c] < MaxRequests
    /\ asked' = [asked EXCEPT ![c] = @ + 1]
    /\ \E F \in {FriendsOf(me[c]), {}} :
          h' = [h EXCEPT ![c] = [Idle EXCEPT !.pc = "groups", !.arg = user[me[c]].name, !.seen = F]]
    /\ UNCHANGED <<tables, holder, insertId, window, unanswered, lost>>

LoadGroups(c) ==
    /\ At(c, "groups") /\ Finish(c)
    /\ \E G \in {GroupsOf(me[c]), {}} :
          shown' = [shown EXCEPT ![c] = [friends |-> h[c].seen, groups |-> G]]
    /\ myName' = [myName EXCEPT ![c] = h[c].arg]
    /\ UNCHANGED <<tables, holder, insertId, me, asked, unanswered, lost>>

----------------------------------------------------------------------------
Request(c) == AskReg(c) \/ AskAddFriend(c) \/ AskCreateGroup(c) \/ AskAddGroup(c)
              \/ AskUpdateName(c) \/ LoadFriends(c)

Handler(c) ==
    \/ RegFails(c) \/ RegInsert(c) \/ RegAnswer(c)
    \/ Befriend(c) \/ BefriendBack(c) \/ AnswerFriend(c)
    \/ CreateFails(c) \/ CreateInsert(c) \/ CreateId(c) \/ AddCreator(c) \/ AnswerCreated(c)
    \/ Join(c) \/ AnswerJoined(c)
    \/ RenameFails(c) \/ Rename(c) \/ AnswerRenamed(c)
    \/ AnswerLost(c) \/ RenameCutOff(c) \/ LateRename(c)
    \/ LoadGroups(c)

Next == \E c \in Clients : Request(c) \/ Handler(c)

Spec == Init /\ [][Next]_vars

----------------------------------------------------------------------------
PCs == {"idle", "reg", "regid", "befriend", "friendback", "friendquery", "create", "createid",
        "creator", "created", "join", "joinquery", "rename", "renamed",
        "groups"}

(* Tables and windows have their types, rows refer to existing rows, and a *)
(* connection is held exactly by a handler that waits for a generated id.  *)
TypeOK ==
    /\ user \in Seq([name : Names, by : Clients])
    /\ group \in Seq([by : Clients])
    /\ friend \subseteq (DOMAIN user) \X (DOMAIN user)
    /\ groupUser \subseteq [group : DOMAIN group, user : DOMAIN user, role : {"creator", "normal"}]
    /\ insertId \in [Conns -> Nat] /\ me \in [Clients -> Nat]
    /\ \A k \in Conns : holder[k] # NoOne => h[holder[k]].conn = k
    /\ \A c \in Clients :
          /\ h[c].pc \in PCs
          /\ h[c].pc \in {"regid", "createid"} => holder[h[c].conn] = c
    /\ late \subseteq stale \X Names /\ stale \subseteq Clients

(* The generated id that a client is told belongs to the row it inserted,  *)
(* whatever other handlers insert in between: no one logs in to, or enters *)
(* as creator of, what somebody else has created.                          *)
IdsOwn ==
    /\ TypeOK
    /\ \A c \in Clients : me[c] # 0 => me[c] \in DOMAIN user /\ user[me[c]].by = c
    /\ \A r \in groupUser : r.role = "creator" => group[r.group].by = user[r.user].by

(* A friendship is stored both ways, except while addFriend stands between *)
(* its two inserts, and except for a row whose insertion has failed (or    *)
(* came before that user was registered) and has not been repeated.        *)
FriendsMutual ==
    \A p \in friend :
       \/ <<p[2], p[1]>> \in friend
       \/ <<"friend", p[2], p[1]>> \in lost
       \/ \E c \in Clients : At(c, "friendback") /\ me[c] = p[1] /\ h[c].arg = p[2]

(* Every group has its creator as a member, and no second one, except      *)
(* while createGroup is under way and unless its second insert has failed  *)
(* (the creator can only join as an ordinary member then).                 *)
GroupsOwned ==
    \A g \in DOMAIN group :
       LET by == group[g].by
       IN  \/ {r.user : r \in {q \in groupUser : q.group = g /\ q.role = "creator"}} = {me[by]}
           \/ <<"creator", g, me[by]>> \in lost
           \/ At(by, "createid") \/ At(by, "creator")

(* What takes two inserts, a friendship or a group, is stored as a whole, *)
(* up to those exceptions.                                                *)
StoredWhole == FriendsMutual /\ GroupsOwned

(* What a window lists is stored: a friend or a group that the server has  *)
(* answered is one in MySQL, unless the insertion has failed (the answer   *)
(* does not tell).  The name shown is the one stored, but between a        *)
(* renaming and its answer, and for a client that has lost such an answer  *)
(* with its connection.                                                    *)
ShownIsStored ==
    \A c \in Clients :
       /\ \A i \in shown[c].friends \ {NoId} :
             <<me[c], i>> \in friend \/ <<"friend", me[c], i>> \in lost
       /\ \A g \in shown[c].groups \ {NoId} :
             g \in GroupsOf(me[c]) \/ <<"normal", g, me[c]>> \in lost \/ <<"creator", g, me[c]>> \in lost
       /\ me[c] # 0 /\ c \notin stale /\ ~At(c, "renamed") => myName[c] = user[me[c]].name
============================================================================
