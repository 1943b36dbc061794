---------------------------- MODULE SessionTable ----------------------------
(***************************************************************************)
(* _userConnMap of one server process when several users log in on several *)
(* connections, in any order, also two users on the same connection: the   *)
(* server looks at the id in a message, and at nothing else, to know whom  *)
(* the message is about (login, loginout and clientCloseException in       *)
(* src/ChatServer/src/server/chatservice.cpp).  ChatService has the rest   *)
(* of these handlers, for connections that are used by one user.           *)
(*                                                                         *)
(* One step is one critical section of _connMutex or one send.  The state  *)
(* column is not kept here: every process writes it, and a write may fail, *)
(* so a login may find either value in it.                                 *)
(***************************************************************************)
EXTENDS FiniteSets

CONSTANTS Users, Sockets, NoSocket, NoUser

ASSUME TableAssumption == NoSocket \notin Sockets /\ NoUser \notin Users

VARIABLES
    link,                \* open, half (shutdown() called), down
    at,                  \* where the handler of each connection is
    whom,                \* the user that a login handler has read
    userConnMap,         \* [user]: the registered connection
    connectionLastTime,  \* connections in the heartbeat table
    session,             \* users whose client on a connection was told that it is logged in
    \* only recorded:
    logins,              \* users registered on a connection so far
    ousted               \* open connections of a user whose entry another one
                         \* overwrote or erased, and shut nothing down

table == <<userConnMap, connectionLastTime>>
history == <<logins, ousted>>
tableVars == <<link, at, whom, table, session, history>>

GoesTo(c, l) == at' = [at EXCEPT ![c] = l]
Entries(c) == {u \in Users : userConnMap[u] = c}

(* The entry of u goes to c, or to nobody, and the connection that had it  *)
(* is not told                                                             *)
Oust(u, c) ==
    ousted' = (ousted \cup {<<d, u>> : d \in {e \in Sockets : userConnMap[u] = e /\ link[e] # "down"}})
                  \ {<<c, u>>}

TableInit ==
    /\ link = [c \in Sockets |-> "open"]
    /\ at = [c \in Sockets |-> "idle"]
    /\ whom = [c \in Sockets |-> NoUser]
    /\ userConnMap = [u \in Users |-> NoSocket]
    /\ connectionLastTime = {}
    /\ session = [c \in Sockets |-> {}]
    /\ logins = [c \in Sockets |-> {}]
    /\ ousted = {}

(* onMessage records the time, then dispatches the message *)
Receive(c) ==
    /\ at[c] = "idle"
    /\ link[c] # "down"
    /\ connectionLastTime' = connectionLastTime \cup {c}

(* The credentials are right; what the row says of the state decides       *)
(* between the two ways to register.                                       *)
Login(c, u) ==
    /\ Receive(c)
    /\ whom' = [whom EXCEPT ![c] = u]
    /\ GoesTo(c, "relogin") \/ GoesTo(c, "register")
    /\ UNCHANGED <<link, userConnMap, session, history>>

Registers(c) ==
    /\ userConnMap' = [userConnMap EXCEPT ![whom[c]] = c]
    /\ logins' = [logins EXCEPT ![c] = @ \cup {whom[c]}]
    /\ GoesTo(c, "ack")

(* Mutant: the registered connection is not shut down *)
ReloginKicksNobody(c) ==
    /\ at[c] = "relogin"
    /\ Registers(c)
    /\ ousted' = ousted \ {<<c, whom[c]>>}
    /\ UNCHANGED <<link, whom, connectionLastTime, session>>

(* Already online: the registered connection is shut down (be it this very *)
(* one) and the new one takes its place                                    *)
Relogin(c) ==
    /\ at[c] = "relogin"
    /\ Registers(c)
    /\ link' = [d \in Sockets |->
                   IF d = userConnMap[whom[c]] /\ link[d] = "open" THEN "half" ELSE link[d]]
    /\ ousted' = ousted \ {<<c, whom[c]>>}
    /\ UNCHANGED <<whom, connectionLastTime, session>>

Register(c) ==
    /\ at[c] = "register"
    /\ Registers(c)
    /\ Oust(whom[c], c)
    /\ UNCHANGED <<link, whom, connectionLastTime, session>>

(* LOGIN_MSG_ACK *)
Ack(c) ==
    /\ at[c] = "ack"
    /\ session' = IF link[c] = "open" THEN [session EXCEPT ![c] = @ \cup {whom[c]}] ELSE session
    /\ whom' = [whom EXCEPT ![c] = NoUser]
    /\ GoesTo(c, "idle")
    /\ UNCHANGED <<link, table, history>>

(* LOGINOUT_MSG erases the registration of the user it names, whichever    *)
(* connection that is                                                      *)
Logout(c, u) ==
    /\ Receive(c)
    /\ userConnMap' = [userConnMap EXCEPT ![u] = NoSocket]
    /\ session' = [session EXCEPT ![c] = @ \ {u}]
    /\ Oust(u, c)
    /\ GoesTo(c, "untrack")
    /\ UNCHANGED <<link, whom, logins>>

(* The peer closed the connection, or what shutdown() began is complete *)
PeerClose(c) ==
    /\ at[c] = "idle"
    /\ link[c] # "down"
    /\ link' = [link EXCEPT ![c] = "down"]
    /\ GoesTo(c, "close")
    /\ session' = [session EXCEPT ![c] = {}]
    /\ ousted' = {x \in ousted : x[1] # c}
    /\ UNCHANGED <<whom, table, logins>>

(* Mutant: the loop ends before the entry is erased *)
CloseErasesNothing(c) ==
    /\ at[c] = "close"
    /\ GoesTo(c, "untrack")
    /\ UNCHANGED <<link, whom, table, session, history>>

(* clientCloseException erases the first entry it finds with this          *)
(* connection, and looks no further                                        *)
CloseErase(c) ==
    /\ at[c] = "close"
    /\ \/ \E u \in Entries(c) : userConnMap' = [userConnMap EXCEPT ![u] = NoSocket]
       \/ Entries(c) = {} /\ UNCHANGED userConnMap
    /\ GoesTo(c, "untrack")
    /\ UNCHANGED <<link, whom, connectionLastTime, session, history>>

Untrack(c) ==
    /\ at[c] = "untrack"
    /\ connectionLastTime' = connectionLastTime \ {c}
    /\ GoesTo(c, "idle")
    /\ UNCHANGED <<link, whom, userConnMap, session, history>>

(* checkHeartbeat: a connection that has been silent is shut down *)
HeartbeatTimeout(c) ==
    /\ c \in connectionLastTime
    /\ link[c] = "open"
    /\ link' = [link EXCEPT ![c] = "half"]
    /\ UNCHANGED <<at, whom, table, session, history>>

Handler(c) == Relogin(c) \/ Register(c) \/ Ack(c) \/ CloseErase(c) \/ Untrack(c)

TableNext ==
    \/ \E c \in Sockets : Handler(c) \/ PeerClose(c) \/ HeartbeatTimeout(c)
    \/ \E c \in Sockets, u \in Users : Login(c, u) \/ Logout(c, u)

TableSpec == TableInit /\ [][TableNext]_tableVars

----------------------------------------------------------------------------
(* However login, kick, loginout and close interleave: the table names a    *)
(* connection only for users who logged in on it, and when the close        *)
(* handler of a connection is done at least one of those is not entered     *)
(* with it any more.  So no entry outlives the connection of a single user. *)
(* (Of two users on a connection one stays behind, since the loop of        *)
(* clientCloseException stops at the first entry: what is sent to him is    *)
(* lost until he logs in again.)                                            *)
SessionTableSound ==
    \A c \in Sockets :
        /\ Entries(c) \subseteq logins[c]
        /\ link[c] = "down" /\ at[c] # "close" /\ logins[c] # {} => Entries(c) # logins[c]

(* A client that has been told that its user is logged in, and whose        *)
(* connection has not been shut down, is the one that the user's messages   *)
(* go to: a login elsewhere has kicked it.  (Not so when the login saw the  *)
(* state column offline, as two logins at a time may or after a failed      *)
(* update, or when a LOGINOUT_MSG named the user on another connection:     *)
(* these replace or erase an entry and shut nothing down.)                  *)
SessionHeld ==
    \A c \in Sockets, u \in Users :
        u \in session[c] /\ link[c] = "open"
            => userConnMap[u] = c \/ <<c, u>> \in ousted

============================================================================
