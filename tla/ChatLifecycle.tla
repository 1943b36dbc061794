--------------------------- MODULE ChatLifecycle ---------------------------
(***************************************************************************)
(* ChatService on processes that start, exit and crash.                    *)
(*                                                                         *)
(* The exit (main in src/ChatServer/src/server/main.cpp): the base loop    *)
(* ends, and with it the heartbeat check; reset() records every user of    *)
(* the database as offline; the pool closes; and only then, when main      *)
(* returns, ~TcpServer destroys the connections and joins the IO threads,  *)
(* which have been running handlers all the time.  A process that dies     *)
(* leaves MySQL as it is, and its subscriptions go with its connection.    *)
(* Nothing is repaired at the start.                                       *)
(*                                                                         *)
(* A write of the state column does not happen when no connection of the   *)
(* pool can be had (UserModel::updateState returns, the handler goes on),  *)
(* nor does the reset at the exit.                                         *)
(***************************************************************************)
EXTENDS ChatHistory

CONSTANTS MaxEnds,      \* bound: exits and crashes
          MaxLost       \* bound: writes of the state that do not happen

VARIABLES
    phase,      \* [server]: up, quit, reset, closing, down
    ends,       \* how the last process ended: none, exit, crash
    budget,     \* exits and crashes so far, lost writes so far
    strayed     \* only recorded: users whose recorded state may be wrong
                \* until they log in again

life == <<phase, ends, budget, strayed>>
lvars == <<hvars, life>>

Local(s) == {c \in Conns : ServerOf[c] = s}
Running(s) == phase[s] # "down"

LInit ==
    /\ HInit
    /\ phase = [s \in Servers |-> "up"]
    /\ ends = "none"
    /\ budget = [ends |-> 0, lost |-> 0]
    /\ strayed = {}

----------------------------------------------------------------------------
(* Users of whom the process has a trace: registered, or in a handler *)
Touched(s) ==
    {u \in Users : userConnMap[s][u] # NoConn}
    \cup {UserOf[c] : c \in {d \in Local(s) : pc[d] # "idle"}}

(* A connection that nobody has used stands for one that is made later *)
Used(c) == client[c] # "fresh" \/ c \in connectionLastTime \/ link[c] # "open"

(* The memory, threads and sockets of the process are gone, and Redis      *)
(* forgets its subscriptions                                               *)
ProcessGone(s) ==
    /\ phase' = [phase EXCEPT ![s] = "down"]
    /\ link' = [c \in Conns |-> IF c \in Local(s) /\ Used(c) THEN "down" ELSE link[c]]
    /\ pc' = [c \in Conns |-> IF c \in Local(s) THEN "idle" ELSE pc[c]]
    /\ userConnMap' = [userConnMap EXCEPT ![s] = [u \in Users |-> NoConn]]
    /\ connectionLastTime' = connectionLastTime \ Local(s)
    /\ subs' = [subs EXCEPT ![s] = {}]
    /\ cmds' = [cmds EXCEPT ![s] = <<>>]
    /\ bus' = [bus EXCEPT ![s] = <<>>]
    /\ obs' = [obs EXCEPT ![s] = NoJob]
    /\ got' = [c \in Conns |-> IF c \in Local(s) THEN <<>> ELSE got[c]]
    /\ snap' = [c \in Conns |-> IF c \in Local(s) THEN [u \in Users |-> "offline"] ELSE snap[c]]
    /\ payload' = [c \in Conns |-> IF c \in Local(s) THEN NoJob ELSE payload[c]]
    /\ near' = [c \in Conns |-> IF c \in Local(s) THEN {} ELSE near[c]]
    /\ far' = [c \in Conns |-> IF c \in Local(s) THEN {} ELSE far[c]]
    /\ todo' = [c \in Conns |-> IF c \in Local(s) THEN {} ELSE todo[c]]
    /\ aim' = [c \in Conns |-> IF c \in Local(s) THEN {} ELSE aim[c]]
    /\ UNCHANGED <<client, inbox, view, sent, db>>

Spend(what, max) == budget[what] < max /\ budget' = [budget EXCEPT ![what] = @ + 1]

Crash(s) ==
    /\ Running(s)
    /\ Spend("ends", MaxEnds)
    /\ ProcessGone(s)
    /\ ends' = "crash"
    /\ strayed' = strayed \cup Touched(s)

(* SIGINT or SIGTERM: resetHandler quits the base loop *)
Quit(s) ==
    /\ phase[s] = "up"
    /\ Spend("ends", MaxEnds)
    /\ phase' = [phase EXCEPT ![s] = "quit"]
    /\ UNCHANGED <<vars, ends, strayed>>

(* Mutant: the exit does not touch the database *)
ResetNothing(s) ==
    /\ phase[s] = "quit"
    /\ phase' = [phase EXCEPT ![s] = "reset"]
    /\ strayed' = {u \in Users : \E t \in Servers : u \in Touched(t)}
    /\ UNCHANGED <<vars, ends, budget>>

(* ChatService::reset: all users of the shared database, on whatever       *)
(* server they are registered, or nobody if MySQL fails                    *)
Reset(s) ==
    /\ phase[s] = "quit"
    /\ phase' = [phase EXCEPT ![s] = "reset"]
    /\ \/ /\ state' = Nobody
          /\ strayed' = {u \in Users : \E t \in Servers : u \in Touched(t)}
       \/ UNCHANGED <<state, strayed>>
    /\ UNCHANGED <<net, pc, tables, offline, redis, locals, ends, budget>>

(* The pool closes, the log ends, main returns *)
MainReturns(s) ==
    /\ phase[s] = "reset"
    /\ phase' = [phase EXCEPT ![s] = "closing"]
    /\ UNCHANGED <<vars, ends, budget, strayed>>

(* connectDestroyed calls onConnection for a connection that has not been  *)
(* shut down                                                               *)
Destroy(c) ==
    /\ phase[ServerOf[c]] = "closing"
    /\ pc[c] = "idle" /\ Used(c) /\ link[c] = "open"
    /\ link' = [link EXCEPT ![c] = "down"]
    /\ Goto(c, "close")
    /\ UNCHANGED <<client, inbox, view, sent, tables, db, redis, locals, life>>

(* The IO threads are joined after their last handler; what was queued     *)
(* after the last round of their loops is not run                          *)
Exit(s) ==
    /\ phase[s] = "closing"
    /\ \A c \in Local(s) : pc[c] = "idle"
    /\ ProcessGone(s)
    /\ ends' = "exit"
    /\ strayed' = strayed \cup Touched(s)
    /\ UNCHANGED budget

Start(s) ==
    /\ phase[s] = "down"
    /\ phase' = [phase EXCEPT ![s] = "up"]
    /\ UNCHANGED <<vars, ends, budget, strayed>>

(* acquire gives no connection: the state column keeps its value *)
WriteLost(c) ==
    /\ pc[c] \in {"setOnline", "setOffline"}
    /\ Spend("lost", MaxLost)
    /\ strayed' = strayed \cup {UserOf[c]}
    /\ Goto(c, IF pc[c] = "setOnline" THEN "fetch" ELSE "notify")
    /\ UNCHANGED <<net, tables, db, redis, locals, phase, ends>>

(* A step of ChatService in a process that runs.  A write of a user's      *)
(* state by a handler is right again                                       *)
Service ==
    /\ \/ \E c \in Conns : Running(ServerOf[c]) /\ (HandlerStep(c) \/ ClientStep(c))
       \/ \E c \in Conns : phase[ServerOf[c]] = "up" /\ HeartbeatTimeout(c)
       \/ \E s \in Servers : Running(s) /\ ServerStep(s)
    /\ strayed' = strayed \ {UserOf[c] : c \in {d \in Conns : pc[d] \in {"setOnline", "setOffline"}
                                                             /\ pc'[d] # pc[d]}}
    /\ UNCHANGED <<phase, ends, budget>>

LStep ==
    \/ Service
    \/ \E c \in Conns : WriteLost(c) \/ Destroy(c)
    \/ \E s \in Servers : Crash(s) \/ Quit(s) \/ Reset(s) \/ MainReturns(s) \/ Exit(s) \/ Start(s)

LNext == LStep /\ Record

LSpec == LInit /\ [][LNext]_lvars

----------------------------------------------------------------------------
(* Whatever ended or failed before: a user who has logged in since, and     *)
(* whose handlers are done, is where the tables say: MySQL, _userConnMap    *)
(* and Redis agree.  (A crash leaves its users recorded online, the exit of *)
(* one process records those of the others as offline, a lost write leaves  *)
(* the state before; only the next login puts that right.)                  *)
PresenceRepaired ==
    \A u \in Users \ (raced \cup strayed) : Settled(u) =>
        /\ state[u] = "online" <=> Homes(u) # {}
        /\ {s \in Servers : u \in subs[s]} = Homes(u)

(* After the last process has exited, nobody is recorded online, except a   *)
(* user who logged in on it after its reset and was cut off: whom an        *)
(* earlier crash or lost write left so is put right by a reset, and a reset *)
(* that fails leaves only those (the close handlers do the others).         *)
CleanExit ==
    (ends = "exit" /\ \A s \in Servers : ~Running(s))
        => \A u \in Users : state[u] = "offline" \/ u \in strayed \cup raced

============================================================================
