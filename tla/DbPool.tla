------------------------------- MODULE DbPool -------------------------------
(***************************************************************************)
(* The MySQL connection pool of the server: DbPool and PooledMySQL         *)
(* (src/ChatServer/src/server/db/dbpool.cpp).  Every business thread       *)
(* borrows a connection with PooledMySQL::acquire and gives it back when   *)
(* the PooledMySQL is destroyed.                                           *)
(*                                                                         *)
(* A step is what a thread does between two points at which it can be      *)
(* preempted while it does not hold _mtx; one iteration of acquire's loop  *)
(* is one step.  A failed iteration "continues" without giving _mtx up, so *)
(* the owner of _mtx is part of the state.  Connections are identities: a  *)
(* new one may be any that is not in use (a freed MYSQL* can come back).   *)
(* Clocks are abstract: whether an entry has been idle for more than       *)
(* IDLE_PING_THRESHOLD, what mysql_ping answers and whether                *)
(* createConnection succeeds are the environment's choices, and late[t]    *)
(* says that the deadline of t's acquire has passed.                       *)
(***************************************************************************)
EXTENDS Integers, Sequences, FiniteSets, Functions

CONSTANTS Threads,      \* threads that run database operations
          Conns,        \* identities of MySQL connections
          PoolSize,     \* connections opened by init
          MaxPoolSize,  \* bound on the connections lent out
          NoConn,       \* "no connection", the null shared_ptr
          Nobody        \* the owner of a free mutex

ASSUME PoolAssumption ==
    /\ PoolSize \in Nat \ {0}
    /\ MaxPoolSize \in Nat
    /\ PoolSize <= MaxPoolSize
    /\ IsFiniteSet(Threads)
    /\ Nobody \notin Threads
    /\ NoConn \notin Conns

VARIABLES idle,      \* _idleConns: the FIFO of idle connections
          borrowed,  \* keys of _borrowedConns, the record the leak scan reads
          active,    \* _activeCount
          shut,      \* _shutdown
          mtx,       \* owner of _mtx between two steps
          pc,        \* where each thread is
          held,      \* the connection its PooledMySQL owns
          late,      \* the deadline of its acquire has passed
          missed     \* history: notifications that late waiters used up

pool == <<idle, borrowed, active, shut, mtx, pc, held, late>>
vars == <<pool, missed>>

(* out: not in the pool;  lock: acquire called, _mtx not yet taken;        *)
(* loop: owns _mtx, at the head of the loop;  creating: opens a connection *)
(* outside the lock;  waiting/woken: in _cv.wait_until, before/after a     *)
(* notification;  using: acquire returned a connection.                    *)
Labels == {"out", "lock", "loop", "creating", "waiting", "woken", "using"}
InAcquire == Labels \ {"out", "using"}

Live == Range(idle) \cup (Range(held) \ {NoConn})
Fresh == Conns \ Live
Goto(t, l) == pc' = [pc EXCEPT ![t] = l]
MutexFree == mtx = Nobody

----------------------------------------------------------------------------
(* init pre-creates PoolSize connections; some of the attempts may fail,   *)
(* and with none left the server does not start.                           *)
Init ==
    /\ \E n \in 1..PoolSize : idle \in {s \in [1..n -> Conns] : IsInjective(s)}
    /\ borrowed = {}
    /\ active = 0
    /\ shut = FALSE
    /\ mtx = Nobody
    /\ pc = [t \in Threads |-> "out"]
    /\ held = [t \in Threads |-> NoConn]
    /\ late = [t \in Threads |-> FALSE]
    /\ missed = 0

(* acquire computes its deadline, then waits for _mtx *)
Call(t) ==
    /\ pc[t] = "out"
    /\ Goto(t, "lock")
    /\ late' = [late EXCEPT ![t] = FALSE]
    /\ UNCHANGED <<idle, borrowed, active, shut, mtx, held>>

Lock(t) ==
    /\ pc[t] = "lock"
    /\ MutexFree
    /\ mtx' = t
    /\ Goto(t, "loop")
    /\ UNCHANGED <<idle, borrowed, active, shut, held, late>>

(* acquire returns c to t: the loan is recorded and the lock released *)
Lend(t, c) ==
    /\ held' = [held EXCEPT ![t] = c]
    /\ borrowed' = borrowed \cup {c}
    /\ mtx' = Nobody
    /\ Goto(t, "using")

(* Mutant: front() without pop() *)
BorrowWithoutPop(t) ==
    /\ pc[t] = "loop"
    /\ idle # <<>>
    /\ active' = active + 1
    /\ Lend(t, Head(idle))
    /\ UNCHANGED <<idle, shut, late>>

(* Branch 1, an idle connection: the oldest is lent, or, if it has been    *)
(* idle for too long and does not answer the ping, a new one in its place. *)
BorrowIdle(t) ==
    /\ pc[t] = "loop"
    /\ idle # <<>>
    /\ idle' = Tail(idle)
    /\ active' = active + 1
    /\ Lend(t, Head(idle)) \/ \E c \in Fresh : Lend(t, c)
    /\ UNCHANGED <<shut, late>>

(* ... and if that new one cannot be opened either, the loop continues     *)
(* with the dead connection gone and the lock still held.                  *)
DropDead(t) ==
    /\ pc[t] = "loop"
    /\ idle # <<>>
    /\ idle' = Tail(idle)
    /\ UNCHANGED <<borrowed, active, shut, mtx, pc, held, late>>

(* Mutant: the pool may grow one connection past its bound *)
ExpandPastBound(t) ==
    /\ pc[t] = "loop"
    /\ idle = <<>>
    /\ active <= MaxPoolSize
    /\ active' = active + 1
    /\ mtx' = Nobody
    /\ Goto(t, "creating")
    /\ UNCHANGED <<idle, borrowed, shut, held, late>>

(* Branch 2, below the bound: count the connection, open it unlocked *)
Expand(t) ==
    /\ pc[t] = "loop"
    /\ idle = <<>>
    /\ active < MaxPoolSize
    /\ active' = active + 1
    /\ mtx' = Nobody
    /\ Goto(t, "creating")
    /\ UNCHANGED <<idle, borrowed, shut, held, late>>

Created(t) ==
    /\ pc[t] = "creating"
    /\ MutexFree
    /\ \E c \in Fresh : Lend(t, c)
    /\ UNCHANGED <<idle, active, shut, late>>

CreateFailed(t) ==
    /\ pc[t] = "creating"
    /\ MutexFree
    /\ active' = active - 1
    /\ mtx' = t
    /\ Goto(t, "loop")
    /\ UNCHANGED <<idle, borrowed, shut, held, late>>

(* Branch 3, at the bound: wait for a notification or for the deadline *)
Wait(t) ==
    /\ pc[t] = "loop"
    /\ idle = <<>>
    /\ active >= MaxPoolSize
    /\ mtx' = Nobody
    /\ Goto(t, "waiting")
    /\ UNCHANGED <<idle, borrowed, active, shut, held, late>>

(* wait_until returned before the deadline, notified or spuriously *)
Retry(t) ==
    /\ pc[t] \in {"waiting", "woken"}
    /\ ~late[t]
    /\ MutexFree
    /\ mtx' = t
    /\ Goto(t, "loop")
    /\ UNCHANGED <<idle, borrowed, active, shut, held, late>>

(* Mutant: every return of wait_until is taken for a notification *)
TimeoutIgnored(t) ==
    /\ pc[t] \in {"waiting", "woken"}
    /\ late[t]
    /\ MutexFree
    /\ mtx' = t
    /\ Goto(t, "loop")
    /\ UNCHANGED <<idle, borrowed, active, shut, held, late>>

(* wait_until reports a timeout whenever the clock is past the deadline,   *)
(* notified or not: acquire returns nullptr.                               *)
Timeout(t) ==
    /\ pc[t] \in {"waiting", "woken"}
    /\ late[t]
    /\ MutexFree
    /\ Goto(t, "out")
    /\ UNCHANGED <<idle, borrowed, active, shut, mtx, held, late>>

(* Thread t goes to label l and one waiting thread, if any, is notified *)
NotifyOne(t, l) ==
    LET waiting == {w \in Threads : pc[w] = "waiting"}
    IN  IF waiting = {}
        THEN Goto(t, l)
        ELSE \E w \in waiting : pc' = [pc EXCEPT ![t] = l, ![w] = "woken"]

(* Mutant: the loan is not struck off the record *)
ReleaseKeepsRecord(t) ==
    /\ pc[t] = "using"
    /\ MutexFree
    /\ held' = [held EXCEPT ![t] = NoConn]
    /\ idle' = Append(idle, held[t])
    /\ active' = active - 1
    /\ NotifyOne(t, "out")
    /\ UNCHANGED <<borrowed, shut, mtx, late>>

(* Mutant: the waiters are not told of the returned connection *)
ReleaseSilently(t) ==
    /\ pc[t] = "using"
    /\ MutexFree
    /\ borrowed' = borrowed \ {held[t]}
    /\ held' = [held EXCEPT ![t] = NoConn]
    /\ idle' = IF shut THEN idle ELSE Append(idle, held[t])
    /\ active' = IF shut THEN active ELSE active - 1
    /\ Goto(t, "out")
    /\ UNCHANGED <<shut, mtx, late>>

(* ~PooledMySQL, release and returnConnection; after shutdown only the     *)
(* record is removed and the connection dies with its last owner.          *)
Release(t) ==
    /\ pc[t] = "using"
    /\ MutexFree
    /\ borrowed' = borrowed \ {held[t]}
    /\ held' = [held EXCEPT ![t] = NoConn]
    /\ \/ /\ shut
          /\ Goto(t, "out")
          /\ UNCHANGED <<idle, active>>
       \/ /\ ~shut
          /\ idle' = Append(idle, held[t])
          /\ active' = active - 1
          /\ NotifyOne(t, "out")
    /\ UNCHANGED <<shut, mtx, late>>

(* main's exit path: drop the idle connections, wake every waiter *)
Shutdown ==
    /\ MutexFree
    /\ ~shut
    /\ shut' = TRUE
    /\ idle' = <<>>
    /\ borrowed' = {}
    /\ pc' = [t \in Threads |-> IF pc[t] = "waiting" THEN "woken" ELSE pc[t]]
    /\ UNCHANGED <<active, mtx, held, late>>

(* time passes the deadline of a running acquire *)
DeadlinePasses(t) ==
    /\ pc[t] \in InAcquire
    /\ ~late[t]
    /\ late' = [late EXCEPT ![t] = TRUE]
    /\ UNCHANGED <<idle, borrowed, active, shut, mtx, pc, held>>

----------------------------------------------------------------------------
(* What a running thread does next by itself *)
Step(t) ==
    \/ Lock(t) \/ BorrowIdle(t) \/ DropDead(t) \/ Expand(t) \/ Created(t)
    \/ CreateFailed(t) \/ Wait(t) \/ Retry(t) \/ Timeout(t) \/ Release(t)

(* A notified thread that finds its deadline past leaves without the       *)
(* connection it was notified of.  The history counts these threads, never *)
(* beyond the connections that are idle now.                               *)
CountMissed ==
    LET leaving == {t \in Threads : pc[t] = "woken" /\ pc'[t] = "out"}
        count == missed + Cardinality(leaving)
    IN  missed' = IF count <= Len(idle') THEN count ELSE Len(idle')

Next ==
    /\ \/ \E t \in Threads : Call(t) \/ Step(t) \/ DeadlinePasses(t)
       \/ Shutdown
    /\ CountMissed

Spec == Init /\ [][Next]_vars

(* The scheduler runs every thread that can run and the mutex starves      *)
(* none, operations on a borrowed connection end, and time passes.  A      *)
(* waiter need not wake spuriously.  Nothing is said about the database:   *)
(* createConnection may keep failing.                                      *)
Fairness ==
    \A t \in Threads :
        /\ SF_pool(pc[t] # "waiting" /\ Step(t))
        /\ SF_pool(Timeout(t))
        /\ WF_pool(DeadlinePasses(t))

FairSpec == Spec /\ Fairness

(* The same with a database that does not refuse connections forever *)
DbUpSpec ==
    FairSpec /\ \A t \in Threads : SF_pool(Created(t))

----------------------------------------------------------------------------
PoolTypes ==
    /\ idle \in Seq(Conns)
    /\ borrowed \subseteq Conns
    /\ active \in 0..MaxPoolSize
    /\ shut \in BOOLEAN
    /\ mtx \in Threads \cup {Nobody}
    /\ pc \in [Threads -> Labels]
    /\ held \in [Threads -> Conns \cup {NoConn}]
    /\ late \in [Threads -> BOOLEAN]

TypeOK == PoolTypes /\ missed \in 0..Len(idle)

(* acquire's two ways to lend (front/pop of the idle queue, and a new      *)
(* connection) and returnConnection's push never put one MYSQL handle in   *)
(* the hands of two threads, nor leave a lent one in the idle queue.       *)
ConnExclusive ==
    /\ IsInjective(idle)
    /\ \A t \in Threads : held[t] # NoConn =>
          /\ held[t] \notin Range(idle)
          /\ \A u \in Threads \ {t} : held[u] # held[t]

(* Threads that own a connection or are opening one *)
Busy == {t \in Threads : pc[t] \in {"creating", "using"}}

(* maxPoolSize bounds the connections that exist or are being opened, even *)
(* though Branch 2 opens them without the lock: no interleaving of acquire,*)
(* returnConnection and shutdown makes _activeCount under-count, or leave  *)
(* 0.._maxPoolSize (TypeOK).                                               *)
PoolBound ==
    /\ TypeOK
    /\ Len(idle) + Cardinality(Busy) <= MaxPoolSize

(* The record that checkStaleConnections scans is exact while the pool is  *)
(* open, so a scan neither misses a leaked loan nor blames a returned one; *)
(* after shutdown it holds no connection that is not lent, and nothing     *)
(* refills the queue that shutdown emptied.                                *)
BorrowLedger ==
    LET lent == Range(held) \ {NoConn}
    IN  /\ borrowed \subseteq lent
        /\ ~shut => borrowed = lent
        /\ shut => idle = <<>>

(* Threads that are on their way to the idle queue *)
Alerted == {t \in Threads : pc[t] \in {"lock", "woken", "loop"}}

(* One notify_one for each connection that returnConnection brings back:   *)
(* while a thread is parked in wait_until, every idle connection has a     *)
(* thread on its way to take it, except that a thread that was notified    *)
(* after its deadline returns nullptr and does not pass the notification   *)
(* on, so that one more waiter may then sleep beside an idle connection.   *)
NoStrandedConn ==
    (\E t \in Threads : pc[t] = "waiting") => Len(idle) <= Cardinality(Alerted) + missed

(* Every acquire returns, with a connection or with nullptr after its      *)
(* deadline: "acquire ... (timeout returns nullptr)", pooledmysql.hpp:28.  *)
AcquireReturns ==
    \A t \in Threads : pc[t] = "lock" ~> pc[t] \in {"using", "out"}

============================================================================
