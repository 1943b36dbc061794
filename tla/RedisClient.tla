---------------------------- MODULE RedisClient ----------------------------
(***************************************************************************)
(* The subscribing half of the Redis client of one server                  *)
(* (src/ChatServer/src/server/redis/redis.cpp): IO threads subscribe and   *)
(* unsubscribe channels on a hiredis context that the observer thread      *)
(* reads, frees when it fails, and opens again.                            *)
(*                                                                         *)
(* The mutexes are held over single steps: a step is one critical section  *)
(* of _subscribeMutex or _channelMutex, or an unlocked test.  A reply is   *)
(* an acknowledgement (Ack) or a message, numbered as it was published.    *)
(***************************************************************************)
EXTENDS Integers, Sequences, SequencesExt

CONSTANTS Threads, Channels,
          MaxOutages,   \* bound: times that Redis becomes unreachable
          MaxMsgs,      \* bound: messages published to the channels
          MaxPending,   \* bound: commands and replies under way at a call
          NoCall

ASSUME RedisAssumption == MaxOutages \in Nat /\ MaxMsgs \in Nat /\ MaxPending \in Nat

VARIABLES
    up,           \* Redis can be reached
    outages,
    ctx,          \* _subcribe_context: null, ok, err
    link,         \* its TCP connection is alive
    wire,         \* commands written, not yet carried out
    held,         \* channels that Redis has subscribed this connection to
    published,    \* messages published so far
    socket,       \* replies that have arrived at the socket
    reader,       \* replies that hiredis has read, and not returned yet
    channels,     \* _subscribed_channels
    pc,           \* idle, send, record: where a thread is in its call
    call,         \* [op, ch] of that call
    running,      \* _running
    obs,          \* top, read, free, report, quit: the observer thread
    job,          \* the reply it was given
    reported,     \* messages passed to _notify_message_handler
    dead,         \* the process has crashed
    torn          \* history: channels whose calls overlapped each other or
                  \* a reconnection

connection == <<up, outages, link, wire, held, socket>>
calls == <<pc, call, channels>>
observer == <<obs, job, reported>>
vars == <<connection, ctx, published, reader, calls, running, observer, dead, torn>>

Ack == 0
Goto(t, l) == pc' = [pc EXCEPT ![t] = l]

(* connect has succeeded and the observer thread runs *)
Init ==
    /\ up = TRUE /\ outages = 0
    /\ ctx = "ok" /\ link = TRUE
    /\ wire = <<>> /\ held = {} /\ published = 0
    /\ socket = <<>> /\ reader = <<>>
    /\ channels = {}
    /\ pc = [t \in Threads |-> "idle"] /\ call = [t \in Threads |-> NoCall]
    /\ running = TRUE
    /\ obs = "top" /\ job = Ack /\ reported = <<>>
    /\ dead = FALSE
    /\ torn = {}

----------------------------------------------------------------------------
(* subscribe, unsubscribe *)

Calls == [op : {"subscribe", "unsubscribe"}, ch : Channels]
Busy(c) == {t \in Threads : pc[t] # "idle" /\ call[t].ch = c}

(* The context is tested before the lock is taken; a call that finds none, *)
(* or a failed one, returns false and leaves no trace.                     *)
Begin(t, c) ==
    /\ ~dead /\ pc[t] = "idle"
    /\ ctx = "ok"
    /\ Len(wire) + Len(socket) + Len(reader) < MaxPending
    /\ Goto(t, "send")
    /\ call' = [call EXCEPT ![t] = c]
    /\ torn' = IF Busy(c.ch) # {} THEN torn \cup {c.ch} ELSE torn
    /\ UNCHANGED <<connection, ctx, published, reader, channels, running, observer, dead>>

(* The command is written.  On a connection that is gone it may still go   *)
(* into the socket's buffer, or set the error.  A context that was freed   *)
(* since the test is a null pointer.                                       *)
Send(t) ==
    /\ ~dead /\ pc[t] = "send"
    /\ \/ /\ ctx = "ok" /\ link
          /\ wire' = Append(wire, call[t])
          /\ Goto(t, "record")
          /\ UNCHANGED <<ctx, call, dead>>
       \/ /\ ctx = "ok" /\ ~link
          /\ Goto(t, "record")
          /\ UNCHANGED <<wire, ctx, call, dead>>
       \/ /\ ctx # "null" /\ ~link
          /\ ctx' = "err"
          /\ Goto(t, "idle")
          /\ call' = [call EXCEPT ![t] = NoCall]
          /\ UNCHANGED <<wire, dead>>
       \/ /\ ctx = "null"
          /\ dead' = TRUE
          /\ UNCHANGED <<wire, ctx, pc, call>>
    /\ UNCHANGED <<up, outages, link, held, socket, published, reader, channels, running,
                   observer, torn>>

Record(t) ==
    /\ ~dead /\ pc[t] = "record"
    /\ channels' = IF call[t].op = "subscribe" THEN channels \cup {call[t].ch}
                                               ELSE channels \ {call[t].ch}
    /\ Goto(t, "idle")
    /\ call' = [call EXCEPT ![t] = NoCall]
    /\ UNCHANGED <<connection, ctx, published, reader, running, observer, dead, torn>>

----------------------------------------------------------------------------
(* Redis *)

Execute ==
    /\ ~dead /\ wire # <<>>
    /\ held' = IF Head(wire).op = "subscribe" THEN held \cup {Head(wire).ch}
                                              ELSE held \ {Head(wire).ch}
    /\ wire' = Tail(wire)
    /\ socket' = Append(socket, Ack)
    /\ UNCHANGED <<up, outages, link, ctx, published, reader, calls, running, observer, dead, torn>>

(* Some server publishes to a channel that is subscribed here *)
Publish ==
    /\ ~dead /\ held # {} /\ published < MaxMsgs
    /\ published' = published + 1
    /\ socket' = Append(socket, published + 1)
    /\ UNCHANGED <<up, outages, link, wire, held, ctx, reader, calls, running, observer, dead, torn>>

(* Redis stops, or the network to it fails; what has arrived can be read,  *)
(* or is lost too                                                          *)
Outage ==
    /\ ~dead /\ up /\ outages < MaxOutages
    /\ up' = FALSE /\ outages' = outages + 1
    /\ link' = FALSE
    /\ wire' = <<>> /\ held' = {}
    /\ socket' \in {socket, <<>>}
    /\ UNCHANGED <<ctx, published, reader, calls, running, observer, dead, torn>>

Recover ==
    /\ ~dead /\ ~up
    /\ up' = TRUE
    /\ UNCHANGED <<outages, link, wire, held, socket, ctx, published, reader, calls, running,
                   observer, dead, torn>>

----------------------------------------------------------------------------
(* observer_channel_message, resubscribe, stop *)

SubscribeAll(S) == [i \in 1..Len(SetToSeq(S)) |-> [op |-> "subscribe", ch |-> SetToSeq(S)[i]]]

(* Mutant: the channels are not subscribed again *)
ReconnectOnly ==
    /\ ~dead /\ running /\ obs = "top" /\ ctx = "null"
    /\ up
    /\ ctx' = "ok" /\ link' = TRUE
    /\ socket' = <<>> /\ reader' = <<>>
    /\ UNCHANGED <<up, outages, wire, held, published, calls, running, observer, dead, torn>>

(* resubscribe opens a new context and subscribes what is recorded; while  *)
(* Redis cannot be reached it is tried again every three seconds.          *)
Resubscribe ==
    /\ ~dead /\ running /\ obs = "top" /\ ctx = "null"
    /\ up
    /\ ctx' = "ok" /\ link' = TRUE
    /\ wire' = SubscribeAll(channels)
    /\ socket' = <<>> /\ reader' = <<>>
    /\ torn' = torn \cup {call[t].ch : t \in {u \in Threads : pc[u] = "record"}}
    /\ UNCHANGED <<up, outages, held, published, calls, running, observer, dead>>

(* poll sees data, or the end of the connection, at the socket *)
Poll ==
    /\ ~dead /\ running /\ obs = "top" /\ ctx # "null"
    /\ socket # <<>> \/ ~link
    /\ obs' = "read"
    /\ UNCHANGED <<connection, ctx, published, reader, calls, running, job, reported, dead, torn>>

(* redisGetReply returns what hiredis has already read before it reads the *)
(* socket again, and then it reads all there is                            *)
GetReply ==
    /\ ~dead /\ obs = "read"
    /\ \/ /\ reader # <<>>
          /\ job' = Head(reader)
          /\ reader' = Tail(reader)
          /\ obs' = "report"
          /\ UNCHANGED <<ctx, socket>>
       \/ /\ reader = <<>> /\ ctx = "ok" /\ socket # <<>>
          /\ job' = Head(socket)
          /\ reader' = Tail(socket)
          /\ socket' = <<>>
          /\ obs' = "report"
          /\ UNCHANGED ctx
       \/ /\ reader = <<>> /\ (ctx = "err" \/ socket = <<>>)
          /\ ctx' = "err"
          /\ obs' = IF running THEN "free" ELSE "top"
          /\ UNCHANGED <<job, reader, socket>>
    /\ UNCHANGED <<up, outages, link, wire, held, published, calls, running, reported,
                   dead, torn>>

(* Mutant: the failed context is kept *)
KeepContext ==
    /\ ~dead /\ obs = "free"
    /\ obs' = "top"
    /\ UNCHANGED <<connection, ctx, published, reader, calls, running, job, reported, dead, torn>>

Free ==
    /\ ~dead /\ obs = "free"
    /\ ctx' = "null"
    /\ obs' = "top"
    /\ UNCHANGED <<connection, published, reader, calls, running, job, reported, dead, torn>>

(* Mutant: an acknowledgement is reported like a message *)
ReportAll ==
    /\ ~dead /\ obs = "report"
    /\ reported' = Append(reported, job)
    /\ job' = Ack
    /\ obs' = "top"
    /\ UNCHANGED <<connection, ctx, published, reader, calls, running, dead, torn>>

(* Only messages are reported, not acknowledgements, and none after stop *)
Report ==
    /\ ~dead /\ obs = "report"
    /\ reported' = IF running /\ job # Ack THEN Append(reported, job) ELSE reported
    /\ job' = Ack
    /\ obs' = "top"
    /\ UNCHANGED <<connection, ctx, published, reader, calls, running, dead, torn>>

(* _running is cleared and the socket is shut down, so that poll returns *)
Stop ==
    /\ ~dead /\ running
    /\ running' = FALSE
    /\ \/ ctx # "null" /\ link' = FALSE /\ wire' = <<>> /\ held' = {}
       \/ ctx = "null" /\ UNCHANGED <<link, wire, held>>
    /\ UNCHANGED <<up, outages, socket, ctx, published, reader, calls, observer, dead, torn>>

(* Mutant: _running is not looked at in the reconnection loop *)
QuitConnected ==
    /\ ~dead /\ ~running /\ obs = "top" /\ ctx # "null"
    /\ obs' = "quit"
    /\ UNCHANGED <<connection, ctx, published, reader, calls, running, job, reported, dead, torn>>

Quit ==
    /\ ~dead /\ ~running /\ obs = "top"
    /\ obs' = "quit"
    /\ UNCHANGED <<connection, ctx, published, reader, calls, running, job, reported, dead, torn>>

----------------------------------------------------------------------------
ObserverStep == Resubscribe \/ Poll \/ GetReply \/ Free \/ Report \/ Quit

Next ==
    \/ \E t \in Threads : (\E c \in Calls : Begin(t, c)) \/ Send(t) \/ Record(t)
    \/ Execute \/ Publish \/ Outage \/ Recover
    \/ ObserverStep \/ Stop

Spec == Init /\ [][Next]_vars

(* The threads, the observer and Redis run on; nothing is assumed of when  *)
(* Redis is reachable or of what is published.                             *)
Fairness ==
    /\ \A t \in Threads : WF_vars(Send(t) \/ Record(t))
    /\ WF_vars(ObserverStep)
    /\ WF_vars(Execute)

FairSpec == Spec /\ Fairness

----------------------------------------------------------------------------
TypeOK ==
    /\ {up, link, running, dead} \subseteq BOOLEAN
    /\ outages \in 0..MaxOutages
    /\ ctx \in {"null", "ok", "err"}
    /\ wire \in Seq(Calls)
    /\ held \subseteq Channels /\ channels \subseteq Channels /\ torn \subseteq Channels
    /\ published \in 0..MaxMsgs
    /\ {socket, reader, reported} \subseteq Seq(Nat)
    /\ pc \in [Threads -> {"idle", "send", "record"}]
    /\ call \in [Threads -> Calls \cup {NoCall}]
    /\ obs \in {"top", "read", "free", "report", "quit"}
    /\ job \in Nat

(* After any number of outages and reconnections, when no call is under    *)
(* way and Redis has carried out what it was sent, it holds exactly the    *)
(* recorded channels, except for a channel whose calls overlapped each     *)
(* other or the reconnection (command and record are not one step).        *)
SubscriptionsMatch ==
    /\ TypeOK
    /\ (~dead /\ ctx = "ok" /\ link /\ wire = <<>>) =>
          \A c \in Channels \ torn : Busy(c) = {} => (c \in held <=> c \in channels)

(* Messages reach the business layer in the order they were published, and *)
(* none twice, through coalesced reads, failures and reconnections.        *)
ReportedInOrder ==
    \A i, j \in DOMAIN reported : i < j => 0 < reported[i] /\ reported[i] < reported[j]

(* A recorded channel is subscribed in the end, or again after an outage,  *)
(* whenever Redis stays reachable.                                         *)
Recovers ==
    \A c \in Channels :
        c \in channels ~> (c \in held \/ ~up \/ ~running \/ dead \/ c \notin channels \/ c \in torn)

(* stop() ends the observer thread, so that ~Redis can join it *)
StopEnds == ~running ~> (obs = "quit" \/ dead)

============================================================================
