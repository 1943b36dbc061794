# Qt_chat: a TLA+ model of the chat system

This directory models Qt_chat: what happens when many clients, several server
processes, MySQL and Redis interleave, what a client does when its connection
comes and goes, what its window shows, and what becomes of the bytes of a
message on the way. It is written from the code under `src/` and is
meant to be read beside it.
TLC checks small instances (`*.cfg`), TLAPS proves the theorems in the
`*Proofs` modules for all values of the constants.

## 1. The system

| Part | State | Operations | Source |
|---|---|---|---|
| ChatServer | muduo TCP connections, one IO thread for a connection | `onConnection`, `onMessage` (length prefix, JSON, dispatch) | `chatserver.cpp` |
| ChatService | `_userConnMap`, `_connectionLastTime`, both under `_connMutex` | `login`, `loginout`, `clientCloseException`, `oneChat`, `groupChat`, `notifyFriendState`, `handleRedisSubscribeMessage`, `checkHeartbeat`, `reset`; `reg`, `addFriend`, `createGroup`, `addGroup`, `updateName` | `chatservice.cpp` |
| Models | tables user, friend, allgroup, groupuser, offlinemessage | one SQL statement each | `model/*.cpp` |
| DbPool, PooledMySQL | idle queue, loan record, active count, one mutex and one condition variable | `init`, `acquire`, `release`, `shutdown`, `checkStaleConnections` | `db/dbpool.cpp` |
| Redis | publish and subscribe contexts, recorded channels, observer thread | `connect`, `publish`, `subscribe`, `unsubscribe`, observer, `resubscribe`, `stop` | `redis/redis.cpp` |
| CAsyncLog | queue of lines, writer thread, current file | `init`, `output`, `outputBinary`, `uninit` | `asynclog/AsyncLog.cpp` |
| main | signal handler, event loop | start, Ctrl+C, exit | `server/main.cpp` |
| Framing | receive buffers of both sides | `onMessage`, `onReadyRead`, both `sendJson` | `chatserver.cpp`, `chatclient.cpp` |
| JSON library | a value under construction, the stack of its parser | `parse`, `dump`, access and conversions; CBOR, MessagePack, UBJSON, BSON | `thirdparty/json.hpp` |
| Qt client, session | connection, login state, heartbeat and reconnect timers | `ChatClient`, `LoginDialog` | `QtClient/Client` |
| Qt client, window | lists with badges, histories, unread counts, the open conversation | `Widget` | `QtClient/Client/widget.cpp` |
| Console client | logged-in user and lists, a semaphore between two threads | `main`, `readTaskHandler`, the commands | `client/main.cpp` |
| ConfigFileReader | key-value pairs | `load`, `getConfigName` | `config/ConfigFileReader.cpp` |

How they interact. A client's bytes become handler calls on the IO thread of
its connection. A handler looks into the tables of ChatService under
`_connMutex`, borrows MySQL connections from the pool for each statement, and
sends Redis commands. A message for a user who is not registered in this
process goes to `offlinemessage` if the state column says offline, and is
published to the user's channel otherwise; the observer thread of the process
that subscribed the channel sends it on, or stores it. A login sets the state
column, fetches and deletes the stored messages and tells the friends.

What is hard:

* **Interleaving.** The steps of a login, of the close of the user's previous
  connection and of its logout run on different threads; each takes the lock
  for some of its steps and writes MySQL and Redis without it.
* **Ordering.** The state column, the session table and the Redis subscription
  are three records of one fact, changed one after the other.
* **Moving addressees.** A message is looked up, published, forwarded or
  stored while its addressee comes, is kicked, times out or goes.
* **Failure.** Redis can restart, a process can crash or exit among others, a
  database connection can be dead when borrowed, a statement can fail without a
  word, a file cannot be opened or written.
* **Bytes.** TCP cuts and joins messages anywhere; every message is decoded,
  checked and encoded again on each server that it crosses.
* **A window behind a stream.** Messages arrive before there is a window,
  during a modal box and after a reconnection, and move three copies of what
  is unread.
* **Waiting.** Condition variables with deadlines (pool) and without (log);
  `join` in two destructors; a signal handler that logs.
* **Timers.** The client has five (reconnect, login, heartbeat, its answer, the
  dialog's ten seconds), started and stopped from slots, buttons and each other.
* **Several statements.** Adding a friend and creating a group are two inserts
  without a transaction; either may fail.

What makes each part correct:

* ChatService: no entry of the session table outlives the connection of a
  single user, and a client that is online holds its user's entry; MySQL, the
  tables and Redis agree once a user's handlers are done; a
  message reaches each addressee once, unless a statement about it fails;
  friends see the current state; a user who is gone is recorded offline.
* Pool: a MySQL handle has one owner; the bound holds; the loan record is
  exact; a returned connection wakes a waiter, unless one whose deadline has
  passed uses up the notification; `acquire` returns.
* Redis client: subscriptions survive an outage; messages are reported in
  order and once; `stop` ends the observer.
* Log: lines in order, and complete up to those that `fflush` could not write;
  exit waits for them, and ends.
* Directory: generated ids are not mixed up; friendships are mutual; a group
  has its creator; a window lists what is stored and shows the stored name,
  unless a renaming's answer is lost with the connection.
* Client session: the server takes the client for nobody but the account its
  user wants now; "online" is true; no timer outlives its purpose; it comes
  back by itself.
* Window: what is shown, counted and labelled follows from what was sent, up
  to the cases in which the code gives that up.
* Console client: its two threads never use the same data at once; commands
  go out under the right name; an answer that arrives ends the wait for it.
* Life of a process: whatever an exit, a crash, a failed reset or a lost write
  leaves behind is put right by the next login, and the last exit leaves nobody
  online but those whom an earlier failure had left so.
* Framing: each side takes out what the other wrote, nothing stays behind.
* JSON: a text is accepted if and only if it is JSON, means what the grammar
  says, and crosses two servers unchanged; the binary formats are read as
  they are written.

## 2. The modules

| Module | Models | Checked by | Proved in |
|---|---|---|---|
| `DbPool` | the connection pool | `MCServer`, `MCDbPool` | `DbPoolProofs` |
| `ChatService` | sessions, presence and routing on several processes, with MySQL tables and a Redis that works | `MCChat` | `ChatPresenceProofs` |
| `ChatHistory` | extends `ChatService` with history variables and states what it promises | `MCChat` | `ChatPresenceProofs`, `ChatDeliveryProofs` |
| `ChatLifecycle` | extends `ChatHistory` with exits, crashes, restarts and lost writes | `MCLifecycle` | `ChatPresenceProofs` |
| `SessionTable` | `_userConnMap` of one process, with any logins of any users on a connection | `MCServer` | |
| `RedisClient` | the subscribing half of the Redis client, with outages | `MCRedis` | `RedisClientProofs` |
| `AsyncLog` | the log, the signal handler and the exit | `MCAsyncLog` | `AsyncLogProofs` |
| `Directory` | registration, friends, groups, renaming: handlers, model classes, tables, and the client's lists | `MCDirectory` | `DirectoryProofs` |
| `Framing` | the length prefix on both sides over a TCP connection | `MCServer` | |
| `JsonLexer`, `JsonValue`, `JsonParser`, `JsonDump` | json.hpp on the way of a message: scan functions, access to values, the parser with its DOM builder, the serializer | | |
| `JsonReference` | what JSON means, defined from RFC 8259 without json.hpp | | |
| `JsonMessage` | composes these: a text from a client through one server, its handler, Redis and the other server | `MCJson` | |
| `JsonReader`, `JsonWriter` | json.hpp's binary formats | | |
| `JsonFormats` | a value written by json.hpp or another writer, perhaps damaged, and read | `MCFormats`, `MCJson` | |
| `Session` | abstract: what the client promises its user about the account | | `QtSessionProofs` (as the refinement) |
| `QtSession` | the Qt client's connection, login, timers; implements `Session` | `MCClients` | `QtSessionProofs` |
| `Conversations` | the Qt client's window, from the bytes to badges and bubbles | `MCConversations` | |
| `ConsoleClient` | the console client's two threads | `MCClients` | `ConsoleClientProofs` |

### DbPool

One process per thread that calls `PooledMySQL::acquire`. `idle` is
`_idleConns`, `borrowed` the keys of `_borrowedConns`, `active`
`_activeCount`, `shut` `_shutdown`, `mtx` the holder of `_mtx`. The three
branches of the loop are actions of their own: `BorrowIdle` (a connection that
answers the ping), `DropDead` (one that does not; its replacement works or
not), `Expand` with `Created`/`CreateFailed` (below the bound, the mutex is
released while the connection is opened) and `Wait` with `Retry`/`Timeout`.
`NotifyOne` picks any waiter, and a waiter whose deadline has passed may use
up a notification and still return nullptr, as `wait_until` does; `missed` counts
these. `DropDead` and `CreateFailed` give a place below the bound free and
notify nobody: a waiter then sleeps on beside that place (not beside a
connection), as in the code.

### ChatService

The state is listed with comments in the module. A connection is opened once
and is used by one user, who logs in on it at most once: the Qt client's
buttons do no more (Enter in its password field does, see `QtSession`), and
`SessionTable` drops this restriction for the session table. Here `link` is its TCP state (`half` after `shutdown()`),
`client` what its client has done. Every query, insert and delete may
fail alone: the model classes return silently, with an empty result, and the
handler goes on (`Store`, `FetchOffline`, `RemoveOffline`, `QueryFriends`,
`NotifyFriendState`, `GroupChat`, `LookUp`). A write of the state column that
fails is in `ChatLifecycle` only. `pc[c]` is the place in the handler that
runs on `c`: handlers of one connection do not overlap, those of different
connections interleave at every critical section, SQL statement, Redis command
and send. `got`, `snap`, `payload`, `near`, `far`, `todo`, `aim` are the
locals of the handlers; the loops of `notifyFriendState`, `oneChat` and
`groupChat` share the label `send`.

Redis carries out the commands of a server in order, later than they are sent
(`cmds`), because `subscribe` awaits no reply. `bus` and `obs` are the
payloads that wait for a server's observer thread and the one in its hands,
with the connection that it looked up before it let go of the lock.

A client shows what it is sent only after it has seen its `LOGIN_MSG_ACK`
(`Shows`); the Qt client has no window before that.

`ChatHistory` adds three variables that only record. `raced`: users whose
session handlers have overlapped, or who have been registered on two servers.
`disturbed`: deliveries during which the addressee's session moved, or one of
whose own statements failed. `blurred`: views of a friend that met a login or a
move of the viewer, two handlers that told of the friend at once, a notice that
can overtake an older one, or a failed query of the friends. They
say exactly when a promise is off; the properties are unconditional otherwise.

The last of these is a way of the code that no small instance had shown: a
notice to a friend on the same server is sent directly, one to a friend
elsewhere goes through Redis. When Alice has moved to Bob's server, the notice of
her login there can reach Bob before that of her logout on the other server,
and Bob's list ends with the older state. The proof of `FriendViewCurrent`
found it, and that the viewer's own handlers must not have overlapped.

### SessionTable

The server knows whom a message is about from the id in it alone, so `Login` and
`Logout` take any user on any connection that is not down, as often as they
like, and `whom[c]` is the id that a login has read. The kick
shuts down whatever connection is registered, be it the one that logs in.
`CloseErase` erases one entry of the connection, any of several
(`_userConnMap` has no order), and stops. The state column is left out: other
processes write it at any time and a write may fail, so a login may find either
value and register either way. Redis, the offline rows and the notices are in
`ChatService`. `logins` and `ousted` only record: who was registered on
a connection, and whose entry another connection overwrote or erased
without shutting the holder down.

### ChatLifecycle

A process has a phase: `up`, `quit` (the base loop has ended, and the heartbeat
check with it), `reset` (every user recorded as offline), `closing` (the
connections go down), `down`. The IO threads run handlers in all of them but
the last, as they do in the code, where `~TcpServer` joins them when `main`
returns. `Reset` records everybody as offline or, like `resetState` without a
connection, nobody. `Crash` leaves MySQL as it is and takes the subscriptions along.
`WriteLost` is a state column that stays as it was because the pool gave no
connection. `strayed` only records whose column that may concern until the
next login.

### RedisClient

`ctx` is `_subcribe_context` (null, ok, err), `socket` and `reader` the two
places where a reply can wait: in the kernel, where `poll` sees it, and in the
hiredis reader, where it does not. A call is three steps, as in the code: the
unlocked test (`Begin`), the command (`Send`), the record (`Record`). A
command on a context that was freed in between ends the process (`dead`).
`torn` records channels whose calls overlapped each other or a reconnection.

### AsyncLog

Lines are numbered by their `push_back`. `handler[t]` is the signal handler
that runs on thread `t` and suspends it; the kernel may choose any thread.
Files are named by the second, like in the code, so that two openings within a
second give one name (`reused`). A line whose `fflush` fails is gone
(`FlushFails`, recorded in `lost`), and the writer goes on, since the code does
not look at the result.

### Directory

A handler is one step per SQL statement. An insert whose id is generated keeps
its pooled connection (`holder`) until `mysql_insert_id` (`insertId`), as
`UserModel::insert` and `createGroup` do. The constraints of the tables (unique
name, primary and foreign keys) are those of the schema in `src/README.md`.
Every statement may fail. `lost` records the rows whose last insertion failed
or was ignored; it steers nothing and says where a promise is off: the code
looks at the outcome of none of these inserts. One such case needs no failing
database: a friend who registers between the two inserts of `addFriend`. A
process that dies between the two inserts is not modelled; what it leaves
behind in the tables is what a failing second insert leaves.

A renaming is three steps: the UPDATE, the answer, the window that takes the new
name. A connection that drops ends the request before its UPDATE
(`RenameCutOff`), between UPDATE and answer (`AnswerLost`; the window keeps the
old name, and the answer to the login after the reconnection does not change
it), or with the UPDATE still to come while the client is already back
(`LateRename`). `stale` records the clients whose window shows an old name for
such a reason. An answer to a registration that is lost with its connection is
not modelled (the client asks again and is refused the name); the insert
handlers of a connection that has dropped are over before the client's next
request.

### QtSession and Session

Everything in the client runs in the GUI thread, so a slot is one step. The
state is one record `c`; each method of `ChatClient` is a function from record
to record, composed as the code calls them, which keeps nested signals (an
`abort` that calls `onDisconnected`) in place. Of Qt it is used that `abort`
tells of a disconnection only from the connected state, that
`disconnectFromHost` waits for a pending connection and closes it after the
connected slot, and that the flush before it has written `LOGINOUT_MSG`. The
server is reduced to answering requests in order, refusing logins at will,
closing or falling silent. Timers may fire whenever they are active, except
that the heartbeat's 15 s and 35 s are counted in ticks.

`Session` has two variables, the account that the user wants and the one that
the server has logged in; `QtSession` refines it with `c.user` (which is only
recorded) and `c.served`. A connection that the client gives up is gone for
both sides at once; how the server learns of it is in `ChatService`.

The login button is disabled while a request is under way, Enter in the
password field is not. A user who submits a second login that way (`c.hasty`)
can end up in the wrong account: `onConnected` prefers `m_wantRelogin` with the
first id, and on a live connection both logins are answered. The model has
these behaviours and the properties except them until the user cancels, goes
offline or switches.

### Conversations

`w` is the state of `ChatClient` and `Widget` that the user can see the effects
of: histories, unread counts, the tree with its badges, the open conversation
and its bubbles, the title. A read of the socket takes any number of complete
frames, and the frames of one read are handled one after the other, except
that a message box (`modal`) holds up what is behind it, as its nested event
loop does in `onReadyRead`. The server is what this client sees of it. Friends
and groups share ids, because the code looks some items up by id alone. `seen`
only records: messages lost with a connection, messages that overtook the
stored ones, what has not been shown, and the cases that the code gives up.

### ConsoleClient

`main` is the place of the main thread, `posting` that of the receiver, `rwsem`
the semaphore. The client waits for each answer, whatever `send` returned; if
the connection is gone, the receiver ends the process. It does not know the
length in front of a message: the repository's server takes the first four
bytes of its requests for a length, discards them and does not answer
(`Discard`), and `main` waits on. No request is therefore promised an answer.
What is checked is the client's own part, with a server that may answer as
this client expects: an answer that arrives wakes `main` (`AnswerWakes`). A
message that is cut or joined ends the process in `json::parse`, as an
exception in a thread does.

### Framing

One action is one callback with its whole loop; TCP hands over a prefix of any
length of what is on the way. Bytes are digits to the base `Base`, and `Limit`
lies to the base as 1 MiB does to 256, so that a length over the limit, read in
the middle of a text, can happen in the instance as it can in the code.

### The JSON modules

A text is a sequence of bytes, and the scan functions of the lexer are
operators that return the token, its value and the place behind it: strings
with escapes, surrogate pairs and the UTF-8 ranges, numbers by the automaton
of `scan_number` with the fall from unsigned to signed to float. The parser is
a state machine, one action for one half of the loop of
`sax_parse_internal`; `json_sax_dom_parser`'s pointers are paths, and each
records the vector it points into, so that a move of its elements
(`emplace_back`) would show. The serializer writes code point by code point
through the buffer of `dump_escaped` and its `decode`. Widths are parameters;
floats have a magnitude but no digits. Field names are shortened to a letter.

`JsonMessage` gives a client's text to `onMessage`: it is parsed, dispatched
by `msgid`, its fields are read in the handler's order, with `contains` and
`get<int>` where the handler has them (createGroup does not look for
`groupdesc`); a chat message is dumped to the
user's channel, parsed on the other server and dumped to its client.

`JsonReader` and `JsonWriter` keep the widths of integers and lengths as bytes
(eight of them), and the order in which the code tries the encodings. In
`JsonFormats` the other writer may use any wider form of a number or length,
containers without a size, and typed ones; a document is cut near its ends or
followed by a byte. Neither the server nor a client calls these formats: what is
checked of them is the vendored library, and says nothing of the chat system.

In these modules a token, a dump or a result that a step uses several times is
bound by `\E x \in {...}` or handed to an operator of its own: TLC then
evaluates it once, and its coverage counters do not multiply with every use.

## 3. The runs

| Run | Instance | Shows |
|---|---|---|
| `Server`, pool | 4 threads, 1 initial and at most 2 connections | `ConnExclusive`, `PoolBound`, `BorrowLedger`, `NoStrandedConn` |
| `Server`, session table | 2 users, 3 connections to one server, any logins and logouts | `SessionTableSound`, `SessionHeld` |
| `Server`, bytes | 2 messages each way, of sizes up to one over the limit | `FramesExact`: messages whole and in order, nothing held back, an oversized one ends the connection |
| `DbPoolWaits` | 3 threads, at most 1 connection | `AcquireReturns`: every `acquire` returns if the database does not refuse connections for ever |
| `ChatDelivery` | Alice on any two of 3 connections to 2 servers, Bob writes one message | `PresenceExact`, `ExactlyOnce`, with any query, insert or delete failing |
| `ChatGroup` | Alice once, on either server; Carol offline; a group message; Alice and Bob friends | `ExactlyOnce`, `FriendViewCurrent`, every outcome of the observer |
| `ChatOfflineRows` (violation) | one server, two messages | a message stored between login's query and its delete is deleted unread |
| `ChatLifecycle` | one user, a connection to each of 2 servers, 2 exits or crashes, 1 lost write, resets that may fail | `NoTrackedGhost`, `PresenceRepaired`, `CleanExit` |
| `RedisClient` | 2 threads, 1 channel, 2 outages, 2 messages | `SubscriptionsMatch`, `ReportedInOrder`, `Recovers`, `StopEnds` |
| `AsyncLog` | main, one IO thread, writer, 2 lines (and the handler's), roll after each line, 2 seconds, any `fflush` may fail | `LogInOrder`, `UninitFlushes` (flush at exit), `QueueDrains` (no lost wake-up) |
| `Directory` | 2 clients with at most 5 requests between them, 2 connections, 2 names | `IdsOwn`, `StoredWhole` (friendships mutual, groups with an owner), `ShownIsStored` |
| `Conversations` | a friend and a group with one id, 2 messages to the user and 1 of the user, 2 connections, 2 changes, a history of 2 | `ViewIsHistory`, `HistoryExact`, `UnreadExact`, `LabelsTrue`: what is shown, counted and labelled is what was sent |
| `Clients` | either client, 2 accounts, 2 (Qt) or 3 (console) messages under way | Qt: `KeepsPromise` (refinement of `Session`), `StatusAndTimers` (`StatusHonest` and `NoStaleTimer`), `BackOnline`; console: `SemaphoreMatched`, `SentAsServed`, `AnswerWakes` |
| `Json` | 98,000 texts; binary documents at the edges of every encoding, and 10,000 inputs that start with any byte | `ParsedAsMeant`, `HandledAsMeant`, `ForwardedWhole`, `InMemory` (`PointersValid`, `DumpInBounds`); `BinaryFaithful` (`WrittenIsRead`, `DamageNoticed`, `BsonSizesExact`) |

The type invariant of a module is a conjunct of `PoolBound`,
`FriendViewCurrent`, `SubscriptionsMatch`, `LogInOrder`, `StatusHonest`,
`FramesExact`, `IdsOwn` or `ViewIsHistory`.

`MCServer`, `MCClients` and `MCJson` put two or three independent state
machines into one run: the first step or the initial state chooses one, the
others stay as they began. `TableSpec`, `FramingSpec` and `DbPool`'s `Spec` are
the machines of `MCServer` on their own. `ConsoleSpec` is
the console client on its own, which the theorems are about; the Qt client's is
`Spec`.

Why these bounds are enough. The hazards are between two handlers of one user
and one sender: two connections of a user give every overlap of login, kick,
logout and close; a third, to another server, gives the moves; one message
suffices for loss and duplication, two for the rows that arrive while a login
deletes others. In the session table, two users on three connections give a
kick, a kick of the kicker and two users on one. In the pool, four threads on
two connections give two waiters, of which one is late, beside a borrower and a
thread that is expanding; for the wait as such (`DbPoolWaits`) one connection
and three threads do. For the log, a file that rolls
after each line meets every boundary with two lines. In `Directory` the
requests are two registrations and three operations, so that each pair of
operations of two clients overlaps, on ids that exist, do not, or appear
meanwhile. In `QtSession` two accounts tell the wanted one from a stale one;
heartbeats are counted up to one more than the timeout would allow. In
`ChatLifecycle` two ends are a crash followed by an exit, or an exit of each
process. In `Conversations` a history of two is filled and cut by three
messages, two connections are a login and a reconnection, and two changes let
a friend become one, or change state, twice. In `ConsoleClient` three messages
under way are an answer with a chat message before and behind it. `Framing`
cuts two messages at every place; a third would only repeat the state after
the first, since the buffers are empty between messages (`NothingHeldBack`).
The texts of `Json` are all sequences of tokens up to a length and, in fixed
surroundings, all that is at the edge of a range: UTF-8 of one to four bytes,
pairs of surrogates, numbers at the widths; `Huge` stands for a string longer
than the buffer and every length limit below 65,536, `CutRange` bounds how far
from an end a document is cut, and covers every document but the longest
strings, whose middle is alike.

Constraints. `BobStays` (message runs): the sender logs in first and stays,
and Alice's connections are used in no way before their login. `TwoSessions`
adds that Alice uses two of her connections and that behaviours are followed
only until the history switches the promises off, after which the invariants
of that run say nothing. `OneLogin`: Alice uses one
connection, and behaviours are followed while one of the two views of a friend
is promised (what sessions that blur both do to a delivery is in `ChatDelivery`). `NoShutdown`
(`ChatOfflineRows`) leaves out time-outs so that the loss is not due to one.
`ThreePairs` (session table): users are registered on three pairs of a user and
a connection, any number of times; `TwoHandlers`: two handlers run at a time.
`FiveRequests` (`Directory`) is the bound in the table. `NotRaced`
(`ChatLifecycle`): behaviours are followed until two session handlers of the
user overlap, which `ChatDelivery` covers without failures. `ShortQueue`
(`Conversations`): two frames wait in the kernel. `AliceSymmetric` exchanges Alice's two connections to one server; it is used
with invariants only, and so is the symmetry of the session table. Deadlock is
checked for `Server`, `DbPoolWaits` and `Json` (in `Server` the bytes and the
session table may come to rest, when all is sent or closed, the pool never);
in the others a client may stop at any time, or the process ends.

Fairness. Handlers, observer threads, writer and main run on (weak fairness:
they are threads of a preemptive system), and Redis works off its input.
A thread that keeps asking for the pool's mutex gets it (strong fairness of
the locking steps). Nothing is assumed of clients, of time-outs, of the
signal, of spurious wake-ups or of when Redis can be reached. For `DbPool`
alone the database is assumed not to refuse for ever (`DbUpSpec`): without
this `AcquireReturns` fails, since branch 2 of `acquire` counts, fails and
continues without a look at the deadline. `ChatService` takes the observer
thread as fair; in `RedisClient` a reply can stay in the hiredis reader until
other data arrives, because only the socket is polled.
In `QtSession` the reconnect and login timers fire (weak fairness), and of the
server it is assumed that among infinitely many attempts to connect, to be
answered and to read the answer some succeed (strong fairness); a server that
never answers leaves nothing to promise. In `ConsoleClient` both threads run
when they can and what the server has sent arrives (weak fairness); that it
answers is not assumed. The other
modules state safety only.

## 4. What is proved

Every theorem is about all values of the constants, under the assumption named
with the constants in the module (`PoolAssumption`, `LogAssumption`, ...):
which special values are not members of a set, and that bounds are natural
numbers. `MessageAssumption` adds that a chat message, a state notice and
"nothing" are different things, which their `msgid` makes them in the code. No bound is assumed to be large or small, and no constraint of a run
is used. Eight modules hold theorems; each proves an inductive invariant first
(`XInvariant`), a lemma for each action or group of actions, and the properties
from it.

| Module | Invariant | Properties of the runs |
|---|---|---|
| `DbPoolProofs` | `PoolInv` | `ConnExclusive`, `BorrowLedger`, `PoolBound` (with `TypeOK`), `NoStrandedConn` |
| `ChatPresenceProofs` | `SessionInv`, `PresenceInv`, `LifeInv` | `NoTrackedGhost`, `PresenceExact`, `PresenceRepaired`, `CleanExit` |
| `ChatDeliveryProofs` | `WorkInv`, `DeliveryInv`, `ViewInv` | `TypeOK` of the service, `ExactlyOnce`, `FriendViewCurrent` |
| `RedisClientProofs` | `Subscribed`, `InOrder` | `SubscriptionsMatch`, `ReportedInOrder` |
| `AsyncLogProofs` | `LogInv` | `LogInOrder`, `UninitFlushes` |
| `DirectoryProofs` | `DInv` | `IdsOwn`, `StoredWhole`, `ShownIsStored` |
| `QtSessionProofs` | `IInv` | `StatusAndTimers`, `KeepsPromise` |
| `ConsoleClientProofs` | `CInv` | `SemaphoreMatched`, `SentAsServed` |

None of the properties is inductive. What the invariants add, and why:

* Pool. Exclusiveness needs that the idle queue has no repetition and that a
  connection in it is held by nobody; the bound needs that `active` counts
  exactly the connections that are lent or being opened, a cardinality that
  each branch moves by one. `NoStrandedConn` compares the length of the idle
  queue with the number of threads that are alerted, on their way to take a
  connection, and the notifications that late threads have used up (`missed`).
  `release` adds one to both sides, a borrower takes one from both, a late
  thread passes from one term to the other, and nobody else lengthens the queue
  or dozes off beside it.
* Sessions. Each label of a handler says what it implies: while a login has not
  registered yet its connection is tracked and not logged out, a connection that
  is registered is past that point (`EntriesLive`, which rests on one user for a
  connection and is therefore not among the results), and one that is down is in
  its close handler or past it.
* Presence. The three places that say where a user is change one after the
  other, and Redis's later still. `Ways` says of the user's handler, by its
  label, which of them it has to itself and what Redis will hold once it has
  carried out its commands (`WillHold`); `Recorded` the same of the state
  column, `Shown` of the clients. What `raced` excludes is used in two places
  only: while one handler contends no other does (`Alone`), and a user is on
  one server (`OneHome`). Every step of a handler moves its own user and leaves
  the others alone (`Away`), so that each action needs one lemma, about one
  user. `Ways` does not mention the state column, which is why it survives
  a crash, a `reset` on another process and a lost write; `Recorded` may be
  lost then (`strayed`), and the next login establishes it from `Ways` alone
  (`SetOnlineKept`), which is what repairs presence. The clean exit needs in
  addition that a process that is down has left nothing behind (`DownEmpty`).
* Delivery. `ExactlyOnce` speaks of a message at rest only, so the invariant
  has to say where it is while it travels. `Only` says that it is in one place
  of one kind: still to be looked up, aimed at the offline table, a server or a
  connection (in its sender's hands), in a queue at Redis, in an observer's
  hands, in an inbox, or stored; `Once`, that it is there once. `Aimed` says that
  what the sender or the observer looked up before it let go of the lock is
  still so, which follows from `Ways` and `Recorded` of presence while the
  addressee is steady; `Fetched`, that the rows which a login has read are those
  that `remove` deletes. A statement that fails leaves all places alone and is
  recorded as the delivery's own (`StoreFailedMoved`, `Failing`), so that it needs
  no case in the invariant. A step moves a message from one place to the next, or
  leaves all places alone; the lemmas (`...Moved`) are one for each kind of
  step, and the lemmas `...Kept` carry `Aimed` and `Fetched` along. Lemmas on
  queues (what `Append`, `Tail` and `\o` do to "holds x" and "holds x once")
  stand for the folds that such an argument would need otherwise. `WorkInv`
  supplies what a handler holds at each label, and that an unsent message is
  nowhere.
* Views. `Current` says what a viewer *will* show of a friend: what the friend's
  handler is about to tell, or else the last notice in the queue of the
  viewer's server, or else the one in its observer's hands, or else the list
  itself. `ViewInv` says that this is the recorded state whenever no handler of
  the friend is between its change of state and its notice (`Busy`), that the
  observer holds the viewer's present connection, and that the states which a
  login has read are still true when its ACK is sent. It needs `PresenceInv`
  for both users: the friend's state column changes only in a contending
  handler, and the viewer is registered on one server.
* Redis. What Redis holds now says little, since commands are under way.
  `Will` is what it will hold once it has carried out the commands on the wire;
  `WillMatch` says that this is the recorded set, or differs in the channel of
  a thread between command and record. `CallsApart` gives that thread its
  channel alone. That needs finite sets only where a reconnection puts all
  recorded channels on the wire. For the order, `InOrder` chains the four places
  in which a message can be, each increasing, each before the next.
* Log. Lines 1 to `Base` have left the queue and the writer's hands, the others
  are there in order; everything in a file is at most `Base`, and with no file
  name used twice all of them are in a file or `lost`. The step that matters is an append:
  the open file is the latest (`Files`), so that the line goes behind all others.
  `Locking` says who holds the mutex and thereby that no line is pushed between
  the writer's look at the queue and its return; the signal handler, which may
  interrupt any thread anywhere, is part of it. `Exiting` follows the exit: a
  writer that has returned has found the queue empty after `m_bExit` was set.
* Directory. A pooled connection is held exactly by the handler that waits for
  its generated id (`Holding`), and each handler's label says what its statements
  so far have stored or lost (`Account`, `Befriending`, `Grouping`). A handler's
  step leaves the other clients' alone (`Local`), and the tables only grow
  (`Grows`); with these two facts an action of one client keeps what holds of
  another without a case for each pair. For the names, a window is right, or a
  renaming of its client is under way (also one that outlived its connection),
  or the client is recorded as `stale`.
* Qt client. `Sound` relates socket, window, timers and flags for every client.
  For a user who is not hasty, `Exchange` says that one of six things is under
  way on the connection, and for whom. The proof goes through the functions of
  the model in the order in which the code calls them: what `Abort`,
  `OnDisconnected`, `Login` and the others do to a sound client are lemmas, which
  the slots' steps cite. `PromiseKept` is the refinement of `Session`: the
  initial state is one of `Session`, and each step lets the server log in
  the account wanted, gives up, or stutters.
* Console client. While `main` waits in `sem_wait`, its answer is in one of
  four places: lost with the connection, with the server, on the way back, or
  posted. Everywhere else there is none, and so one wait takes one post.

The theorems about the clients and about `RedisClient` include the steps that
the properties except (`hasty`, `torn`): the invariant keeps as much as holds
then, which is what makes the properties true again afterwards.

Model-checked only:

* The properties of `Conversations`: histories, bubbles and counts are computed
  from the sequence of events by folds, and what a fold computes for every
  sequence needs induction over data, which the installed provers cannot do.
* `Framing` and the JSON modules, for the same reason: they are recursive over
  their input.
* `SessionTable`: two users on a connection are a matter of the handlers' order,
  which two users and three connections show.
* Everything temporal: `AcquireReturns`, `Recovers`, `StopEnds`, `QueueDrains`,
  `BackOnline`, `AnswerWakes`. TLAPS handles neither fairness nor ENABLED.

## 5. What the violation says, and what the properties except

`ChatOfflineRows` is a disagreement between a line of the repository and the
code, listed with both places in `PROJECT.json`: the delete of the offline
rows is by user and not by row.

The other properties hold because they name the cases in which the code gives
them up. Within the models and their bounds TLC finds no others; what the models
leave out (section 6) may have more. The cases:

* *Sessions.* A session whose handlers overlap, or a user on two processes: the
  state column is written outside the lock that orders the sessions, and the
  kick looks in one process only (`raced`). Two users who log in on one
  connection: its close handler stops at the first entry, and the other stays
  registered on a dead connection until his next login (`SessionTableSound`).
  A login that sees the column offline, or a `LOGINOUT_MSG` for a user who is
  registered elsewhere: the holder of the entry is replaced and not shut down
  (`ousted`).
* *Messages.* A message to a user who moves while it is under way; an insert that
  fails, which loses the message; a delete that fails, which hands the rows over
  again at the next login; a query that fails, which sends the message the wrong
  way or to nobody (all `disturbed`).
* *Friends' states.* A state that changes while the viewer logs in, two notices on
  different ways that arrive in the wrong order, friends who could not be
  queried (`blurred`).
* *The end of a process.* A crash, a write of the state column that fails, a login
  after the reset of its process: the users concerned (`strayed`) are recorded
  wrongly until they log in again or a later reset succeeds. A reset that fails
  repairs nobody; the users of that process itself are taken offline by its close
  handlers.
* *The pool.* A notification used up by a thread whose deadline had passed: one
  waiter sleeps beside an idle connection until its own deadline or the next
  return (`missed`). A database that refuses for ever keeps a thread in `acquire`
  (`DbUpSpec`).
* *The log.* An exit flag that the writer misses, since it is set outside the
  mutex: `uninit` then waits for ever (in the model; `UninitFlushes` speaks of
  an `uninit` that returns). A file name used twice within a second (`reused`).
  A line that `fflush` could not write (`lost`). A writer that could not open
  its file and gave up.
* *Directory.* A second insert that failed (`lost`). A renaming whose answer went
  with the connection, or that is carried out after the client is back (`stale`).
* *Redis.* Overlapping calls on one channel (`torn`), and a call on a context that
  the observer has freed (`dead`).
* *Qt client.* A heartbeat that restarts the timer that should find it
  unanswered: a silent server is not noticed while the user is idle. A second
  login typed while the first one is under way (`hasty`). A refused automatic
  login, which the client takes as final. Messages read together with the login's
  answer, before there is a window, and lists that are not loaded again after a
  reconnection (`seen`).
* *Bytes.* A server that reads a message over the limit goes on in its middle. A
  `CREATE_GROUP_MSG` without `groupdesc` is dropped by an exception and not
  answered.
* *Console client.* The repository's server does not answer it at all, and `main`
  waits for ever. A list that is missing in an answer keeps the content it had
  for the user before.

## 6. Not modelled, and the plan

Next:

1. `ChatService` composed with `RedisClient`: what a refused subscription
   means for delivery.
2. Proofs about `Conversations`, of what does not rest on a fold (labels, the
   title, the places of the badges).

Left out for good: of the JSON library what the server does not call, its
binary formats excepted (JSON pointers, patches and merges, iterators,
comparison, indentation, `ensure_ascii`, error handlers other than strict)
and the digits of floats; the configuration reader (parsing of a file, once at
start, by one thread); the layout and colours of the windows, the text of log
lines and of the terminal, SQL text and escaping. Also not modelled:
`publish` on its context (it is shared without a lock and never opened again
after a failure) and a `connect` that fails at start; two steps of
`Redis::stop` are one action (`Stop`: nothing comes between them that could tell);
a process that dies between the two inserts of `addFriend` or `createGroup`. In `QtSession` the client sends logins, registrations and heartbeats, all of
them on a connected socket; other requests, which Qt keeps while a socket is
still connecting, are not in that module.

To run: `tlc -config ChatDelivery.cfg MCChat`, `tlapm DbPoolProofs.tla`.
