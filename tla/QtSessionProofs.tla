-------------------------- MODULE QtSessionProofs --------------------------
(***************************************************************************)
(* Proofs about the session of the Qt client: for any set of accounts and  *)
(* any number of requests under way, the client keeps the promise of       *)
(* Session, and what its window and timers say is true.                    *)
(***************************************************************************)
EXTENDS QtSession, TLAPS

(* The values of the state *)
Someone == Accounts \cup {NoOne}

Message == [kind : {"login", "refused"}, of : Accounts] \cup [kind : {"reg", "heartbeat"}, of : {NoOne}]

State == [window : {"dialog", "chat", "closed"}, pending : {"none", "login", "reg"},
          asked : Someone, myId : Someone, want : BOOLEAN, intentional : BOOLEAN,
          socket : {"unconnected", "connecting", "connected"}, closing : BOOLEAN,
          timers : SUBSET Timers, status : BOOLEAN,
          unanswered : Nat, ticks : 0..PerTimeout,
          requests : Seq(Message), replies : Seq(Message), peer : BOOLEAN, served : Someone,
          user : Someone, hasty : BOOLEAN]

----------------------------------------------------------------------------
(* The inductive invariant, in terms of a client x *)

(* Nothing is under way, and nobody is logged in, without a connection *)
Unplugged(x) ==
    x.socket # "connected" =>
        x.requests = <<>> /\ x.replies = <<>> /\ ~x.peer /\ x.served = NoOne

(* A client that has said goodbye wants nothing, waits for nothing, and is *)
(* not connected any more                                                  *)
GoneAway(x) ==
    x.intentional => /\ x.socket # "connected"
                     /\ ~x.want
                     /\ x.timers \subseteq {"retry"}

(* The window is online as long as the heartbeat timer runs *)
Watched(x) ==
    /\ x.status <=> ("heartbeat" \in x.timers)
    /\ "pong" \in x.timers => "heartbeat" \in x.timers
    /\ x.status => x.window = "chat" /\ x.socket = "connected"

(* The dialog's ten seconds run while it waits for an answer *)
DialogWaits(x) ==
    /\ ("retry" \in x.timers) <=> (x.window = "dialog" /\ x.pending # "none")
    /\ x.window # "dialog" => x.pending = "none"

(* A closed window does nothing *)
Ended(x) ==
    x.window = "closed" => x.timers = {} /\ x.socket = "unconnected" /\ x.user = NoOne

(* A login is always for an account *)
WantsSomeone(x) ==
    /\ x.want => x.myId # NoOne
    /\ x.pending = "login" => x.asked # NoOne

(* Whom a user who is not hasty has asked for, according to the dialog, to *)
(* the chat window and to m_wantRelogin                                    *)
Asked(x) ==
    /\ x.window = "dialog" /\ x.pending # "login" =>
          x.user = NoOne /\ ~x.want /\ "login" \notin x.timers
    /\ x.window = "dialog" /\ x.pending = "login" => x.user = x.asked /\ x.user # NoOne
    /\ x.window = "chat" => x.user \in {NoOne, x.myId} /\ (x.user # NoOne => x.want)
    /\ x.want => x.user = x.myId

(* A login is under way for the user *)
LoggingIn(x) == x.user # NoOne /\ x.want /\ ~x.status

(* What may be under way on a connection of a user who is not hasty *)
Exchange(x) ==
    \/ /\ x.requests = <<>> /\ x.replies = <<>> /\ x.served = NoOne /\ ~x.status
    \/ /\ x.requests = <<[kind |-> "login", of |-> x.user]>> /\ x.replies = <<>>
       /\ x.served = NoOne /\ LoggingIn(x)
    \/ /\ x.requests = <<>> /\ x.replies = <<[kind |-> "login", of |-> x.user]>>
       /\ x.served = x.user /\ LoggingIn(x)
    \/ /\ x.requests = <<>> /\ x.replies = <<[kind |-> "refused", of |-> x.user]>>
       /\ x.served = NoOne /\ LoggingIn(x)
    \/ /\ \/ x.requests = <<[kind |-> "reg", of |-> NoOne]>> /\ x.replies = <<>>
          \/ x.requests = <<>> /\ x.replies = <<[kind |-> "reg", of |-> NoOne]>>
       /\ x.served = NoOne /\ x.window = "dialog" /\ x.pending = "reg"
    \/ /\ x.status /\ x.user # NoOne /\ x.served = x.user
       /\ \A i \in 1..Len(x.requests) : x.requests[i].kind = "heartbeat"
       /\ \A i \in 1..Len(x.replies) : x.replies[i].kind = "heartbeat"

Sound(x) ==
    /\ Unplugged(x) /\ GoneAway(x) /\ Watched(x) /\ DialogWaits(x) /\ Ended(x) /\ WantsSomeone(x)
    /\ ~x.hasty => Asked(x) /\ Exchange(x)

IInv == c \in State /\ Sound(c)

----------------------------------------------------------------------------
(* Sequences, and the members of the state.  The empty queue is one of     *)
(* messages.                                                               *)
LEMMA Empty == <<>> \in Seq(Message)
OBVIOUS

(* Nobody is logged in: NoOne. *)
LEMMA Nobody == NoOne \in Someone
BY DEF Someone

(* A registration and a heartbeat name no account. *)
LEMMA Anonymous ==
  [kind |-> "reg", of |-> NoOne] \in Message /\ [kind |-> "heartbeat", of |-> NoOne] \in Message
BY DEF Message

(* The first message of a queue. *)
LEMMA One == ASSUME NEW m PROVE Append(<<>>, m) = <<m>>
OBVIOUS

(* 35 s are two ticks of 15 s. *)
LEMMA Ticks == PerTimeout = 2
BY DEF PerTimeout

(* What is first in a queue, and what is left of it. *)
LEMMA HeadAndTail ==
  ASSUME NEW q \in Seq(Message), q # <<>>
  PROVE  /\ Head(q) \in Message /\ Tail(q) \in Seq(Message) /\ Head(q) = q[1]
         /\ \A i \in 1..Len(Tail(q)) : Tail(q)[i] = q[i + 1] /\ i + 1 \in 1..Len(q)
         /\ 1 \in 1..Len(q)
OBVIOUS

(* A queue of one message. *)
LEMMA OneHeadTail ==
  ASSUME NEW m PROVE <<m>> # <<>> /\ Head(<<m>>) = m /\ Tail(<<m>>) = <<>>
OBVIOUS

----------------------------------------------------------------------------
(* The functions of the client *)

(* y has the window, the accounts and the user of x *)
Kept(y, x) ==
    /\ y.window = x.window /\ y.pending = x.pending /\ y.asked = x.asked /\ y.myId = x.myId
    /\ y.user = x.user /\ y.hasty = x.hasty

(* Nothing is under way *)
Cleared(y) ==
    y.requests = <<>> /\ y.replies = <<>> /\ ~y.peer /\ ~y.closing /\ y.served = NoOne

(* abort() loses all that was under way; only a connected socket tells of   *)
(* it, which stops the heartbeat and starts the reconnect timer             *)
LEMMA AbortFacts ==
  ASSUME NEW x \in State
  PROVE  /\ Abort(x) \in State
         /\ Kept(Abort(x), x)
         /\ Cleared(Abort(x))
         /\ Abort(x).socket = "unconnected"
         /\ Abort(x).want = x.want
         /\ Abort(x).intentional = x.intentional
         /\ x.socket # "connected" => Abort(x).status = x.status /\ Abort(x).timers = x.timers
         /\ x.socket = "connected" =>
              /\ ~Abort(x).status
              /\ Abort(x).timers = (x.timers \ {"heartbeat", "pong"})
                                     \cup (IF x.intentional THEN {} ELSE {"reconnect"})
<1>1. Unconnected(x) \in State
  BY Empty DEF State, Unconnected, Someone
<1>2. ASSUME NEW y \in State
      PROVE  OnDisconnected(y) \in State
  BY ZenonT(40) DEF State, OnDisconnected, StopTimers, StartTimer, Timers
<1>3. Abort(x) \in State
  BY <1>1, <1>2 DEF Abort
<1>4. Kept(Abort(x), x) /\ Cleared(Abort(x)) /\ Abort(x).socket = "unconnected"
      /\ Abort(x).want = x.want /\ Abort(x).intentional = x.intentional
  BY DEF State, Abort, OnDisconnected, Unconnected, StopTimers, StartTimer, Kept, Cleared
<1>5. CASE x.socket # "connected"
  BY <1>3, <1>4, <1>5 DEF State, Abort, Unconnected
<1>6. CASE x.socket = "connected"
  <2>1. ~Abort(x).status
    BY <1>6 DEF State, Abort, OnDisconnected, Unconnected, StopTimers, StartTimer
  <2>2. Abort(x).timers = (x.timers \ {"heartbeat", "pong"})
                             \cup (IF x.intentional THEN {} ELSE {"reconnect"})
    BY <1>6 DEF State, Abort, OnDisconnected, Unconnected, StopTimers, StartTimer
  <2> QED  BY <1>3, <1>4, <1>6, <2>1, <2>2
<1> QED  BY <1>5, <1>6

(* disconnectFromHost() does the same, or waits for the connection that is  *)
(* being made                                                               *)
LEMMA DisconnectFacts ==
  ASSUME NEW x \in State, Unplugged(x)
  PROVE  /\ DisconnectFromHost(x) \in State
         /\ Kept(DisconnectFromHost(x), x)
         /\ DisconnectFromHost(x).socket # "connected"
         /\ DisconnectFromHost(x).want = x.want
         /\ DisconnectFromHost(x).intentional = x.intentional
         /\ DisconnectFromHost(x).served = NoOne
         /\ DisconnectFromHost(x).requests = <<>>
         /\ DisconnectFromHost(x).replies = <<>>
         /\ ~DisconnectFromHost(x).peer
         /\ x.socket # "connected" => /\ DisconnectFromHost(x).status = x.status
                                      /\ DisconnectFromHost(x).timers = x.timers
         /\ x.socket = "connected" =>
              /\ ~DisconnectFromHost(x).status
              /\ DisconnectFromHost(x).timers = (x.timers \ {"heartbeat", "pong"})
                                     \cup (IF x.intentional THEN {} ELSE {"reconnect"})
<1>1. CASE x.socket = "connecting"
  BY <1>1 DEF State, DisconnectFromHost, Kept, Unplugged
<1>2. CASE x.socket # "connecting"
  BY <1>2, AbortFacts DEF DisconnectFromHost, Cleared
<1> QED  BY <1>1, <1>2

(* loginout leaves a client that wants nothing and waits for nothing but    *)
(* the dialog's ten seconds, also if it had said goodbye before             *)
LEMMA LoginoutFacts ==
  ASSUME NEW x \in State, Unplugged(x), GoneAway(x), Watched(x)
  PROVE  /\ Loginout(x) \in State
         /\ Kept(Loginout(x), x)
         /\ Loginout(x).socket # "connected"
         /\ Loginout(x).intentional
         /\ ~Loginout(x).want
         /\ ~Loginout(x).status
         /\ Loginout(x).served = NoOne
         /\ Loginout(x).requests = <<>>
         /\ Loginout(x).replies = <<>>
         /\ ~Loginout(x).peer
         /\ Loginout(x).timers = x.timers \cap {"retry"}
<1>1. CASE x.intentional
  BY <1>1 DEF Loginout, State, Unplugged, GoneAway, Watched, Kept
<1>2. CASE ~x.intentional
  <2> DEFINE y == StopTimers([x EXCEPT !.intentional = TRUE, !.want = FALSE],
                             {"reconnect", "login", "heartbeat", "pong"})
  <2>1. Loginout(x) = DisconnectFromHost(y)
    BY <1>2 DEF Loginout
  <2>2. y \in State /\ Unplugged(y) /\ Kept(y, x) /\ y.intentional /\ ~y.want
        /\ y.timers = x.timers \cap {"retry"} /\ y.status = x.status /\ y.socket = x.socket
    BY DEF State, StopTimers, Unplugged, Kept, Timers
  <2> HIDE DEF y
  <2> QED  BY <2>1, <2>2, DisconnectFacts DEF Kept, Watched
<1> QED  BY <1>1, <1>2

(* connectToServer gives up the connection there was and makes a new one *)
LEMMA ConnectFacts ==
  ASSUME NEW x \in State
  PROVE  /\ ConnectToServer(x) \in State
         /\ Kept(ConnectToServer(x), x)
         /\ Cleared(ConnectToServer(x))
         /\ ConnectToServer(x).socket = "connecting"
         /\ ConnectToServer(x).want = x.want
         /\ ~ConnectToServer(x).intentional
         /\ x.socket # "connected" => /\ ConnectToServer(x).status = x.status
                                      /\ ConnectToServer(x).timers = x.timers
         /\ x.socket = "connected" =>
              /\ ~ConnectToServer(x).status
              /\ ConnectToServer(x).timers = (x.timers \ {"heartbeat", "pong"}) \cup {"reconnect"}
<1> DEFINE y == [x EXCEPT !.intentional = FALSE]
<1>1. y \in State /\ Kept(y, x) /\ ~y.intentional /\ y.want = x.want /\ y.socket = x.socket
      /\ y.timers = x.timers /\ y.status = x.status
  BY DEF State, Kept
<1>2. ConnectToServer(x) = [Abort(y) EXCEPT !.socket = "connecting"]
  BY DEF ConnectToServer
<1> HIDE DEF y
<1> DEFINE z == Abort(y)
<1>3. /\ z \in State /\ Kept(z, y) /\ Cleared(z) /\ z.want = y.want /\ ~z.intentional
      /\ y.socket # "connected" => z.status = y.status /\ z.timers = y.timers
      /\ y.socket = "connected" => ~z.status /\ z.timers = (y.timers \ {"heartbeat", "pong"}) \cup {"reconnect"}
  BY <1>1, AbortFacts
<1> HIDE DEF z
<1>4. ConnectToServer(x) = [z EXCEPT !.socket = "connecting"]
  BY <1>2 DEF z
<1>5. ConnectToServer(x) \in State
  BY <1>3, <1>4 DEF State
<1>6. /\ Kept(ConnectToServer(x), z) /\ Cleared(ConnectToServer(x))
      /\ ConnectToServer(x).socket = "connecting"
      /\ ConnectToServer(x).want = z.want /\ ConnectToServer(x).intentional = z.intentional
      /\ ConnectToServer(x).status = z.status /\ ConnectToServer(x).timers = z.timers
  BY <1>3, <1>4 DEF State, Kept, Cleared
<1>7. Kept(ConnectToServer(x), x)
  BY <1>1, <1>3, <1>6 DEF Kept
<1> QED  BY <1>1, <1>3, <1>5, <1>6, <1>7

(* A lost connection changes neither window nor timers. *)
LEMMA UnconnectedFacts ==
  ASSUME NEW x \in State
  PROVE  /\ Unconnected(x) \in State /\ Kept(Unconnected(x), x) /\ Cleared(Unconnected(x))
         /\ Unconnected(x).socket = "unconnected" /\ Unconnected(x).status = x.status
         /\ Unconnected(x).want = x.want /\ Unconnected(x).intentional = x.intentional
         /\ Unconnected(x).timers = x.timers
<1>1. Unconnected(x) \in State
  BY Empty DEF State, Unconnected, Someone
<1> QED  BY <1>1 DEF State, Unconnected, Kept, Cleared

(* onError starts the reconnect timer, unless the user has left. *)
LEMMA OnErrorFacts ==
  ASSUME NEW x \in State
  PROVE  /\ OnError(x) \in State /\ Kept(OnError(x), x) /\ (Cleared(x) => Cleared(OnError(x)))
         /\ OnError(x).socket = x.socket /\ OnError(x).status = x.status
         /\ OnError(x).want = x.want /\ OnError(x).intentional = x.intentional
         /\ OnError(x).timers = IF x.intentional THEN x.timers ELSE x.timers \cup {"reconnect"}
BY DEF State, OnError, StartTimer, Timers, Kept, Cleared

(* sendJson queues a request on a connection whose other end is there, and  *)
(* changes nothing else                                                     *)
LEMMA SendFacts ==
  ASSUME NEW x \in State, NEW kind, NEW a, [kind |-> kind, of |-> a] \in Message
  PROVE  /\ SendJson(x, kind, a) \in State /\ Kept(SendJson(x, kind, a), x)
         /\ SendJson(x, kind, a).socket = x.socket /\ SendJson(x, kind, a).closing = x.closing
         /\ SendJson(x, kind, a).replies = x.replies /\ SendJson(x, kind, a).served = x.served
         /\ SendJson(x, kind, a).peer = x.peer /\ SendJson(x, kind, a).status = x.status
         /\ SendJson(x, kind, a).want = x.want /\ SendJson(x, kind, a).timers = x.timers
         /\ SendJson(x, kind, a).intentional = x.intentional
         /\ SendJson(x, kind, a).requests = IF x.socket = "connected" /\ x.peer
                                   THEN Append(x.requests, [kind |-> kind, of |-> a])
                                   ELSE x.requests
<1> DEFINE m == [kind |-> kind, of |-> a]
           z == SendJson(x, kind, a)
<1>1. m \in Message
  OBVIOUS
<1>2. CASE x.socket = "connected" /\ x.peer
  <2>1. z = [x EXCEPT !.requests = Append(x.requests, m)]
    BY <1>2 DEF SendJson
  <2> HIDE DEF m
  <2>2. Append(x.requests, m) \in Seq(Message)
    BY <1>1 DEF State
  <2>3. z \in State
    BY <2>1, <2>2 DEF State
  <2>4. z.requests = Append(x.requests, m)
    BY <2>1 DEF State
  <2>5. /\ Kept(z, x) /\ z.socket = x.socket /\ z.closing = x.closing /\ z.replies = x.replies
        /\ z.served = x.served /\ z.peer = x.peer /\ z.status = x.status /\ z.want = x.want
        /\ z.timers = x.timers /\ z.intentional = x.intentional
    BY <2>1 DEF State, Kept
  <2> QED  BY <1>2, <2>3, <2>4, <2>5 DEF m
<1>3. CASE ~(x.socket = "connected" /\ x.peer)
  BY <1>3 DEF SendJson, Kept
<1> QED  BY <1>2, <1>3

(* login notes the account and the wish to log in, starts the login timer   *)
(* and sends the request                                                    *)
LEMMA LoginFacts ==
  ASSUME NEW x \in State, NEW a \in Accounts
  PROVE  /\ Login(x, a) \in State
         /\ Login(x, a).window = x.window /\ Login(x, a).pending = x.pending
         /\ Login(x, a).asked = x.asked /\ Login(x, a).user = x.user
         /\ Login(x, a).hasty = x.hasty /\ Login(x, a).socket = x.socket
         /\ Login(x, a).closing = x.closing /\ Login(x, a).replies = x.replies
         /\ Login(x, a).served = x.served /\ Login(x, a).peer = x.peer
         /\ Login(x, a).status = x.status
         /\ Login(x, a).myId = a /\ Login(x, a).want /\ ~Login(x, a).intentional
         /\ Login(x, a).timers = x.timers \cup {"login"}
         /\ Login(x, a).requests = IF x.socket = "connected" /\ x.peer
                                   THEN Append(x.requests, [kind |-> "login", of |-> a])
                                   ELSE x.requests
<1> DEFINE y == StartTimer([x EXCEPT !.intentional = FALSE, !.myId = a, !.want = TRUE], "login")
           m == [kind |-> "login", of |-> a]
<1>1. Login(x, a) = SendJson(y, "login", a)
  BY DEF Login
<1>2. /\ y \in State /\ y.window = x.window /\ y.pending = x.pending /\ y.asked = x.asked
      /\ y.user = x.user /\ y.hasty = x.hasty /\ y.socket = x.socket /\ y.closing = x.closing
      /\ y.requests = x.requests /\ y.replies = x.replies /\ y.served = x.served
      /\ y.peer = x.peer /\ y.status = x.status /\ y.myId = a /\ y.want /\ ~y.intentional
      /\ y.timers = x.timers \cup {"login"}
  BY DEF State, StartTimer, Timers, Someone
<1>3. m \in Message
  BY DEF Message, Someone
<1> HIDE DEF y
<1>4. Append(y.requests, m) \in Seq(Message)
  BY <1>2, <1>3 DEF State
<1>5. CASE y.socket = "connected" /\ y.peer
  <2>1. Login(x, a) = [y EXCEPT !.requests = Append(y.requests, m)]
    BY <1>1, <1>5 DEF SendJson
  <2> HIDE DEF m
  <2>2. Login(x, a) \in State
    BY <1>2, <1>4, <2>1, ZenonT(40) DEF State
  <2>3. Login(x, a).requests = Append(y.requests, m)
    BY <1>2, <2>1 DEF State
  <2>4. /\ Login(x, a).window = y.window /\ Login(x, a).pending = y.pending
        /\ Login(x, a).asked = y.asked /\ Login(x, a).user = y.user
        /\ Login(x, a).hasty = y.hasty /\ Login(x, a).socket = y.socket
        /\ Login(x, a).closing = y.closing /\ Login(x, a).replies = y.replies
        /\ Login(x, a).served = y.served /\ Login(x, a).peer = y.peer
        /\ Login(x, a).status = y.status /\ Login(x, a).myId = y.myId
        /\ Login(x, a).want = y.want /\ Login(x, a).intentional = y.intentional
        /\ Login(x, a).timers = y.timers
    BY <1>2, <2>1 DEF State
  <2> QED  BY <1>2, <1>5, <2>2, <2>3, <2>4 DEF m
<1>6. CASE ~(y.socket = "connected" /\ y.peer)
  BY <1>1, <1>2, <1>6 DEF SendJson
<1> QED  BY <1>5, <1>6

(* What a slot of the dialog or of the window does with a reply r: it      *)
(* takes the client from x to y, of which one reply less is left           *)
Replied(x, r, y) ==
    /\ y.hasty = x.hasty /\ y.asked = x.asked /\ y.socket = x.socket
    /\ y.intentional = x.intentional
    /\ y.requests = x.requests /\ y.peer = x.peer /\ y.served = x.served
    /\ r.kind = "login" =>
         /\ y.window = "chat" /\ y.pending = "none" /\ y.myId = r.of /\ y.status
         /\ y.user = x.user /\ y.want = x.want
         /\ y.timers = (x.timers \ {"login", "retry"}) \cup {"heartbeat"}
    /\ r.kind = "refused" =>
         /\ y.window = x.window /\ y.pending = "none" /\ y.myId = NoOne /\ ~y.want
         /\ y.user = NoOne /\ y.status = x.status
         /\ y.timers = x.timers \ {"login", "reconnect", "retry"}
    /\ r.kind = "reg" =>
         /\ y.window = x.window /\ y.pending = "none" /\ y.myId = x.myId
         /\ y.want = x.want /\ y.user = x.user /\ y.status = x.status
         /\ y.timers = x.timers \ {"retry"}
    /\ r.kind = "heartbeat" =>
         /\ y.window = x.window /\ y.pending = x.pending /\ y.myId = x.myId
         /\ y.want = x.want /\ y.user = x.user /\ y.status = x.status
         /\ y.timers = x.timers \ {"pong"}

(* handleMessage with the slots it reaches does what Replied says. *)
LEMMA HandleFacts ==
  ASSUME NEW x \in State, NEW r \in Message
  PROVE  LET y == HandleMessage(x, r)
         IN  y \in State /\ y.replies = x.replies /\ Replied(x, r, y)
<1> DEFINE y == HandleMessage(x, r)
<1>0. r.kind \in {"login", "refused", "reg", "heartbeat"}
  BY DEF Message
<1>1. CASE r.kind = "login"
  <2>1. y = StartTimer([StopTimers(StopTimers(x, {"login"}), {"retry"}) EXCEPT
                          !.myId = r.of, !.pending = "none", !.window = "chat", !.status = TRUE],
                       "heartbeat")
    BY <1>1 DEF HandleMessage, LoginSuccess
  <2>2. r.of \in Someone
    BY <1>1 DEF Message, Someone
  <2> HIDE DEF y
  <2>3. y \in State
    BY <2>1, <2>2, ZenonT(40) DEF State, StartTimer, StopTimers, Timers
  <2>4. /\ y.hasty = x.hasty /\ y.asked = x.asked /\ y.socket = x.socket
        /\ y.intentional = x.intentional /\ y.replies = x.replies
        /\ y.requests = x.requests /\ y.peer = x.peer /\ y.served = x.served
        /\ y.window = "chat" /\ y.pending = "none" /\ y.myId = r.of /\ y.status
        /\ y.user = x.user /\ y.want = x.want
        /\ y.timers = (x.timers \ {"login", "retry"}) \cup {"heartbeat"}
    BY <2>1, <2>2 DEF State, StartTimer, StopTimers, Timers
  <2> QED  BY <1>1, <2>3, <2>4 DEF y, Replied
<1>2. CASE r.kind = "refused"
  <2>1. y = [ResetLoginState(StopTimers(StopTimers(x, {"login"}), {"reconnect", "retry"})) EXCEPT
               !.pending = "none", !.user = NoOne]
    BY <1>2 DEF HandleMessage, LoginFailed
  <2> HIDE DEF y
  <2>3. y \in State
    BY <2>1, Nobody DEF State, ResetLoginState, StopTimers, Timers
  <2>4. /\ y.hasty = x.hasty /\ y.asked = x.asked /\ y.socket = x.socket
        /\ y.intentional = x.intentional /\ y.replies = x.replies
        /\ y.requests = x.requests /\ y.peer = x.peer /\ y.served = x.served
        /\ y.window = x.window /\ y.pending = "none" /\ y.myId = NoOne /\ ~y.want
        /\ y.user = NoOne /\ y.status = x.status
        /\ y.timers = x.timers \ {"login", "reconnect", "retry"}
    BY <2>1 DEF State, ResetLoginState, StopTimers, Timers
  <2> QED  BY <1>2, <2>3, <2>4 DEF y, Replied
<1>3. CASE r.kind = "reg"
  <2>1. y = [StopTimers(x, {"retry"}) EXCEPT !.pending = "none"]
    BY <1>3 DEF HandleMessage
  <2> HIDE DEF y
  <2>2. y \in State
    BY <2>1 DEF State, StopTimers, Timers
  <2>3. /\ y.hasty = x.hasty /\ y.asked = x.asked /\ y.socket = x.socket
        /\ y.intentional = x.intentional /\ y.replies = x.replies
        /\ y.requests = x.requests /\ y.peer = x.peer /\ y.served = x.served
        /\ y.window = x.window /\ y.pending = "none" /\ y.myId = x.myId /\ y.want = x.want
        /\ y.user = x.user /\ y.status = x.status /\ y.timers = x.timers \ {"retry"}
    BY <2>1 DEF State, StopTimers
  <2> QED  BY <1>3, <2>2, <2>3 DEF y, Replied
<1>4. CASE r.kind = "heartbeat"
  <2>1. y = StopTimers(x, {"pong"})
    BY <1>4 DEF HandleMessage
  <2> HIDE DEF y
  <2>2. y \in State
    BY <2>1 DEF State, StopTimers, Timers
  <2>3. /\ y.hasty = x.hasty /\ y.asked = x.asked /\ y.socket = x.socket
        /\ y.intentional = x.intentional /\ y.replies = x.replies
        /\ y.requests = x.requests /\ y.peer = x.peer /\ y.served = x.served
        /\ y.window = x.window /\ y.pending = x.pending /\ y.myId = x.myId
        /\ y.want = x.want /\ y.user = x.user /\ y.status = x.status
        /\ y.timers = x.timers \ {"pong"}
    BY <2>1 DEF State, StopTimers
  <2> QED  BY <1>4, <2>2, <2>3 DEF y, Replied
<1> QED  BY <1>0, <1>1, <1>2, <1>3, <1>4

----------------------------------------------------------------------------
(* The steps *)

(* The user and the server of the promise, as the refinement maps them *)
Told(x) == IF x.hasty THEN NoOne ELSE x.user
LoggedIn(x) == IF x.hasty THEN NoOne ELSE x.served

(* What the promise allows to happen between clients x and y *)
Honours(x, y) ==
    \/ Told(y) = NoOne /\ LoggedIn(y) = NoOne
    \/ LoggedIn(x) = NoOne /\ LoggedIn(y) = NoOne /\ Told(y) \in Accounts
    \/ Told(x) # NoOne /\ LoggedIn(y) = Told(x) /\ Told(y) = Told(x)
    \/ LoggedIn(y) = NoOne /\ Told(y) = Told(x)
    \/ LoggedIn(y) = LoggedIn(x) /\ Told(y) = Told(x)

(* The parts of Sound that hold of hasty users, too *)
Plain(x) ==
    Unplugged(x) /\ GoneAway(x) /\ Watched(x) /\ DialogWaits(x) /\ Ended(x) /\ WantsSomeone(x)

(* Sound is made of these parts. *)
LEMMA SoundParts ==
  ASSUME NEW x, Plain(x), ~x.hasty => Asked(x) /\ Exchange(x)
  PROVE  Sound(x)
BY DEF Sound, Plain

(* The window closes and the program ends: all is as at the start. *)
LEMMA EndSound ==
  ASSUME c \in State, c' = [Start EXCEPT !.window = "closed"]
  PROVE  c' \in State /\ Sound(c') /\ Honours(c, c')
<1>1. c' \in State
  <2>1. Start \in State
    BY Empty, Ticks DEF State, Start, Someone, Timers
  <2> QED  BY <2>1 DEF State
<1> QED
  BY <1>1 DEF Start, Sound, Unplugged, GoneAway, Watched, DialogWaits, Ended, WantsSomeone, Asked,
              Exchange, Honours, Told, LoggedIn

(* A client that has gone offline is sound, whatever it did before. *)
LEMMA GiveUpSound ==
  ASSUME c \in State, Sound(c), NEW x \in State,
         x.window = c.window, x.user = NoOne, ~x.hasty, x.pending = "none",
         x.socket # "connected", x.intentional, ~x.want, ~x.status, x.served = NoOne,
         x.requests = <<>>, x.replies = <<>>, ~x.peer, x.timers = {}, c.window # "closed"
  PROVE  Sound(x) /\ Honours(c, x)
<1>1. Honours(c, x)
  BY DEF Honours, Told, LoggedIn
<1>2. Plain(x)
  BY DEF Plain, Unplugged, GoneAway, Watched, DialogWaits, Ended, WantsSomeone, State
<1>3. Asked(x) /\ Exchange(x)
  BY DEF Asked, Exchange
<1> QED  BY <1>1, <1>2, <1>3, SoundParts

(* onLoginClicked, on the connection there is or on a new one *)
LEMMA ClickLoginSound ==
  ASSUME c \in State, Sound(c), NEW a \in Accounts, ClickLogin(a)
  PROVE  c' \in State /\ Sound(c') /\ Honours(c, c')
<1> DEFINE x == StartTimer([c EXCEPT !.pending = "login", !.asked = a, !.user = a,
                                     !.hasty = c.hasty \/ c.pending # "none"], "retry")
<1>1. /\ x \in State
      /\ x.window = c.window /\ x.myId = c.myId /\ x.want = c.want /\ x.intentional = c.intentional
      /\ x.socket = c.socket /\ x.requests = c.requests /\ x.replies = c.replies /\ x.peer = c.peer
      /\ x.served = c.served /\ x.status = c.status
      /\ x.pending = "login" /\ x.asked = a /\ x.user = a /\ x.timers = c.timers \cup {"retry"}
      /\ x.hasty <=> c.hasty \/ c.pending # "none"
  BY DEF State, StartTimer, Timers, Someone
<1>2. c.window = "dialog" /\ c' = IF c.socket = "connected" THEN Login(x, a) ELSE ConnectToServer(x)
  BY DEF ClickLogin
<1>n. a # NoOne /\ a \in Accounts
  BY QtAssumption
<1> HIDE DEF x
<1>3. ASSUME ~c'.hasty, c'.hasty = x.hasty
      PROVE  /\ ~c.hasty /\ c.pending = "none" /\ c.user = NoOne /\ ~c.want /\ c.served = NoOne
             /\ c.requests = <<>> /\ c.replies = <<>> /\ ~c.status
  BY <1>1, <1>2, <1>3 DEF Sound, Asked, Exchange, LoggingIn, Watched
<1>4. CASE c.socket = "connected"
  <2>1. c' = Login(x, a)
    BY <1>2, <1>4
  <2>2. /\ c' \in State
        /\ c'.window = x.window /\ c'.pending = x.pending /\ c'.asked = x.asked /\ c'.user = x.user
        /\ c'.hasty = x.hasty /\ c'.socket = x.socket /\ c'.replies = x.replies
        /\ c'.served = x.served /\ c'.peer = x.peer /\ c'.status = x.status
        /\ c'.myId = a /\ c'.want /\ ~c'.intentional /\ c'.timers = x.timers \cup {"login"}
        /\ c'.requests = IF x.peer THEN Append(x.requests, [kind |-> "login", of |-> a])
                         ELSE x.requests
    BY <1>1, <1>4, <2>1, LoginFacts
  <2>3. Plain(c')
    BY <1>1, <1>2, <1>4, <1>n, <2>2
       DEF Sound, Plain, Unplugged, GoneAway, Watched, DialogWaits, Ended, WantsSomeone
  <2>4. ASSUME ~c'.hasty PROVE Asked(c')
    BY <1>1, <1>2, <1>3, <1>n, <2>2, <2>4 DEF Asked
  <2>5. ASSUME ~c'.hasty PROVE Exchange(c')
    <3>1. x.requests = <<>> /\ c'.user = a
      BY <1>1, <1>3, <2>2, <2>5
    <3>2. Append(x.requests, [kind |-> "login", of |-> a]) = <<[kind |-> "login", of |-> a]>>
      BY <3>1, One
    <3>3. c'.requests = <<>> \/ c'.requests = <<[kind |-> "login", of |-> c'.user]>>
      BY <2>2, <3>1, <3>2
    <3> QED  BY <1>1, <1>2, <1>3, <1>n, <2>2, <2>5, <3>3 DEF Exchange, LoggingIn
  <2>6. Honours(c, c')
    BY <1>1, <1>2, <1>3, <1>n, <2>2 DEF Honours, Told, LoggedIn, State
  <2> QED  BY <2>2, <2>3, <2>4, <2>5, <2>6, SoundParts
<1>5. CASE c.socket # "connected"
  <2>1. c' = ConnectToServer(x)
    BY <1>2, <1>5
  <2>2. /\ c' \in State /\ Kept(c', x) /\ Cleared(c') /\ c'.socket = "connecting"
        /\ c'.want = x.want /\ ~c'.intentional /\ c'.status = x.status /\ c'.timers = x.timers
    BY <1>1, <1>5, <2>1, ConnectFacts
  <2>3. Plain(c')
    BY <1>1, <1>2, <1>5, <1>n, <2>2
       DEF Sound, Plain, Unplugged, GoneAway, Watched, DialogWaits, Ended, WantsSomeone, Kept, Cleared
  <2>4. ASSUME ~c'.hasty PROVE Asked(c') /\ Exchange(c')
    BY <1>1, <1>2, <1>3, <1>n, <2>2, <2>4 DEF Asked, Exchange, Kept, Cleared
  <2>6. Honours(c, c')
    BY <1>1, <1>2, <1>3, <1>n, <2>2 DEF Honours, Told, LoggedIn, State, Kept, Cleared
  <2> QED  BY <2>2, <2>3, <2>4, <2>6, SoundParts
<1> QED  BY <1>4, <1>5

(* A connection that was lost or given up leaves a sound client, which the  *)
(* reconnect timer brings back unless the user has left                     *)
LEMMA DropSound ==
  ASSUME NEW v \in State, Sound(v), v.window # "closed",
         NEW x \in State, Kept(x, v), Cleared(x), x.socket \in {"unconnected", "connecting"},
         x.want <=> v.want, x.intentional <=> v.intentional, ~x.status,
         x.timers \subseteq (v.timers \ {"heartbeat", "pong"}) \cup {"reconnect"},
         "retry" \in v.timers => "retry" \in x.timers,
         x.intentional => "reconnect" \notin x.timers
  PROVE  Sound(x) /\ Honours(v, x)
<1>1. Unplugged(x) /\ Watched(x) /\ DialogWaits(x) /\ Ended(x) /\ WantsSomeone(x)
  BY DEF Sound, Unplugged, Watched, DialogWaits, Ended, WantsSomeone, Kept, Cleared
<1>2. GoneAway(x)
  BY DEF Sound, GoneAway, State, Timers
<1>3. ASSUME ~x.hasty PROVE Asked(x) /\ Exchange(x)
  BY <1>3 DEF Sound, Asked, Exchange, Kept, Cleared
<1>4. Honours(v, x)
  BY DEF Honours, Told, LoggedIn, Kept, Cleared
<1> QED  BY <1>1, <1>2, <1>3, <1>4, SoundParts DEF Plain

(* The answer to a login takes too long: the socket is aborted. *)
LEMMA OnLoginTimeoutSound ==
  ASSUME c \in State, Sound(c), OnLoginTimeout
  PROVE  c' \in State /\ Sound(c') /\ Honours(c, c')
<1> DEFINE x == StopTimers(c, {"login"})
<1>1. c' = Abort(x) /\ "login" \in c.timers
  BY DEF OnLoginTimeout
<1>2. /\ x \in State /\ Kept(x, c) /\ x.want = c.want /\ x.intentional = c.intentional
      /\ x.socket = c.socket /\ x.status = c.status /\ x.timers = c.timers \ {"login"}
  BY DEF State, StopTimers, Kept
<1> HIDE DEF x
<1>3. c.window # "closed" /\ ~c.intentional /\ (c.socket # "connected" => ~c.status)
      /\ (~c.status => c.timers \cap {"heartbeat", "pong"} = {})
  BY <1>1 DEF Sound, Ended, GoneAway, Watched
<1>4. /\ c' \in State /\ Kept(c', c) /\ Cleared(c') /\ c'.socket = "unconnected"
      /\ c'.want = c.want /\ c'.intentional = c.intentional
      /\ c.socket # "connected" => c'.status = c.status /\ c'.timers = c.timers \ {"login"}
      /\ c.socket = "connected" =>
            ~c'.status /\ c'.timers = ((c.timers \ {"login"}) \ {"heartbeat", "pong"}) \cup {"reconnect"}
  BY <1>1, <1>2, <1>3, AbortFacts DEF Kept
<1>5. /\ ~c'.status
      /\ c'.timers \subseteq (c.timers \ {"heartbeat", "pong"}) \cup {"reconnect"}
      /\ "retry" \in c.timers => "retry" \in c'.timers
  BY <1>3, <1>4
<1> QED  BY <1>3, <1>4, <1>5, DropSound

(* 35 s without a heartbeat's answer: aborted, too, and reconnect is        *)
(* started.                                                                 *)
LEMMA OnHeartbeatTimeoutSound ==
  ASSUME c \in State, Sound(c), OnHeartbeatTimeout
  PROVE  c' \in State /\ Sound(c') /\ Honours(c, c')
<1> DEFINE x == StopTimers(c, {"pong"})
           y == Abort(x)
<1>1. "pong" \in c.timers /\ c' = IF y.intentional THEN y ELSE StartTimer(y, "reconnect")
  BY DEF OnHeartbeatTimeout
<1>2. /\ x \in State /\ Kept(x, c) /\ x.want = c.want /\ x.intentional = c.intentional
      /\ x.socket = c.socket /\ x.timers = c.timers \ {"pong"}
  BY DEF State, StopTimers, Kept
<1>3. c.window # "closed" /\ ~c.intentional /\ c.socket = "connected"
  BY <1>1 DEF Sound, Ended, GoneAway, Watched
<1> HIDE DEF x
<1>4. /\ y \in State /\ Kept(y, c) /\ Cleared(y) /\ y.socket = "unconnected" /\ ~y.status
      /\ y.want = c.want /\ ~y.intentional
      /\ y.timers = ((c.timers \ {"pong"}) \ {"heartbeat", "pong"}) \cup {"reconnect"}
  BY <1>2, <1>3, AbortFacts DEF Kept
<1>5. c' = StartTimer(y, "reconnect")
  BY <1>1, <1>4
<1> HIDE DEF y
<1>6. /\ c' \in State /\ Kept(c', y) /\ Cleared(c') /\ c'.socket = y.socket /\ c'.status = y.status
      /\ c'.want = y.want /\ c'.intentional = y.intentional
      /\ c'.timers = y.timers \cup {"reconnect"}
  BY <1>4, <1>5 DEF State, StartTimer, Timers, Kept, Cleared
<1>7. Kept(c', c)
  BY <1>4, <1>6 DEF Kept
<1>8. /\ c'.timers \subseteq (c.timers \ {"heartbeat", "pong"}) \cup {"reconnect"}
      /\ "retry" \in c.timers => "retry" \in c'.timers
  BY <1>4, <1>6
<1> QED  BY <1>3, <1>4, <1>6, <1>7, <1>8, DropSound

(* A connection cannot be made. *)
LEMMA ConnectFailsSound ==
  ASSUME c \in State, Sound(c), ConnectFails
  PROVE  c' \in State /\ Sound(c') /\ Honours(c, c')
<1> DEFINE y == Unconnected(c)
<1>1. c.socket = "connecting" /\ c' = OnError(y)
  BY DEF ConnectFails
<1>2. c.window # "closed" /\ ~c.status /\ c.timers \cap {"heartbeat", "pong"} = {}
      /\ (c.intentional => "reconnect" \notin c.timers)
  BY <1>1 DEF Sound, Ended, Watched, GoneAway
<1>3. /\ y \in State /\ Kept(y, c) /\ Cleared(y) /\ y.socket = "unconnected" /\ y.status = c.status
      /\ y.want = c.want /\ y.intentional = c.intentional /\ y.timers = c.timers
  BY UnconnectedFacts
<1> HIDE DEF y
<1>4. /\ c' \in State /\ Kept(c', c) /\ Cleared(c') /\ c'.socket = "unconnected" /\ ~c'.status
      /\ c'.want = c.want /\ c'.intentional = c.intentional
      /\ c'.timers = IF c.intentional THEN c.timers ELSE c.timers \cup {"reconnect"}
  BY <1>1, <1>2, <1>3, OnErrorFacts DEF Kept
<1>5. /\ c'.timers \subseteq (c.timers \ {"heartbeat", "pong"}) \cup {"reconnect"}
      /\ "retry" \in c.timers => "retry" \in c'.timers
      /\ c'.intentional => "reconnect" \notin c'.timers
  BY <1>2, <1>4
<1> QED  BY <1>2, <1>4, <1>5, DropSound

(* The server closes the connection. *)
LEMMA PeerClosesSound ==
  ASSUME c \in State, Sound(c), PeerCloses
  PROVE  c' \in State /\ Sound(c') /\ Honours(c, c')
<1> DEFINE x == OnError(c)
           y == Unconnected(x)
<1>1. c.socket = "connected" /\ c' = OnDisconnected(y)
  BY DEF PeerCloses
<1>2. c.window # "closed" /\ ~c.intentional
  BY <1>1 DEF Sound, Ended, GoneAway
<1>3. /\ x \in State /\ Kept(x, c) /\ x.want = c.want /\ ~x.intentional
      /\ x.timers = c.timers \cup {"reconnect"}
  BY <1>2, OnErrorFacts
<1> HIDE DEF x
<1>4. /\ y \in State /\ Kept(y, c) /\ Cleared(y) /\ y.socket = "unconnected"
      /\ y.want = c.want /\ ~y.intentional /\ y.timers = c.timers \cup {"reconnect"}
  BY <1>3, UnconnectedFacts DEF Kept
<1> HIDE DEF y
<1>5. /\ c' \in State /\ Kept(c', y) /\ Cleared(c') /\ c'.socket = "unconnected" /\ ~c'.status
      /\ c'.want = y.want /\ ~c'.intentional
      /\ c'.timers = (y.timers \ {"heartbeat", "pong"}) \cup {"reconnect"}
  BY <1>1, <1>4 DEF State, OnDisconnected, StopTimers, StartTimer, Timers, Kept, Cleared
<1>6. Kept(c', c)
  BY <1>4, <1>5 DEF Kept
<1>7. /\ c'.timers \subseteq (c.timers \ {"heartbeat", "pong"}) \cup {"reconnect"}
      /\ "retry" \in c.timers => "retry" \in c'.timers
  BY <1>4, <1>5
<1> QED  BY <1>2, <1>4, <1>5, <1>6, <1>7, DropSound

(* The reconnect timer makes a new connection. *)
LEMMA OnReconnectTimeoutSound ==
  ASSUME c \in State, Sound(c), OnReconnectTimeout
  PROVE  c' \in State /\ Sound(c') /\ Honours(c, c')
<1>1. c' = [c EXCEPT !.socket = "connecting"] /\ "reconnect" \in c.timers /\ c.socket = "unconnected"
  BY DEF OnReconnectTimeout
<1>2. /\ c' \in State /\ Kept(c', c) /\ c'.socket = "connecting" /\ c'.status = c.status
      /\ c'.want = c.want /\ c'.intentional = c.intentional /\ c'.timers = c.timers
      /\ c'.requests = c.requests /\ c'.replies = c.replies /\ c'.peer = c.peer
      /\ c'.served = c.served
  BY <1>1 DEF State, Kept
<1>3. Plain(c')
  BY <1>1, <1>2 DEF Sound, Plain, Unplugged, GoneAway, Watched, DialogWaits, Ended, WantsSomeone, Kept
<1>4. ASSUME ~c'.hasty PROVE Asked(c') /\ Exchange(c')
  BY <1>1, <1>2, <1>4 DEF Sound, Asked, Exchange, LoggingIn, Kept, Unplugged, Watched
<1>5. Honours(c, c')
  BY <1>2 DEF Honours, Told, LoggedIn, Kept
<1> QED  BY <1>2, <1>3, <1>4, <1>5, SoundParts

(* Cancel and the dialog's ten seconds give up what was asked for. *)
LEMMA CancelSound ==
  ASSUME c \in State, Sound(c), c.window # "closed",
         c' = [Loginout(StopTimers(c, {"retry"})) EXCEPT
                 !.pending = "none", !.user = NoOne, !.hasty = FALSE]
  PROVE  c' \in State /\ Sound(c') /\ Honours(c, c')
<1> DEFINE x == StopTimers(c, {"retry"})
           y == Loginout(x)
<1>1. /\ x \in State /\ Kept(x, c) /\ x.want = c.want /\ x.intentional = c.intentional
      /\ x.socket = c.socket /\ x.status = c.status /\ x.timers = c.timers \ {"retry"}
      /\ x.requests = c.requests /\ x.replies = c.replies /\ x.peer = c.peer
      /\ x.served = c.served
  BY DEF State, StopTimers, Kept
<1> HIDE DEF x
<1>2. Unplugged(x) /\ GoneAway(x) /\ Watched(x)
  BY <1>1 DEF Sound, Unplugged, GoneAway, Watched, Kept
<1>3. /\ y \in State /\ Kept(y, x) /\ y.socket # "connected" /\ y.intentional
      /\ ~y.want /\ ~y.status /\ y.served = NoOne /\ y.requests = <<>> /\ y.replies = <<>>
      /\ ~y.peer /\ y.timers = x.timers \cap {"retry"}
  BY <1>1, <1>2, LoginoutFacts
<1>4. y.timers = {}
  BY <1>1, <1>3
<1> HIDE DEF y
<1>5. c' = [y EXCEPT !.pending = "none", !.user = NoOne, !.hasty = FALSE]
  BY DEF x, y
<1>6. c' \in State
  BY <1>3, <1>5, ZenonT(40) DEF State, Someone
<1>7. /\ c'.window = y.window /\ c'.user = NoOne /\ ~c'.hasty /\ c'.pending = "none"
      /\ c'.socket # "connected" /\ c'.intentional /\ ~c'.want /\ ~c'.status /\ c'.served = NoOne
      /\ c'.requests = <<>> /\ c'.replies = <<>> /\ ~c'.peer /\ c'.timers = {}
  BY <1>3, <1>4, <1>5, ZenonT(40) DEF State
<1>8. c'.window = c.window
  BY <1>1, <1>3, <1>7 DEF Kept
<1> QED  BY <1>6, <1>7, <1>8, GiveUpSound

(* loginout in the chat window stops every timer. *)
LEMMA LeaveFacts ==
  ASSUME c \in State, Sound(c), c.window = "chat"
  PROVE  LET y == Loginout(c)
         IN  /\ y \in State /\ Kept(y, c) /\ y.socket # "connected" /\ y.intentional
             /\ ~y.want /\ ~y.status /\ y.served = NoOne /\ y.requests = <<>> /\ y.replies = <<>>
             /\ ~y.peer /\ y.timers = {} /\ y.pending = "none"
<1>1. Unplugged(c) /\ GoneAway(c) /\ Watched(c) /\ "retry" \notin c.timers /\ c.pending = "none"
  BY DEF Sound, DialogWaits
<1> QED  BY <1>1, LoginoutFacts DEF Kept

(* The user switches accounts: back to the dialog, logged out. *)
LEMMA ClickSwitchSound ==
  ASSUME c \in State, Sound(c), ClickSwitch
  PROVE  c' \in State /\ Sound(c') /\ Honours(c, c')
<1> DEFINE y == Loginout(c)
<1>1. c.window = "chat" /\ c' = [ResetLoginState(y) EXCEPT !.window = "dialog", !.pending = "none",
                                   !.status = FALSE, !.user = NoOne, !.hasty = FALSE]
  BY DEF ClickSwitch
<1>2. /\ y \in State /\ y.socket # "connected" /\ y.intentional
      /\ y.served = NoOne /\ y.requests = <<>> /\ y.replies = <<>>
      /\ ~y.peer /\ y.timers = {}
  BY <1>1, LeaveFacts
<1> HIDE DEF y
<1>3. c' \in State
  <2>1. ResetLoginState(y) \in State
    BY <1>2, Nobody DEF State, ResetLoginState
  <2> QED  BY <1>1, <2>1, Nobody DEF State
<1>4. /\ c'.window = "dialog" /\ c'.user = NoOne /\ ~c'.hasty /\ c'.pending = "none"
      /\ c'.socket # "connected" /\ ~c'.want /\ ~c'.status /\ c'.served = NoOne
      /\ c'.requests = <<>> /\ c'.replies = <<>> /\ ~c'.peer /\ c'.timers = {}
  BY <1>1, <1>2 DEF State, ResetLoginState
<1>5. Sound(c')
  BY <1>4 DEF Sound, Unplugged, GoneAway, Watched, DialogWaits, Ended, WantsSomeone, Asked, Exchange
<1> QED  BY <1>3, <1>4, <1>5 DEF Honours, Told, LoggedIn

(* The user goes offline, or comes back: a new login for the same account. *)
LEMMA ToggleStatusSound ==
  ASSUME c \in State, Sound(c), ToggleStatus
  PROVE  c' \in State /\ Sound(c') /\ Honours(c, c')
<1>1. c.window = "chat" /\ c.pending = "none" /\ "retry" \notin c.timers
  BY DEF ToggleStatus, Sound, DialogWaits
<1>2. CASE c.status
  <2> DEFINE y == Loginout(c)
  <2>1. c' = [y EXCEPT !.status = FALSE, !.user = NoOne, !.hasty = FALSE]
    BY <1>2 DEF ToggleStatus
  <2>2. /\ y \in State /\ y.window = c.window /\ y.socket # "connected" /\ y.intentional
        /\ ~y.want /\ y.served = NoOne /\ y.requests = <<>> /\ y.replies = <<>>
        /\ ~y.peer /\ y.timers = {} /\ y.pending = "none"
    BY <1>1, LeaveFacts DEF Kept
  <2> HIDE DEF y
  <2>3. c' \in State
    BY <2>1, <2>2, Nobody DEF State
  <2>4. /\ c'.window = c.window /\ c'.user = NoOne /\ ~c'.hasty /\ c'.pending = "none"
        /\ c'.socket # "connected" /\ c'.intentional /\ ~c'.want /\ ~c'.status /\ c'.served = NoOne
        /\ c'.requests = <<>> /\ c'.replies = <<>> /\ ~c'.peer /\ c'.timers = {}
    BY <2>1, <2>2 DEF State
  <2> QED  BY <1>1, <2>3, <2>4, GiveUpSound
<1>3. CASE ~c.status /\ c.myId = NoOne
  <2>1. c' = [c EXCEPT !.user = NoOne]
    BY <1>3 DEF ToggleStatus, Relogin
  <2>2. c' \in State /\ c'.user = NoOne /\ c'.hasty = c.hasty /\ c'.window = c.window
    BY <2>1 DEF State, Someone
  <2>3. /\ c'.pending = c.pending /\ c'.asked = c.asked /\ c'.myId = c.myId
        /\ c'.want = c.want /\ c'.intentional = c.intentional /\ c'.socket = c.socket
        /\ c'.timers = c.timers /\ c'.status = c.status /\ c'.requests = c.requests
        /\ c'.replies = c.replies /\ c'.peer = c.peer /\ c'.served = c.served
    BY <2>1 DEF State
  <2>4. Plain(c')
    BY <1>1, <1>3, <2>2, <2>3
       DEF Sound, Plain, Unplugged, GoneAway, Watched, DialogWaits, Ended, WantsSomeone
  <2>5. ASSUME ~c'.hasty PROVE c.user = NoOne /\ Asked(c') /\ Exchange(c')
    <3>1. c.user = NoOne /\ Asked(c) /\ Exchange(c)
      BY <1>1, <1>3, <2>2, <2>5 DEF Sound, Asked
    <3>2. Asked(c')
      BY <1>1, <1>3, <2>2, <2>3, <3>1 DEF Asked
    <3>3. Exchange(c')
      BY <1>1, <1>3, <2>2, <2>3, <3>1 DEF Exchange, LoggingIn
    <3> QED  BY <3>1, <3>2, <3>3
  <2>6. Honours(c, c')
    BY <2>2, <2>3, <2>5 DEF Honours, Told, LoggedIn
  <2> QED  BY <2>2, <2>4, <2>5, <2>6, SoundParts
<1>4. CASE ~c.status /\ c.myId # NoOne
  <2> DEFINE x == [c EXCEPT !.intentional = FALSE, !.want = TRUE]
             y == Abort(x)
             z == ConnectToServer(y)
  <2>1. c' = [z EXCEPT !.user = c.myId]
    BY <1>4 DEF ToggleStatus, Relogin
  <2>2. /\ x \in State /\ Kept(x, c) /\ x.want /\ x.socket = c.socket /\ x.status = c.status
        /\ x.timers = c.timers
    BY DEF State, Kept
  <2> HIDE DEF x
  <2>3. "heartbeat" \notin c.timers /\ "pong" \notin c.timers
    BY <1>4 DEF Sound, Watched
  <2>4. /\ y \in State /\ Kept(y, x) /\ y.want /\ y.socket = "unconnected" /\ ~y.status
        /\ y.timers \subseteq c.timers \cup {"reconnect"}
    <3>1. ~x.intentional
      BY DEF x, State
    <3>2. CASE x.socket = "connected"
      BY <1>4, <2>2, <2>3, <3>1, <3>2, AbortFacts
    <3>3. CASE x.socket # "connected"
      BY <1>4, <2>2, <2>3, <3>1, <3>3, AbortFacts
    <3> QED  BY <3>2, <3>3
  <2> HIDE DEF y
  <2>5. /\ z \in State /\ Kept(z, y) /\ Cleared(z) /\ z.want /\ z.socket = "connecting" /\ ~z.status
        /\ ~z.intentional /\ z.timers = y.timers
    BY <2>4, ConnectFacts
  <2> HIDE DEF z
  <2>6. c' \in State
    BY <2>1, <2>5 DEF State
  <2>7. /\ c'.window = z.window /\ c'.pending = z.pending /\ c'.myId = z.myId /\ c'.hasty = z.hasty
        /\ c'.user = c.myId /\ c'.socket = "connecting" /\ c'.want /\ ~c'.intentional
        /\ ~c'.status /\ c'.timers = z.timers /\ c'.requests = <<>> /\ c'.replies = <<>>
        /\ ~c'.peer /\ c'.served = NoOne
    BY <2>1, <2>5 DEF State, Cleared
  <2>8. /\ c'.window = "chat" /\ c'.pending = "none" /\ c'.myId = c.myId /\ c'.hasty = c.hasty
        /\ c'.timers \subseteq c.timers \cup {"reconnect"}
    BY <1>1, <2>2, <2>4, <2>5, <2>7 DEF Kept
  <2>9. Plain(c')
    BY <1>1, <1>4, <2>3, <2>7, <2>8
       DEF Plain, Unplugged, GoneAway, Watched, DialogWaits, Ended, WantsSomeone
  <2>10. Asked(c') /\ Exchange(c')
    BY <2>7, <2>8 DEF Asked, Exchange
  <2>11. Honours(c, c')
    <3>1. c.myId \in Accounts
      BY <1>4 DEF State, Someone
    <3>2. ~c.hasty => c.user \in {NoOne, c.myId} /\ c.served \in {NoOne, c.user}
      BY <1>1 DEF Sound, Asked, Exchange
    <3> QED  BY <2>7, <2>8, <3>1, <3>2 DEF Honours, Told, LoggedIn
  <2> QED  BY <2>6, <2>9, <2>10, <2>11, SoundParts
<1> QED  BY <1>2, <1>3, <1>4

(* The server is gone without a word. *)
LEMMA PeerLostSound ==
  ASSUME c \in State, Sound(c), PeerLost
  PROVE  c' \in State /\ Sound(c') /\ Honours(c, c')
<1>1. c' = [c EXCEPT !.peer = FALSE] /\ c.socket = "connected"
  BY DEF PeerLost
<1>2. /\ c' \in State /\ Kept(c', c) /\ c'.socket = c.socket /\ c'.status = c.status
      /\ c'.want = c.want /\ c'.intentional = c.intentional /\ c'.timers = c.timers
      /\ c'.requests = c.requests /\ c'.replies = c.replies /\ c'.served = c.served
  BY <1>1 DEF State, Kept
<1>3. Plain(c')
  BY <1>1, <1>2 DEF Sound, Plain, Unplugged, GoneAway, Watched, DialogWaits, Ended, WantsSomeone, Kept
<1>4. ASSUME ~c'.hasty PROVE Asked(c') /\ Exchange(c')
  BY <1>1, <1>2, <1>4 DEF Sound, Asked, Exchange, LoggingIn, Kept
<1>5. Honours(c, c')
  BY <1>2 DEF Honours, Told, LoggedIn, Kept
<1> QED  BY <1>2, <1>3, <1>4, <1>5, SoundParts

(* onRegisterClicked: nobody is logged in, and nobody will be by its        *)
(* answer.                                                                  *)
LEMMA ClickRegisterSound ==
  ASSUME c \in State, Sound(c), ClickRegister
  PROVE  c' \in State /\ Sound(c') /\ Honours(c, c')
<1> DEFINE x == StartTimer([c EXCEPT !.pending = "reg"], "retry")
           m == [kind |-> "reg", of |-> NoOne]
<1>1. /\ x \in State
      /\ x.window = c.window /\ x.myId = c.myId /\ x.want = c.want /\ x.intentional = c.intentional
      /\ x.socket = c.socket /\ x.requests = c.requests /\ x.replies = c.replies /\ x.peer = c.peer
      /\ x.served = c.served /\ x.status = c.status /\ x.hasty = c.hasty
      /\ x.pending = "reg" /\ x.asked = c.asked /\ x.user = c.user /\ x.timers = c.timers \cup {"retry"}
  BY DEF State, StartTimer, Timers
<1>2. /\ c.window = "dialog" /\ c.pending = "none"
      /\ c' = IF c.socket = "connected" THEN SendJson(x, "reg", NoOne) ELSE ConnectToServer(x)
  BY DEF ClickRegister
<1> HIDE DEF x
<1>3. ~c.hasty => /\ c.user = NoOne /\ ~c.want /\ "login" \notin c.timers /\ c.served = NoOne
                  /\ c.requests = <<>> /\ c.replies = <<>> /\ ~c.status
  BY <1>2 DEF Sound, Asked, Exchange, LoggingIn, Watched
<1>4. CASE c.socket = "connected"
  <2>1. /\ c' \in State /\ Kept(c', x) /\ c'.socket = "connected" /\ c'.replies = x.replies
        /\ c'.served = x.served /\ c'.status = x.status /\ c'.want = x.want
        /\ c'.timers = x.timers /\ c'.intentional = x.intentional /\ c'.peer = x.peer
        /\ c'.requests = IF x.peer THEN Append(x.requests, m) ELSE x.requests
    BY <1>1, <1>2, <1>4, SendFacts, Anonymous
  <2>2. Plain(c')
    BY <1>1, <1>2, <1>4, <2>1
       DEF Sound, Plain, Unplugged, GoneAway, Watched, DialogWaits, Ended, WantsSomeone, Kept
  <2>3. ASSUME ~c'.hasty PROVE Asked(c') /\ Exchange(c')
    <3>1. ~c.hasty
      BY <1>1, <2>1, <2>3 DEF Kept
    <3>2. Append(x.requests, m) = <<m>>
      BY <1>1, <1>3, <3>1, One
    <3>3. c'.requests = <<>> \/ c'.requests = <<m>>
      BY <1>1, <1>3, <2>1, <3>1, <3>2
    <3>4. Asked(c')
      BY <1>1, <1>2, <1>3, <2>1, <3>1 DEF Asked, Kept
    <3>5. Exchange(c')
      BY <1>1, <1>2, <1>3, <2>1, <3>1, <3>3 DEF Exchange, Kept
    <3> QED  BY <3>4, <3>5
  <2>4. Honours(c, c')
    BY <1>1, <2>1 DEF Honours, Told, LoggedIn, Kept
  <2> QED  BY <2>1, <2>2, <2>3, <2>4, SoundParts
<1>5. CASE c.socket # "connected"
  <2>1. /\ c' \in State /\ Kept(c', x) /\ Cleared(c') /\ c'.socket = "connecting"
        /\ c'.want = x.want /\ ~c'.intentional /\ c'.status = x.status /\ c'.timers = x.timers
    BY <1>1, <1>2, <1>5, ConnectFacts
  <2>2. Plain(c')
    BY <1>1, <1>2, <1>5, <2>1
       DEF Sound, Plain, Unplugged, GoneAway, Watched, DialogWaits, Ended, WantsSomeone, Kept, Cleared
  <2>3. ASSUME ~c'.hasty PROVE Asked(c') /\ Exchange(c')
    BY <1>1, <1>2, <1>3, <2>1, <2>3 DEF Asked, Exchange, Kept, Cleared
  <2>4. Honours(c, c')
    BY <1>1, <2>1 DEF Honours, Told, LoggedIn, Kept, Cleared
  <2> QED  BY <2>1, <2>2, <2>3, <2>4, SoundParts
<1> QED  BY <1>4, <1>5

(* The connected slot changes neither the user nor whether the window is open *)
Stayed(x, y) ==
    y.user = x.user /\ y.hasty = x.hasty /\ y.socket = "connected" /\ y.window # "closed"

(* onConnected logs the user in again, or sends what the dialog waits for:  *)
(* in both cases for the account that is asked for                          *)
LEMMA OnConnectedSound ==
  ASSUME c \in State, Sound(c), c.socket = "connecting"
  PROVE  LET x == OnConnected([c EXCEPT !.socket = "connected", !.peer = TRUE])
         IN  x \in State /\ Sound(x) /\ Honours(c, x) /\ Stayed(c, x)
<1> DEFINE x == OnConnected([c EXCEPT !.socket = "connected", !.peer = TRUE])
           v == [c EXCEPT !.socket = "connected", !.peer = TRUE]
           y == [StopTimers(v, {"reconnect"}) EXCEPT !.intentional = FALSE]
           m == [kind |-> "reg", of |-> NoOne]
<1>1. /\ y \in State /\ Kept(y, c) /\ y.want = c.want /\ ~y.intentional
      /\ y.socket = "connected" /\ y.requests = c.requests /\ y.replies = c.replies /\ y.peer
      /\ y.served = c.served /\ y.status = c.status /\ y.timers = c.timers \ {"reconnect"}
  <2>1. /\ v \in State /\ Kept(v, c) /\ v.want = c.want
        /\ v.socket = "connected" /\ v.requests = c.requests /\ v.replies = c.replies /\ v.peer
        /\ v.served = c.served /\ v.status = c.status /\ v.timers = c.timers
    BY DEF State, Kept
  <2> HIDE DEF v
  <2> QED  BY <2>1 DEF State, Kept, StopTimers
<1>2. x = CASE y.want -> Login(y, y.myId)
            [] ~y.want /\ y.pending = "login" -> Login(y, y.asked)
            [] ~y.want /\ y.pending = "reg" -> SendJson(y, "reg", NoOne)
            [] OTHER -> y
  BY DEF OnConnected
<1> SUFFICES x \in State /\ Sound(x) /\ Honours(c, x) /\ Stayed(c, x)
  OBVIOUS
<1> HIDE DEF v, x, y
<1>3. /\ c.requests = <<>> /\ c.replies = <<>> /\ c.served = NoOne /\ ~c.status
      /\ "heartbeat" \notin c.timers /\ "pong" \notin c.timers /\ c.window # "closed"
      /\ DialogWaits(c) /\ WantsSomeone(c)
  BY DEF Sound, Unplugged, Watched, Ended
<1>4. ASSUME NEW a \in Accounts, x = Login(y, a),
             ~c.hasty => Asked(c) /\ c.user = a /\ (c.window = "dialog" => c.pending = "login")
      PROVE  x \in State /\ Sound(x) /\ Honours(c, x) /\ Stayed(c, x)
  <2> DEFINE r == [kind |-> "login", of |-> a]
  <2>1. /\ x \in State
        /\ x.window = y.window /\ x.pending = y.pending /\ x.asked = y.asked /\ x.user = y.user
        /\ x.hasty = y.hasty /\ x.socket = y.socket /\ x.replies = y.replies
        /\ x.served = y.served /\ x.peer = y.peer /\ x.status = y.status
        /\ x.myId = a /\ x.want /\ ~x.intentional /\ x.timers = y.timers \cup {"login"}
        /\ x.requests = IF y.socket = "connected" /\ y.peer THEN Append(y.requests, r) ELSE y.requests
    <3>1. y \in State /\ x = Login(y, a)
      BY <1>1, <1>4
    <3> QED  BY <3>1, LoginFacts
  <2>2. x.requests = <<r>> /\ a # NoOne
    BY <1>1, <1>3, <2>1, One, QtAssumption, ZenonT(40)
  <2>3. Plain(x)
    BY <1>1, <1>3, <2>1, <2>2
       DEF Plain, Unplugged, GoneAway, Watched, DialogWaits, Ended, WantsSomeone, Kept
  <2>4. ASSUME ~x.hasty PROVE Asked(x) /\ Exchange(x)
    <3>1. ~c.hasty /\ Asked(c) /\ c.user = a /\ (c.window = "dialog" => c.pending = "login")
      BY <1>1, <1>4, <2>1, <2>4 DEF Kept
    <3>2. Asked(x)
      BY <1>1, <1>3, <2>1, <2>2, <3>1 DEF Asked, Kept
    <3>3. Exchange(x)
      BY <1>1, <1>3, <2>1, <2>2, <3>1, ZenonT(40) DEF Exchange, LoggingIn, Kept
    <3> QED  BY <3>2, <3>3
  <2>5. Honours(c, x)
    BY <1>1, <2>1 DEF Honours, Told, LoggedIn, Kept
  <2> QED  BY <1>1, <1>3, <2>1, <2>3, <2>4, <2>5, SoundParts DEF Kept, Stayed
<1>5. CASE y.want
  <2>1. y.myId \in Accounts
    BY <1>1, <1>3, <1>5 DEF WantsSomeone, Kept, State, Someone
  <2>2. ~c.hasty => Asked(c) /\ c.user = y.myId /\ (c.window = "dialog" => c.pending = "login")
    BY <1>1, <1>5 DEF Sound, Asked, Kept
  <2>3. x = Login(y, y.myId)
    BY <1>2, <1>5
  <2> QED  BY <1>4, <2>1, <2>2, <2>3
<1>6. CASE ~y.want /\ y.pending = "login"
  <2>1. x = Login(y, y.asked)
    BY <1>2, <1>6
  <2>2. c.window = "dialog"
    BY <1>1, <1>3, <1>6 DEF DialogWaits, Kept
  <2>3. ~c.hasty => Asked(c) /\ c.user = y.asked /\ c.pending = "login"
    BY <1>1, <1>6, <2>2 DEF Sound, Asked, Kept
  <2>4. y.asked \in Accounts
    BY <1>1, <1>3, <1>6 DEF WantsSomeone, Kept, State, Someone
  <2> QED  BY <1>4, <2>1, <2>3, <2>4
<1>7. CASE ~y.want /\ y.pending = "reg"
  <2>1. x = SendJson(y, "reg", NoOne)
    BY <1>2, <1>7
  <2>2. /\ x \in State /\ Kept(x, y) /\ x.socket = "connected" /\ x.replies = y.replies
        /\ x.served = y.served /\ x.status = y.status /\ x.want = y.want
        /\ x.timers = y.timers /\ x.intentional = y.intentional
        /\ x.requests = IF y.socket = "connected" /\ y.peer THEN Append(y.requests, m) ELSE y.requests
    <3>1. y \in State /\ y.socket = "connected"
      BY <1>1
    <3> QED  BY <2>1, <3>1, SendFacts, Anonymous
  <2>3. x.requests = <<m>>
    BY <1>1, <1>3, <2>2, One
  <2>4. Plain(x)
    BY <1>1, <1>3, <2>2
       DEF Plain, Unplugged, GoneAway, Watched, DialogWaits, Ended, WantsSomeone, Kept
  <2>5. ASSUME ~x.hasty PROVE Asked(x) /\ Exchange(x)
    <3>1. ~c.hasty /\ Asked(c)
      BY <1>1, <2>2, <2>5 DEF Kept, Sound
    <3>2. Asked(x)
      BY <1>1, <1>3, <2>2, <3>1 DEF Asked, Kept
    <3>3. Exchange(x)
      BY <1>1, <1>3, <1>7, <2>2, <2>3, <3>1 DEF Exchange, DialogWaits, Kept
    <3> QED  BY <3>2, <3>3
  <2>6. Honours(c, x)
    BY <1>1, <2>2 DEF Honours, Told, LoggedIn, Kept
  <2> QED  BY <1>1, <1>3, <2>2, <2>4, <2>5, <2>6, SoundParts DEF Kept, Stayed
<1>8. CASE ~y.want /\ y.pending \notin {"login", "reg"}
  <2>1. x = y
    BY <1>2, <1>8
  <2>2. Plain(x)
    BY <1>1, <1>3, <2>1
       DEF Plain, Unplugged, GoneAway, Watched, DialogWaits, Ended, WantsSomeone, Kept
  <2>3. ASSUME ~x.hasty PROVE Asked(x) /\ Exchange(x)
    BY <1>1, <1>3, <2>1, <2>3 DEF Sound, Asked, Exchange, Kept
  <2>4. Honours(c, x)
    BY <1>1, <2>1 DEF Honours, Told, LoggedIn, Kept
  <2> QED  BY <1>1, <1>3, <2>1, <2>2, <2>3, <2>4, SoundParts DEF Kept, Stayed
<1> QED  BY <1>5, <1>6, <1>7, <1>8

(* ... also if the socket closes right after, as was asked for earlier. *)
LEMMA ConnectedSound ==
  ASSUME c \in State, Sound(c), Connected
  PROVE  c' \in State /\ Sound(c') /\ Honours(c, c')
<1> DEFINE x == OnConnected([c EXCEPT !.socket = "connected", !.peer = TRUE])
<1>1. c.socket = "connecting" /\ c' = IF c.closing THEN DisconnectFromHost(x) ELSE x
  BY DEF Connected
<1>2. x \in State /\ Sound(x) /\ Honours(c, x) /\ Stayed(c, x)
  BY <1>1, OnConnectedSound
<1> HIDE DEF x
<1>3. CASE ~c.closing
  BY <1>1, <1>2, <1>3
<1>4. CASE c.closing
  <2>1. c' = Abort(x) /\ x.socket = "connected" /\ x.window # "closed"
    BY <1>1, <1>2, <1>4 DEF DisconnectFromHost, Stayed
  <2>2. /\ c' \in State /\ Kept(c', x) /\ Cleared(c') /\ c'.socket = "unconnected"
        /\ c'.want = x.want /\ c'.intentional = x.intentional /\ ~c'.status
        /\ c'.timers = (x.timers \ {"heartbeat", "pong"})
                          \cup (IF x.intentional THEN {} ELSE {"reconnect"})
    BY <1>2, <2>1, AbortFacts
  <2>3. ~x.intentional
    BY <1>2, <2>1 DEF Sound, GoneAway
  <2>4. /\ c'.timers \subseteq (x.timers \ {"heartbeat", "pong"}) \cup {"reconnect"}
        /\ "retry" \in x.timers => "retry" \in c'.timers
    BY <2>2
  <2>5. Sound(c')
    BY <1>2, <2>1, <2>2, <2>3, <2>4, DropSound
  <2>6. Honours(c, c')
    BY <1>2, <2>2 DEF Honours, Told, LoggedIn, Kept, Cleared, Stayed
  <2> QED  BY <2>2, <2>5, <2>6
<1> QED  BY <1>3, <1>4

(* A heartbeat is sent only by a client that is online. *)
LEMMA SendHeartbeatSound ==
  ASSUME c \in State, Sound(c), SendHeartbeat
  PROVE  c' \in State /\ Sound(c') /\ Honours(c, c')
<1> DEFINE x == StartTimer(c, "pong")
           y == SendJson(x, "heartbeat", NoOne)
           m == [kind |-> "heartbeat", of |-> NoOne]
<1>1. /\ "heartbeat" \in c.timers
      /\ \/ c' = [y EXCEPT !.ticks = 0, !.unanswered = y.unanswered + 1]
         \/ c' = [c EXCEPT !.ticks = c.ticks + 1] /\ c.ticks # PerTimeout
  BY DEF SendHeartbeat
<1>2. c.status /\ c.window = "chat" /\ c.socket = "connected"
  BY <1>1 DEF Sound, Watched
<1>3. CASE c' = [c EXCEPT !.ticks = c.ticks + 1] /\ c.ticks # PerTimeout
  <2>1. c.ticks + 1 \in 0..PerTimeout
    BY <1>3, Ticks DEF State
  <2>2. c' \in State
    BY <1>3, <2>1 DEF State
  <2>3. /\ Kept(c', c) /\ c'.socket = c.socket /\ c'.status = c.status /\ c'.peer = c.peer
        /\ c'.want = c.want /\ c'.intentional = c.intentional /\ c'.timers = c.timers
        /\ c'.requests = c.requests /\ c'.replies = c.replies /\ c'.served = c.served
    BY <1>3 DEF State, Kept
  <2>4. Plain(c')
    BY <2>3 DEF Sound, Plain, Unplugged, GoneAway, Watched, DialogWaits, Ended, WantsSomeone, Kept
  <2>5. ASSUME ~c'.hasty PROVE Asked(c') /\ Exchange(c')
    BY <2>3, <2>5 DEF Sound, Asked, Exchange, LoggingIn, Kept
  <2>6. Honours(c, c')
    BY <2>3 DEF Honours, Told, LoggedIn, Kept
  <2> QED  BY <2>2, <2>4, <2>5, <2>6, SoundParts
<1>4. CASE c' = [y EXCEPT !.ticks = 0, !.unanswered = y.unanswered + 1]
  <2>1. /\ x \in State /\ Kept(x, c) /\ x.want = c.want /\ x.intentional = c.intentional
        /\ x.socket = c.socket /\ x.requests = c.requests /\ x.replies = c.replies /\ x.peer = c.peer
        /\ x.served = c.served /\ x.status = c.status /\ x.timers = c.timers \cup {"pong"}
    BY DEF State, Kept, StartTimer, Timers
  <2> HIDE DEF x
  <2>2. /\ y \in State /\ Kept(y, x) /\ y.socket = x.socket /\ y.replies = x.replies
        /\ y.served = x.served /\ y.status = x.status /\ y.want = x.want
        /\ y.timers = x.timers /\ y.intentional = x.intentional /\ y.peer = x.peer
        /\ y.requests = IF x.socket = "connected" /\ x.peer THEN Append(x.requests, m) ELSE x.requests
    BY <2>1, SendFacts, Anonymous
  <2> HIDE DEF y, m
  <2>3. c' \in State
    <3>1. 0 \in 0..PerTimeout /\ y.unanswered + 1 \in Nat
      BY <2>2, Ticks DEF State
    <3> QED  BY <1>4, <2>2, <3>1 DEF State
  <2>4. /\ Kept(c', y) /\ c'.socket = y.socket /\ c'.status = y.status /\ c'.peer = y.peer
        /\ c'.want = y.want /\ c'.intentional = y.intentional /\ c'.timers = y.timers
        /\ c'.requests = y.requests /\ c'.replies = y.replies /\ c'.served = y.served
    BY <1>4, <2>2 DEF State, Kept
  <2>5. /\ Kept(c', c) /\ c'.socket = c.socket /\ c'.status = c.status
        /\ c'.want = c.want /\ c'.intentional = c.intentional /\ c'.timers = c.timers \cup {"pong"}
        /\ c'.replies = c.replies /\ c'.served = c.served
        /\ c'.requests \in {c.requests, Append(c.requests, m)}
    BY <2>1, <2>2, <2>4 DEF Kept
  <2>6. Plain(c')
    BY <1>1, <1>2, <2>5
       DEF Sound, Plain, Unplugged, GoneAway, Watched, DialogWaits, Ended, WantsSomeone, Kept
  <2>7. ASSUME ~c'.hasty PROVE Asked(c') /\ Exchange(c')
    <3>1. ~c.hasty /\ Asked(c) /\ Exchange(c)
      BY <2>5, <2>7 DEF Sound, Kept
    <3>2. Asked(c')
      BY <1>2, <2>5, <3>1 DEF Asked, Kept
    <3>3. /\ c.user # NoOne /\ c.served = c.user
          /\ \A i \in 1..Len(c.requests) : c.requests[i].kind = "heartbeat"
          /\ \A i \in 1..Len(c.replies) : c.replies[i].kind = "heartbeat"
      BY <1>2, <3>1 DEF Exchange, LoggingIn, Sound, Watched
    <3>4. \A i \in 1..Len(c'.requests) : c'.requests[i].kind = "heartbeat"
      <4>1. c.requests \in Seq(Message) /\ m.kind = "heartbeat"
        BY DEF State, m
      <4> QED  BY <2>5, <3>3, <4>1
    <3> QED  BY <1>2, <2>5, <3>2, <3>3, <3>4 DEF Exchange, Kept
  <2>8. Honours(c, c')
    BY <2>5 DEF Honours, Told, LoggedIn, Kept
  <2> QED  BY <2>3, <2>6, <2>7, <2>8, SoundParts
<1> QED  BY <1>1, <1>3, <1>4

(* The server grants or refuses the one login under way, or answers the     *)
(* others.                                                                  *)
LEMMA ServeSound ==
  ASSUME c \in State, Sound(c), Serve
  PROVE  c' \in State /\ Sound(c') /\ Honours(c, c')
<1> DEFINE r == Head(c.requests)
           n == [r EXCEPT !.kind = "refused"]
           granted == /\ c' = [[c EXCEPT !.requests = Tail(c.requests)] EXCEPT
                                  !.replies = Append(c.replies, r),
                                  !.served = IF r.kind = "login" THEN r.of ELSE c.served]
           refused == /\ r.kind = "login"
                      /\ c' = [[c EXCEPT !.requests = Tail(c.requests)] EXCEPT
                                  !.replies = Append(c.replies, n)]
<1>1. c.socket = "connected" /\ c.requests # <<>> /\ (granted \/ refused)
  BY DEF Serve, State
<1>2. r \in Message /\ (r.kind = "login" => n \in Message) /\ Tail(c.requests) \in Seq(Message)
      /\ c.replies \in Seq(Message) /\ r.of \in Someone
  <2>1. c.requests \in Seq(Message) /\ c.replies \in Seq(Message)
    BY DEF State
  <2>2. r \in Message /\ Tail(c.requests) \in Seq(Message)
    BY <1>1, <2>1, HeadAndTail
  <2> HIDE DEF r
  <2> QED  BY <2>1, <2>2 DEF Message, Someone
<1>3. /\ Append(c.replies, r) \in Seq(Message)
      /\ r.kind = "login" => Append(c.replies, n) \in Seq(Message)
  <2> HIDE DEF r, n
  <2> QED  BY <1>2
<1> HIDE DEF r, n
<1>4. /\ c' \in State /\ Kept(c', c) /\ c'.socket = c.socket /\ c'.status = c.status
      /\ c'.want = c.want /\ c'.intentional = c.intentional /\ c'.timers = c.timers
      /\ c'.requests = Tail(c.requests)
      /\ \/ c'.replies = Append(c.replies, r)
            /\ c'.served = IF r.kind = "login" THEN r.of ELSE c.served
         \/ r.kind = "login" /\ c'.replies = Append(c.replies, n) /\ c'.served = c.served
  <2>1. CASE granted
    <3>1. c' \in State
      BY <1>2, <1>3, <2>1 DEF State
    <3> QED  BY <2>1, <3>1 DEF State, Kept
  <2>2. CASE refused
    <3>1. c' \in State
      BY <1>2, <1>3, <2>2 DEF State
    <3> QED  BY <2>2, <3>1 DEF State, Kept
  <2> QED  BY <1>1, <2>1, <2>2
<1>5. Plain(c')
  BY <1>1, <1>4 DEF Sound, Plain, Unplugged, GoneAway, Watched, DialogWaits, Ended, WantsSomeone, Kept
<1>6. ASSUME ~c.hasty
      PROVE  Asked(c') /\ Exchange(c') /\ Honours(c, c')
  <2>1. Asked(c')
    BY <1>4, <1>6 DEF Sound, Asked, Kept
  <2>2. ASSUME c.requests = <<[kind |-> "login", of |-> c.user]>>, c.replies = <<>>,
               c.served = NoOne, LoggingIn(c)
        PROVE  Exchange(c') /\ Honours(c, c')
    <3>1. r = [kind |-> "login", of |-> c.user] /\ Tail(c.requests) = <<>>
      BY <2>2, OneHeadTail DEF r
    <3>2. n = [kind |-> "refused", of |-> c.user]
      BY <3>1 DEF n
    <3>3. Append(c.replies, r) = <<r>> /\ Append(c.replies, n) = <<n>>
      BY <2>2, One
    <3>4. c'.requests = <<>> /\ LoggingIn(c') /\ c'.user = c.user /\ c'.hasty = c.hasty
          /\ \/ c'.replies = <<[kind |-> "login", of |-> c'.user]>> /\ c'.served = c'.user
             \/ c'.replies = <<[kind |-> "refused", of |-> c'.user]>> /\ c'.served = NoOne
      BY <1>4, <2>2, <3>1, <3>2, <3>3 DEF Kept, LoggingIn
    <3> QED  BY <1>6, <2>2, <3>4 DEF Exchange, Honours, Told, LoggedIn, LoggingIn
  <2>3. ASSUME c.requests = <<[kind |-> "reg", of |-> NoOne]>>, c.replies = <<>>,
               c.served = NoOne, c.window = "dialog", c.pending = "reg"
        PROVE  Exchange(c') /\ Honours(c, c')
    <3>1. r = [kind |-> "reg", of |-> NoOne] /\ Tail(c.requests) = <<>>
      BY <2>3, OneHeadTail DEF r
    <3>2. Append(c.replies, r) = <<[kind |-> "reg", of |-> NoOne]>>
      BY <2>3, <3>1, One
    <3>3. c'.requests = <<>> /\ c'.user = c.user /\ c'.hasty = c.hasty /\ c'.served = NoOne
          /\ c'.replies = <<[kind |-> "reg", of |-> NoOne]>>
          /\ c'.window = "dialog" /\ c'.pending = "reg"
      BY <1>4, <2>3, <3>1, <3>2 DEF Kept
    <3> QED  BY <1>6, <2>3, <3>3 DEF Exchange, Honours, Told, LoggedIn
  <2>4. ASSUME c.status, c.user # NoOne, c.served = c.user,
               \A i \in 1..Len(c.requests) : c.requests[i].kind = "heartbeat",
               \A i \in 1..Len(c.replies) : c.replies[i].kind = "heartbeat"
        PROVE  Exchange(c') /\ Honours(c, c')
    <3>1. c.requests \in Seq(Message) /\ c.replies \in Seq(Message)
      BY DEF State
    <3>2. r.kind = "heartbeat"
      BY <1>1, <2>4, <3>1, HeadAndTail DEF r
    <3>3. /\ \A i \in 1..Len(Tail(c.requests)) : Tail(c.requests)[i].kind = "heartbeat"
          /\ \A i \in 1..Len(Append(c.replies, r)) : Append(c.replies, r)[i].kind = "heartbeat"
      <4>1. \A i \in 1..Len(Tail(c.requests)) : Tail(c.requests)[i].kind = "heartbeat"
        BY <1>1, <2>4, <3>1, HeadAndTail
      <4>2. \A i \in 1..Len(Append(c.replies, r)) : Append(c.replies, r)[i].kind = "heartbeat"
        BY <1>2, <2>4, <3>1, <3>2
      <4> QED  BY <4>1, <4>2
    <3>4. c'.requests = Tail(c.requests) /\ c'.replies = Append(c.replies, r)
          /\ c'.served = c.served /\ c'.user = c.user /\ c'.hasty = c.hasty /\ c'.status
      BY <1>4, <2>4, <3>2 DEF Kept
    <3>5. /\ \A i \in 1..Len(c'.requests) : c'.requests[i].kind = "heartbeat"
          /\ \A i \in 1..Len(c'.replies) : c'.replies[i].kind = "heartbeat"
      BY <3>3, <3>4
    <3> QED  BY <2>4, <3>4, <3>5 DEF Exchange, Honours, Told, LoggedIn
  <2> QED  BY <1>1, <1>6, <2>1, <2>2, <2>3, <2>4 DEF Sound, Exchange
<1>7. c.hasty => Honours(c, c')
  BY <1>4 DEF Honours, Told, LoggedIn, Kept
<1>8. c'.hasty = c.hasty
  BY <1>4 DEF Kept
<1> QED  BY <1>4, <1>5, <1>6, <1>7, <1>8, SoundParts

(* The client takes the next reply from the socket. *)
LEMMA OnReadyReadSound ==
  ASSUME c \in State, Sound(c), OnReadyRead
  PROVE  c' \in State /\ Sound(c') /\ Honours(c, c')
<1> DEFINE r == Head(c.replies)
           q == Tail(c.replies)
           y == HandleMessage(c, r)
<1>1. /\ c.socket = "connected" /\ c.replies # <<>>
      /\ c' = [y EXCEPT !.replies = Tail(y.replies), !.unanswered = 0]
  BY DEF OnReadyRead
<1>2. r \in Message /\ q \in Seq(Message)
  <2>1. c.replies \in Seq(Message)
    BY DEF State
  <2> QED  BY <1>1, <2>1, HeadAndTail
<1>3. r.kind \in {"login", "refused", "reg", "heartbeat"}
  BY <1>2 DEF Message
<1>4. r.kind = "login" => r.of \in Accounts
  BY <1>2 DEF Message
<1>5. c' \in State /\ Replied(c, r, c') /\ c'.replies = q
  <2>1. y \in State /\ y.replies = c.replies /\ Replied(c, r, y)
    BY <1>2, HandleFacts
  <2> HIDE DEF y
  <2>2. c' = [y EXCEPT !.replies = q, !.unanswered = 0]
    BY <1>1, <2>1
  <2> HIDE DEF q, r
  <2>3. c' \in State
    BY <1>2, <2>1, <2>2 DEF State
  <2>4. c'.replies = q
    BY <2>1, <2>2 DEF State
  <2>5. Replied(c, r, c')
    BY <2>1, <2>2 DEF State, Replied
  <2> QED  BY <2>3, <2>4, <2>5
<1> HIDE DEF r, q, y
<1>6. GoneAway(c) /\ ~c.intentional /\ c.window # "closed"
  BY <1>1 DEF Sound, GoneAway, Ended
<1>7. Plain(c')
  <2>1. Unplugged(c') /\ GoneAway(c') /\ Ended(c')
    BY <1>1, <1>3, <1>5, <1>6 DEF Replied, Unplugged, GoneAway, Ended
  <2>2. Watched(c')
    BY <1>1, <1>3, <1>5 DEF Replied, Sound, Watched
  <2>3. DialogWaits(c')
    BY <1>3, <1>5 DEF Replied, Sound, DialogWaits
  <2>4. WantsSomeone(c')
    BY <1>3, <1>4, <1>5, QtAssumption DEF Replied, Sound, WantsSomeone
  <2> QED  BY <2>1, <2>2, <2>3, <2>4 DEF Plain
<1>8. ASSUME ~c.hasty
      PROVE  Asked(c') /\ Exchange(c') /\ Honours(c, c')
  <2>1. Asked(c) /\ Exchange(c) /\ DialogWaits(c)
    BY <1>8 DEF Sound
  <2>2. CASE /\ c.requests = <<>> /\ c.replies = <<[kind |-> "login", of |-> c.user]>>
             /\ c.served = c.user /\ LoggingIn(c)
    <3>1. r = [kind |-> "login", of |-> c.user] /\ q = <<>>
      BY <2>2, OneHeadTail DEF r, q
    <3>2. Asked(c')
      BY <1>5, <2>1, <2>2, <3>1 DEF Replied, Asked, LoggingIn
    <3>3. Exchange(c')
      BY <1>5, <2>1, <2>2, <3>1 DEF Replied, Exchange, LoggingIn
    <3>4. Honours(c, c')
      BY <1>5, <2>2, <3>1 DEF Replied, Honours, Told, LoggedIn
    <3> QED  BY <3>2, <3>3, <3>4
  <2>3. CASE /\ c.requests = <<>> /\ c.replies = <<[kind |-> "refused", of |-> c.user]>>
             /\ c.served = NoOne /\ LoggingIn(c)
    <3>1. r = [kind |-> "refused", of |-> c.user] /\ q = <<>>
      BY <2>3, OneHeadTail DEF r, q
    <3>2. Asked(c')
      BY <1>5, <1>6, <2>1, <2>3, <3>1 DEF Replied, Asked, LoggingIn
    <3>3. Exchange(c')
      BY <1>5, <2>1, <2>3, <3>1 DEF Replied, Exchange, LoggingIn
    <3>4. Honours(c, c')
      BY <1>5, <2>3, <3>1 DEF Replied, Honours, Told, LoggedIn
    <3> QED  BY <3>2, <3>3, <3>4
  <2>4. CASE /\ c.requests = <<>> /\ c.replies = <<[kind |-> "reg", of |-> NoOne]>>
             /\ c.served = NoOne /\ c.window = "dialog" /\ c.pending = "reg"
    <3>1. r = [kind |-> "reg", of |-> NoOne] /\ q = <<>>
      BY <2>4, OneHeadTail DEF r, q
    <3>2. ~c.status
      BY <2>4 DEF Sound, Watched
    <3>3. Asked(c')
      BY <1>5, <2>1, <2>4, <3>1 DEF Replied, Asked
    <3>4. Exchange(c')
      BY <1>5, <2>1, <2>4, <3>1, <3>2 DEF Replied, Exchange
    <3>5. Honours(c, c')
      BY <1>5, <2>4, <3>1 DEF Replied, Honours, Told, LoggedIn
    <3> QED  BY <3>3, <3>4, <3>5
  <2>5. CASE /\ c.status /\ c.user # NoOne /\ c.served = c.user
             /\ \A i \in 1..Len(c.requests) : c.requests[i].kind = "heartbeat"
             /\ \A i \in 1..Len(c.replies) : c.replies[i].kind = "heartbeat"
    <3>1. c.replies \in Seq(Message)
      BY DEF State
    <3>2. r.kind = "heartbeat" /\ \A i \in 1..Len(q) : q[i].kind = "heartbeat"
      BY <1>1, <2>5, <3>1, HeadAndTail DEF r, q
    <3>3. Asked(c')
      BY <1>5, <2>1, <2>5, <3>2 DEF Replied, Asked
    <3>4. Exchange(c')
      BY <1>5, <2>1, <2>5, <3>2, ZenonT(40) DEF Replied, Exchange
    <3>5. Honours(c, c')
      BY <1>5, <2>5, <3>2 DEF Replied, Honours, Told, LoggedIn
    <3> QED  BY <3>3, <3>4, <3>5
  <2> QED  BY <1>1, <2>1, <2>2, <2>3, <2>4, <2>5 DEF Exchange
<1>9. c.hasty => Honours(c, c')
  BY <1>5 DEF Replied, Honours, Told, LoggedIn
<1> QED  BY <1>5, <1>7, <1>8, <1>9, SoundParts DEF Replied

(* Each step keeps the invariant, and is a step of the promise or none      *)
LEMMA NextSound ==
  ASSUME IInv, [Next]_c
  PROVE  IInv' /\ Honours(c, c')
<1>1. c \in State /\ Sound(c)
  BY DEF IInv
<1>2. CASE UNCHANGED c
  BY <1>1, <1>2 DEF IInv, Honours
<1>3. ASSUME NEW a \in Accounts, ClickLogin(a) PROVE c' \in State /\ Sound(c') /\ Honours(c, c')
  BY <1>1, <1>3, ClickLoginSound
<1>4. CASE Cancel
  <2>1. c.window # "closed"
    BY <1>4 DEF Cancel
  <2> QED  BY <1>1, <1>4, <2>1, CancelSound DEF Cancel, IInv
<1>5. CASE OnRetryTimeout
  <2>1. c.window # "closed"
    BY <1>1, <1>5 DEF OnRetryTimeout, Sound, Ended
  <2> QED  BY <1>1, <1>5, <2>1, CancelSound DEF OnRetryTimeout, IInv
<1>6. CASE CloseDialog \/ ClickLogout
  BY <1>1, <1>6, EndSound DEF CloseDialog, ClickLogout, IInv
<1>7. CASE ClickRegister
  BY <1>1, <1>7, ClickRegisterSound DEF IInv
<1>8. CASE ToggleStatus
  BY <1>1, <1>8, ToggleStatusSound DEF IInv
<1>9. CASE ClickSwitch
  BY <1>1, <1>9, ClickSwitchSound DEF IInv
<1>10. CASE OnReconnectTimeout
  BY <1>1, <1>10, OnReconnectTimeoutSound DEF IInv
<1>11. CASE OnLoginTimeout
  BY <1>1, <1>11, OnLoginTimeoutSound DEF IInv
<1>12. CASE SendHeartbeat
  BY <1>1, <1>12, SendHeartbeatSound DEF IInv
<1>13. CASE OnHeartbeatTimeout
  BY <1>1, <1>13, OnHeartbeatTimeoutSound DEF IInv
<1>14. CASE Connected
  BY <1>1, <1>14, ConnectedSound DEF IInv
<1>15. CASE ConnectFails
  BY <1>1, <1>15, ConnectFailsSound DEF IInv
<1>16. CASE PeerCloses
  BY <1>1, <1>16, PeerClosesSound DEF IInv
<1>17. CASE PeerLost
  BY <1>1, <1>17, PeerLostSound DEF IInv
<1>18. CASE Serve
  BY <1>1, <1>18, ServeSound DEF IInv
<1>19. CASE OnReadyRead
  BY <1>1, <1>19, OnReadyReadSound DEF IInv
<1> QED
  BY <1>2, <1>3, <1>4, <1>5, <1>6, <1>7, <1>8, <1>9, <1>10, <1>11, <1>12, <1>13, <1>14, <1>15,
     <1>16, <1>17, <1>18, <1>19 DEF Next, UserStep, TimerStep, IInv

(* The client at the start is sound. *)
LEMMA InitSound == Init => IInv
<1> SUFFICES ASSUME Init PROVE IInv
  OBVIOUS
<1>1. c \in State
  BY Empty, Ticks DEF Init, State, Start, Someone, Timers
<1> QED
  BY <1>1 DEF Init, IInv, Start, Sound, Unplugged, GoneAway, Watched, DialogWaits, Ended, WantsSomeone,
              Asked, Exchange

(* Whatever the user, the timers and the server do, in any order, the      *)
(* client is sound: a login that is under way is for the account that the  *)
(* dialog or the chat window shows, and there is only one of them.         *)
THEOREM SessionInvariant == Spec => []IInv
<1>1. IInv /\ [Next]_c => IInv'
  BY NextSound
<1> QED  BY InitSound, <1>1, PTL DEF Spec

(* What the user sees belongs to the connection there is: "online" only    *)
(* with a login that the server has granted on this connection and with    *)
(* the heartbeat running (chatclient.cpp, loginSuccess and onDisconnected),*)
(* and no timer outlives what it was started for (loginout,                *)
(* onLoginTimeout).                                                        *)
THEOREM StatusTold == Spec => []StatusAndTimers
<1>1. IInv => TypeOK
  BY DEF IInv, State, TypeOK, Someone, Sound, WantsSomeone
<1>2. IInv => StatusHonest
  BY <1>1 DEF IInv, State, StatusHonest, Sound, Watched, Asked, Exchange, LoggingIn
<1>3. IInv => NoStaleTimer
  BY DEF IInv, State, NoStaleTimer, Sound, Watched, DialogWaits, Asked
<1> QED  BY SessionInvariant, <1>2, <1>3, PTL DEF StatusAndTimers

(* The client implements Session: through cancelled logins, late           *)
(* connections, automatic reconnection and switched accounts               *)
(* (onConnected, onDisconnected, relogin, loginout) the server logs this   *)
(* client in for the account that its user has asked for, or not at all.   *)
THEOREM PromiseKept == Spec => KeepsPromise
<1>1. Init => Promise!Init
  BY DEF Init, Start, Promise!Init
<1>2. IInv /\ [Next]_c => [Promise!Next]_<<Told(c), LoggedIn(c)>>
  <2> SUFFICES ASSUME IInv, [Next]_c
               PROVE  [Promise!Next]_<<Told(c), LoggedIn(c)>>
    OBVIOUS
  <2>1. Honours(c, c')
    BY NextSound
  <2> QED
    BY <2>1 DEF Honours, Told, LoggedIn, Promise!Next, Promise!Ask, Promise!GiveUp, Promise!Enter,
                Promise!Lose
<1> QED
  BY SessionInvariant, <1>1, <1>2, PTL DEF Spec, KeepsPromise, Promise!Spec, Told, LoggedIn
============================================================================
