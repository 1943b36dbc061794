----------------------------- MODULE QtSession -----------------------------
(***************************************************************************)
(* The session of the Qt client: ChatClient with its socket and timers     *)
(* (src/QtClient/Client/chatclient.cpp), the login dialog, and what the    *)
(* chat window does to the session.  Everything runs in the GUI thread, so *)
(* a slot is one step; the functions below take the client to what it is   *)
(* after a call, as the code calls them.                                   *)
(*                                                                         *)
(* The heartbeat timer ticks every 15 s and the answer may take 35 s, so   *)
(* that PerTimeout = 2 ticks fit into the wait for an answer.  All other   *)
(* timers may fire at any time while they are active.                      *)
(***************************************************************************)
EXTENDS Integers, Sequences

CONSTANTS Accounts, NoOne,
          MaxPending    \* bound: requests or replies under way

ASSUME QtAssumption == NoOne \notin Accounts /\ MaxPending \in Nat

PerTimeout == 35 \div 15

MaxUnanswered == PerTimeout + 2    \* bound: heartbeats that are counted

(* The client: window (dialog, chat, closed), m_pending and                *)
(* m_pendingLoginId of the dialog, m_myId, m_wantRelogin,                  *)
(* m_intentionalDisconnect, the socket and its pending close, the active   *)
(* timers, m_online of the window, the heartbeats sent since an answer,    *)
(* and the ticks since the last one.                                       *)
(* The connection: what is under way, whether the other end is still       *)
(* there, and for which account the server takes it.                       *)
(* Two fields that steer nothing: the account that the user has asked for  *)
(* and not given up, and whether the user has been hasty, that is, has     *)
(* submitted another login while a request was under way.                  *)
VARIABLE c

Start == [window |-> "dialog", pending |-> "none", asked |-> NoOne,
          myId |-> NoOne, want |-> FALSE, intentional |-> FALSE,
          socket |-> "unconnected", closing |-> FALSE, timers |-> {}, status |-> FALSE,
          unanswered |-> 0, ticks |-> 0,
          requests |-> <<>>, replies |-> <<>>, peer |-> FALSE, served |-> NoOne,
          user |-> NoOne, hasty |-> FALSE]

Init == c = Start

----------------------------------------------------------------------------
(* ChatClient *)

StartTimer(x, t) == [x EXCEPT !.timers = @ \cup {t}]
StopTimers(x, T) == [x EXCEPT !.timers = @ \ T]

(* A write to a socket whose other end is gone is lost.  (Qt would keep    *)
(* what is written to a socket that is still connecting, but whoever calls *)
(* this has a connected one.)                                              *)
SendJson(x, kind, a) ==
    IF x.socket = "connected" /\ x.peer
    THEN [x EXCEPT !.requests = Append(@, [kind |-> kind, of |-> a])] ELSE x

(* The connection is gone, with all that was under way *)
Unconnected(x) ==
    [x EXCEPT !.socket = "unconnected", !.closing = FALSE, !.peer = FALSE,
              !.requests = <<>>, !.replies = <<>>, !.served = NoOne]

(* Mutant: only onError starts the reconnect timer *)
OnDisconnectedWaits(x) ==
    [StopTimers(x, {"heartbeat", "pong"}) EXCEPT !.status = FALSE, !.unanswered = 0]

(* onDisconnected, with the window's slot *)
OnDisconnected(x) ==
    LET y == [StopTimers(x, {"heartbeat", "pong"}) EXCEPT !.status = FALSE, !.unanswered = 0]
    IN  IF y.intentional THEN y ELSE StartTimer(y, "reconnect")

(* abort() tells of the disconnection only if the socket was connected *)
Abort(x) == IF x.socket = "connected" THEN OnDisconnected(Unconnected(x)) ELSE Unconnected(x)

(* disconnectFromHost() waits for a connection that is being made *)
DisconnectFromHost(x) ==
    IF x.socket = "connecting" THEN [x EXCEPT !.closing = TRUE] ELSE Abort(x)

ConnectToServer(x) == [Abort([x EXCEPT !.intentional = FALSE]) EXCEPT !.socket = "connecting"]

Login(x, a) ==
    SendJson(StartTimer([x EXCEPT !.intentional = FALSE, !.myId = a, !.want = TRUE], "login"),
             "login", a)

(* Mutant: the wish to log in again is kept *)
LoginoutKeepsWish(x) ==
    IF x.intentional THEN x
    ELSE DisconnectFromHost(
            StopTimers([x EXCEPT !.intentional = TRUE],
                       {"reconnect", "login", "heartbeat", "pong"}))

(* Mutant: the login timer runs on *)
LoginoutKeepsTimer(x) ==
    IF x.intentional THEN x
    ELSE DisconnectFromHost(
            StopTimers([x EXCEPT !.intentional = TRUE, !.want = FALSE],
                       {"reconnect", "heartbeat", "pong"}))

(* LOGINOUT_MSG is flushed before the socket closes *)
Loginout(x) ==
    IF x.intentional THEN x
    ELSE DisconnectFromHost(
            StopTimers([x EXCEPT !.intentional = TRUE, !.want = FALSE],
                       {"reconnect", "login", "heartbeat", "pong"}))

Relogin(x) ==
    IF x.myId = NoOne THEN x ELSE ConnectToServer(Abort([x EXCEPT !.intentional = FALSE, !.want = TRUE]))

ResetLoginState(x) == [x EXCEPT !.myId = NoOne, !.want = FALSE]

OnError(x) == IF x.intentional THEN x ELSE StartTimer(x, "reconnect")

(* Log in again, or tell the dialog, which sends what it has pending *)
OnConnected(x) ==
    LET y == [StopTimers(x, {"reconnect"}) EXCEPT !.intentional = FALSE]
    IN  CASE y.want -> Login(y, y.myId)
          [] ~y.want /\ y.pending = "login" -> Login(y, y.asked)
          [] ~y.want /\ y.pending = "reg" -> SendJson(y, "reg", NoOne)
          [] OTHER -> y

----------------------------------------------------------------------------
(* The user, in the dialog *)

(* onLoginClicked: connectToServer, unless there is a connection.  The     *)
(* button is disabled while a request is under way, Enter in the password  *)
(* field is not.                                                           *)
ClickLogin(a) ==
    LET x == StartTimer([c EXCEPT !.pending = "login", !.asked = a, !.user = a,
                                  !.hasty = @ \/ c.pending # "none"], "retry")
    IN  /\ c.window = "dialog"
        /\ Len(c.requests) + Len(c.replies) < MaxPending
        /\ c' = IF c.socket = "connected" THEN Login(x, a) ELSE ConnectToServer(x)

ClickRegister ==
    LET x == StartTimer([c EXCEPT !.pending = "reg"], "retry")
    IN  /\ c.window = "dialog" /\ c.pending = "none"
        /\ c' = IF c.socket = "connected" THEN SendJson(x, "reg", NoOne) ELSE ConnectToServer(x)

Cancel ==
    /\ c.window = "dialog" /\ c.pending # "none"
    /\ c' = [Loginout(StopTimers(c, {"retry"})) EXCEPT
               !.pending = "none", !.user = NoOne, !.hasty = FALSE]

(* Ten seconds after the click *)
OnRetryTimeout ==
    /\ "retry" \in c.timers
    /\ c' = [Loginout(StopTimers(c, {"retry"})) EXCEPT
               !.pending = "none", !.user = NoOne, !.hasty = FALSE]

(* The program ends *)
CloseDialog ==
    /\ c.window = "dialog"
    /\ c' = [Start EXCEPT !.window = "closed"]

(* ... and in the chat window: toggleStatus, log out (or close), switch *)
ToggleStatus ==
    /\ c.window = "chat"
    /\ c' = IF c.status THEN [Loginout(c) EXCEPT !.status = FALSE, !.user = NoOne, !.hasty = FALSE]
            ELSE [Relogin(c) EXCEPT !.user = c.myId]

ClickLogout ==
    /\ c.window = "chat"
    /\ c' = [Start EXCEPT !.window = "closed"]

ClickSwitch ==
    /\ c.window = "chat"
    /\ c' = [ResetLoginState(Loginout(c)) EXCEPT !.window = "dialog", !.pending = "none",
                                                 !.status = FALSE, !.user = NoOne, !.hasty = FALSE]

----------------------------------------------------------------------------
(* Socket and timers *)

(* A close that was asked for while connecting follows the connected slot *)
Connected ==
    /\ c.socket = "connecting"
    /\ LET x == OnConnected([c EXCEPT !.socket = "connected", !.peer = TRUE])
       IN  c' = IF c.closing THEN DisconnectFromHost(x) ELSE x

ConnectFails ==
    /\ c.socket = "connecting"
    /\ c' = OnError(Unconnected(c))

(* The server closes the connection (a kick, say): an error, then disconnected *)
PeerCloses ==
    /\ c.socket = "connected"
    /\ c' = OnDisconnected(Unconnected(OnError(c)))

(* The server is gone without a word *)
PeerLost ==
    /\ c.socket = "connected" /\ c.peer
    /\ c' = [c EXCEPT !.peer = FALSE]

OnReconnectTimeout ==
    /\ "reconnect" \in c.timers
    /\ c.socket = "unconnected"
    /\ c' = [c EXCEPT !.socket = "connecting"]

OnLoginTimeout ==
    /\ "login" \in c.timers
    /\ c' = Abort(StopTimers(c, {"login"}))

(* sendHeartbeat, every 15 s; nothing is sent if data has passed meanwhile. *)
(* Sending starts m_heartbeatTimeout from the beginning.                    *)
SendHeartbeat ==
    LET waiting == "pong" \in c.timers
    IN  /\ "heartbeat" \in c.timers
        /\ ~(waiting /\ c.ticks = PerTimeout)
        /\ \/ /\ Len(c.requests) < MaxPending /\ Len(c.replies) < MaxPending
              /\ c.unanswered < MaxUnanswered
              /\ c' = [SendJson(StartTimer(c, "pong"), "heartbeat", NoOne) EXCEPT
                          !.ticks = 0, !.unanswered = @ + 1]
           \/ waiting /\ c' = [c EXCEPT !.ticks = @ + 1]

(* 35 s after the last start *)
OnHeartbeatTimeout ==
    /\ "pong" \in c.timers
    /\ c.ticks = PerTimeout
    /\ c' = LET x == Abort(StopTimers(c, {"pong"}))
            IN  IF x.intentional THEN x ELSE StartTimer(x, "reconnect")

----------------------------------------------------------------------------
(* The server answers requests in order; a login may be refused *)
Serve ==
    /\ c.socket = "connected" /\ c.peer /\ c.requests # <<>>
    /\ LET r == Head(c.requests)
           x == [c EXCEPT !.requests = Tail(@)]
       IN  \/ c' = [x EXCEPT !.replies = Append(@, r),
                             !.served = IF r.kind = "login" THEN r.of ELSE @]
           \/ r.kind = "login" /\ c' = [x EXCEPT !.replies = Append(@, [r EXCEPT !.kind = "refused"])]

(* loginSuccess ends the dialog, or puts the window back online *)
LoginSuccess(x, a) ==
    StartTimer([StopTimers(x, {"retry"}) EXCEPT
                   !.myId = a, !.pending = "none", !.window = "chat", !.status = TRUE],
               "heartbeat")

LoginFailed(x) ==
    [ResetLoginState(StopTimers(x, {"reconnect", "retry"})) EXCEPT !.pending = "none", !.user = NoOne]

(* handleMessage with the slots of the dialog and the window *)
HandleMessage(x, r) ==
    CASE r.kind = "login" -> LoginSuccess(StopTimers(x, {"login"}), r.of)
      [] r.kind = "refused" -> LoginFailed(StopTimers(x, {"login"}))
      [] r.kind = "reg" -> [StopTimers(x, {"retry"}) EXCEPT !.pending = "none"]
      [] r.kind = "heartbeat" -> StopTimers(x, {"pong"})

OnReadyRead ==
    /\ c.socket = "connected" /\ c.replies # <<>>
    /\ c' = [HandleMessage(c, Head(c.replies)) EXCEPT !.replies = Tail(@), !.unanswered = 0]

----------------------------------------------------------------------------
UserStep == (\E a \in Accounts : ClickLogin(a)) \/ ClickRegister \/ Cancel \/ CloseDialog
            \/ ToggleStatus \/ ClickLogout \/ ClickSwitch

TimerStep == OnRetryTimeout \/ OnReconnectTimeout \/ OnLoginTimeout \/ SendHeartbeat \/ OnHeartbeatTimeout

Next == UserStep \/ TimerStep \/ Connected \/ ConnectFails \/ PeerCloses \/ PeerLost
        \/ Serve \/ OnReadyRead

Spec == Init /\ [][Next]_c

(* Timers fire.  Of the server it is assumed that an attempt to connect    *)
(* succeeds now and then, and that it answers now and then.                *)
Fairness ==
    /\ WF_c(OnReconnectTimeout) /\ WF_c(OnLoginTimeout)
    /\ SF_c(Connected) /\ SF_c(Serve) /\ SF_c(OnReadyRead)

FairSpec == Spec /\ Fairness

----------------------------------------------------------------------------
Timers == {"reconnect", "login", "heartbeat", "pong", "retry"}

TypeOK ==
    /\ c.window \in {"dialog", "chat", "closed"}
    /\ c.pending \in {"none", "login", "reg"}
    /\ {c.asked, c.myId, c.served, c.user} \subseteq Accounts \cup {NoOne}
    /\ {c.want, c.intentional, c.closing, c.status, c.peer, c.hasty} \subseteq BOOLEAN
    /\ c.socket \in {"unconnected", "connecting", "connected"}
    /\ c.timers \subseteq Timers
    /\ c.ticks \in 0..PerTimeout
    /\ c.want => c.myId # NoOne

Promise == INSTANCE Session WITH user <- IF c.hasty THEN NoOne ELSE c.user,
                                 server <- IF c.hasty THEN NoOne ELSE c.served

(* Through cancelled logins, late connections, automatic reconnection and  *)
(* switched accounts, the server logs this client in for the account the   *)
(* user has asked for, or not at all.  A hasty user is promised nothing:   *)
(* onConnected logs in the first account again, whatever was asked since.  *)
KeepsPromise == Promise!Spec

(* The window shows "online" only on a connection that the server has      *)
(* logged in for this account (unless two logins were sent on it) and that *)
(* the heartbeat timer watches.                                            *)
StatusHonest ==
    /\ TypeOK
    /\ c.status => /\ c.window = "chat" /\ c.socket = "connected" /\ "heartbeat" \in c.timers
                   /\ ~c.hasty => c.served = c.myId

(* No timer outlives what it was started for: the dialog's ten seconds do  *)
(* not log a user out of the chat window, and what is left of a login that *)
(* was given up does not cut off a later one (unless the user was hasty).  *)
NoStaleTimer ==
    /\ ("retry" \in c.timers) = (c.window = "dialog" /\ c.pending # "none")
    /\ c.window = "dialog" => c.timers \cap {"heartbeat", "pong"} = {}
    /\ ~c.hasty /\ c.window = "dialog" /\ c.pending # "login" => "login" \notin c.timers

(* What the user sees and what is still to happen belong to the connection *)
(* there is.                                                               *)
StatusAndTimers == StatusHonest /\ NoStaleTimer

(* A client whose user has not gone offline comes back online by itself,   *)
(* unless the server refuses the login or the user was hasty.              *)
BackOnline == (c.window = "chat" /\ c.user # NoOne) ~> (c.status \/ c.user = NoOne \/ c.hasty)

============================================================================
