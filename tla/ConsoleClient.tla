--------------------------- MODULE ConsoleClient ---------------------------
(***************************************************************************)
(* The console client (src/ChatServer/src/client/main.cpp): the main       *)
(* thread reads the user's choices and sends requests, a second thread     *)
(* receives; for a login and a registration main waits on the semaphore    *)
(* rwsem until the receiver has dealt with the answer.                     *)
(*                                                                         *)
(* The build has this client switched off, and it knows nothing of the     *)
(* length in front of a message.  The server of this repository discards   *)
(* all that it sends (Discard) and main waits for ever; the server for     *)
(* which it was written answers requests in their order (Answer).  The     *)
(* model has both.  One recv returns one message; when TCP cuts or joins   *)
(* messages, json::parse throws in a thread that does not catch, and the   *)
(* process ends.  Choices and commands that send nothing (help, a wrong or *)
(* incomplete one) change no state.                                        *)
(***************************************************************************)
EXTENDS Integers, Sequences

CONSTANTS Users, NoUser,
          Has,          \* which of friends and groups the answer to a user's login contains
          MaxUnderway   \* bound: messages under way in each direction

ASSUME ConsoleAssumption ==
    NoUser \notin Users /\ Has \in [Users -> SUBSET {"friends", "groups"}] /\ MaxUnderway \in Nat

VARIABLES
    main,       \* off; page, login, reg (both in sem_wait), menu; over: the process has ended
    rwsem,      \* the semaphore
    success,    \* g_isLoginSuccess
    current,    \* g_currentUser
    lists,      \* of whom g_currentUserFriendList and g_currentUserGroupList are
    posting,    \* the receiver is about to call sem_post
    asked,      \* the user of the last login (steers nothing)
    requests,   \* under way to the server
    replies,    \* under way to the client
    link,       \* the connection is up
    serving     \* whom the server has logged in on it

console == <<main, rwsem, success, current, lists, posting, asked, requests, replies, link, serving>>
threads == <<rwsem, success, current, lists, posting, asked>>

Message(kind, of) == [kind |-> kind, of |-> of]

ConsoleOff ==
    /\ main = "off"
    /\ rwsem = 0 /\ success = FALSE /\ posting = FALSE
    /\ current = NoUser /\ asked = NoUser /\ lists = [l \in {"friends", "groups"} |-> NoUser]
    /\ requests = <<>> /\ replies = <<>> /\ link = FALSE /\ serving = NoUser

(* socket, connect, sem_init, the receiver starts; or an error, and exit *)
Connect ==
    /\ main = "off"
    /\ \/ main' = "page" /\ link' = TRUE
       \/ main' = "over" /\ UNCHANGED link
    /\ UNCHANGED <<threads, requests, replies, serving>>

----------------------------------------------------------------------------
(* The main thread *)

(* send, after which main goes on at the given place: on a connection that *)
(* is gone the bytes are lost, send returns -1, or SIGPIPE ends the        *)
(* process                                                                 *)
Send(m, next) ==
    /\ Len(requests) < MaxUnderway
    /\ \/ link /\ requests' = Append(requests, m) /\ main' = next
       \/ ~link /\ UNCHANGED requests /\ main' \in {next, "over"}
    /\ UNCHANGED <<replies, link, serving>>

(* case 1: whatever send returned, main waits *)
ChooseLogin(u) ==
    /\ main = "page"
    /\ success' = FALSE
    /\ asked' = u
    /\ Send(Message("login", u), "login")
    /\ UNCHANGED <<rwsem, current, lists, posting>>

LoginDone ==
    /\ main = "login" /\ rwsem > 0
    /\ rwsem' = rwsem - 1
    /\ main' = IF success THEN "menu" ELSE "page"
    /\ UNCHANGED <<success, current, lists, posting, asked, requests, replies, link, serving>>

(* Mutant: main does not wait for the answer *)
ChooseRegisterHasty ==
    /\ main = "page"
    /\ Send(Message("reg", NoUser), "page")
    /\ UNCHANGED threads

(* case 2 *)
ChooseRegister ==
    /\ main = "page"
    /\ Send(Message("reg", NoUser), "reg")
    /\ UNCHANGED threads

RegisterDone ==
    /\ main = "reg" /\ rwsem > 0
    /\ rwsem' = rwsem - 1
    /\ main' = "page"
    /\ UNCHANGED <<success, current, lists, posting, asked, requests, replies, link, serving>>

(* case 3 *)
Quit ==
    /\ main = "page"
    /\ main' = "over" /\ link' = FALSE
    /\ UNCHANGED <<threads, requests, replies, serving>>

(* chat, groupchat, addfriend, creategroup, addgroup *)
Command ==
    /\ main = "menu"
    /\ Send(Message("command", current), "menu")
    /\ UNCHANGED threads

(* Mutant: the menu goes on *)
LogoutStays ==
    /\ main = "menu"
    /\ Send(Message("loginout", current), "menu")
    /\ UNCHANGED threads

(* loginout: the menu ends, unless send returned -1 *)
Logout ==
    /\ main = "menu"
    /\ \/ Send(Message("loginout", current), "page")
       \/ ~link /\ UNCHANGED <<main, requests, replies, link, serving>>
    /\ UNCHANGED threads

----------------------------------------------------------------------------
(* The receiver: readTaskHandler *)

Receiving == main \notin {"off", "over"} /\ ~posting

(* A list that is not in the answer keeps what it had *)
DoLoginResponse(r) ==
    IF r.kind = "refused"
    THEN success' = FALSE /\ UNCHANGED <<current, lists>>
    ELSE /\ current' = r.of
         /\ lists' = [l \in DOMAIN lists |-> IF l \in Has[r.of] THEN r.of ELSE lists[l]]
         /\ success' = TRUE

(* LOGIN_MSG_ACK *)
ReceiveLogin ==
    /\ Receiving /\ replies # <<>> /\ Head(replies).kind \in {"accepted", "refused"}
    /\ DoLoginResponse(Head(replies))
    /\ posting' = TRUE
    /\ replies' = Tail(replies)
    /\ UNCHANGED <<main, rwsem, asked, requests, link, serving>>

(* Mutant: main is only told of a registration that succeeded *)
ReceiveRegisterGladly ==
    /\ Receiving /\ replies # <<>> /\ Head(replies).kind \in {"taken", "registered"}
    /\ posting' = (Head(replies).kind = "registered")
    /\ replies' = Tail(replies)
    /\ UNCHANGED <<main, rwsem, success, current, lists, asked, requests, link, serving>>

(* REG_MSG_ACK and doRegResponse *)
ReceiveRegister ==
    /\ Receiving /\ replies # <<>> /\ Head(replies).kind \in {"taken", "registered"}
    /\ posting' = TRUE
    /\ replies' = Tail(replies)
    /\ UNCHANGED <<main, rwsem, success, current, lists, asked, requests, link, serving>>

SemPost ==
    /\ main \notin {"off", "over"} /\ posting
    /\ posting' = FALSE
    /\ rwsem' = rwsem + 1
    /\ UNCHANGED <<main, success, current, lists, asked, requests, replies, link, serving>>

(* ONE_CHAT_MSG and GROUP_CHAT_MSG are shown, others ignored *)
ReceiveChat ==
    /\ Receiving /\ replies # <<>> /\ Head(replies).kind = "chat"
    /\ replies' = Tail(replies)
    /\ UNCHANGED <<main, threads, requests, link, serving>>

(* A part of a message, or more than one: json::parse throws *)
ReceiveOther ==
    /\ Receiving /\ replies # <<>>
    /\ main' = "over"
    /\ UNCHANGED <<threads, requests, replies, link, serving>>

(* recv returns 0 or -1: exit(-1) *)
ReceiveEnd ==
    /\ Receiving /\ replies = <<>> /\ ~link
    /\ main' = "over"
    /\ UNCHANGED <<threads, requests, replies, link, serving>>

----------------------------------------------------------------------------
(* The server and the network *)

Answers(m) ==
    CASE m.kind = "login" -> {Message("accepted", m.of), Message("refused", m.of)}
      [] m.kind = "reg" -> {Message("registered", m.of), Message("taken", m.of)}
      [] OTHER -> {}

Answer ==
    /\ link /\ requests # <<>>
    /\ LET m == Head(requests)
       IN  \/ \E r \in Answers(m) :
                /\ replies' = Append(replies, r)
                /\ serving' = IF r.kind = "accepted" THEN r.of ELSE serving
           \/ Answers(m) = {} /\ UNCHANGED replies
              /\ serving' = IF m.kind = "loginout" THEN NoUser ELSE serving
    /\ requests' = Tail(requests)
    /\ UNCHANGED <<main, threads, link>>

(* ChatServer::onMessage: the first four bytes, here of a JSON text, are   *)
(* taken for a length beyond the limit, and the buffer is emptied          *)
Discard ==
    /\ link /\ requests # <<>>
    /\ requests' = Tail(requests)
    /\ UNCHANGED <<main, threads, replies, link, serving>>

PushChat ==
    /\ link /\ serving # NoUser /\ Len(replies) < MaxUnderway
    /\ replies' = Append(replies, Message("chat", serving))
    /\ UNCHANGED <<main, threads, requests, link, serving>>

LinkFails ==
    /\ link
    /\ link' = FALSE
    /\ requests' = <<>>
    /\ \E n \in 0..Len(replies) : replies' = SubSeq(replies, 1, n)
    /\ serving' = NoUser
    /\ UNCHANGED <<main, threads>>

MainStep == (\E u \in Users : ChooseLogin(u)) \/ LoginDone \/ ChooseRegister \/ RegisterDone
            \/ Quit \/ Command \/ Logout
ReceiverStep == ReceiveLogin \/ ReceiveRegister \/ SemPost \/ ReceiveChat \/ ReceiveOther \/ ReceiveEnd

ConsoleNext == Connect \/ MainStep \/ ReceiverStep \/ Answer \/ Discard \/ PushChat \/ LinkFails

ConsoleSpec == ConsoleOff /\ [][ConsoleNext]_console

(* Both threads run when they can.  Of the server nothing is assumed. *)
ConsoleFairness ==
    WF_console(LoginDone) /\ WF_console(RegisterDone) /\ WF_console(ReceiverStep)

----------------------------------------------------------------------------
Asks(m) == m.kind \in {"login", "reg"}
Answering(m) == m.kind # "chat"
Some(s, P(_)) == \E i \in DOMAIN s : P(s[i])

(* While main does not wait, no answer is outstanding anywhere: not with   *)
(* the server, not with the receiver, not in rwsem.  So the receiver never *)
(* writes g_currentUser and the two lists while main uses them, without a  *)
(* lock, and sem_wait never returns for the answer to an earlier request.  *)
SemaphoreMatched ==
    main \in {"page", "menu"} =>
        rwsem = 0 /\ ~posting /\ ~Some(requests, Asks) /\ ~Some(replies, Answering)

(* The menu is that of the user whose login was answered, with the lists   *)
(* that came with the answer, and every command reaches the server under   *)
(* the name of the user whom it has logged in on this connection, through  *)
(* failed logouts and second logins.                                       *)
SentAsServed ==
    /\ main = "menu" => current = asked /\ \A l \in Has[current] : lists[l] = current
    /\ \A i \in DOMAIN requests : requests[i].kind \in {"command", "loginout"} =>
          requests[i].of = serving

(* An answer that has reached the client, whatever it says, wakes main:    *)
(* the receiver posts for every one, or the process ends.                  *)
AnswerWakes ==
    main \in {"login", "reg"} /\ Some(replies, Answering) ~> main \notin {"login", "reg"}
============================================================================
