------------------------ MODULE ConsoleClientProofs ------------------------
(***************************************************************************)
(* Proofs about the console client: for any users, any lists in the        *)
(* server's answers and any number of messages under way, the semaphore is *)
(* posted once for each answer that main waits for, and every command      *)
(* reaches the server under the name that is logged in there.              *)
(***************************************************************************)
EXTENDS ConsoleClient, TLAPS

Someone == Users \cup {NoUser}

Messages == [kind : {"login", "reg", "command", "loginout", "accepted", "refused", "registered",
                     "taken", "chat"}, of : Someone]

ConsoleTypes ==
    /\ main \in {"off", "page", "login", "reg", "menu", "over"}
    /\ rwsem \in Nat
    /\ success \in BOOLEAN /\ posting \in BOOLEAN /\ link \in BOOLEAN
    /\ current \in Someone /\ asked \in Someone /\ serving \in Someone
    /\ lists \in [{"friends", "groups"} -> Someone]
    /\ requests \in Seq(Messages) /\ replies \in Seq(Messages)

NothingAsked == \A i \in 1..Len(requests) : ~Asks(requests[i])
OnlyChats == \A i \in 1..Len(replies) : replies[i].kind = "chat"

(* What main sends is in the name of the user whom the server has logged   *)
(* in; a request that is answered, and a logout, are the last it sends     *)
(* for the time being                                                      *)
RequestsInOrder ==
    /\ \A i \in 1..Len(requests) : Asks(requests[i]) => i = Len(requests)
    /\ \A i \in 1..Len(requests) :
          requests[i].kind \in {"command", "loginout"} => requests[i].of = serving
    /\ \A i \in 1..Len(requests) : requests[i].kind = "loginout" =>
          i = Len(requests) \/ (i = Len(requests) - 1 /\ Asks(requests[Len(requests)]))

(* On a connection that is gone nothing is under way to the server *)
NothingSent == main # "over" /\ ~link => requests = <<>>

Off == main = "off" => /\ rwsem = 0 /\ ~posting /\ replies = <<>> /\ ~link

(* Main is not waiting, and nobody is about to wake it *)
Quiet == rwsem = 0 /\ ~posting /\ NothingAsked /\ OnlyChats

Welcome == current = asked /\ \A l \in Has[asked] : lists[l] = asked

InMenu ==
    /\ Quiet /\ Welcome /\ asked \in Users
    /\ \A i \in 1..Len(requests) : requests[i].kind # "loginout"
    /\ link => serving = asked

(* What main waits for: lost, or with the server, on the way back, with    *)
(* the receiver, or in rwsem                                               *)
Lost == Quiet /\ ~success /\ requests = <<>>

WithServer ==
    /\ rwsem = 0 /\ ~posting /\ OnlyChats /\ ~success
    /\ requests # <<>> /\ requests[Len(requests)] = Message("login", asked)

OnTheWay ==
    /\ rwsem = 0 /\ ~posting /\ requests = <<>> /\ ~success
    /\ \E k \in 1..Len(replies) :
          /\ replies[k].kind \in {"accepted", "refused"} /\ replies[k].of = asked
          /\ replies[k].kind = "accepted" /\ link => serving = asked
          /\ \A i \in 1..Len(replies) : i # k => replies[i].kind = "chat"

Noticed ==
    /\ \/ rwsem = 0 /\ posting
       \/ rwsem = 1 /\ ~posting
    /\ OnlyChats /\ requests = <<>>
    /\ success => Welcome /\ (link => serving = asked)

LoggingIn == asked \in Users /\ (Lost \/ WithServer \/ OnTheWay \/ Noticed)

(* The same for a registration, of which main only learns that it is over  *)
Registering ==
    \/ Quiet /\ requests = <<>>
    \/ /\ rwsem = 0 /\ ~posting /\ OnlyChats
       /\ requests # <<>> /\ Asks(requests[Len(requests)])
    \/ /\ rwsem = 0 /\ ~posting /\ requests = <<>>
       /\ \E k \in 1..Len(replies) :
             /\ replies[k].kind # "chat"
             /\ \A i \in 1..Len(replies) : i # k => replies[i].kind = "chat"
    \/ /\ (rwsem = 0 /\ posting) \/ (rwsem = 1 /\ ~posting)
       /\ OnlyChats /\ requests = <<>>

CInv ==
    /\ ConsoleTypes /\ RequestsInOrder /\ NothingSent /\ Off
    /\ main = "page" => Quiet
    /\ main = "menu" => InMenu
    /\ main = "login" => LoggingIn
    /\ main = "reg" => Registering

----------------------------------------------------------------------------
(* A message more at the end of a queue *)
LEMMA AppendFacts ==
  ASSUME NEW q \in Seq(Messages), NEW m \in Messages
  PROVE  /\ Append(q, m) \in Seq(Messages) /\ Len(Append(q, m)) = Len(q) + 1 /\ Len(q) \in Nat
         /\ \A i \in 1..Len(q) : Append(q, m)[i] = q[i] /\ i # Len(q) + 1
         /\ Append(q, m)[Len(q) + 1] = m
         /\ Append(q, m) # <<>>
         /\ \A i \in 1..(Len(q) + 1) : i \in 1..Len(q) \/ i = Len(q) + 1
<1>1. Append(q, m) \in Seq(Messages) /\ Len(Append(q, m)) = Len(q) + 1 /\ Len(q) \in Nat
  OBVIOUS
<1>2. \A i \in 1..Len(q) : Append(q, m)[i] = q[i] /\ i # Len(q) + 1
  OBVIOUS
<1>3. Append(q, m)[Len(q) + 1] = m
  OBVIOUS
<1>4. Append(q, m) # <<>>
  BY <1>1
<1>5. \A i \in 1..(Len(q) + 1) : i \in 1..Len(q) \/ i = Len(q) + 1
  OBVIOUS
<1> QED  BY <1>1, <1>2, <1>3, <1>4, <1>5

(* The first message taken from a queue *)
LEMMA TailFacts ==
  ASSUME NEW q \in Seq(Messages), q # <<>>
  PROVE  /\ Tail(q) \in Seq(Messages) /\ Len(Tail(q)) = Len(q) - 1 /\ Len(q) \in Nat /\ Len(q) > 0
         /\ \A i \in 1..Len(Tail(q)) : Tail(q)[i] = q[i + 1] /\ i + 1 \in 1..Len(q)
         /\ Head(q) = q[1] /\ Head(q) \in Messages /\ 1 \in 1..Len(q)
         /\ Len(q) = 1 => Tail(q) = <<>>
<1>1. Len(q) \in Nat /\ Len(q) > 0 /\ 1 \in 1..Len(q)
  OBVIOUS
<1>2. Tail(q) \in Seq(Messages) /\ Len(Tail(q)) = Len(q) - 1
  OBVIOUS
<1>3. \A i \in 1..Len(Tail(q)) : Tail(q)[i] = q[i + 1] /\ i + 1 \in 1..Len(q)
  OBVIOUS
<1>4. Head(q) = q[1] /\ Head(q) \in Messages
  OBVIOUS
<1>5. \A s \in Seq(Messages) : Len(s) = 0 => s = <<>>
  OBVIOUS
<1> QED  BY <1>1, <1>2, <1>3, <1>4, <1>5

(* What has arrived of a queue *)
LEMMA PrefixFacts ==
  ASSUME NEW q \in Seq(Messages), NEW n \in 0..Len(q)
  PROVE  /\ SubSeq(q, 1, n) \in Seq(Messages) /\ Len(SubSeq(q, 1, n)) = n
         /\ \A i \in 1..n : SubSeq(q, 1, n)[i] = q[i] /\ i \in 1..Len(q)
OBVIOUS

(* A queue that is empty *)
LEMMA EmptyFacts == <<>> \in Seq(Messages) /\ Len(<<>>) = 0
OBVIOUS

(* main starts: nothing is under way yet *)
LEMMA ConnectInv == CInv /\ Connect => CInv'
<1> SUFFICES ASSUME CInv, Connect PROVE CInv'
  OBVIOUS
<1> USE DEF CInv, ConsoleTypes
<1>1. /\ main = "off" /\ main' \in {"page", "over"} /\ (main' = "over" => link' = link)
      /\ link' \in BOOLEAN
      /\ rwsem' = rwsem /\ success' = success /\ current' = current /\ lists' = lists
      /\ posting' = posting /\ asked' = asked /\ requests' = requests /\ replies' = replies
      /\ serving' = serving
  BY DEF Connect, threads
<1>2. ConsoleTypes'
  BY <1>1
<1>3. rwsem = 0 /\ ~posting /\ replies = <<>> /\ requests = <<>> /\ ~link
  BY <1>1 DEF Off, NothingSent
<1>4. RequestsInOrder' /\ NothingSent' /\ Off' /\ Quiet'
  BY <1>1, <1>3, EmptyFacts DEF RequestsInOrder, NothingSent, Off, Quiet, NothingAsked, OnlyChats
<1> QED  BY <1>1, <1>2, <1>4

(* Sending, by what main is to wait for *)
LEMMA SendTypes ==
  ASSUME ConsoleTypes, NEW m \in Messages, NEW next \in {"page", "login", "reg", "menu"}, Send(m, next)
  PROVE  /\ requests' \in Seq(Messages) /\ main' \in {"off", "page", "login", "reg", "menu", "over"}
         /\ replies' = replies /\ link' = link /\ serving' = serving
         /\ \/ link /\ requests' = Append(requests, m) /\ main' = next
            \/ ~link /\ requests' = requests /\ main' \in {next, "over"}
BY AppendFacts DEF Send, ConsoleTypes

(* A login: lost at once on a connection that is gone, else with the server *)
LEMMA ChooseLoginInv ==
  ASSUME CInv, NEW u \in Users, ChooseLogin(u)
  PROVE  CInv'
<1> DEFINE m == Message("login", u)
<1> USE DEF CInv, ConsoleTypes
<1>1. m \in Messages /\ Asks(m) /\ m.kind = "login"
  BY DEF Message, Messages, Someone, Asks
<1>2. /\ main = "page" /\ success' = FALSE /\ asked' = u /\ rwsem' = rwsem /\ current' = current
      /\ lists' = lists /\ posting' = posting
      /\ Send(m, "login")
  BY DEF ChooseLogin
<1>3. /\ requests' \in Seq(Messages) /\ main' \in {"off", "page", "login", "reg", "menu", "over"}
      /\ replies' = replies /\ link' = link /\ serving' = serving
      /\ \/ link /\ requests' = Append(requests, m) /\ main' = "login"
         \/ ~link /\ requests' = requests /\ main' \in {"login", "over"}
  BY <1>1, <1>2, SendTypes
<1>4. ConsoleTypes'
  BY <1>2, <1>3 DEF Someone
<1>5. Quiet
  BY <1>2
<1>6. CASE link /\ requests' = Append(requests, m) /\ main' = "login"
  <2> HIDE DEF m
  <2>1. RequestsInOrder'
    BY <1>1, <1>3, <1>5, <1>6, AppendFacts DEF RequestsInOrder, Quiet, NothingAsked
  <2>2. WithServer'
    BY <1>2, <1>3, <1>5, <1>6, AppendFacts DEF WithServer, Quiet, OnlyChats, m
  <2> QED  BY <1>2, <1>3, <1>4, <1>6, <2>1, <2>2 DEF LoggingIn, NothingSent, Off
<1>7. CASE ~link /\ requests' = requests /\ main' \in {"login", "over"}
  <2>1. RequestsInOrder'
    BY <1>3, <1>7 DEF RequestsInOrder
  <2>2. Lost'
    BY <1>2, <1>3, <1>5, <1>7 DEF Lost, Quiet, NothingAsked, OnlyChats, NothingSent
  <2> QED  BY <1>2, <1>3, <1>4, <1>7, <2>1, <2>2 DEF LoggingIn, NothingSent, Off, Lost
<1> QED  BY <1>3, <1>6, <1>7

(* sem_wait returns for the answer to this login, with its user and lists *)
LEMMA LoginDoneInv == CInv /\ LoginDone => CInv'
<1> SUFFICES ASSUME CInv, LoginDone PROVE CInv'
  OBVIOUS
<1> USE DEF CInv, ConsoleTypes
<1>1. /\ main = "login" /\ rwsem > 0 /\ rwsem' = rwsem - 1
      /\ main' = (IF success THEN "menu" ELSE "page")
      /\ success' = success /\ current' = current /\ lists' = lists
      /\ posting' = posting /\ asked' = asked /\ requests' = requests /\ replies' = replies
      /\ link' = link /\ serving' = serving
  BY DEF LoginDone
<1>2. ConsoleTypes'
  BY <1>1
<1>3. /\ rwsem = 1 /\ ~posting /\ OnlyChats /\ requests = <<>> /\ asked \in Users
      /\ success => Welcome /\ (link => serving = asked)
  BY <1>1 DEF LoggingIn, Lost, Quiet, WithServer, OnTheWay, Noticed
<1>4. Quiet'
  BY <1>1, <1>3, EmptyFacts DEF Quiet, NothingAsked, OnlyChats
<1>5. main' = "menu" => InMenu'
  BY <1>1, <1>3, <1>4, EmptyFacts DEF InMenu, Welcome
<1> QED
  BY <1>1, <1>2, <1>3, <1>4, <1>5, EmptyFacts DEF RequestsInOrder, NothingSent, Off

(* A registration *)
LEMMA ChooseRegisterInv == CInv /\ ChooseRegister => CInv'
<1> DEFINE m == Message("reg", NoUser)
<1> SUFFICES ASSUME CInv, ChooseRegister PROVE CInv'
  OBVIOUS
<1> USE DEF CInv, ConsoleTypes
<1>1. m \in Messages /\ Asks(m) /\ m.kind = "reg"
  BY DEF Message, Messages, Someone, Asks
<1>2. /\ main = "page" /\ success' = success /\ asked' = asked /\ rwsem' = rwsem
      /\ current' = current /\ lists' = lists /\ posting' = posting
      /\ Send(m, "reg")
  BY DEF ChooseRegister, threads
<1>3. /\ requests' \in Seq(Messages) /\ main' \in {"off", "page", "login", "reg", "menu", "over"}
      /\ replies' = replies /\ link' = link /\ serving' = serving
      /\ \/ link /\ requests' = Append(requests, m) /\ main' = "reg"
         \/ ~link /\ requests' = requests /\ main' \in {"reg", "over"}
  BY <1>1, <1>2, SendTypes
<1>4. ConsoleTypes'
  BY <1>2, <1>3
<1>5. Quiet
  BY <1>2
<1>6. CASE link /\ requests' = Append(requests, m) /\ main' = "reg"
  <2> HIDE DEF m
  <2>1. RequestsInOrder'
    BY <1>1, <1>3, <1>5, <1>6, AppendFacts DEF RequestsInOrder, Quiet, NothingAsked
  <2>2. Registering'
    BY <1>1, <1>2, <1>3, <1>5, <1>6, AppendFacts DEF Registering, Quiet, OnlyChats
  <2> QED  BY <1>2, <1>3, <1>4, <1>6, <2>1, <2>2 DEF NothingSent, Off
<1>7. CASE ~link /\ requests' = requests /\ main' \in {"reg", "over"}
  <2>1. RequestsInOrder'
    BY <1>3, <1>7 DEF RequestsInOrder
  <2>2. Registering'
    BY <1>2, <1>3, <1>5, <1>7 DEF Registering, Quiet, NothingAsked, OnlyChats, NothingSent
  <2> QED  BY <1>2, <1>3, <1>4, <1>7, <2>1, <2>2 DEF NothingSent, Off
<1> QED  BY <1>3, <1>6, <1>7

(* sem_wait returns for the answer to this registration *)
LEMMA RegisterDoneInv == CInv /\ RegisterDone => CInv'
<1> SUFFICES ASSUME CInv, RegisterDone PROVE CInv'
  OBVIOUS
<1> USE DEF CInv, ConsoleTypes
<1>1. /\ main = "reg" /\ rwsem > 0 /\ rwsem' = rwsem - 1 /\ main' = "page"
      /\ success' = success /\ current' = current /\ lists' = lists
      /\ posting' = posting /\ asked' = asked /\ requests' = requests /\ replies' = replies
      /\ link' = link /\ serving' = serving
  BY DEF RegisterDone
<1>2. rwsem = 1 /\ ~posting /\ OnlyChats /\ requests = <<>>
  BY <1>1 DEF Registering, Quiet
<1>3. Quiet'
  BY <1>1, <1>2, EmptyFacts DEF Quiet, NothingAsked, OnlyChats
<1>4. ConsoleTypes'
  BY <1>1, <1>2
<1> QED  BY <1>1, <1>2, <1>3, <1>4, EmptyFacts DEF RequestsInOrder, NothingSent, Off

(* The process has ended: nothing is promised any more *)
LEMMA OverInv ==
  ASSUME CInv, main' = "over", link' \in BOOLEAN,
         rwsem' = rwsem, success' = success, current' = current, lists' = lists, posting' = posting,
         asked' = asked, requests' = requests, replies' = replies, serving' = serving
  PROVE  CInv'
BY DEF CInv, ConsoleTypes, RequestsInOrder, NothingSent, Off

(* The ways in which the process ends *)
LEMMA EndInv == CInv /\ (Quit \/ ReceiveOther \/ ReceiveEnd) => CInv'
BY OverInv DEF Quit, ReceiveOther, ReceiveEnd, threads, CInv, ConsoleTypes

(* A command goes out under the name of the user of the menu, whom the     *)
(* server has logged in if there is still a connection                     *)
LEMMA CommandInv == CInv /\ Command => CInv'
<1> DEFINE m == Message("command", current)
<1> SUFFICES ASSUME CInv, Command PROVE CInv'
  OBVIOUS
<1> USE DEF CInv, ConsoleTypes
<1>1. m \in Messages /\ ~Asks(m) /\ m.kind = "command" /\ m.of = current
  BY DEF Message, Messages, Someone, Asks
<1>2. /\ main = "menu" /\ success' = success /\ asked' = asked /\ rwsem' = rwsem
      /\ current' = current /\ lists' = lists /\ posting' = posting
      /\ Send(m, "menu")
  BY DEF Command, threads
<1>3. /\ requests' \in Seq(Messages) /\ main' \in {"off", "page", "login", "reg", "menu", "over"}
      /\ replies' = replies /\ link' = link /\ serving' = serving
      /\ \/ link /\ requests' = Append(requests, m) /\ main' = "menu"
         \/ ~link /\ requests' = requests /\ main' \in {"menu", "over"}
  BY <1>1, <1>2, SendTypes
<1>4. ConsoleTypes'
  BY <1>2, <1>3
<1>5. InMenu
  BY <1>2
<1>6. CASE link /\ requests' = Append(requests, m) /\ main' = "menu"
  <2> HIDE DEF m
  <2>0. m.of = serving
    BY <1>1, <1>5, <1>6 DEF InMenu, Welcome
  <2>1. RequestsInOrder'
    BY <1>1, <1>3, <1>5, <1>6, <2>0, AppendFacts DEF RequestsInOrder, InMenu, Quiet, NothingAsked
  <2>2. Quiet'
    BY <1>1, <1>2, <1>3, <1>5, <1>6, AppendFacts DEF InMenu, Quiet, NothingAsked, OnlyChats
  <2>3. Welcome'
    BY <1>2, <1>5 DEF InMenu, Welcome
  <2>4. \A i \in 1..Len(requests') : requests'[i].kind # "loginout"
    BY <1>1, <1>5, <1>6, AppendFacts DEF InMenu
  <2> QED  BY <1>2, <1>3, <1>4, <1>5, <1>6, <2>1, <2>2, <2>3, <2>4 DEF InMenu, NothingSent, Off
<1>7. CASE ~link /\ requests' = requests /\ main' \in {"menu", "over"}
  <2>1. RequestsInOrder'
    BY <1>3, <1>7 DEF RequestsInOrder
  <2>2. InMenu'
    BY <1>2, <1>3, <1>5, <1>7 DEF InMenu, Welcome, Quiet, NothingAsked, OnlyChats
  <2> QED  BY <1>2, <1>3, <1>4, <1>7, <2>1, <2>2 DEF NothingSent, Off
<1> QED  BY <1>3, <1>6, <1>7

(* A logout is the last request until the next login or registration *)
LEMMA LogoutInv == CInv /\ Logout => CInv'
<1> DEFINE m == Message("loginout", current)
<1> SUFFICES ASSUME CInv, Logout PROVE CInv'
  OBVIOUS
<1> USE DEF CInv, ConsoleTypes
<1>1. m \in Messages /\ ~Asks(m) /\ m.kind = "loginout" /\ m.of = current
  BY DEF Message, Messages, Someone, Asks
<1>2. /\ main = "menu" /\ success' = success /\ asked' = asked /\ rwsem' = rwsem
      /\ current' = current /\ lists' = lists /\ posting' = posting
      /\ \/ Send(m, "page")
         \/ ~link /\ main' = main /\ requests' = requests /\ replies' = replies /\ link' = link
            /\ serving' = serving
  BY DEF Logout, threads
<1>3. /\ requests' \in Seq(Messages) /\ main' \in {"off", "page", "login", "reg", "menu", "over"}
      /\ replies' = replies /\ link' = link /\ serving' = serving
      /\ \/ link /\ requests' = Append(requests, m) /\ main' = "page"
         \/ ~link /\ requests' = requests /\ main' \in {"page", "menu", "over"}
  BY <1>1, <1>2, SendTypes
<1>4. ConsoleTypes'
  BY <1>2, <1>3
<1>5. InMenu
  BY <1>2
<1>6. CASE link /\ requests' = Append(requests, m) /\ main' = "page"
  <2> HIDE DEF m
  <2>0. m.of = serving
    BY <1>1, <1>5, <1>6 DEF InMenu, Welcome
  <2>1. RequestsInOrder'
    BY <1>1, <1>3, <1>5, <1>6, <2>0, AppendFacts DEF RequestsInOrder, InMenu, Quiet, NothingAsked
  <2>2. Quiet'
    BY <1>1, <1>2, <1>3, <1>5, <1>6, AppendFacts DEF InMenu, Quiet, NothingAsked, OnlyChats
  <2> QED  BY <1>2, <1>3, <1>4, <1>6, <2>1, <2>2 DEF NothingSent, Off
<1>7. CASE ~link /\ requests' = requests /\ main' \in {"page", "menu", "over"}
  <2>1. RequestsInOrder'
    BY <1>3, <1>7 DEF RequestsInOrder
  <2>2. InMenu'
    BY <1>2, <1>3, <1>5, <1>7 DEF InMenu, Welcome, Quiet, NothingAsked, OnlyChats
  <2> QED  BY <1>2, <1>3, <1>4, <1>7, <2>1, <2>2 DEF NothingSent, Off, InMenu
<1> QED  BY <1>3, <1>6, <1>7

(* The receiver calls sem_post: only after an answer that main waits for *)
LEMMA SemPostInv == CInv /\ SemPost => CInv'
<1> SUFFICES ASSUME CInv, SemPost PROVE CInv'
  OBVIOUS
<1> USE DEF CInv, ConsoleTypes
<1>1. /\ main \notin {"off", "over"} /\ posting /\ posting' = FALSE /\ rwsem' = rwsem + 1
      /\ main' = main /\ success' = success /\ current' = current /\ lists' = lists
      /\ asked' = asked /\ requests' = requests /\ replies' = replies
      /\ link' = link /\ serving' = serving
  BY DEF SemPost
<1>2. ConsoleTypes'
  <2>1. rwsem' \in Nat
    BY <1>1
  <2> QED  BY <1>1, <2>1
<1>6. RequestsInOrder' /\ NothingSent' /\ Off'
  BY <1>1 DEF RequestsInOrder, NothingSent, Off
<1>3. main \notin {"page", "menu"}
  BY <1>1 DEF Quiet, InMenu
<1>4. ASSUME main = "login" PROVE LoggingIn'
  BY <1>1, <1>4 DEF LoggingIn, Lost, Quiet, WithServer, OnTheWay, Noticed, OnlyChats, Welcome
<1>5. ASSUME main = "reg" PROVE Registering'
  BY <1>1, <1>5 DEF Registering, Quiet, OnlyChats
<1> QED  BY <1>1, <1>2, <1>3, <1>4, <1>5, <1>6

(* After the only answer under way there is none *)
LEMMA LastAnswer ==
  ASSUME ConsoleTypes, replies # <<>>, Head(replies).kind # "chat",
         NEW k \in 1..Len(replies), \A i \in 1..Len(replies) : i # k => replies[i].kind = "chat",
         replies' = Tail(replies)
  PROVE  k = 1 /\ OnlyChats'
<1>1. k = 1
  BY TailFacts DEF ConsoleTypes
<1>2. \A i \in 1..Len(replies') : replies'[i] = replies[i + 1] /\ i + 1 \in 1..Len(replies) /\ i + 1 # 1
  BY TailFacts DEF ConsoleTypes
<1> QED  BY <1>1, <1>2 DEF OnlyChats

(* The answer to a login: it is for the user who asked *)
LEMMA ReceiveLoginInv == CInv /\ ReceiveLogin => CInv'
<1> SUFFICES ASSUME CInv, ReceiveLogin PROVE CInv'
  OBVIOUS
<1> USE DEF CInv, ConsoleTypes
<1> DEFINE r == Head(replies)
<1>1. /\ main \notin {"off", "over"} /\ ~posting /\ posting' = TRUE /\ rwsem' = rwsem
      /\ replies # <<>> /\ r.kind \in {"accepted", "refused"} /\ DoLoginResponse(r)
      /\ main' = main /\ asked' = asked /\ requests' = requests /\ replies' = Tail(replies)
      /\ link' = link /\ serving' = serving
  BY DEF ReceiveLogin, Receiving
<1>2. r \in Messages /\ r = replies[1] /\ 1 \in 1..Len(replies) /\ replies' \in Seq(Messages)
  BY <1>1, TailFacts
<1> HIDE DEF r
<1>3. /\ success' \in BOOLEAN /\ current' \in Someone
      /\ lists' \in [{"friends", "groups"} -> Someone]
  BY <1>1, <1>2 DEF DoLoginResponse, Messages
<1>4. ConsoleTypes'
  BY <1>1, <1>2, <1>3
<1>9. RequestsInOrder' /\ NothingSent' /\ Off'
  BY <1>1 DEF RequestsInOrder, NothingSent, Off
<1>5. ~OnlyChats
  BY <1>1, <1>2 DEF OnlyChats
<1>6. main \notin {"page", "menu"}
  BY <1>1, <1>5 DEF Quiet, InMenu
<1>7. ASSUME main = "login" PROVE LoggingIn'
  <2>1. OnTheWay /\ asked \in Users
    BY <1>5, <1>7 DEF LoggingIn, Lost, Quiet, WithServer, Noticed
  <2>2. PICK k \in 1..Len(replies) :
           /\ replies[k].kind \in {"accepted", "refused"} /\ replies[k].of = asked
           /\ replies[k].kind = "accepted" /\ link => serving = asked
           /\ \A i \in 1..Len(replies) : i # k => replies[i].kind = "chat"
    BY <2>1 DEF OnTheWay
  <2>3. k = 1 /\ OnlyChats'
    BY <1>1, <2>2, LastAnswer DEF r
  <2>4. r.of = asked /\ (r.kind = "accepted" /\ link => serving = asked)
    BY <1>2, <2>2, <2>3
  <2>5. success' => r.kind = "accepted" /\ current' = asked
                    /\ lists' = [l \in DOMAIN lists |-> IF l \in Has[asked] THEN asked ELSE lists[l]]
    BY <1>1, <2>4 DEF DoLoginResponse
  <2>6. Has[asked] \in SUBSET {"friends", "groups"}
    BY <2>1, ConsoleAssumption
  <2>7. success' => Welcome'
    BY <1>1, <2>5, <2>6 DEF Welcome
  <2> QED  BY <1>1, <2>1, <2>3, <2>4, <2>5, <2>7 DEF LoggingIn, Noticed, OnTheWay
<1>8. ASSUME main = "reg" PROVE Registering'
  <2>1. /\ rwsem = 0 /\ requests = <<>>
        /\ \E k \in 1..Len(replies) : /\ replies[k].kind # "chat"
                                      /\ \A i \in 1..Len(replies) : i # k => replies[i].kind = "chat"
    BY <1>5, <1>8 DEF Registering, Quiet
  <2>2. OnlyChats'
    BY <1>1, <2>1, LastAnswer DEF r
  <2> QED  BY <1>1, <2>1, <2>2 DEF Registering
<1> QED  BY <1>1, <1>4, <1>6, <1>7, <1>8, <1>9

(* The answer to a registration *)
LEMMA ReceiveRegisterInv == CInv /\ ReceiveRegister => CInv'
<1> SUFFICES ASSUME CInv, ReceiveRegister PROVE CInv'
  OBVIOUS
<1> USE DEF CInv, ConsoleTypes
<1> DEFINE r == Head(replies)
<1>1. /\ main \notin {"off", "over"} /\ ~posting /\ posting' = TRUE /\ rwsem' = rwsem
      /\ replies # <<>> /\ r.kind \in {"taken", "registered"}
      /\ success' = success /\ current' = current /\ lists' = lists
      /\ main' = main /\ asked' = asked /\ requests' = requests /\ replies' = Tail(replies)
      /\ link' = link /\ serving' = serving
  BY DEF ReceiveRegister, Receiving
<1>2. r \in Messages /\ r = replies[1] /\ 1 \in 1..Len(replies) /\ replies' \in Seq(Messages)
  BY <1>1, TailFacts
<1> HIDE DEF r
<1>4. ConsoleTypes' /\ RequestsInOrder' /\ NothingSent' /\ Off'
  BY <1>1, <1>2 DEF RequestsInOrder, NothingSent, Off
<1>5. ~OnlyChats
  BY <1>1, <1>2 DEF OnlyChats
<1>6. main \notin {"page", "menu", "login"}
  BY <1>1, <1>2, <1>5 DEF Quiet, InMenu, LoggingIn, Lost, WithServer, Noticed, OnTheWay
<1>8. ASSUME main = "reg" PROVE Registering'
  <2>1. /\ rwsem = 0 /\ requests = <<>>
        /\ \E k \in 1..Len(replies) : /\ replies[k].kind # "chat"
                                      /\ \A i \in 1..Len(replies) : i # k => replies[i].kind = "chat"
    BY <1>5, <1>8 DEF Registering, Quiet
  <2>2. OnlyChats'
    BY <1>1, <2>1, LastAnswer DEF r
  <2> QED  BY <1>1, <2>1, <2>2 DEF Registering
<1> QED  BY <1>1, <1>4, <1>6, <1>8

(* A chat, or a message that main does not know, on the way to the client  *)
(* changes nothing of what main waits for                                  *)
LEMMA ReceiveChatInv == CInv /\ ReceiveChat => CInv'
<1> SUFFICES ASSUME CInv, ReceiveChat PROVE CInv'
  OBVIOUS
<1> USE DEF CInv, ConsoleTypes
<1>1. /\ main \notin {"off", "over"} /\ ~posting /\ posting' = posting /\ rwsem' = rwsem
      /\ replies # <<>> /\ Head(replies).kind = "chat"
      /\ success' = success /\ current' = current /\ lists' = lists
      /\ main' = main /\ asked' = asked /\ requests' = requests /\ replies' = Tail(replies)
      /\ link' = link /\ serving' = serving
  BY DEF ReceiveChat, Receiving, threads
<1>2. /\ replies' \in Seq(Messages) /\ replies[1].kind = "chat" /\ Len(replies') = Len(replies) - 1
      /\ Len(replies) \in Nat
      /\ \A i \in 1..Len(replies') : replies'[i] = replies[i + 1] /\ i + 1 \in 1..Len(replies)
  BY <1>1, TailFacts
<1>3. ConsoleTypes'
  BY <1>1, <1>2
<1>4. RequestsInOrder' /\ NothingSent' /\ Off'
  BY <1>1 DEF RequestsInOrder, NothingSent, Off
<1>5. OnlyChats => OnlyChats'
  BY <1>2 DEF OnlyChats
<1>6. Quiet => Quiet'
  BY <1>1, <1>5 DEF Quiet, NothingAsked
<1>7. Welcome => Welcome'
  BY <1>1 DEF Welcome
<1>8. ASSUME NEW k \in 1..Len(replies), replies[k].kind # "chat",
             \A i \in 1..Len(replies) : i # k => replies[i].kind = "chat"
      PROVE  /\ k - 1 \in 1..Len(replies') /\ replies'[k - 1] = replies[k]
             /\ \A i \in 1..Len(replies') : i # k - 1 => replies'[i].kind = "chat"
  <2>1. k # 1
    BY <1>2, <1>8
  <2>2. k - 1 \in 1..Len(replies')
    BY <1>2, <2>1
  <2>3. replies'[k - 1] = replies[(k - 1) + 1] /\ (k - 1) + 1 = k
    BY <1>2, <2>2
  <2>4. \A i \in 1..Len(replies') : i # k - 1 => i + 1 # k
    OBVIOUS
  <2> QED  BY <1>2, <1>8, <2>2, <2>3, <2>4
<1>9. ASSUME OnTheWay PROVE OnTheWay'
  <2>1. PICK k \in 1..Len(replies) :
           /\ replies[k].kind \in {"accepted", "refused"} /\ replies[k].of = asked
           /\ replies[k].kind = "accepted" /\ link => serving = asked
           /\ \A i \in 1..Len(replies) : i # k => replies[i].kind = "chat"
    BY <1>9 DEF OnTheWay
  <2>2. /\ k - 1 \in 1..Len(replies') /\ replies'[k - 1] = replies[k]
        /\ \A i \in 1..Len(replies') : i # k - 1 => replies'[i].kind = "chat"
    BY <1>8, <2>1
  <2> QED  BY <1>1, <1>9, <2>1, <2>2 DEF OnTheWay
<1>10. ASSUME main = "login" PROVE LoggingIn'
  BY <1>1, <1>5, <1>6, <1>7, <1>9, <1>10 DEF LoggingIn, Lost, WithServer, Noticed
<1>11. ASSUME main = "reg" PROVE Registering'
  <2>1. ASSUME NEW k \in 1..Len(replies), replies[k].kind # "chat",
               \A i \in 1..Len(replies) : i # k => replies[i].kind = "chat"
        PROVE  \E j \in 1..Len(replies') :
                  /\ replies'[j].kind # "chat"
                  /\ \A i \in 1..Len(replies') : i # j => replies'[i].kind = "chat"
    <3>1. /\ k - 1 \in 1..Len(replies') /\ replies'[k - 1] = replies[k]
          /\ \A i \in 1..Len(replies') : i # k - 1 => replies'[i].kind = "chat"
      BY <1>8, <2>1
    <3> QED  BY <2>1, <3>1
  <2> QED  BY <1>1, <1>5, <1>6, <1>11, <2>1 DEF Registering
<1>12. main = "menu" => InMenu'
  BY <1>1, <1>6, <1>7 DEF InMenu
<1> QED  BY <1>1, <1>3, <1>4, <1>6, <1>10, <1>11, <1>12

(* The same for a chat that sets out *)
LEMMA PushChatInv == CInv /\ PushChat => CInv'
<1> SUFFICES ASSUME CInv, PushChat PROVE CInv'
  OBVIOUS
<1> USE DEF CInv, ConsoleTypes
<1> DEFINE m == Message("chat", serving)
<1>1. /\ link /\ posting' = posting /\ rwsem' = rwsem
      /\ success' = success /\ current' = current /\ lists' = lists
      /\ main' = main /\ asked' = asked /\ requests' = requests /\ replies' = Append(replies, m)
      /\ link' = link /\ serving' = serving
  BY DEF PushChat, threads
<1>2. m \in Messages /\ m.kind = "chat"
  BY DEF Message, Messages
<1> HIDE DEF m
<1>3. /\ replies' \in Seq(Messages) /\ Len(replies') = Len(replies) + 1 /\ Len(replies) \in Nat
      /\ \A i \in 1..Len(replies) : replies'[i] = replies[i] /\ i \in 1..Len(replies')
      /\ \A i \in 1..Len(replies') : i \in 1..Len(replies) \/ replies'[i].kind = "chat"
  BY <1>1, <1>2, AppendFacts
<1>4. ConsoleTypes'
  BY <1>1, <1>3
<1>5. RequestsInOrder' /\ NothingSent' /\ Off'
  BY <1>1 DEF RequestsInOrder, NothingSent, Off
<1>6. OnlyChats => OnlyChats'
  BY <1>3 DEF OnlyChats
<1>7. Quiet => Quiet'
  BY <1>1, <1>6 DEF Quiet, NothingAsked
<1>8. Welcome => Welcome'
  BY <1>1 DEF Welcome
<1>9. OnTheWay => OnTheWay'
  BY <1>1, <1>3 DEF OnTheWay
<1>10. main = "login" => LoggingIn'
  BY <1>1, <1>6, <1>7, <1>8, <1>9 DEF LoggingIn, Lost, WithServer, Noticed
<1>11. main = "reg" => Registering'
  BY <1>1, <1>3, <1>6, <1>7 DEF Registering
<1>12. main = "menu" => InMenu'
  BY <1>1, <1>7, <1>8 DEF InMenu
<1> QED  BY <1>1, <1>4, <1>5, <1>7, <1>10, <1>11, <1>12

(* The connection breaks: what main waits for may be lost, and then it is  *)
(* not lost in part                                                        *)
LEMMA LinkFailsInv == CInv /\ LinkFails => CInv'
<1> SUFFICES ASSUME CInv, LinkFails PROVE CInv'
  OBVIOUS
<1> USE DEF CInv, ConsoleTypes
<1>1. /\ link /\ link' = FALSE /\ requests' = <<>> /\ serving' = NoUser
      /\ posting' = posting /\ rwsem' = rwsem /\ main' = main /\ asked' = asked
      /\ success' = success /\ current' = current /\ lists' = lists
  BY DEF LinkFails, threads
<1>2. PICK n \in 0..Len(replies) : replies' = SubSeq(replies, 1, n)
  BY DEF LinkFails
<1>3. /\ replies' \in Seq(Messages) /\ Len(replies') = n
      /\ \A i \in 1..n : replies'[i] = replies[i] /\ i \in 1..Len(replies)
  BY <1>2, PrefixFacts
<1>4. requests' \in Seq(Messages) /\ Len(requests') = 0 /\ serving' \in Someone
  BY <1>1, EmptyFacts DEF Someone
<1>5. ConsoleTypes'
  BY <1>1, <1>3, <1>4
<1>6. RequestsInOrder' /\ NothingSent' /\ Off' /\ NothingAsked'
  BY <1>1, <1>4 DEF RequestsInOrder, NothingSent, Off, NothingAsked
<1>7. OnlyChats => OnlyChats'
  BY <1>3 DEF OnlyChats
<1>8. rwsem = 0 /\ ~posting /\ OnlyChats => Quiet'
  BY <1>1, <1>6, <1>7 DEF Quiet
<1>9. Welcome => Welcome'
  BY <1>1 DEF Welcome
<1>10. ASSUME OnTheWay PROVE OnTheWay' \/ Lost'
  <2>1. PICK k \in 1..Len(replies) :
           /\ replies[k].kind \in {"accepted", "refused"} /\ replies[k].of = asked
           /\ \A i \in 1..Len(replies) : i # k => replies[i].kind = "chat"
    BY <1>10 DEF OnTheWay
  <2>2. CASE k \in 1..n
    BY <1>1, <1>3, <1>10, <2>1, <2>2 DEF OnTheWay
  <2>3. CASE k \notin 1..n
    <3>1. OnlyChats'
      BY <1>3, <2>1, <2>3 DEF OnlyChats
    <3> QED  BY <1>1, <1>6, <1>10, <3>1 DEF OnTheWay, Lost, Quiet
  <2> QED  BY <2>2, <2>3
<1>11. main = "login" => LoggingIn'
  BY <1>1, <1>7, <1>8, <1>9, <1>10 DEF LoggingIn, Lost, Quiet, WithServer, Noticed
<1>12. ASSUME main = "reg" PROVE Registering'
  <2>1. ASSUME NEW k \in 1..Len(replies), replies[k].kind # "chat",
               \A i \in 1..Len(replies) : i # k => replies[i].kind = "chat"
        PROVE  \/ OnlyChats'
               \/ \E j \in 1..Len(replies') :
                     /\ replies'[j].kind # "chat"
                     /\ \A i \in 1..Len(replies') : i # j => replies'[i].kind = "chat"
    BY <1>3, <2>1 DEF OnlyChats
  <2> QED  BY <1>1, <1>6, <1>7, <1>8, <1>12, <2>1 DEF Registering, Quiet
<1>13. main = "menu" => InMenu'
  BY <1>1, <1>4, <1>8, <1>9 DEF InMenu, Quiet
<1> QED  BY <1>1, <1>5, <1>6, <1>8, <1>11, <1>12, <1>13 DEF Quiet

(* The server takes the first request: what it answers it had been asked,  *)
(* and whom it has logged in changes only with the requests behind which   *)
(* no command is under way                                                 *)
LEMMA AnswerInv == CInv /\ Answer => CInv'
<1> SUFFICES ASSUME CInv, Answer PROVE CInv'
  OBVIOUS
<1> USE DEF CInv, ConsoleTypes
<1> DEFINE m == Head(requests)
<1>1. /\ link /\ link' = link /\ requests # <<>> /\ requests' = Tail(requests)
      /\ posting' = posting /\ rwsem' = rwsem /\ main' = main /\ asked' = asked
      /\ success' = success /\ current' = current /\ lists' = lists
  BY DEF Answer, threads
<1>2. /\ requests' \in Seq(Messages) /\ Len(requests') = Len(requests) - 1 /\ Len(requests) \in Nat
      /\ Len(requests) > 0
      /\ \A i \in 1..Len(requests') : requests'[i] = requests[i + 1] /\ i + 1 \in 1..Len(requests)
      /\ m = requests[1] /\ m \in Messages /\ 1 \in 1..Len(requests)
      /\ Len(requests) = 1 => requests' = <<>>
  BY <1>1, TailFacts
<1>3. \/ \E r \in Answers(m) : /\ replies' = Append(replies, r)
                               /\ serving' = IF r.kind = "accepted" THEN r.of ELSE serving
      \/ Answers(m) = {} /\ replies' = replies
         /\ serving' = IF m.kind = "loginout" THEN NoUser ELSE serving
  BY DEF Answer
<1> HIDE DEF m
<1>4. main # "off"
  BY <1>1 DEF Off
<1>5. \A i \in 1..Len(requests') : Asks(requests'[i]) => i = Len(requests')
  <2>1. \A i \in 1..Len(requests') : Asks(requests[i + 1]) => i + 1 = Len(requests)
    BY <1>2 DEF RequestsInOrder
  <2> QED  BY <1>2, <2>1
<1>6. \A i \in 1..Len(requests') : requests'[i].kind = "loginout" =>
         i = Len(requests') \/ (i = Len(requests') - 1 /\ Asks(requests'[Len(requests')]))
  <2> SUFFICES ASSUME NEW i \in 1..Len(requests'), requests'[i].kind = "loginout"
               PROVE  i = Len(requests') \/ (i = Len(requests') - 1 /\ Asks(requests'[Len(requests')]))
    OBVIOUS
  <2>1. requests[i + 1].kind = "loginout" /\ i + 1 \in 1..Len(requests)
    BY <1>2
  <2>2. i + 1 = Len(requests) \/ (i + 1 = Len(requests) - 1 /\ Asks(requests[Len(requests)]))
    BY <2>1 DEF RequestsInOrder
  <2>3. Len(requests') \in 1..Len(requests') /\ Len(requests') + 1 = Len(requests)
    BY <1>2, <2>1
  <2>4. requests'[Len(requests')] = requests[Len(requests)]
    BY <1>2, <2>3
  <2> QED  BY <1>2, <2>2, <2>4
<1>7. CASE Asks(m)
  <2>1. Len(requests) = 1 /\ requests' = <<>> /\ Len(requests') = 0 /\ requests[Len(requests)] = m
    BY <1>2, <1>7 DEF RequestsInOrder
  <2>2. m.kind \in {"login", "reg"}
    BY <1>7 DEF Asks
  <2>3. PICK r \in Answers(m) : /\ replies' = Append(replies, r)
                                /\ serving' = IF r.kind = "accepted" THEN r.of ELSE serving
    <3>1. Answers(m) # {}
      BY <2>2 DEF Answers
    <3> QED  BY <1>3, <3>1
  <2>4. /\ m.kind = "login" => r.kind \in {"accepted", "refused"}
        /\ m.kind = "reg" => r.kind \in {"registered", "taken"}
        /\ r.of = m.of /\ r.kind # "chat"
    BY <2>2, <2>3 DEF Answers, Message
  <2>5. r \in Messages
    BY <1>2, <2>2, <2>3 DEF Answers, Message, Messages
  <2>6. serving' \in Someone
    BY <2>3, <2>5 DEF Messages
  <2>7. /\ replies' \in Seq(Messages) /\ Len(replies) \in Nat /\ Len(replies') = Len(replies) + 1
        /\ \A i \in 1..Len(replies) : replies'[i] = replies[i]
        /\ replies'[Len(replies) + 1] = r
        /\ \A i \in 1..Len(replies') : i \in 1..Len(replies) \/ i = Len(replies) + 1
    BY <2>3, <2>5, AppendFacts
  <2>8. ConsoleTypes'
    BY <1>1, <1>2, <2>6, <2>7
  <2>9. RequestsInOrder' /\ NothingSent' /\ Off'
    <3>1. \A i \in 1..Len(requests') : FALSE
      BY <2>1
    <3> QED  BY <1>1, <1>4, <2>1, <3>1 DEF RequestsInOrder, NothingSent, Off
  <2>10. ~NothingAsked
    BY <1>2, <1>7 DEF NothingAsked
  <2>11. main \notin {"page", "menu"}
    BY <2>10 DEF InMenu, Quiet
  <2>12. ASSUME OnlyChats
         PROVE  /\ Len(replies) + 1 \in 1..Len(replies') /\ replies'[Len(replies) + 1] = r
                /\ \A i \in 1..Len(replies') : i # Len(replies) + 1 => replies'[i].kind = "chat"
    BY <2>7, <2>12 DEF OnlyChats
  <2>13. ASSUME main = "login" PROVE LoggingIn'
    <3>1. WithServer /\ asked \in Users
      BY <1>1, <2>13 DEF LoggingIn, Lost, OnTheWay, Noticed
    <3>2. m.kind = "login" /\ m.of = asked
      BY <2>1, <3>1 DEF WithServer, Message
    <3>3. r.kind \in {"accepted", "refused"} /\ r.of = asked /\ (r.kind = "accepted" => serving' = asked)
      BY <2>3, <2>4, <3>2
    <3>4. OnTheWay'
      <4> DEFINE k == Len(replies) + 1
      <4>1. /\ k \in 1..Len(replies') /\ replies'[k] = r
            /\ \A i \in 1..Len(replies') : i # k => replies'[i].kind = "chat"
        BY <2>12, <3>1 DEF WithServer
      <4> HIDE DEF k
      <4> QED  BY <1>1, <2>1, <3>1, <3>3, <4>1 DEF WithServer, OnTheWay
    <3> QED  BY <1>1, <3>1, <3>4 DEF LoggingIn
  <2>14. ASSUME main = "reg" PROVE Registering'
    <3>1. rwsem = 0 /\ ~posting /\ OnlyChats
      BY <1>1, <2>14 DEF Registering, Quiet
    <3>2. \E k \in 1..Len(replies') :
             /\ replies'[k].kind # "chat"
             /\ \A i \in 1..Len(replies') : i # k => replies'[i].kind = "chat"
      BY <2>4, <2>12, <3>1
    <3> QED  BY <1>1, <2>1, <3>1, <3>2 DEF Registering
  <2> QED  BY <1>1, <2>8, <2>9, <2>11, <2>13, <2>14
<1>8. CASE ~Asks(m)
  <2>1. replies' = replies /\ serving' = IF m.kind = "loginout" THEN NoUser ELSE serving
    <3>1. m.kind \notin {"login", "reg"}
      BY <1>8 DEF Asks
    <3>2. Answers(m) = {}
      BY <3>1 DEF Answers
    <3> QED  BY <1>3, <3>2
  <2>2. serving' \in Someone
    BY <2>1 DEF Someone
  <2>3. ConsoleTypes'
    BY <1>1, <1>2, <2>1, <2>2
  <2>4. \A i \in 1..Len(requests') : requests'[i].kind \in {"command", "loginout"} =>
           requests'[i].of = serving'
    <3>1. CASE m.kind = "loginout"
      <4>1. 1 = Len(requests) \/ (1 = Len(requests) - 1 /\ Asks(requests[Len(requests)]))
        BY <1>2, <3>1 DEF RequestsInOrder
      <4>2. \A i \in 1..Len(requests') : Asks(requests'[i])
        BY <1>2, <4>1
      <4> QED  BY <4>2 DEF Asks
    <3>2. CASE m.kind # "loginout"
      BY <1>2, <2>1, <3>2, SMTT(30) DEF RequestsInOrder
    <3> QED  BY <3>1, <3>2
  <2>5. RequestsInOrder'
    BY <1>5, <1>6, <2>4 DEF RequestsInOrder
  <2>6. NothingSent' /\ Off'
    BY <1>1, <1>4 DEF NothingSent, Off
  <2>7. NothingAsked => NothingAsked'
    BY <1>2 DEF NothingAsked
  <2>8. OnlyChats => OnlyChats'
    BY <2>1 DEF OnlyChats
  <2>9. Quiet => Quiet'
    BY <1>1, <2>7, <2>8 DEF Quiet
  <2>10. requests[Len(requests)] # m /\ Asks(requests[Len(requests)]) =>
            requests' # <<>> /\ requests'[Len(requests')] = requests[Len(requests)]
    <3> SUFFICES ASSUME requests[Len(requests)] # m
                 PROVE  requests' # <<>> /\ requests'[Len(requests')] = requests[Len(requests)]
      OBVIOUS
    <3>1. Len(requests) # 1
      BY <1>2
    <3>2. Len(requests') \in 1..Len(requests') /\ Len(requests') + 1 = Len(requests)
      BY <1>2, <3>1
    <3>3. requests' # <<>>
      BY <3>2, EmptyFacts
    <3> QED  BY <1>2, <3>2, <3>3
  <2>11. ASSUME main = "login" PROVE LoggingIn'
    <3>1. WithServer /\ asked \in Users
      BY <1>1, <2>11 DEF LoggingIn, Lost, OnTheWay, Noticed
    <3>2. Asks(requests[Len(requests)])
      BY <3>1 DEF WithServer, Asks, Message
    <3>3. requests' # <<>> /\ requests'[Len(requests')] = requests[Len(requests)]
      BY <1>8, <2>10, <3>2
    <3>4. WithServer'
      BY <1>1, <2>8, <3>1, <3>3 DEF WithServer, Message
    <3> QED  BY <1>1, <3>1, <3>4 DEF LoggingIn
  <2>12. ASSUME main = "reg" PROVE Registering'
    <3>1. rwsem = 0 /\ ~posting /\ OnlyChats /\ Asks(requests[Len(requests)])
      BY <1>1, <2>12 DEF Registering, Quiet
    <3>2. requests' # <<>> /\ requests'[Len(requests')] = requests[Len(requests)]
      BY <1>8, <2>10, <3>1
    <3> QED  BY <1>1, <2>8, <3>1, <3>2 DEF Registering
  <2>13. ASSUME main = "menu" PROVE InMenu'
    <3>1. /\ InMenu /\ m.kind # "loginout"
      BY <1>2, <2>13 DEF InMenu
    <3>2. serving' = serving
      BY <2>1, <3>1
    <3>3. \A i \in 1..Len(requests') : requests'[i].kind # "loginout"
      BY <1>2, <3>1 DEF InMenu
    <3> QED  BY <1>1, <2>9, <3>1, <3>2, <3>3 DEF InMenu, Welcome
  <2> QED  BY <1>1, <2>3, <2>5, <2>6, <2>9, <2>11, <2>12, <2>13
<1> QED  BY <1>7, <1>8

(* A request that the server has not understood: main waits on, for        *)
(* nothing, if it was the one whose answer it waits for                    *)
LEMMA DiscardInv == CInv /\ Discard => CInv'
<1> SUFFICES ASSUME CInv, Discard PROVE CInv'
  OBVIOUS
<1> USE DEF CInv, ConsoleTypes
<1> DEFINE m == Head(requests)
<1>1. /\ link /\ link' = link /\ requests # <<>> /\ requests' = Tail(requests)
      /\ posting' = posting /\ rwsem' = rwsem /\ main' = main /\ asked' = asked
      /\ success' = success /\ current' = current /\ lists' = lists
      /\ replies' = replies /\ serving' = serving
  BY DEF Discard, threads
<1>2. /\ requests' \in Seq(Messages) /\ Len(requests') = Len(requests) - 1 /\ Len(requests) \in Nat
      /\ Len(requests) > 0
      /\ \A i \in 1..Len(requests') : requests'[i] = requests[i + 1] /\ i + 1 \in 1..Len(requests)
      /\ m = requests[1] /\ m \in Messages /\ 1 \in 1..Len(requests)
      /\ Len(requests) = 1 => requests' = <<>>
  BY <1>1, TailFacts
<1> HIDE DEF m
<1>3. ConsoleTypes'
  BY <1>1, <1>2
<1>4. \A i \in 1..Len(requests') : Asks(requests'[i]) => i = Len(requests')
  <2>1. \A i \in 1..Len(requests') : Asks(requests[i + 1]) => i + 1 = Len(requests)
    BY <1>2 DEF RequestsInOrder
  <2> QED  BY <1>2, <2>1
<1>5. \A i \in 1..Len(requests') : requests'[i].kind = "loginout" =>
         i = Len(requests') \/ (i = Len(requests') - 1 /\ Asks(requests'[Len(requests')]))
  <2> SUFFICES ASSUME NEW i \in 1..Len(requests'), requests'[i].kind = "loginout"
               PROVE  i = Len(requests') \/ (i = Len(requests') - 1 /\ Asks(requests'[Len(requests')]))
    OBVIOUS
  <2>1. requests[i + 1].kind = "loginout" /\ i + 1 \in 1..Len(requests)
    BY <1>2
  <2>2. i + 1 = Len(requests) \/ (i + 1 = Len(requests) - 1 /\ Asks(requests[Len(requests)]))
    BY <2>1 DEF RequestsInOrder
  <2>3. Len(requests') \in 1..Len(requests') /\ Len(requests') + 1 = Len(requests)
    BY <1>2, <2>1
  <2>4. requests'[Len(requests')] = requests[Len(requests)]
    BY <1>2, <2>3
  <2> QED  BY <1>2, <2>2, <2>4
<1>6. \A i \in 1..Len(requests') : requests'[i].kind \in {"command", "loginout"} =>
         requests'[i].of = serving'
  <2>1. \A i \in 1..Len(requests) :
           requests[i].kind \in {"command", "loginout"} => requests[i].of = serving
    BY DEF RequestsInOrder
  <2> SUFFICES ASSUME NEW i \in 1..Len(requests'), requests'[i].kind \in {"command", "loginout"}
               PROVE  requests'[i].of = serving
    BY <1>1
  <2>2. requests'[i] = requests[i + 1] /\ i + 1 \in 1..Len(requests)
    BY <1>2
  <2> QED  BY <2>1, <2>2
<1>7. RequestsInOrder' /\ NothingSent' /\ Off'
  BY <1>1, <1>4, <1>5, <1>6 DEF RequestsInOrder, NothingSent, Off
<1>8. NothingAsked => NothingAsked'
  BY <1>2 DEF NothingAsked
<1>9. OnlyChats => OnlyChats'
  BY <1>1 DEF OnlyChats
<1>10. Quiet => Quiet'
  BY <1>1, <1>8, <1>9 DEF Quiet
<1>11. requests' = <<>> => NothingAsked'
  BY EmptyFacts DEF NothingAsked
<1>12. requests' = <<>> \/ requests'[Len(requests')] = requests[Len(requests)]
  <2>1. CASE Len(requests) = 1
    BY <1>2, <2>1
  <2>2. CASE Len(requests) # 1
    <3>1. Len(requests') \in 1..Len(requests') /\ Len(requests') + 1 = Len(requests)
      BY <1>2, <2>2
    <3> QED  BY <1>2, <3>1
  <2> QED  BY <2>1, <2>2
<1>13. ASSUME main = "login" PROVE LoggingIn'
  <2>1. WithServer /\ asked \in Users
    BY <1>1, <1>13 DEF LoggingIn, Lost, OnTheWay, Noticed
  <2>2. CASE requests' = <<>>
    BY <1>1, <1>9, <1>11, <2>1, <2>2 DEF WithServer, LoggingIn, Lost, Quiet
  <2>3. CASE requests' # <<>>
    <3>1. WithServer'
      BY <1>1, <1>9, <1>12, <2>1, <2>3 DEF WithServer, Message
    <3> QED  BY <1>1, <2>1, <3>1 DEF LoggingIn
  <2> QED  BY <2>2, <2>3
<1>14. ASSUME main = "reg" PROVE Registering'
  <2>1. rwsem = 0 /\ ~posting /\ OnlyChats /\ Asks(requests[Len(requests)])
    BY <1>1, <1>14 DEF Registering, Quiet
  <2>2. CASE requests' = <<>>
    BY <1>1, <1>9, <1>11, <2>1, <2>2 DEF Registering, Quiet
  <2>3. CASE requests' # <<>>
    BY <1>1, <1>9, <1>12, <2>1, <2>3 DEF Registering
  <2> QED  BY <2>2, <2>3
<1>15. ASSUME main = "menu" PROVE InMenu'
  <2>1. \A i \in 1..Len(requests') : requests'[i].kind # "loginout"
    BY <1>2, <1>15 DEF InMenu
  <2> QED  BY <1>1, <1>10, <1>15, <2>1 DEF InMenu, Welcome
<1> QED  BY <1>1, <1>3, <1>7, <1>10, <1>13, <1>14, <1>15

----------------------------------------------------------------------------
(* Nothing is under way before main has started *)
LEMMA OffInv == ConsoleOff => CInv
<1> SUFFICES ASSUME ConsoleOff PROVE CInv
  OBVIOUS
<1>1. ConsoleTypes
  BY EmptyFacts DEF ConsoleOff, ConsoleTypes, Someone
<1> QED  BY <1>1, EmptyFacts DEF ConsoleOff, CInv, RequestsInOrder, NothingSent, Off

(* In every state the receiver (readTaskHandler), the semaphore and the    *)
(* messages under way agree with what main waits for: there is one answer  *)
(* for one sem_wait, and requests carry the name that was logged in when   *)
(* they were sent.                                                         *)
THEOREM ConsoleInvariant == ConsoleSpec => []CInv
<1>1. ASSUME CInv, [ConsoleNext]_console PROVE CInv'
  <2>1. CASE UNCHANGED console
    <3>1. /\ main' = main /\ rwsem' = rwsem /\ success' = success /\ current' = current
          /\ lists' = lists /\ posting' = posting /\ asked' = asked /\ requests' = requests
          /\ replies' = replies /\ link' = link /\ serving' = serving
      BY <2>1 DEF console
    <3> QED
      BY <1>1, <3>1
      DEF CInv, ConsoleTypes, RequestsInOrder, NothingSent, Off, Quiet, NothingAsked, OnlyChats,
          InMenu, Welcome, LoggingIn, Lost, WithServer, OnTheWay, Noticed, Registering, Message
  <2>2. CASE Connect
    BY <1>1, <2>2, ConnectInv
  <2>3. CASE MainStep
    BY <1>1, <2>3, ChooseLoginInv, LoginDoneInv, ChooseRegisterInv, RegisterDoneInv, EndInv,
       CommandInv, LogoutInv DEF MainStep
  <2>4. CASE ReceiverStep
    BY <1>1, <2>4, ReceiveLoginInv, ReceiveRegisterInv, SemPostInv, ReceiveChatInv, EndInv
    DEF ReceiverStep
  <2>5. CASE Answer \/ Discard \/ PushChat \/ LinkFails
    BY <1>1, <2>5, AnswerInv, DiscardInv, PushChatInv, LinkFailsInv
  <2> QED  BY <1>1, <2>1, <2>2, <2>3, <2>4, <2>5 DEF ConsoleNext
<1> QED  BY OffInv, <1>1, PTL DEF ConsoleSpec

(* While main does not wait, no answer is outstanding with the server, on  *)
(* the way, with the receiver or in rwsem: sem_wait never returns for an   *)
(* earlier request, and readTaskHandler does not write what main reads.    *)
THEOREM OneAnswerOnePost == ConsoleSpec => []SemaphoreMatched
<1>1. CInv => SemaphoreMatched
  <2> SUFFICES ASSUME CInv, main \in {"page", "menu"}
               PROVE  rwsem = 0 /\ ~posting /\ ~Some(requests, Asks) /\ ~Some(replies, Answering)
    BY DEF SemaphoreMatched
  <2>1. Quiet
    BY DEF CInv, InMenu
  <2>2. DOMAIN requests = 1..Len(requests) /\ DOMAIN replies = 1..Len(replies)
    BY DEF CInv, ConsoleTypes
  <2> QED  BY <2>1, <2>2 DEF Quiet, NothingAsked, OnlyChats, Some, Answering
<1> QED  BY <1>1, ConsoleInvariant, PTL

(* The menu (mainMenu) is that of the user whose login was answered, and   *)
(* the server gets every command under the name that it has logged in.     *)
THEOREM CommandsAsServed == ConsoleSpec => []SentAsServed
<1>1. CInv => SentAsServed
  <2> SUFFICES ASSUME CInv PROVE SentAsServed
    OBVIOUS
  <2>1. DOMAIN requests = 1..Len(requests)
    BY DEF CInv, ConsoleTypes
  <2>2. main = "menu" => current = asked /\ \A l \in Has[current] : lists[l] = current
    BY DEF CInv, InMenu, Welcome
  <2> QED  BY <2>1, <2>2 DEF CInv, RequestsInOrder, SentAsServed
<1> QED  BY <1>1, ConsoleInvariant, PTL

=============================================================================
