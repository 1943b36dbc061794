------------------------- MODULE RedisClientProofs -------------------------
(***************************************************************************)
(* Proofs about the Redis client: for any IO threads and channels, any     *)
(* number of outages, and whatever is published, what Redis has subscribed *)
(* once it has caught up is what the client has recorded, and messages are *)
(* reported in their order.                                                *)
(***************************************************************************)
EXTENDS RedisClient, FiniteSetTheorems, TLAPS

Types ==
    /\ up \in BOOLEAN /\ link \in BOOLEAN /\ running \in BOOLEAN /\ dead \in BOOLEAN
    /\ outages \in 0..MaxOutages
    /\ ctx \in {"null", "ok", "err"}
    /\ wire \in Seq(Calls)
    /\ held \in SUBSET Channels /\ channels \in SUBSET Channels /\ torn \in SUBSET Channels
    /\ published \in 0..MaxMsgs
    /\ socket \in Seq(Nat) /\ reader \in Seq(Nat) /\ reported \in Seq(Nat)
    /\ pc \in [Threads -> {"idle", "send", "record"}]
    /\ call \in [Threads -> Calls \cup {NoCall}]
    /\ obs \in {"top", "read", "free", "report", "quit"}
    /\ job \in Nat

Under(t) == pc[t] # "idle"

(* A call under way has its channel, which no other has unless it is torn *)
CallsApart ==
    /\ \A t \in Threads : Under(t) => call[t] \in Calls
    /\ \A t, u \in Threads :
          Under(t) /\ Under(u) /\ call[t].ch = call[u].ch /\ call[t].ch \notin torn => t = u

(* A connection that is not there holds nothing and carries nothing, and   *)
(* the observer reads only when there is something, or it has gone         *)
GoneIsEmpty ==
    /\ ~link => wire = <<>> /\ held = {}
    /\ ctx # "ok" => ~link
    /\ obs = "read" => socket # <<>> \/ ~link
    /\ obs = "free" => ctx = "err"

(* Redis will hold c once it has carried out what is on the wire w *)
Will(c, w, S) ==
    \/ c \in S /\ \A i \in 1..Len(w) : w[i].ch # c
    \/ \E i \in 1..Len(w) : /\ w[i].op = "subscribe" /\ w[i].ch = c
                            /\ \A j \in 1..Len(w) : j > i => w[j].ch # c

Recording(t, c) == pc[t] = "record" /\ call[t].ch = c

(* What Redis will hold is what is recorded, or is just about to be *)
WillMatch ==
    link => \A c \in Channels \ torn :
        /\ (\A t \in Threads : ~Recording(t, c)) => (Will(c, wire, held) <=> c \in channels)
        /\ \A t \in Threads : Recording(t, c) =>
              (Will(c, wire, held) <=> call[t].op = "subscribe")

Subscribed ==
    /\ Types /\ CallsApart /\ GoneIsEmpty /\ WillMatch /\ IsFiniteSet(channels)

(* The messages (not the acknowledgements) in s are in their order, and    *)
(* those of s came before those of r                                       *)
Increasing(s) ==
    \A i, j \in 1..Len(s) : i < j /\ s[i] > 0 /\ s[j] > 0 => s[i] < s[j]
Before(s, r) ==
    \A i \in 1..Len(s), j \in 1..Len(r) : s[i] > 0 /\ r[j] > 0 => s[i] < r[j]
UpTo(s, n) == \A i \in 1..Len(s) : s[i] <= n
After(s, n) == n > 0 => \A i \in 1..Len(s) : s[i] > 0 => n < s[i]

(* From Redis to the business layer: socket, reader, job, reported *)
InOrder ==
    /\ \A i \in 1..Len(reported) : reported[i] > 0
    /\ Increasing(reported) /\ Increasing(reader) /\ Increasing(socket)
    /\ Before(reported, reader) /\ Before(reported, socket) /\ Before(reader, socket)
    /\ After(reader, job) /\ After(socket, job) /\ (job > 0 => \A i \in 1..Len(reported) : reported[i] < job)
    /\ UpTo(reported, published) /\ UpTo(reader, published) /\ UpTo(socket, published)
    /\ job <= published

----------------------------------------------------------------------------
(* What Redis will hold, when a command is added, carried out, or the      *)
(* recorded channels are all sent                                          *)
LEMMA WillAppend ==
  ASSUME NEW w \in Seq(Calls), NEW m \in Calls, NEW c, NEW S
  PROVE  Will(c, Append(w, m), S) <=> IF m.ch = c THEN m.op = "subscribe" ELSE Will(c, w, S)
<1> DEFINE a == Append(w, m)
<1>1. /\ Len(a) = Len(w) + 1 /\ Len(w) \in Nat /\ a[Len(w) + 1] = m
      /\ \A i \in 1..Len(w) : a[i] = w[i]
  OBVIOUS
<1>2. \A i \in 1..Len(a) : i \in 1..Len(w) \/ i = Len(w) + 1
  BY <1>1
<1>3. Len(w) + 1 \in 1..Len(a) /\ \A i \in 1..Len(w) : i \in 1..Len(a) /\ Len(w) + 1 > i
  BY <1>1
<1>4. \A j \in 1..Len(a) : ~(j > Len(w) + 1)
  BY <1>1
<1> HIDE DEF a
<1>5. CASE m.ch = c
  <2>1. ~ \A i \in 1..Len(a) : a[i].ch # c
    BY <1>1, <1>3, <1>5
  <2>2. ASSUME NEW i \in 1..Len(a), \A j \in 1..Len(a) : j > i => a[j].ch # c
        PROVE  i = Len(w) + 1
    BY <1>1, <1>2, <1>3, <1>5, <2>2
  <2>3. m.op = "subscribe" => Will(c, a, S)
    BY <1>1, <1>3, <1>4, <1>5 DEF Will
  <2>4. Will(c, a, S) => m.op = "subscribe"
    BY <1>1, <2>1, <2>2 DEF Will
  <2> QED  BY <1>5, <2>3, <2>4 DEF a
<1>6. CASE m.ch # c
  <2>1. (\A i \in 1..Len(a) : a[i].ch # c) <=> \A i \in 1..Len(w) : w[i].ch # c
    BY <1>1, <1>2, <1>3, <1>6
  <2>2. ASSUME NEW i \in 1..Len(w)
        PROVE  (\A j \in 1..Len(a) : j > i => a[j].ch # c) <=> \A j \in 1..Len(w) : j > i => w[j].ch # c
    BY <1>1, <1>2, <1>3, <1>6
  <2>3. Will(c, w, S) => Will(c, a, S)
    BY <1>1, <1>3, <2>1, <2>2 DEF Will
  <2>4. Will(c, a, S) => Will(c, w, S)
    BY <1>1, <1>2, <1>6, <2>1, <2>2 DEF Will
  <2> QED  BY <1>6, <2>3, <2>4 DEF a
<1> QED  BY <1>5, <1>6

(* the first command carried out *)
LEMMA WillExecute ==
  ASSUME NEW w \in Seq(Calls), w # <<>>, NEW c, NEW S, NEW T,
         T = IF Head(w).op = "subscribe" THEN S \cup {Head(w).ch} ELSE S \ {Head(w).ch}
  PROVE  Will(c, Tail(w), T) <=> Will(c, w, S)
<1> DEFINE v == Tail(w)
           m == Head(w)
<1>1. /\ Len(w) \in Nat /\ Len(w) > 0 /\ Len(v) = Len(w) - 1 /\ m = w[1]
      /\ \A i \in 1..Len(v) : v[i] = w[i + 1] /\ i + 1 \in 1..Len(w)
  OBVIOUS
<1>2. /\ 1 \in 1..Len(w)
      /\ \A i \in 1..Len(w) : i = 1 \/ (i - 1 \in 1..Len(v) /\ v[i - 1] = w[i])
  <2>1. \A i \in 1..Len(w) : i = 1 \/ (i - 1 \in 1..Len(v) /\ (i - 1) + 1 = i)
    BY <1>1
  <2> QED  BY <1>1, <2>1
<1>3. c \in T <=> IF m.ch = c THEN m.op = "subscribe" ELSE c \in S
  OBVIOUS
<1> HIDE DEF v, m
<1>4. (\A i \in 1..Len(v) : v[i].ch # c) <=> \A i \in 1..Len(w) : i > 1 => w[i].ch # c
  <2>1. ASSUME \A i \in 1..Len(v) : v[i].ch # c, NEW i \in 1..Len(w), i > 1 PROVE w[i].ch # c
    BY <1>2, <2>1
  <2>2. ASSUME \A i \in 1..Len(w) : i > 1 => w[i].ch # c, NEW i \in 1..Len(v) PROVE v[i].ch # c
    BY <1>1, <2>2
  <2> QED  BY <2>1, <2>2
<1>5. ASSUME NEW i \in 1..Len(v)
      PROVE  (\A j \in 1..Len(v) : j > i => v[j].ch # c) <=> \A j \in 1..Len(w) : j > i + 1 => w[j].ch # c
  <2>1. ASSUME \A j \in 1..Len(v) : j > i => v[j].ch # c, NEW j \in 1..Len(w), j > i + 1
        PROVE  w[j].ch # c
    <3>1. j - 1 \in 1..Len(v) /\ v[j - 1] = w[j] /\ j - 1 > i
      BY <1>2, <2>1
    <3> QED  BY <2>1, <3>1
  <2>2. ASSUME \A j \in 1..Len(w) : j > i + 1 => w[j].ch # c, NEW j \in 1..Len(v), j > i
        PROVE  v[j].ch # c
    <3>1. j + 1 \in 1..Len(w) /\ v[j] = w[j + 1] /\ j + 1 > i + 1
      BY <1>1, <2>2
    <3> QED  BY <2>2, <3>1
  <2> QED  BY <2>1, <2>2
<1>6. ASSUME Will(c, v, T) PROVE Will(c, w, S)
  <2>1. CASE c \in T /\ \A i \in 1..Len(v) : v[i].ch # c
    <3>1. \A i \in 1..Len(w) : i > 1 => w[i].ch # c
      BY <1>4, <2>1
    <3>2. CASE m.ch = c
      <4>1. w[1].op = "subscribe" /\ w[1].ch = c
        BY <1>1, <1>3, <2>1, <3>2
      <4> QED  BY <1>2, <3>1, <4>1 DEF Will
    <3>3. CASE m.ch # c
      <4>1. \A i \in 1..Len(w) : w[i].ch # c
        BY <1>1, <3>1, <3>3
      <4> QED  BY <1>3, <2>1, <3>3, <4>1 DEF Will
    <3> QED  BY <3>2, <3>3
  <2>2. ASSUME NEW i \in 1..Len(v), v[i].op = "subscribe", v[i].ch = c,
               \A j \in 1..Len(v) : j > i => v[j].ch # c
        PROVE  Will(c, w, S)
    <3>1. i + 1 \in 1..Len(w) /\ w[i + 1] = v[i]
      BY <1>1
    <3>2. \A j \in 1..Len(w) : j > i + 1 => w[j].ch # c
      BY <1>5, <2>2
    <3> QED  BY <2>2, <3>1, <3>2 DEF Will
  <2> QED  BY <1>6, <2>1, <2>2 DEF Will
<1>7. ASSUME Will(c, w, S) PROVE Will(c, v, T)
  <2>1. CASE c \in S /\ \A i \in 1..Len(w) : w[i].ch # c
    BY <1>1, <1>2, <1>3, <1>4, <2>1 DEF Will
  <2>2. ASSUME NEW i \in 1..Len(w), w[i].op = "subscribe", w[i].ch = c,
               \A j \in 1..Len(w) : j > i => w[j].ch # c
        PROVE  Will(c, v, T)
    <3>1. CASE i = 1
      BY <1>1, <1>3, <1>4, <2>2, <3>1 DEF Will
    <3>2. CASE i # 1
      <4>1. i - 1 \in 1..Len(v) /\ v[i - 1] = w[i] /\ (i - 1) + 1 = i
        BY <1>2, <3>2
      <4>2. \A j \in 1..Len(v) : j > i - 1 => v[j].ch # c
        BY <1>5, <2>2, <4>1
      <4> QED  BY <2>2, <4>1, <4>2 DEF Will
    <3> QED  BY <3>1, <3>2
  <2> QED  BY <1>7, <2>1, <2>2 DEF Will
<1> QED  BY <1>6, <1>7 DEF v

(* SetToSeq lists a finite set, each member once *)
LEMMA SetToSeqFacts ==
  ASSUME NEW S, IsFiniteSet(S)
  PROVE  /\ SetToSeq(S) \in [1..Cardinality(S) -> S] /\ Cardinality(S) \in Nat
         /\ Len(SetToSeq(S)) = Cardinality(S)
         /\ \A i, j \in 1..Cardinality(S) : SetToSeq(S)[i] = SetToSeq(S)[j] => i = j
         /\ \A x \in S : \E i \in 1..Cardinality(S) : SetToSeq(S)[i] = x
<1> DEFINE n == Cardinality(S)
           q == SetToSeq(S)
<1>1. n \in Nat /\ ExistsBijection(1..n, S)
  BY FS_CardinalityType
<1>2. \E f \in [1..n -> S] : IsInjective(f)
  BY <1>1 DEF ExistsBijection, Bijection, Injection
<1>3. q \in [1..n -> S] /\ IsInjective(q)
  BY <1>2 DEF SetToSeq
<1> HIDE DEF q
<1>4. q \in Injection(1..n, S)
  BY <1>3 DEF Injection
<1>5. IsFiniteSet(1..n) /\ Cardinality(1..n) = n
  BY <1>1, FS_Interval
<1>6. q \in Surjection(1..n, S)
  BY <1>4, <1>5, FS_Injection
<1>7. Len(q) = n
  BY <1>1, <1>3
<1> QED  BY <1>1, <1>3, <1>6, <1>7 DEF IsInjective, Surjection, q

(* all recorded channels sent on a new connection *)
LEMMA WillAll ==
  ASSUME NEW S \in SUBSET Channels, IsFiniteSet(S), NEW c
  PROVE  SubscribeAll(S) \in Seq(Calls) /\ (Will(c, SubscribeAll(S), {}) <=> c \in S)
<1> DEFINE n == Cardinality(S)
           q == SetToSeq(S)
           w == SubscribeAll(S)
<1>1. /\ q \in [1..n -> S] /\ n \in Nat /\ Len(q) = n
      /\ \A i, j \in 1..n : q[i] = q[j] => i = j
      /\ \A x \in S : \E i \in 1..n : q[i] = x
  BY SetToSeqFacts
<1> HIDE DEF n, q
<1>2. w = [i \in 1..n |-> [op |-> "subscribe", ch |-> q[i]]]
  BY <1>1 DEF SubscribeAll, q
<1> HIDE DEF w
<1>3. w \in Seq(Calls)
  <2>1. \A i \in 1..n : [op |-> "subscribe", ch |-> q[i]] \in Calls
    BY <1>1 DEF Calls
  <2> QED  BY <1>1, <1>2, <2>1
<1>4. Len(w) = n /\ \A i \in 1..n : w[i].op = "subscribe" /\ w[i].ch = q[i]
  BY <1>1, <1>2
<1>5. Will(c, w, {}) => c \in S
  BY <1>1, <1>4 DEF Will
<1>6. ASSUME c \in S PROVE Will(c, w, {})
  <2>1. PICK i \in 1..n : q[i] = c
    BY <1>1, <1>6
  <2>2. \A j \in 1..n : j > i => q[j] # c
    BY <1>1, <2>1
  <2> QED  BY <1>4, <2>1, <2>2 DEF Will
<1> QED  BY <1>3, <1>5, <1>6 DEF w

----------------------------------------------------------------------------
(* Queues *)
LEMMA QueueFacts ==
  ASSUME NEW S, NEW q \in Seq(S)
  PROVE  /\ q # <<>> => Head(q) \in S /\ Tail(q) \in Seq(S)
         /\ \A m \in S : Append(q, m) \in Seq(S) /\ Append(q, m) # <<>>
<1>1. q # <<>> => Head(q) \in S
  OBVIOUS
<1>2. q # <<>> => Tail(q) \in Seq(S)
  OBVIOUS
<1>3. ASSUME NEW m \in S PROVE Append(q, m) \in Seq(S) /\ Append(q, m) # <<>>
  <2>1. Append(q, m) \in Seq(S) /\ Len(Append(q, m)) = Len(q) + 1 /\ Len(q) \in Nat
    OBVIOUS
  <2>2. Len(<<>>) = 0
    OBVIOUS
  <2> QED  BY <2>1, <2>2
<1> QED  BY <1>1, <1>2, <1>3

(* The empty queue *)
LEMMA NoneQueued == ASSUME NEW S PROVE <<>> \in Seq(S)
OBVIOUS

(* The steps that leave calls, channels and the wire alone *)
LEMMA SameCalls ==
  ASSUME Subscribed, link' = link \/ ~link',
         wire' = wire, held' = held, channels' = channels, pc' = pc, call' = call, torn' = torn
  PROVE  CallsApart' /\ WillMatch' /\ IsFiniteSet(channels')
BY DEF Subscribed, CallsApart, Under, WillMatch, Recording, Will

(* A call begins: if there is another one for its channel, that one is torn *)
LEMMA BeginInv ==
  ASSUME Subscribed, NEW t \in Threads, NEW c \in Calls, Begin(t, c)
  PROVE  Subscribed'
<1> USE DEF Types, connection, calls, observer
<1>1. /\ pc[t] = "idle" /\ pc' = [pc EXCEPT ![t] = "send"] /\ call' = [call EXCEPT ![t] = c]
      /\ torn' = IF Busy(c.ch) # {} THEN torn \cup {c.ch} ELSE torn
      /\ link' = link /\ wire' = wire /\ held' = held /\ channels' = channels
      /\ ctx' = ctx /\ obs' = obs /\ socket' = socket
  BY DEF Begin, Goto
<1>2. c.ch \in Channels
  BY DEF Calls
<1>3. Types /\ Types'
  <2>1. pc' \in [Threads -> {"idle", "send", "record"}] /\ call' \in [Threads -> Calls \cup {NoCall}]
    BY <1>1 DEF Subscribed
  <2>2. torn' \in SUBSET Channels
    BY <1>1, <1>2 DEF Subscribed
  <2> QED  BY <1>1, <2>1, <2>2 DEF Begin, Subscribed
<1>4. /\ pc'[t] = "send" /\ call'[t] = c
      /\ \A u \in Threads : u # t => pc'[u] = pc[u] /\ call'[u] = call[u]
  BY <1>1, <1>3
<1>5. CallsApart'
  <2>1. \A u \in Threads : Under(u)' => call'[u] \in Calls
    BY <1>4 DEF Under, Subscribed, CallsApart
  <2>2. ASSUME NEW u \in Threads, u # t, Under(u)', call'[u].ch = c.ch PROVE c.ch \in torn'
    <3>1. u \in Busy(c.ch)
      BY <1>4, <2>2 DEF Under, Busy
    <3> QED  BY <1>1, <3>1
  <2>3. ASSUME NEW u \in Threads, NEW v \in Threads, Under(u)', Under(v)',
               call'[u].ch = call'[v].ch, call'[u].ch \notin torn'
        PROVE  u = v
    <3>1. CASE u = t \/ v = t
      BY <1>4, <2>2, <2>3, <3>1
    <3>2. CASE u # t /\ v # t
      BY <1>1, <1>4, <2>3, <3>2 DEF Under, Subscribed, CallsApart
    <3> QED  BY <3>1, <3>2
  <2> QED  BY <2>1, <2>3 DEF CallsApart, Under
<1>6. WillMatch'
  <2>1. \A u \in Threads, ch \in Channels : Recording(u, ch)' <=> Recording(u, ch)
    BY <1>1, <1>4 DEF Recording
  <2>2. \A u \in Threads, ch \in Channels : Recording(u, ch) => call'[u] = call[u]
    BY <1>1, <1>4 DEF Recording
  <2>3. \A ch \in Channels : Will(ch, wire', held') <=> Will(ch, wire, held)
    BY <1>1
  <2> QED  BY <1>1, <2>1, <2>2, <2>3 DEF WillMatch, Subscribed
<1>7. GoneIsEmpty' /\ IsFiniteSet(channels')
  BY <1>1 DEF GoneIsEmpty, Subscribed
<1> QED  BY <1>3, <1>5, <1>6, <1>7 DEF Subscribed

(* The command is written, or lost with the connection *)
LEMMA SendInv ==
  ASSUME Subscribed, NEW t \in Threads, Send(t)
  PROVE  Subscribed'
<1> USE DEF Types
<1>1. /\ torn' = torn /\ link' = link /\ held' = held /\ channels' = channels /\ obs' = obs
      /\ socket' = socket /\ up' = up /\ outages' = outages /\ published' = published
      /\ reader' = reader /\ running' = running /\ job' = job /\ reported' = reported
  BY DEF Send, observer
<1>2. Types /\ pc[t] = "send" /\ call[t] \in Calls
  <2>1. pc[t] = "send"
    BY DEF Send
  <2> QED  BY <2>1 DEF Subscribed, CallsApart, Under
<1>3. CASE /\ pc' = [pc EXCEPT ![t] = "record"] /\ call' = call /\ ctx' = ctx /\ dead' = dead
           /\ \/ link /\ wire' = Append(wire, call[t])
              \/ ~link /\ wire' = wire
  <2>1. Types'
    <3>1. wire' \in Seq(Calls)
      BY <1>2, <1>3, QueueFacts
    <3>2. pc' \in [Threads -> {"idle", "send", "record"}]
      BY <1>2, <1>3
    <3> QED  BY <1>1, <1>2, <1>3, <3>1, <3>2
  <2>2. pc'[t] = "record" /\ \A u \in Threads : u # t => pc'[u] = pc[u]
    BY <1>2, <1>3
  <2>3. \A u \in Threads : Under(u)' <=> Under(u)
    BY <1>2, <2>2 DEF Under
  <2>4. CallsApart'
    BY <1>1, <1>3, <2>3 DEF CallsApart, Subscribed
  <2>5. GoneIsEmpty'
    BY <1>1, <1>3 DEF GoneIsEmpty, Subscribed
  <2>6. WillMatch'
    <3> SUFFICES ASSUME link, NEW c \in Channels \ torn
                 PROVE  /\ (\A u \in Threads : ~Recording(u, c)') =>
                              (Will(c, wire', held') <=> c \in channels')
                        /\ \A u \in Threads : Recording(u, c)' =>
                              (Will(c, wire', held') <=> call'[u].op = "subscribe")
      BY <1>1 DEF WillMatch
    <3>1. Will(c, wire', held') <=> IF call[t].ch = c THEN call[t].op = "subscribe" ELSE Will(c, wire, held)
      <4>1. wire' = Append(wire, call[t]) /\ held' = held
        BY <1>1, <1>3
      <4> QED  BY <1>2, <4>1, WillAppend
    <3>2. CASE call[t].ch = c
      <4>1. Recording(t, c)'
        BY <1>3, <2>2, <3>2 DEF Recording
      <4>2. \A u \in Threads : Recording(u, c)' => u = t
        BY <1>1, <1>2, <1>3, <2>2, <3>2 DEF Recording, Subscribed, CallsApart, Under
      <4> QED  BY <1>3, <3>1, <3>2, <4>1, <4>2
    <3>3. CASE call[t].ch # c
      <4>1. \A u \in Threads : Recording(u, c)' <=> Recording(u, c)
        BY <1>3, <2>2, <3>3 DEF Recording
      <4> QED  BY <1>1, <1>3, <3>1, <3>3, <4>1 DEF Subscribed, WillMatch
    <3> QED  BY <3>2, <3>3
  <2> QED  BY <1>1, <2>1, <2>4, <2>5, <2>6 DEF Subscribed
<1>4. CASE ctx # "null" /\ ~link /\ ctx' = "err" /\ pc' = [pc EXCEPT ![t] = "idle"]
           /\ call' = [call EXCEPT ![t] = NoCall] /\ wire' = wire /\ dead' = dead
  <2>1. pc' \in [Threads -> {"idle", "send", "record"}] /\ call' \in [Threads -> Calls \cup {NoCall}]
    BY <1>2, <1>4
  <2>2. Types'
    BY <1>1, <1>2, <1>4, <2>1
  <2>3. pc'[t] = "idle" /\ \A u \in Threads : u # t => pc'[u] = pc[u] /\ call'[u] = call[u]
    BY <1>2, <1>4
  <2>4. \A u \in Threads : Under(u)' => Under(u) /\ call'[u] = call[u]
    BY <2>3 DEF Under
  <2>5. CallsApart'
    BY <1>1, <2>4 DEF CallsApart, Subscribed
  <2>6. GoneIsEmpty' /\ WillMatch' /\ IsFiniteSet(channels')
    BY <1>1, <1>4 DEF GoneIsEmpty, WillMatch, Subscribed
  <2> QED  BY <2>2, <2>5, <2>6 DEF Subscribed
<1>5. CASE ctx = "null" /\ dead' = TRUE /\ wire' = wire /\ ctx' = ctx /\ pc' = pc /\ call' = call
  <2>1. Types'
    BY <1>1, <1>2, <1>5
  <2>2. GoneIsEmpty'
    BY <1>1, <1>5 DEF GoneIsEmpty, Subscribed
  <2> QED  BY <1>1, <1>5, <2>1, <2>2, SameCalls DEF Subscribed
<1>6. \/ /\ pc' = [pc EXCEPT ![t] = "record"] /\ call' = call /\ ctx' = ctx /\ dead' = dead
         /\ \/ link /\ wire' = Append(wire, call[t])
            \/ ~link /\ wire' = wire
      \/ ctx # "null" /\ ~link /\ ctx' = "err" /\ pc' = [pc EXCEPT ![t] = "idle"]
         /\ call' = [call EXCEPT ![t] = NoCall] /\ wire' = wire /\ dead' = dead
      \/ ctx = "null" /\ dead' = TRUE /\ wire' = wire /\ ctx' = ctx /\ pc' = pc /\ call' = call
  BY DEF Send, Goto
<1> QED  BY <1>3, <1>4, <1>5, <1>6

(* The call ends with the channel recorded, or no longer *)
LEMMA RecordInv ==
  ASSUME Subscribed, NEW t \in Threads, Record(t)
  PROVE  Subscribed'
<1> USE DEF Types, connection, observer
<1>1. /\ pc[t] = "record" /\ call[t] \in Calls /\ torn' = torn /\ wire' = wire /\ ctx' = ctx
      /\ link' = link /\ held' = held /\ obs' = obs /\ socket' = socket
      /\ channels' = IF call[t].op = "subscribe" THEN channels \cup {call[t].ch}
                                                 ELSE channels \ {call[t].ch}
      /\ pc' = [pc EXCEPT ![t] = "idle"] /\ call' = [call EXCEPT ![t] = NoCall]
  BY DEF Record, Goto, Subscribed, CallsApart, Under
<1>2. call[t].ch \in Channels
  BY <1>1 DEF Calls
<1>3. Types /\ Types'
  <2>1. pc' \in [Threads -> {"idle", "send", "record"}] /\ call' \in [Threads -> Calls \cup {NoCall}]
    BY <1>1 DEF Subscribed
  <2>2. channels' \in SUBSET Channels
    BY <1>1, <1>2 DEF Subscribed
  <2> QED  BY <1>1, <2>1, <2>2 DEF Record, Subscribed
<1>4. pc'[t] = "idle" /\ \A u \in Threads : u # t => pc'[u] = pc[u] /\ call'[u] = call[u]
  BY <1>1, <1>3
<1>5. CallsApart'
  <2>1. \A u \in Threads : Under(u)' => Under(u) /\ call'[u] = call[u]
    BY <1>4 DEF Under
  <2> QED  BY <1>1, <2>1 DEF CallsApart, Subscribed
<1>6. GoneIsEmpty'
  BY <1>1 DEF GoneIsEmpty, Subscribed
<1>7. IsFiniteSet(channels')
  BY <1>1, FS_AddElement, FS_RemoveElement, ZenonT(40) DEF Subscribed
<1>8. WillMatch'
  <2> SUFFICES ASSUME link, NEW c \in Channels \ torn
               PROVE  /\ (\A u \in Threads : ~Recording(u, c)') =>
                            (Will(c, wire', held') <=> c \in channels')
                      /\ \A u \in Threads : Recording(u, c)' =>
                            (Will(c, wire', held') <=> call'[u].op = "subscribe")
    BY <1>1 DEF WillMatch
  <2>1. Will(c, wire', held') <=> Will(c, wire, held)
    BY <1>1
  <2>2. CASE call[t].ch = c
    <3>1. Recording(t, c)
      BY <1>1, <2>2 DEF Recording
    <3>2. \A u \in Threads : ~Recording(u, c)'
      BY <1>1, <1>4, <2>2 DEF Recording, Subscribed, CallsApart, Under
    <3>3. Will(c, wire, held) <=> call[t].op = "subscribe"
      BY <3>1 DEF Subscribed, WillMatch
    <3>4. c \in channels' <=> call[t].op = "subscribe"
      BY <1>1, <2>2
    <3> QED  BY <2>1, <3>2, <3>3, <3>4
  <2>3. CASE call[t].ch # c
    <3>1. \A u \in Threads : (Recording(u, c)' <=> Recording(u, c))
                             /\ (Recording(u, c) => call'[u] = call[u])
      BY <1>1, <1>4, <2>3 DEF Recording
    <3>2. c \in channels' <=> c \in channels
      BY <1>1, <2>3
    <3> QED  BY <2>1, <3>1, <3>2 DEF Subscribed, WillMatch
  <2> QED  BY <2>2, <2>3
<1> QED  BY <1>3, <1>5, <1>6, <1>7, <1>8 DEF Subscribed
(* Redis carries out the first command on the wire *)
LEMMA ExecuteInv == Subscribed /\ Execute => Subscribed'
<1> SUFFICES ASSUME Subscribed, Execute PROVE Subscribed'
  OBVIOUS
<1> USE DEF Types
<1>1. /\ wire # <<>> /\ wire' = Tail(wire)
      /\ held' = IF Head(wire).op = "subscribe" THEN held \cup {Head(wire).ch}
                                                ELSE held \ {Head(wire).ch}
      /\ socket' = Append(socket, Ack)
      /\ up' = up /\ outages' = outages /\ link' = link /\ ctx' = ctx /\ published' = published
      /\ reader' = reader /\ running' = running /\ job' = job /\ reported' = reported /\ obs' = obs
      /\ dead' = dead /\ torn' = torn /\ pc' = pc /\ call' = call /\ channels' = channels
  BY DEF Execute, calls, observer
<1>2. Types
  BY DEF Subscribed
<1>3. Head(wire) \in Calls /\ Head(wire).ch \in Channels
  <2>1. Head(wire) \in Calls
    BY <1>1, <1>2, QueueFacts
  <2> QED  BY <2>1 DEF Calls
<1>9. Ack \in Nat
  BY DEF Ack
<1>4. Types'
  <2>1. wire' \in Seq(Calls) /\ socket' \in Seq(Nat)
    BY <1>1, <1>2, <1>9, QueueFacts
  <2>2. held' \in SUBSET Channels
    BY <1>1, <1>2, <1>3
  <2> QED  BY <1>1, <1>2, <2>1, <2>2
<1>5. \A c \in Channels : Will(c, wire', held') <=> Will(c, wire, held)
  BY <1>1, <1>2, WillExecute
<1>6. WillMatch'
  BY <1>1, <1>5 DEF WillMatch, Subscribed, Recording
<1>7. GoneIsEmpty'
  <2>1. link
    BY <1>1 DEF GoneIsEmpty, Subscribed
  <2>2. socket' # <<>>
    BY <1>1, <1>2, <1>9, QueueFacts
  <2> QED  BY <1>1, <2>1, <2>2 DEF GoneIsEmpty, Subscribed
<1>8. CallsApart'
  BY <1>1 DEF CallsApart, Under, Subscribed
<1> QED  BY <1>1, <1>4, <1>6, <1>7, <1>8 DEF Subscribed

(* A message sets out *)
LEMMA PublishInv == Subscribed /\ Publish => Subscribed'
<1> SUFFICES ASSUME Subscribed, Publish PROVE Subscribed'
  OBVIOUS
<1> USE DEF Types
<1>1. /\ published < MaxMsgs /\ published' = published + 1 /\ socket' = Append(socket, published + 1)
      /\ up' = up /\ outages' = outages /\ link' = link /\ ctx' = ctx /\ wire' = wire /\ held' = held
      /\ reader' = reader /\ running' = running /\ job' = job /\ reported' = reported /\ obs' = obs
      /\ dead' = dead /\ torn' = torn /\ pc' = pc /\ call' = call /\ channels' = channels
  BY DEF Publish, calls, observer
<1>2. Types
  BY DEF Subscribed
<1>3. published' \in 0..MaxMsgs /\ published + 1 \in Nat
  BY <1>1, <1>2, RedisAssumption
<1>4. socket' \in Seq(Nat) /\ socket' # <<>>
  BY <1>1, <1>2, <1>3, QueueFacts
<1>5. Types'
  BY <1>1, <1>2, <1>3, <1>4
<1>6. GoneIsEmpty'
  BY <1>1, <1>4 DEF GoneIsEmpty, Subscribed
<1> QED  BY <1>1, <1>5, <1>6, SameCalls DEF Subscribed

(* The network: what is lost with the connection is lost with what was held *)
LEMMA NetworkInv == Subscribed /\ (Outage \/ Recover) => Subscribed'
<1> USE DEF Types
<1>1. ASSUME Subscribed, Outage PROVE Subscribed'
  <2>1. /\ up' = FALSE /\ outages < MaxOutages /\ outages' = outages + 1 /\ link' = FALSE
        /\ wire' = <<>> /\ held' = {} /\ socket' \in {socket, <<>>}
        /\ ctx' = ctx /\ published' = published
        /\ reader' = reader /\ running' = running /\ job' = job /\ reported' = reported /\ obs' = obs
        /\ dead' = dead /\ torn' = torn /\ pc' = pc /\ call' = call /\ channels' = channels
    BY <1>1 DEF Outage, calls, observer
  <2>2. Types
    BY <1>1 DEF Subscribed
  <2>3. outages' \in 0..MaxOutages
    BY <2>1, <2>2, RedisAssumption
  <2>4. wire' \in Seq(Calls) /\ socket' \in Seq(Nat)
    BY <2>1, <2>2, NoneQueued
  <2>5. Types'
    BY <2>1, <2>2, <2>3, <2>4
  <2>6. CallsApart'
    BY <1>1, <2>1 DEF CallsApart, Under, Subscribed
  <2>7. GoneIsEmpty' /\ WillMatch'
    BY <1>1, <2>1 DEF GoneIsEmpty, WillMatch, Subscribed
  <2> QED  BY <1>1, <2>1, <2>5, <2>6, <2>7 DEF Subscribed
<1>2. ASSUME Subscribed, Recover PROVE Subscribed'
  <2>1. /\ up' = TRUE /\ outages' = outages /\ link' = link /\ ctx' = ctx /\ wire' = wire
        /\ held' = held /\ socket' = socket /\ published' = published
        /\ reader' = reader /\ running' = running /\ job' = job /\ reported' = reported /\ obs' = obs
        /\ dead' = dead /\ torn' = torn /\ pc' = pc /\ call' = call /\ channels' = channels
    BY <1>2 DEF Recover, calls, observer
  <2>2. Types'
    BY <1>2, <2>1 DEF Subscribed
  <2>3. GoneIsEmpty'
    BY <1>2, <2>1 DEF GoneIsEmpty, Subscribed
  <2> QED  BY <1>2, <2>1, <2>2, <2>3, SameCalls DEF Subscribed
<1> QED  BY <1>1, <1>2

(* A new connection: it is sent exactly what is recorded, and a channel    *)
(* whose call stands between the two is torn                               *)
LEMMA ResubscribeInv == Subscribed /\ Resubscribe => Subscribed'
<1> SUFFICES ASSUME Subscribed, Resubscribe PROVE Subscribed'
  OBVIOUS
<1> USE DEF Types
<1>1. /\ obs = "top" /\ ctx = "null" /\ ctx' = "ok" /\ link' = TRUE /\ wire' = SubscribeAll(channels)
      /\ socket' = <<>> /\ reader' = <<>>
      /\ torn' = torn \cup {call[t].ch : t \in {u \in Threads : pc[u] = "record"}}
      /\ up' = up /\ outages' = outages /\ held' = held /\ published' = published
      /\ running' = running /\ job' = job /\ reported' = reported /\ obs' = obs
      /\ dead' = dead /\ pc' = pc /\ call' = call /\ channels' = channels
  BY DEF Resubscribe, calls, observer
<1>2. Types /\ IsFiniteSet(channels)
  BY DEF Subscribed
<1>3. held = {}
  BY <1>1 DEF GoneIsEmpty, Subscribed
<1>4. wire' \in Seq(Calls) /\ \A c \in Channels : Will(c, wire', held') <=> c \in channels
  BY <1>1, <1>2, <1>3, WillAll
<1>5. \A t \in Threads : pc[t] = "record" => call[t].ch \in torn' /\ call[t].ch \in Channels
  BY <1>1 DEF Subscribed, CallsApart, Under, Calls
<1>6. Types'
  <2>1. torn' \in SUBSET Channels
    BY <1>1, <1>2, <1>5
  <2>2. <<>> \in Seq(Nat)
    OBVIOUS
  <2> QED  BY <1>1, <1>2, <1>4, <2>1, <2>2
<1>7. torn \subseteq torn'
  BY <1>1
<1>8. CallsApart'
  BY <1>1, <1>7 DEF CallsApart, Under, Subscribed
<1>9. GoneIsEmpty'
  BY <1>1 DEF GoneIsEmpty
<1>10. WillMatch'
  <2>1. \A c \in Channels \ torn', t \in Threads : ~Recording(t, c)'
    BY <1>1, <1>5 DEF Recording
  <2> QED  BY <1>1, <1>4, <2>1 DEF WillMatch
<1> QED  BY <1>1, <1>2, <1>6, <1>8, <1>9, <1>10 DEF Subscribed

(* The observer's other steps, and stop: a context is freed only after its *)
(* connection has gone                                                     *)
LEMMA ObserverInv ==
  Subscribed /\ (Poll \/ GetReply \/ Free \/ Report \/ Quit \/ Stop) => Subscribed'
<1> SUFFICES ASSUME Subscribed, Poll \/ GetReply \/ Free \/ Report \/ Quit \/ Stop PROVE Subscribed'
  OBVIOUS
<1> USE DEF Types
<1>1. /\ up' = up /\ outages' = outages /\ published' = published /\ dead' = dead /\ torn' = torn
      /\ pc' = pc /\ call' = call /\ channels' = channels
  BY DEF Poll, GetReply, Free, Report, Quit, Stop, connection, calls, observer
<1>2. Types
  BY DEF Subscribed
<1>3. CASE Poll
  <2>1. /\ ctx # "null" /\ (socket # <<>> \/ ~link) /\ obs = "top" /\ obs' = "read"
        /\ link' = link /\ wire' = wire /\ held' = held /\ socket' = socket /\ ctx' = ctx
        /\ reader' = reader /\ running' = running /\ job' = job /\ reported' = reported
    BY <1>3 DEF Poll, connection, calls
  <2>2. Types'
    BY <1>1, <1>2, <2>1
  <2>3. GoneIsEmpty'
    BY <2>1 DEF GoneIsEmpty, Subscribed
  <2> QED  BY <1>1, <2>1, <2>2, <2>3, SameCalls DEF Subscribed
<1>4. CASE GetReply
  <2>1. /\ obs = "read" /\ link' = link /\ wire' = wire /\ held' = held
        /\ running' = running /\ reported' = reported
        /\ \/ reader # <<>> /\ job' = Head(reader) /\ reader' = Tail(reader) /\ obs' = "report"
              /\ ctx' = ctx /\ socket' = socket
           \/ socket # <<>> /\ job' = Head(socket) /\ reader' = Tail(socket) /\ obs' = "report"
              /\ ctx' = ctx /\ socket' = <<>>
           \/ (ctx = "err" \/ socket = <<>>) /\ ctx' = "err" /\ obs' \in {"free", "top"}
              /\ job' = job /\ reader' = reader /\ socket' = socket
    BY <1>4 DEF GetReply, calls
  <2>2. job' \in Nat /\ reader' \in Seq(Nat) /\ socket' \in Seq(Nat)
    BY <1>2, <2>1, QueueFacts, NoneQueued
  <2>3. Types'
    BY <1>1, <1>2, <2>1, <2>2
  <2>4. GoneIsEmpty'
    BY <2>1 DEF GoneIsEmpty, Subscribed
  <2> QED  BY <1>1, <2>1, <2>3, <2>4, SameCalls DEF Subscribed
<1>5. CASE Free
  <2>1. /\ obs = "free" /\ ctx' = "null" /\ obs' = "top"
        /\ link' = link /\ wire' = wire /\ held' = held /\ socket' = socket
        /\ reader' = reader /\ running' = running /\ job' = job /\ reported' = reported
    BY <1>5 DEF Free, connection, calls
  <2>2. Types'
    BY <1>1, <1>2, <2>1
  <2>3. GoneIsEmpty'
    BY <2>1 DEF GoneIsEmpty, Subscribed
  <2> QED  BY <1>1, <2>1, <2>2, <2>3, SameCalls DEF Subscribed
<1>6. CASE Report
  <2>1. /\ obs' = "top" /\ job' = Ack
        /\ reported' = IF running /\ job # Ack THEN Append(reported, job) ELSE reported
        /\ link' = link /\ wire' = wire /\ held' = held /\ socket' = socket /\ ctx' = ctx
        /\ reader' = reader /\ running' = running
    BY <1>6 DEF Report, connection, calls
  <2>2. reported' \in Seq(Nat) /\ job' \in Nat
    BY <1>2, <2>1 DEF Ack
  <2>3. Types'
    BY <1>1, <1>2, <2>1, <2>2
  <2>4. GoneIsEmpty'
    BY <2>1 DEF GoneIsEmpty, Subscribed
  <2> QED  BY <1>1, <2>1, <2>3, <2>4, SameCalls DEF Subscribed
<1>7. CASE Quit
  <2>1. /\ obs' = "quit"
        /\ link' = link /\ wire' = wire /\ held' = held /\ socket' = socket /\ ctx' = ctx
        /\ reader' = reader /\ running' = running /\ job' = job /\ reported' = reported
    BY <1>7 DEF Quit, connection, calls
  <2>2. Types'
    BY <1>1, <1>2, <2>1
  <2>3. GoneIsEmpty'
    BY <2>1 DEF GoneIsEmpty, Subscribed
  <2> QED  BY <1>1, <2>1, <2>2, <2>3, SameCalls DEF Subscribed
<1>8. CASE Stop
  <2>1. /\ running' = FALSE /\ socket' = socket /\ ctx' = ctx /\ reader' = reader
        /\ obs' = obs /\ job' = job /\ reported' = reported
        /\ \/ ctx # "null" /\ link' = FALSE /\ wire' = <<>> /\ held' = {}
           \/ ctx = "null" /\ link' = link /\ wire' = wire /\ held' = held
    BY <1>8 DEF Stop, observer, calls
  <2>2. wire' \in Seq(Calls) /\ held' \in SUBSET Channels /\ link' \in BOOLEAN
    BY <1>2, <2>1, NoneQueued
  <2>3. Types'
    BY <1>1, <1>2, <2>1, <2>2
  <2>4. GoneIsEmpty'
    BY <2>1 DEF GoneIsEmpty, Subscribed
  <2>5. WillMatch'
    BY <1>1, <2>1 DEF WillMatch, Subscribed, Recording
  <2>6. CallsApart'
    BY <1>1 DEF CallsApart, Under, Subscribed
  <2> QED  BY <1>1, <2>3, <2>4, <2>5, <2>6 DEF Subscribed
<1> QED  BY <1>3, <1>4, <1>5, <1>6, <1>7, <1>8

----------------------------------------------------------------------------
(* Numbers in their order: at the end of a queue, and behind its head *)
LEMMA AppendOrder ==
  ASSUME NEW s \in Seq(Nat), NEW m \in Nat
  PROVE  /\ \A i \in 1..Len(Append(s, m)) : \/ i \in 1..Len(s) /\ Append(s, m)[i] = s[i]
                                            \/ i = Len(s) + 1 /\ Append(s, m)[i] = m
         /\ Increasing(s) /\ (m > 0 => \A i \in 1..Len(s) : s[i] < m) => Increasing(Append(s, m))
<1> DEFINE a == Append(s, m)
<1>1. Len(s) \in Nat /\ Len(a) = Len(s) + 1 /\ a[Len(s) + 1] = m /\ \A i \in 1..Len(s) : a[i] = s[i]
  OBVIOUS
<1>2. \A i \in 1..Len(a) : \/ i \in 1..Len(s) /\ a[i] = s[i]
                           \/ i = Len(s) + 1 /\ a[i] = m
  BY <1>1
<1> HIDE DEF a
<1>3. ASSUME Increasing(s), m > 0 => \A i \in 1..Len(s) : s[i] < m PROVE Increasing(a)
  <2> SUFFICES ASSUME NEW i \in 1..Len(a), NEW j \in 1..Len(a), i < j, a[i] > 0, a[j] > 0
               PROVE  a[i] < a[j]
    BY DEF Increasing
  <2>1. i \in 1..Len(s) /\ a[i] = s[i]
    BY <1>1, <1>2
  <2>2. CASE j \in 1..Len(s) /\ a[j] = s[j]
    BY <1>3, <2>1, <2>2 DEF Increasing
  <2>3. CASE a[j] = m
    BY <1>3, <2>1, <2>3
  <2> QED  BY <1>2, <2>2, <2>3
<1> QED  BY <1>2, <1>3 DEF a

(* behind the head of a queue *)
LEMMA TailOrder ==
  ASSUME NEW s \in Seq(Nat), s # <<>>
  PROVE  /\ Head(s) = s[1] /\ 1 \in 1..Len(s) /\ Head(s) \in Nat /\ Tail(s) \in Seq(Nat)
         /\ \A i \in 1..Len(Tail(s)) : Tail(s)[i] = s[i + 1] /\ i + 1 \in 1..Len(s)
         /\ Increasing(s) => Increasing(Tail(s)) /\ After(Tail(s), Head(s))
<1> DEFINE v == Tail(s)
<1>1. Head(s) = s[1] /\ 1 \in 1..Len(s) /\ Head(s) \in Nat /\ v \in Seq(Nat) /\ Len(s) \in Nat
  OBVIOUS
<1>2. \A i \in 1..Len(v) : v[i] = s[i + 1] /\ i + 1 \in 1..Len(s)
  OBVIOUS
<1> HIDE DEF v
<1>3. Increasing(s) => Increasing(v)
  <2> SUFFICES ASSUME Increasing(s), NEW i \in 1..Len(v), NEW j \in 1..Len(v), i < j, v[i] > 0, v[j] > 0
               PROVE  v[i] < v[j]
    BY DEF Increasing
  <2>1. v[i] = s[i + 1] /\ v[j] = s[j + 1] /\ i + 1 \in 1..Len(s) /\ j + 1 \in 1..Len(s) /\ i + 1 < j + 1
    BY <1>2
  <2> QED  BY <2>1 DEF Increasing
<1>4. Increasing(s) => After(v, Head(s))
  <2> SUFFICES ASSUME Increasing(s), s[1] > 0, NEW i \in 1..Len(v), v[i] > 0 PROVE s[1] < v[i]
    BY <1>1 DEF After
  <2>1. v[i] = s[i + 1] /\ i + 1 \in 1..Len(s) /\ 1 < i + 1
    BY <1>2
  <2> QED  BY <1>1, <2>1 DEF Increasing
<1> QED  BY <1>1, <1>2, <1>3, <1>4 DEF v

(* Nothing is in order *)
LEMMA NoneInOrder ==
  ASSUME NEW s, NEW n
  PROVE  Increasing(<<>>) /\ Before(s, <<>>) /\ Before(<<>>, s) /\ UpTo(<<>>, n) /\ After(<<>>, n)
<1>1. \A i \in 1..Len(<<>>) : FALSE
  OBVIOUS
<1> QED  BY <1>1 DEF Increasing, Before, UpTo, After

(* A message is the greatest number so far, and an acknowledgement has none *)
LEMMA ArriveInOrder ==
  ASSUME Types, InOrder, NEW m \in Nat, m = 0 \/ (m = published + 1 /\ published' = m),
         m = 0 => published' = published,
         socket' = Append(socket, m), reader' = reader, reported' = reported, job' = job
  PROVE  InOrder'
<1> USE DEF Types
<1>1. \A i \in 1..Len(socket') : \/ i \in 1..Len(socket) /\ socket'[i] = socket[i]
                                 \/ socket'[i] = m
  BY AppendOrder
<1>2. published \in Nat /\ published' \in Nat /\ published <= published' /\ m <= published'
      /\ (m > 0 => published < m)
  BY RedisAssumption
<1>3. \A q \in {socket, reader, reported} : \A i \in 1..Len(q) : q[i] \in Nat /\ q[i] <= published
  <2>1. socket \in Seq(Nat) /\ reader \in Seq(Nat) /\ reported \in Seq(Nat)
    OBVIOUS
  <2>2. \A q \in Seq(Nat) : \A i \in 1..Len(q) : q[i] \in Nat
    OBVIOUS
  <2>3. UpTo(socket, published) /\ UpTo(reader, published) /\ UpTo(reported, published)
    BY DEF InOrder
  <2> HIDE DEF Types
  <2>4. \A q \in {socket, reader, reported} : UpTo(q, published)
    BY <2>3
  <2> QED  BY <2>1, <2>2, <2>4 DEF UpTo
<1>4. Increasing(socket')
  <2>1. m > 0 => \A i \in 1..Len(socket) : socket[i] < m
    BY <1>2, <1>3
  <2> QED  BY <2>1, AppendOrder DEF InOrder
<1>5. Before(reported, socket') /\ Before(reader, socket')
  <2>1. \A q \in {reader, reported} : Before(q, socket) => Before(q, socket')
    BY <1>1, <1>2, <1>3, SMTT(30) DEF Before
  <2> QED  BY <2>1 DEF InOrder
<1>6. After(socket', job)
  BY <1>1, <1>2 DEF After, InOrder
<1>7. UpTo(socket', published') /\ UpTo(reader, published') /\ UpTo(reported, published')
  BY <1>1, <1>2, <1>3, SMTT(30) DEF UpTo
<1> QED  BY <1>2, <1>4, <1>5, <1>6, <1>7 DEF InOrder

(* Each step keeps the messages in their order *)
LEMMA InOrderStep == Types /\ InOrder /\ [Next]_vars => InOrder'
<1> SUFFICES ASSUME Types, InOrder, [Next]_vars PROVE InOrder'
  OBVIOUS
<1> USE DEF Types
<1>1. ASSUME socket' = socket \/ socket' = <<>>, reader' = reader \/ reader' = <<>>,
             reported' = reported, job' = job, published' = published
      PROVE  InOrder'
  BY <1>1, NoneInOrder DEF InOrder
<1>2. CASE Execute
  BY <1>2, ArriveInOrder DEF Execute, observer, Ack
<1>3. CASE Publish
  <2>1. published + 1 \in Nat
    BY RedisAssumption
  <2> QED  BY <1>3, <2>1, ArriveInOrder DEF Publish, observer
<1>4. CASE GetReply
  <2>1. /\ reported' = reported /\ published' = published
        /\ \/ reader # <<>> /\ job' = Head(reader) /\ reader' = Tail(reader) /\ socket' = socket
           \/ socket # <<>> /\ job' = Head(socket) /\ reader' = Tail(socket) /\ socket' = <<>>
           \/ job' = job /\ reader' = reader /\ socket' = socket
    BY <1>4 DEF GetReply
  <2>2. ASSUME NEW q \in {reader, socket}, q # <<>>, job' = Head(q), reader' = Tail(q)
        PROVE  /\ Increasing(reader') /\ After(reader', job') /\ UpTo(reader', published)
               /\ job' <= published /\ Before(reported, reader')
               /\ job' > 0 => \A i \in 1..Len(reported) : reported[i] < job'
               /\ \A r : Before(q, r) => Before(reader', r) /\ After(r, job')
    <3>1. /\ Head(q) = q[1] /\ 1 \in 1..Len(q) /\ Head(q) \in Nat
          /\ \A i \in 1..Len(reader') : reader'[i] = q[i + 1] /\ i + 1 \in 1..Len(q)
          /\ Increasing(reader') /\ After(reader', job')
      BY <2>2, TailOrder DEF InOrder
    <3>2. UpTo(q, published) /\ Before(reported, q)
      BY DEF InOrder
    <3>3. UpTo(reader', published) /\ job' <= published
      BY <2>2, <3>1, <3>2 DEF UpTo
    <3>4. Before(reported, reader') /\ (job' > 0 => \A i \in 1..Len(reported) : reported[i] < job')
      BY <2>2, <3>1, <3>2 DEF Before, InOrder
    <3>5. \A r : Before(q, r) => Before(reader', r) /\ After(r, job')
      BY <2>2, <3>1 DEF Before, After
    <3> QED  BY <3>1, <3>3, <3>4, <3>5
  <2>3. CASE reader # <<>> /\ job' = Head(reader) /\ reader' = Tail(reader) /\ socket' = socket
    BY <2>1, <2>2, <2>3 DEF InOrder
  <2>4. CASE socket # <<>> /\ job' = Head(socket) /\ reader' = Tail(socket) /\ socket' = <<>>
    BY <2>1, <2>2, <2>4, NoneInOrder DEF InOrder
  <2>5. CASE job' = job /\ reader' = reader /\ socket' = socket
    BY <1>1, <2>1, <2>5
  <2> QED  BY <2>1, <2>3, <2>4, <2>5
<1>5. CASE Report
  <2>1. /\ reported' = IF running /\ job # Ack THEN Append(reported, job) ELSE reported
        /\ job' = 0 /\ reader' = reader /\ socket' = socket /\ published' = published
    BY <1>5 DEF Report, connection, Ack
  <2>2. CASE reported' = reported
    BY <2>1, <2>2 DEF InOrder, After
  <2>3. CASE job > 0 /\ reported' = Append(reported, job)
    <3>1. /\ \A i \in 1..Len(reported') : \/ i \in 1..Len(reported) /\ reported'[i] = reported[i]
                                          \/ reported'[i] = job
          /\ Increasing(reported')
      BY <2>3, AppendOrder DEF InOrder
    <3>2. Before(reported', reader) /\ Before(reported', socket)
      BY <2>3, <3>1 DEF InOrder, Before, After
    <3>3. UpTo(reported', published) /\ \A i \in 1..Len(reported') : reported'[i] > 0
      BY <2>3, <3>1 DEF InOrder, UpTo
    <3> QED  BY <2>1, <3>1, <3>2, <3>3 DEF InOrder, After
  <2> QED  BY <2>1, <2>2, <2>3 DEF Ack
<1>6. CASE UNCHANGED vars
  BY <1>1, <1>6 DEF vars, connection, observer
<1>7. CASE \E t \in Threads : (\E c \in Calls : Begin(t, c)) \/ Send(t) \/ Record(t)
  BY <1>1, <1>7 DEF Begin, Send, Record, connection, observer
<1>8. CASE Outage \/ Recover
  BY <1>1, <1>8 DEF Outage, Recover, observer
<1>9. CASE Resubscribe \/ Poll \/ Free \/ Quit \/ Stop
  BY <1>1, <1>9 DEF Resubscribe, Poll, Free, Quit, Stop, connection, observer
<1> QED
  BY <1>2, <1>3, <1>4, <1>5, <1>6, <1>7, <1>8, <1>9 DEF Next, ObserverStep

----------------------------------------------------------------------------
(* Every state that is reached agrees on the subscriptions *)
LEMMA SubscribedStep == Subscribed /\ [Next]_vars => Subscribed'
<1> SUFFICES ASSUME Subscribed, [Next]_vars PROVE Subscribed'
  OBVIOUS
<1>1. CASE UNCHANGED vars
  <2>1. /\ up' = up /\ outages' = outages /\ published' = published /\ dead' = dead /\ torn' = torn
        /\ pc' = pc /\ call' = call /\ channels' = channels /\ link' = link /\ wire' = wire
        /\ held' = held /\ socket' = socket /\ ctx' = ctx /\ reader' = reader
        /\ running' = running /\ job' = job /\ reported' = reported /\ obs' = obs
    BY <1>1 DEF vars, connection, calls, observer
  <2>2. Types' /\ GoneIsEmpty'
    BY <2>1 DEF Subscribed, Types, GoneIsEmpty
  <2> QED  BY <2>1, <2>2, SameCalls DEF Subscribed
<1>2. CASE \E t \in Threads : (\E c \in Calls : Begin(t, c)) \/ Send(t) \/ Record(t)
  BY <1>2, BeginInv, SendInv, RecordInv
<1>3. CASE Execute \/ Publish \/ Outage \/ Recover
  BY <1>3, ExecuteInv, PublishInv, NetworkInv
<1>4. CASE ObserverStep \/ Stop
  BY <1>4, ResubscribeInv, ObserverInv DEF ObserverStep
<1> QED  BY <1>1, <1>2, <1>3, <1>4 DEF Next

(* The start *)
LEMMA StartInv == Init => Subscribed /\ InOrder
<1> SUFFICES ASSUME Init PROVE Subscribed /\ InOrder
  OBVIOUS
<1>1. Types
  <2>1. wire \in Seq(Calls) /\ socket \in Seq(Nat) /\ reader \in Seq(Nat) /\ reported \in Seq(Nat)
    BY NoneQueued DEF Init
  <2>2. outages \in 0..MaxOutages /\ published \in 0..MaxMsgs /\ job \in Nat
    BY RedisAssumption DEF Init, Ack
  <2>3. /\ pc \in [Threads -> {"idle", "send", "record"}] /\ call \in [Threads -> Calls \cup {NoCall}]
        /\ held \in SUBSET Channels /\ channels \in SUBSET Channels /\ torn \in SUBSET Channels
    BY DEF Init
  <2>4. /\ up \in BOOLEAN /\ link \in BOOLEAN /\ running \in BOOLEAN /\ dead \in BOOLEAN
        /\ ctx \in {"null", "ok", "err"} /\ obs \in {"top", "read", "free", "report", "quit"}
    BY DEF Init
  <2> QED  BY <2>1, <2>2, <2>3, <2>4 DEF Types
<1>2. CallsApart
  BY DEF Init, CallsApart, Under
<1>3. GoneIsEmpty
  BY DEF Init, GoneIsEmpty
<1>4. IsFiniteSet(channels)
  BY FS_EmptySet DEF Init
<1>5. WillMatch
  <2>1. \A c : ~Will(c, <<>>, {})
    BY DEF Will
  <2> QED  BY <2>1 DEF Init, WillMatch, Recording
<1>6. InOrder
  BY NoneInOrder, RedisAssumption DEF Init, InOrder, Ack, After
<1> QED  BY <1>1, <1>2, <1>3, <1>4, <1>5, <1>6 DEF Subscribed

(* The inductive invariant: the commands and replies on the wire and in    *)
(* the reader, and what is under way between Redis and the business layer, *)
(* agree with the recorded channels (redis.cpp: subscribe, unsubscribe,    *)
(* observer_channel_message, resubscribe), besides what the properties     *)
(* name.                                                                   *)
THEOREM RedisInvariant == Spec => [](Subscribed /\ InOrder)
<1>1. Subscribed /\ InOrder /\ [Next]_vars => (Subscribed /\ InOrder)'
  BY SubscribedStep, InOrderStep DEF Subscribed
<1> QED  BY StartInv, <1>1, PTL DEF Spec

(* However calls of subscribe and unsubscribe, outages and the observer's  *)
(* reconnection interleave: once Redis has carried out what it was sent,   *)
(* it holds exactly the recorded channels, except a channel with           *)
(* overlapping calls.                                                      *)
THEOREM SubscriptionsAgree == Spec => []SubscriptionsMatch
<1>1. Subscribed => SubscriptionsMatch
  <2> SUFFICES ASSUME Subscribed PROVE SubscriptionsMatch
    OBVIOUS
  <2>1. Types
    BY DEF Subscribed
  <2>2. TypeOK
    BY <2>1 DEF Types, TypeOK
  <2>3. ASSUME ~dead, ctx = "ok", link, wire = <<>>, NEW c \in Channels \ torn, Busy(c) = {}
        PROVE  c \in held <=> c \in channels
    <3>1. \A t \in Threads : ~Recording(t, c)
      BY <2>3 DEF Recording, Busy
    <3>2. Will(c, wire, held) <=> c \in channels
      BY <2>3, <3>1 DEF Subscribed, WillMatch
    <3>3. \A i \in 1..Len(wire) : FALSE
      BY <2>3
    <3>4. Will(c, wire, held) <=> c \in held
      BY <3>3 DEF Will
    <3> QED  BY <3>2, <3>4
  <2> QED  BY <2>2, <2>3 DEF SubscriptionsMatch
<1> QED  BY <1>1, RedisInvariant, PTL

(* The observer thread reports messages in the order in which they were    *)
(* published, and none twice, also across a reconnection                   *)
(* (observer_channel_message).                                             *)
THEOREM MessagesInOrder == Spec => []ReportedInOrder
<1>1. Subscribed /\ InOrder => ReportedInOrder
  <2> SUFFICES ASSUME Subscribed, InOrder PROVE ReportedInOrder
    OBVIOUS
  <2>1. DOMAIN reported = 1..Len(reported)
    BY DEF Subscribed, Types
  <2> QED  BY <2>1 DEF InOrder, Increasing, ReportedInOrder
<1> QED  BY <1>1, RedisInvariant, PTL
=============================================================================
