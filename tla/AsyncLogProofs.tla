--------------------------- MODULE AsyncLogProofs ---------------------------
(***************************************************************************)
(* Proofs about the asynchronous log, for any threads and roll size: the   *)
(* order and completeness of its lines, and what uninit has waited for.    *)
(***************************************************************************)
EXTENDS AsyncLog, SequenceTheorems, TLAPS

Labels == {"idle", "loop", "push", "fatalOpen", "fatalWrite", "crash",
           "top", "create", "lock", "test", "park", "waiting", "woken", "write",
           "done", "failed", "setExit", "notify", "join", "return"}
Handling == {"none", "lock", "push", "quit"}

Types ==
    /\ pc \in [All -> Labels] /\ handler \in [All -> Handling] /\ mutex \in All \cup {Nobody}
    /\ queue \in Seq(Nat) /\ line \in Seq(Nat) /\ accepted \in Nat
    /\ now \in Seconds /\ disk \in [Seconds -> Seq(Nat)] /\ made \in SUBSET Seconds
    /\ log \in Seconds \cup {NoFile} /\ written \in Nat /\ due \in Nat
    /\ exit \in BOOLEAN /\ signalled \in BOOLEAN /\ quit \in BOOLEAN /\ dead \in BOOLEAN
    /\ reused \in BOOLEAN /\ lost \in SUBSET Nat

(* Who holds m_mutexWrite, and that resetHandler runs at most once: with   *)
(* the bound on the lines of output, only its line may go beyond it        *)
Locking ==
    /\ \A t \in Threads : pc[t] = "push" => mutex = t /\ accepted < MaxLines
    /\ pc[Writer] # "push"
    /\ pc[Writer] \in {"test", "park"} => mutex = Writer
    /\ \A t \in All : handler[t] = "push" =>
          mutex = t /\ pc[t] # "push" /\ (t = Writer => pc[t] \notin {"test", "park"})
    /\ \A t \in All : handler[t] # "none" =>
          signalled /\ (handler[t] # "quit" => accepted <= MaxLines)
    /\ \A t, u \in All : handler[t] # "none" /\ handler[u] # "none" => t = u
    /\ ~signalled => accepted <= MaxLines
    /\ accepted <= MaxLines + 1

(* The writer: it has room in the file, and one line in its hands or none *)
Writing ==
    /\ written <= RollSize
    /\ pc[Writer] \in {"lock", "test", "park", "waiting", "woken", "write"} => written < RollSize
    /\ IF pc[Writer] \in {"write", "failed"} THEN Len(line) <= 1 ELSE line = <<>>
    /\ pc[Writer] = "write" => Len(line) = 1

(* The lines 1 .. Base have left the queue and the writer's hands *)
Base == accepted - Len(queue) - Len(line)

(* The handle belongs to the latest file *)
Files ==
    /\ \A s \in made : s <= now
    /\ log # NoFile => log \in made /\ \A s \in made : s <= log
    /\ \A s \in Seconds : s \notin made => disk[s] = <<>>

Lines ==
    /\ Base >= 0
    /\ \A i \in 1..Len(line) : line[i] = Base + i
    /\ \A i \in 1..Len(queue) : queue[i] = Base + Len(line) + i
    /\ \A s \in Seconds : \A i \in 1..Len(disk[s]) : disk[s][i] <= Base
    /\ FilesInOrder
    /\ ~reused => \A n \in (1..Base) \ lost : Flushed(n)
    /\ lost \subseteq 1..Base

(* The order of the exit *)
Exiting ==
    /\ exit <=> pc[Main] \in {"notify", "join", "return"}
    /\ due <= accepted
    /\ pc[Writer] = "done" => exit /\ (~reused => \A n \in (1..due) \ lost : Flushed(n))
    /\ pc[Main] = "return" => pc[Writer] \in {"done", "failed"}

LogInv == Types /\ Locking /\ Writing /\ Files /\ Lines /\ Exiting

----------------------------------------------------------------------------
(* The writer, the main thread and nobody are three *)
LEMMA Distinct ==
  /\ Main \in Threads /\ Main \in All /\ Writer \in All /\ Writer # Main
  /\ Writer \notin Threads /\ Nobody \notin All /\ Threads \subseteq All
  /\ MaxLines \in Nat /\ RollSize \in Nat /\ RollSize > 0 /\ MaxTime \in Nat
  /\ NoFile \notin Seconds /\ 0 \in Seconds
BY LogAssumption DEF All, NoFile, Seconds

(* An empty log *)
LEMMA InitInv == Init => LogInv
<1> SUFFICES ASSUME Init PROVE LogInv
  OBVIOUS
<1> USE Distinct
<1>1. Len(queue) = 0 /\ Len(line) = 0 /\ queue \in Seq(Nat) /\ line \in Seq(Nat) /\ <<>> \in Seq(Nat)
  BY DEF Init
<1>2. pc \in [All -> Labels] /\ handler \in [All -> Handling]
  BY DEF Init, Labels, Handling
<1>3. Types
  BY <1>1, <1>2 DEF Init, Types
<1>4. Locking /\ Writing
  BY <1>1 DEF Init, Locking, Writing
<1>5. \A s \in Seconds : disk[s] = <<>> /\ Len(disk[s]) = 0 /\ DOMAIN disk[s] = {}
  BY DEF Init
<1>6. Files /\ Lines
  BY <1>1, <1>5 DEF Init, Files, Lines, Base, FilesInOrder
<1>7. Exiting
  BY DEF Init, Exiting
<1> QED  BY <1>3, <1>4, <1>6, <1>7 DEF LogInv

----------------------------------------------------------------------------
(* What a step does to the lines: nothing, a push, a take, a new file, a   *)
(* FATAL line, a written line                                              *)
Silent ==
    /\ UNCHANGED <<queue, line, accepted, disk, made, reused, lost>>
    /\ log' \in {log, NoFile} /\ now <= now'

(* A step that touches no line: the clock, a closed handle, a lock *)
LEMMA SilentLines ==
  ASSUME LogInv, Types', Silent
  PROVE  Files' /\ Lines' /\ Base' = Base /\ lost' = lost /\ \A n : Flushed(n)' <=> Flushed(n)
<1>1. Base' = Base /\ (\A n : Flushed(n)' <=> Flushed(n)) /\ (FilesInOrder' <=> FilesInOrder)
  BY DEF Silent, Base, Flushed, FilesInOrder
<1>2. now \in Int /\ now' \in Int /\ \A s \in Seconds : s \in Int
  BY DEF LogInv, Types, Seconds
<1>3. Files'
  BY <1>2 DEF LogInv, Silent, Files, Types
<1>4. Lines'
  BY <1>1 DEF LogInv, Silent, Lines
<1> QED  BY <1>1, <1>3, <1>4 DEF Silent

(* push_back of output or of the handler *)
LEMMA QueueLines ==
  ASSUME LogInv, Types', Queue, UNCHANGED <<line, files, now>>
  PROVE  Files' /\ Lines' /\ Base' = Base /\ lost' = lost /\ \A n : Flushed(n)' <=> Flushed(n)
<1>1. /\ queue \in Seq(Nat) /\ accepted \in Nat /\ line \in Seq(Nat) /\ Len(line) \in Nat /\ Len(queue) \in Nat
      /\ accepted' = accepted + 1 /\ queue' = Append(queue, accepted + 1)
      /\ line' = line /\ disk' = disk /\ made' = made /\ log' = log /\ reused' = reused /\ lost' = lost /\ now' = now
  BY DEF LogInv, Types, Queue, files
<1>2. Len(queue') = Len(queue) + 1 /\ \A i \in 1..Len(queue') :
         queue'[i] = IF i = Len(queue) + 1 THEN accepted + 1 ELSE queue[i]
  BY <1>1, SMTT(30)
<1>3. Base' = Base
  BY <1>1, <1>2 DEF Base
<1>4. (\A n : Flushed(n)' <=> Flushed(n)) /\ (FilesInOrder' <=> FilesInOrder)
  BY <1>1 DEF Flushed, FilesInOrder
<1>5. Files'
  BY <1>1 DEF LogInv, Files
<1>6. \A i \in 1..Len(queue') : queue'[i] = Base + Len(line) + i
  <2>1. \A i \in 1..Len(queue) : queue[i] = Base + Len(line) + i
    BY DEF LogInv, Lines
  <2>2. accepted + 1 = Base + Len(line) + (Len(queue) + 1)
    BY <1>1 DEF Base
  <2> QED  BY <1>1, <1>2, <2>1, <2>2
<1> QED  BY <1>1, <1>3, <1>4, <1>5, <1>6 DEF LogInv, Lines

(* The writer takes the oldest line *)
LEMMA TakeLines ==
  ASSUME LogInv, Types', queue # <<>>, line = <<>>, line' = <<Head(queue)>>, queue' = Tail(queue),
         UNCHANGED <<accepted, files, now>>
  PROVE  Files' /\ Lines' /\ Base' = Base /\ lost' = lost /\ \A n : Flushed(n)' <=> Flushed(n)
<1>1. /\ queue \in Seq(Nat) /\ accepted \in Nat /\ accepted' = accepted
      /\ disk' = disk /\ made' = made /\ log' = log /\ reused' = reused /\ lost' = lost /\ now' = now
  BY DEF LogInv, Types, files
<1>2. /\ Len(queue) \in Nat \ {0} /\ Len(line) = 0 /\ Len(line') = 1 /\ line'[1] = queue[1]
      /\ Len(queue') = Len(queue) - 1 /\ \A i \in 1..Len(queue') : queue'[i] = queue[i + 1]
  BY <1>1
<1>3. Base' = Base /\ Base \in Int
  BY <1>1, <1>2 DEF Base
<1>4. (\A n : Flushed(n)' <=> Flushed(n)) /\ (FilesInOrder' <=> FilesInOrder)
  BY <1>1 DEF Flushed, FilesInOrder
<1>5. Files'
  BY <1>1 DEF LogInv, Files
<1>6. /\ \A i \in 1..Len(line') : line'[i] = Base + i
      /\ \A i \in 1..Len(queue') : queue'[i] = Base + Len(line') + i
  <2>1. \A i \in 1..Len(queue) : queue[i] = Base + i
    BY <1>2, <1>3 DEF LogInv, Lines
  <2> QED  BY <1>2, <1>3, <2>1
<1> QED  BY <1>1, <1>3, <1>4, <1>5, <1>6 DEF LogInv, Lines

(* A new file is the latest; a line goes with an old one of the second     *)
LEMMA CreateLines ==
  ASSUME LogInv, Types', CreateNewFile, UNCHANGED <<lines, now, lost>>
  PROVE  /\ Files' /\ Lines' /\ Base' = Base
         /\ reused => reused'
         /\ \A n : Flushed(n) /\ ~reused' => Flushed(n)'
<1>1. /\ disk \in [Seconds -> Seq(Nat)] /\ disk' = [disk EXCEPT ![now] = <<>>] /\ now \in Seconds
      /\ made' = made \cup {now} /\ log' = now /\ (reused' <=> reused \/ now \in made)
      /\ queue' = queue /\ line' = line /\ accepted' = accepted /\ now' = now
  BY DEF LogInv, Types, CreateNewFile, lines
<1>2. /\ disk'[now] = <<>> /\ Len(disk'[now]) = 0 /\ DOMAIN disk'[now] = {}
      /\ \A s \in Seconds : s # now => disk'[s] = disk[s]
  BY <1>1
<1>3. Base' = Base
  BY <1>1 DEF Base
<1>4. ASSUME NEW n, Flushed(n), ~reused' PROVE Flushed(n)'
  <2>1. disk[now] = <<>> /\ DOMAIN disk[now] = {}
    BY <1>1, <1>4 DEF LogInv, Files
  <2> QED  BY <1>2, <1>4, <2>1 DEF Flushed
<1>5. FilesInOrder'
  BY <1>2 DEF LogInv, Lines, FilesInOrder
<1>6. Files'
  <2>1. now \in Int /\ \A s \in made : s <= now
    BY <1>1 DEF LogInv, Files, Seconds
  <2> QED  BY <1>1, <1>2, <2>1, Distinct DEF LogInv, Files
<1>7. \A s \in Seconds : \A i \in 1..Len(disk'[s]) : disk'[s][i] <= Base
  BY <1>2 DEF LogInv, Lines
<1>8. Lines'
  BY <1>1, <1>3, <1>4, <1>5, <1>7 DEF LogInv, Lines
<1> QED  BY <1>1, <1>3, <1>4, <1>6, <1>8

(* What is written at the end of the open file x, a FATAL line or the next *)
LEMMA AppendLines ==
  ASSUME LogInv, Types', log # NoFile, NEW x \in Nat, x = Fatal \/ x = Base + 1,
         disk' = [disk EXCEPT ![log] = Append(@, x)], UNCHANGED <<made, log, now, reused, lost>>
  PROVE  /\ Files' /\ FilesInOrder' /\ lost' = lost /\ \A n : Flushed(n) => Flushed(n)'
         /\ Flushed(x)' /\ \A s \in Seconds : \A i \in 1..Len(disk'[s]) : disk'[s][i] = x \/ disk'[s][i] <= Base
<1>1. /\ disk \in [Seconds -> Seq(Nat)] /\ log \in Seconds /\ log \in made /\ disk[log] \in Seq(Nat)
      /\ \A s \in made : s <= log
      /\ made' = made /\ log' = log /\ now' = now
  BY DEF LogInv, Types, Files
<1>2. /\ disk'[log] = Append(disk[log], x)
      /\ \A s \in Seconds : s # log => disk'[s] = disk[s]
  BY <1>1
<1>3. /\ Len(disk[log]) \in Nat /\ Len(disk'[log]) = Len(disk[log]) + 1
      /\ DOMAIN disk[log] = 1..Len(disk[log]) /\ DOMAIN disk'[log] = 1..Len(disk'[log])
      /\ \A i \in 1..Len(disk[log]) : disk'[log][i] = disk[log][i]
      /\ disk'[log][Len(disk[log]) + 1] = x
  BY <1>1, <1>2
<1>4. \A s \in Seconds : DOMAIN disk[s] = 1..Len(disk[s]) /\ Len(disk[s]) \in Nat /\ s \in Int
  BY <1>1 DEF Seconds
<1>5. Base \in Int
  BY DEF LogInv, Types, Base
<1>6. \A s \in Seconds : \A i \in DOMAIN disk[s] : disk[s][i] \in Nat /\ disk[s][i] <= Base
  BY <1>1, <1>4 DEF LogInv, Lines
<1>7. \A r \in Seconds : log < r => DOMAIN disk[r] = {}
  BY <1>1, <1>4 DEF LogInv, Files
<1>8. \A s \in Seconds : \A i \in DOMAIN disk'[s] :
         \/ i \in DOMAIN disk[s] /\ disk'[s][i] = disk[s][i]
         \/ s = log /\ i = Len(disk[log]) + 1 /\ disk'[s][i] = x
  BY <1>2, <1>3
<1>9. FilesInOrder'
  <2> SUFFICES ASSUME NEW s \in Seconds, NEW r \in Seconds, NEW i \in DOMAIN disk'[s], NEW j \in DOMAIN disk'[r],
                      s < r \/ (s = r /\ i < j), disk'[s][i] # Fatal, disk'[r][j] # Fatal
               PROVE  disk'[s][i] < disk'[r][j]
    BY DEF FilesInOrder
  <2>1. CASE i \in DOMAIN disk[s] /\ disk'[s][i] = disk[s][i] /\ j \in DOMAIN disk[r] /\ disk'[r][j] = disk[r][j]
    BY <2>1 DEF LogInv, Lines, FilesInOrder
  <2>2. CASE i \in DOMAIN disk[s] /\ disk'[s][i] = disk[s][i] /\ disk'[r][j] = x
    BY <1>5, <1>6, <2>2
  <2>3. CASE s = log /\ i = Len(disk[log]) + 1 /\ disk'[s][i] = x
    <3>1. j \in DOMAIN disk'[log] => j <= i
      BY <1>3, <2>3
    <3>2. ~(s < r)
      <4>1. log < r => r # log
        BY <1>4, <1>1
      <4> QED  BY <1>2, <1>7, <2>3, <4>1
    <3> QED  BY <1>3, <2>3, <3>1, <3>2
  <2> QED  BY <1>8, <2>1, <2>2, <2>3
<1>10. Files'
  BY <1>1, <1>2 DEF LogInv, Files
<1>11. Flushed(x)' /\ lost' = lost /\ \A n : Flushed(n) => Flushed(n)'
  <2>1. Len(disk[log]) + 1 \in DOMAIN disk'[log]
    BY <1>3
  <2>2. \A s \in Seconds : \A i \in DOMAIN disk[s] : i \in DOMAIN disk'[s] /\ disk'[s][i] = disk[s][i]
    BY <1>2, <1>3
  <2> QED  BY <1>1, <1>3, <2>1, <2>2 DEF Flushed
<1>12. \A s \in Seconds : \A i \in 1..Len(disk'[s]) : disk'[s][i] = x \/ disk'[s][i] <= Base
  BY <1>2, <1>3, <1>4, <1>6, <1>8
<1> QED  BY <1>9, <1>10, <1>11, <1>12

(* The line of output with level FATAL *)
LEMMA FatalLines ==
  ASSUME LogInv, Types', log # NoFile, disk' = [disk EXCEPT ![log] = Append(@, Fatal)],
         UNCHANGED <<lines, made, log, now, reused, lost>>
  PROVE  Files' /\ Lines' /\ Base' = Base /\ lost' = lost /\ \A n : Flushed(n) => Flushed(n)'
<1>1. queue' = queue /\ line' = line /\ accepted' = accepted /\ reused' = reused /\ lost' = lost /\ Base \in Int /\ Base >= 0
  BY DEF lines, LogInv, Types, Lines, Base
<1>2. Base' = Base
  BY <1>1 DEF Base
<1>3. Fatal \in Nat /\ Fatal <= Base
  BY <1>1 DEF Fatal
<1>4. /\ Files' /\ FilesInOrder' /\ lost' = lost /\ \A n : Flushed(n) => Flushed(n)'
      /\ \A s \in Seconds : \A i \in 1..Len(disk'[s]) : disk'[s][i] <= Base
  BY <1>3, AppendLines
<1>5. Lines'
  BY <1>1, <1>2, <1>4 DEF LogInv, Lines
<1> QED  BY <1>2, <1>4, <1>5

(* A line at the end of a file *)
LEMMA OneMore ==
  ASSUME NEW s \in Seq(Nat), NEW r \in Seq(Nat), Len(r) = 1
  PROVE  s \o r = Append(s, r[1])
<1>1. r[1] \in Nat /\ <<r[1]>> \in Seq(Nat) /\ r = <<r[1]>>
  OBVIOUS
<1>2. PICK x \in Nat : x = r[1] /\ r = <<x>>
  BY <1>1
<1>3. Append(s, x) = s \o <<x>>
  BY AppendIsConcat
<1> QED  BY <1>2, <1>3

(* writeToFile *)
LEMMA WriteLines ==
  ASSUME LogInv, Types', log # NoFile, Len(line) = 1, disk' = [disk EXCEPT ![log] = @ \o line],
         line' = <<>>, UNCHANGED <<queue, accepted>>, UNCHANGED <<made, log, now, reused, lost>>
  PROVE  Files' /\ Lines' /\ lost' = lost /\ \A n : Flushed(n) => Flushed(n)'
<1>1. /\ queue \in Seq(Nat) /\ line \in Seq(Nat) /\ accepted \in Nat /\ disk \in [Seconds -> Seq(Nat)]
      /\ log \in Seconds /\ queue' = queue /\ accepted' = accepted /\ reused' = reused /\ lost' = lost
  BY DEF LogInv, Types
<1>2. Len(line') = 0 /\ Base' = Base + 1 /\ Base \in Int /\ Base >= 0
  BY <1>1 DEF Base, LogInv, Lines
<1>3. PICK x \in Nat : x = line[1] /\ x = Base + 1
  BY <1>1, <1>2 DEF LogInv, Lines
<1>4. disk[log] \o line = Append(disk[log], x)
  BY <1>1, <1>3, OneMore
<1>5. disk' = [disk EXCEPT ![log] = Append(@, x)]
  BY <1>4
<1>6. /\ Files' /\ FilesInOrder' /\ Flushed(x)' /\ lost' = lost /\ \A n : Flushed(n) => Flushed(n)'
      /\ \A s \in Seconds : \A i \in 1..Len(disk'[s]) : disk'[s][i] = x \/ disk'[s][i] <= Base
  BY <1>3, <1>5, AppendLines
<1>7. \A s \in Seconds : \A i \in 1..Len(disk'[s]) : disk'[s][i] <= Base'
  <2>1. disk' \in [Seconds -> Seq(Nat)]
    BY DEF Types
  <2>2. \A s \in Seconds : \A i \in 1..Len(disk'[s]) : disk'[s][i] \in Nat
    <3>1. \A q \in Seq(Nat) : \A i \in 1..Len(q) : q[i] \in Nat
      OBVIOUS
    <3> QED  BY <2>1, <3>1
  <2>3. \A y \in Nat : y = x \/ y <= Base => y <= Base'
    BY <1>2, <1>3
  <2> QED  BY <1>6, <2>2, <2>3
<1>8. ~reused => \A n \in (1..Base') \ lost' : Flushed(n)'
  <2>1. \A n \in 1..Base' : n \in 1..Base \/ n = x
    BY <1>2, <1>3
  <2>2. ~reused => \A n \in (1..Base) \ lost : Flushed(n)
    BY DEF LogInv, Lines
  <2> QED  BY <1>6, <2>1, <2>2
<1>0. lost' \subseteq 1..Base'
  BY <1>2, <1>6 DEF LogInv, Lines
<1>9. \A i \in 1..Len(queue) : queue[i] = Base' + Len(line') + i
  BY <1>1, <1>2 DEF LogInv, Lines
<1>10. Lines'
  BY <1>0, <1>1, <1>2, <1>6, <1>7, <1>8, <1>9 DEF Lines
<1> QED  BY <1>6, <1>10

(* writeToFile with an fflush that fails: the line leaves the writer's     *)
(* hands for no file                                                       *)
LEMMA LoseLine ==
  ASSUME LogInv, Types', Len(line) = 1, line' = <<>>, lost' = lost \cup {line[1]},
         UNCHANGED <<queue, accepted>>, UNCHANGED <<disk, made, log, now, reused>>
  PROVE  Files' /\ Lines' /\ \A n : Flushed(n)' <=> Flushed(n)
<1>1. /\ queue \in Seq(Nat) /\ line \in Seq(Nat) /\ accepted \in Nat /\ disk \in [Seconds -> Seq(Nat)]
      /\ queue' = queue /\ accepted' = accepted /\ reused' = reused /\ disk' = disk
  BY DEF LogInv, Types
<1>2. Len(line') = 0 /\ Base' = Base + 1 /\ Base \in Int /\ Base >= 0
  BY <1>1 DEF Base, LogInv, Lines
<1>3. line[1] = Base + 1
  BY <1>1, <1>2 DEF LogInv, Lines
<1>4. (\A n : Flushed(n)' <=> Flushed(n)) /\ (FilesInOrder' <=> FilesInOrder)
  BY <1>1 DEF Flushed, FilesInOrder
<1>5. Files'
  BY DEF LogInv, Files
<1>6. \A s \in Seconds : \A i \in 1..Len(disk'[s]) : disk'[s][i] <= Base'
  <2>1. \A s \in Seconds : \A i \in 1..Len(disk[s]) : disk[s][i] \in Nat /\ disk[s][i] <= Base
    <3>1. \A q \in Seq(Nat) : \A i \in 1..Len(q) : q[i] \in Nat
      OBVIOUS
    <3> QED  BY <1>1, <3>1 DEF LogInv, Lines
  <2> QED  BY <1>1, <1>2, <2>1
<1>7. ~reused => \A n \in (1..Base') \ lost' : Flushed(n)'
  <2>1. \A n \in (1..Base') \ lost' : n \in (1..Base) \ lost
    BY <1>2, <1>3
  <2> QED  BY <1>4, <2>1 DEF LogInv, Lines
<1>8. lost' \subseteq 1..Base'
  BY <1>2, <1>3 DEF LogInv, Lines
<1>9. \A i \in 1..Len(queue) : queue[i] = Base' + Len(line') + i
  BY <1>1, <1>2 DEF LogInv, Lines
<1>10. Lines'
  BY <1>1, <1>2, <1>4, <1>6, <1>7, <1>8, <1>9 DEF LogInv, Lines
<1> QED  BY <1>4, <1>5, <1>10
----------------------------------------------------------------------------
(* A thread goes to another place in the code *)
LEMMA Going ==
  ASSUME Types, NEW t \in All, NEW l \in Labels, Goto(t, l)
  PROVE  pc' \in [All -> Labels] /\ pc'[t] = l /\ \A u \in All : u # t => pc'[u] = pc[u]
BY DEF Goto, Types

(* A notified writer leaves its wait *)
LEMMA WakingUp ==
  ASSUME Types, NEW f \in [All -> Labels], pc' = [f EXCEPT ![Writer] = Woken]
  PROVE  /\ pc' \in [All -> Labels] /\ pc'[Writer] = Woken /\ Woken \in Labels
         /\ \A u \in All : u # Writer => pc'[u] = f[u]
<1>1. Woken \in Labels
  BY Distinct DEF Types, Woken, Labels
<1> QED  BY <1>1, Distinct

(* The labels a thread returns to *)
LEMMA PushGoing ==
  ASSUME Types, NEW t \in Threads,
         pc' = [pc EXCEPT ![t] = IF t = Main THEN "loop" ELSE "idle", ![Writer] = Woken]
  PROVE  /\ pc' \in [All -> Labels] /\ pc'[t] = (IF t = Main THEN "loop" ELSE "idle")
         /\ pc'[Writer] = Woken /\ \A u \in All : u \notin {t, Writer} => pc'[u] = pc[u]
<1> DEFINE f == [pc EXCEPT ![t] = IF t = Main THEN "loop" ELSE "idle"]
<1>1. t \in All /\ t # Writer
  BY Distinct
<1>2. f \in [All -> Labels] /\ f[t] = (IF t = Main THEN "loop" ELSE "idle") /\ \A u \in All : u # t => f[u] = pc[u]
  BY <1>1 DEF Types, Labels
<1>3. pc' = [f EXCEPT ![Writer] = Woken]
  OBVIOUS
<1> HIDE DEF f
<1> QED  BY <1>1, <1>2, <1>3, WakingUp

(* So does the main thread that notifies *)
LEMMA NotifyGoing ==
  ASSUME Types, pc' = [pc EXCEPT ![Main] = "join", ![Writer] = Woken]
  PROVE  /\ pc' \in [All -> Labels] /\ pc'[Main] = "join"
         /\ pc'[Writer] = Woken /\ \A u \in All : u \notin {Main, Writer} => pc'[u] = pc[u]
<1> DEFINE f == [pc EXCEPT ![Main] = "join"]
<1>1. Main \in All /\ Main # Writer
  BY Distinct
<1>2. f \in [All -> Labels] /\ f[Main] = "join" /\ \A u \in All : u # Main => f[u] = pc[u]
  BY <1>1 DEF Types, Labels
<1>3. pc' = [f EXCEPT ![Writer] = Woken]
  OBVIOUS
<1> HIDE DEF f
<1> QED  BY <1>1, <1>2, <1>3, WakingUp

(* A step of resetHandler *)
LEMMA Handling1 ==
  ASSUME Types, NEW t \in All, NEW h \in Handling, handler' = [handler EXCEPT ![t] = h]
  PROVE  handler' \in [All -> Handling] /\ handler'[t] = h /\ \A u \in All : u # t => handler'[u] = handler[u]
BY DEF Types

(* What a step does that leaves the lock, the writer's file or the exit    *)
(* alone                                                                   *)
LockSilent ==
    /\ UNCHANGED <<handler, mutex, accepted, signalled>>
    /\ \A u \in All : pc'[u] = pc[u] \/ pc'[u] \notin {"push", "test", "park"}

WriteSilent ==
    /\ UNCHANGED <<line, written>>
    /\ pc'[Writer] = pc[Writer] \/ (pc[Writer] = "waiting" /\ pc'[Writer] = "woken")

Ended == {"notify", "join", "return"}

ExitSilent ==
    /\ UNCHANGED <<exit, due>> /\ accepted <= accepted'
    /\ (reused => reused') /\ lost \subseteq lost'
    /\ \A n : Flushed(n) /\ ~reused' => Flushed(n)'
    /\ pc'[Main] \in Ended <=> pc[Main] \in Ended
    /\ pc'[Main] = "return" => pc[Main] = "return"
    /\ pc'[Writer] = "done" => pc[Writer] = "done"
    /\ pc[Writer] \in {"done", "failed"} => pc'[Writer] = pc[Writer]

(* Such a step keeps what the invariant says of the lock, ... *)
LEMMA LockSilentInv == ASSUME LogInv, LockSilent PROVE Locking'
BY Distinct DEF LogInv, LockSilent, Locking

(* the writer's room in the file, ... *)
LEMMA WriteSilentInv == ASSUME LogInv, WriteSilent PROVE Writing'
BY DEF LogInv, WriteSilent, Writing

(* ... the order of the exit *)
LEMMA ExitSilentInv == ASSUME LogInv, Types', ExitSilent PROVE Exiting'
<1>1. accepted \in Nat /\ accepted' \in Nat /\ due \in Nat /\ due' = due /\ exit' = exit
  BY DEF LogInv, Types, ExitSilent
<1>2. (exit <=> pc[Main] \in Ended) /\ due <= accepted
  BY DEF LogInv, Exiting, Ended
<1>3. exit' <=> pc'[Main] \in Ended
  BY <1>1, <1>2 DEF ExitSilent
<1>4. due' <= accepted'
  BY <1>1, <1>2 DEF ExitSilent
<1>5. pc'[Writer] = "done" => exit' /\ (~reused' => \A n \in (1..due') \ lost' : Flushed(n)')
  BY <1>1 DEF LogInv, Exiting, ExitSilent
<1>6. pc'[Main] = "return" => pc'[Writer] \in {"done", "failed"}
  BY DEF LogInv, Exiting, ExitSilent
<1> QED  BY <1>3, <1>4, <1>5, <1>6 DEF Exiting, Ended
----------------------------------------------------------------------------
(* output takes the mutex *)
LEMMA OutputInv ==
  ASSUME LogInv, NEW t \in Threads, Output(t)
  PROVE  LogInv'
<1> USE Distinct
<1>1. t \in All /\ "push" \in Labels /\ t # Writer /\ Types
  BY DEF Labels, LogInv
<1>2. pc' \in [All -> Labels] /\ pc'[t] = "push" /\ \A u \in All : u # t => pc'[u] = pc[u]
  BY <1>1, Going DEF Output
<1>3. /\ handler' = handler /\ mutex = Nobody /\ mutex' = t /\ accepted < MaxLines /\ handler[t] = "none"
      /\ UNCHANGED <<queue, line, accepted, signalled, quit, dead, exit, due, now, disk, made, log, written, reused, lost>>
      /\ pc[t] = (IF t = Main THEN "loop" ELSE "idle")
  BY DEF Output, Ready, At, lines, process, files
<1>4. Types'
  BY <1>1, <1>2, <1>3 DEF Types
<1>5. Locking'
  BY <1>1, <1>2, <1>3 DEF LogInv, Locking
<1>6. Silent
  BY <1>1, <1>3 DEF Silent, Types, Seconds
<1>7. Files' /\ Lines' /\ lost' = lost /\ \A n : Flushed(n)' <=> Flushed(n)
  BY <1>4, <1>6, SilentLines
<1>8. Writing'
  BY <1>1, <1>2, <1>3, WriteSilentInv DEF WriteSilent
<1>9. ExitSilent
  BY <1>1, <1>2, <1>3, <1>7 DEF ExitSilent, Ended, Types
<1> QED  BY <1>4, <1>5, <1>7, <1>8, <1>9, ExitSilentInv DEF LogInv

(* output queues the line and notifies the writer *)
LEMMA PushInv ==
  ASSUME LogInv, NEW t \in Threads, Push(t)
  PROVE  LogInv'
<1> USE Distinct
<1>1. t \in All /\ t # Writer /\ Types
  BY DEF LogInv
<1>2. /\ pc' \in [All -> Labels] /\ pc'[t] = (IF t = Main THEN "loop" ELSE "idle")
      /\ pc'[Writer] = Woken /\ \A u \in All : u \notin {t, Writer} => pc'[u] = pc[u]
  BY <1>1, PushGoing DEF Push
<1>3. /\ handler' = handler /\ mutex' = Nobody /\ handler[t] = "none" /\ pc[t] = "push"
      /\ queue' = Append(queue, accepted + 1) /\ accepted' = accepted + 1
      /\ UNCHANGED <<line, signalled, quit, dead, exit, due, now, disk, made, log, written, reused, lost>>
  BY DEF Push, Queue, At, process, files
<1>4. accepted \in Nat /\ queue \in Seq(Nat)
  BY <1>1 DEF Types
<1>5. Types'
  <2>1. accepted' \in Nat /\ queue' \in Seq(Nat)
    BY <1>3, <1>4
  <2> QED  BY <1>1, <1>2, <1>3, <2>1 DEF Types
<1>6. Locking'
  <2>1. mutex = t /\ accepted < MaxLines
    BY <1>3 DEF LogInv, Locking
  <2>2. \A u \in Threads : u # t => pc[u] # "push"
    BY <2>1 DEF LogInv, Locking
  <2>3. pc[Writer] \notin {"test", "park"} /\ pc'[Writer] \notin {"test", "park", "push"}
    BY <1>1, <1>2, <2>1 DEF LogInv, Locking, Woken
  <2>4. \A u \in All : handler[u] # "push"
    BY <1>1, <1>3, <2>1 DEF LogInv, Locking
  <2>5. \A u \in Threads : pc'[u] # "push"
    BY <1>2, <2>2
  <2>6. accepted' <= MaxLines
    BY <1>3, <1>4, <2>1
  <2>7. \A u, v \in All : handler[u] # "none" /\ handler[v] # "none" => u = v
    BY DEF LogInv, Locking
  <2>8. \A u \in All : handler[u] # "none" => signalled
    BY DEF LogInv, Locking
  <2>9. accepted' <= MaxLines + 1
    BY <1>3, <1>4, <2>6
  <2> QED  BY <1>3, <2>3, <2>4, <2>5, <2>6, <2>7, <2>8, <2>9 DEF Locking
<1>7. Files' /\ Lines' /\ lost' = lost /\ \A n : Flushed(n)' <=> Flushed(n)
  BY <1>3, <1>5, QueueLines DEF Queue, Push, files
<1>8. Writing'
  BY <1>2, <1>3, WriteSilentInv DEF WriteSilent, Woken
<1>9. pc'[Main] \in Ended <=> pc[Main] \in Ended
  BY <1>1, <1>2, <1>3 DEF Ended
<1>10. ExitSilent
  BY <1>1, <1>2, <1>3, <1>4, <1>7, <1>9 DEF ExitSilent, Woken
<1> QED  BY <1>5, <1>6, <1>7, <1>8, <1>10, ExitSilentInv DEF LogInv

(* A FATAL line finds no open file and opens one, or does not *)
LEMMA FatalInv ==
  ASSUME LogInv, NEW t \in Threads,
         OutputFatal(t) \/ FatalOpen(t) \/ FatalOpenFails(t) \/ FatalWrite(t) \/ Crash(t)
  PROVE  LogInv'
<1> USE Distinct
<1>1. t \in All /\ t # Writer /\ Types
  BY DEF LogInv
<1>2. PICK l \in Labels \ (Ended \cup {"push", "test", "park"}) : Goto(t, l) \/ UNCHANGED pc
  BY DEF OutputFatal, FatalOpen, FatalOpenFails, FatalWrite, Crash, Labels, Ended
<1>3. pc[t] \notin Ended
  BY DEF OutputFatal, FatalOpen, FatalOpenFails, FatalWrite, Crash, Ready, At, Ended
<1>4. pc' \in [All -> Labels] /\ (pc'[t] = l \/ pc'[t] = pc[t]) /\ \A u \in All : u # t => pc'[u] = pc[u]
  <2>1. CASE Goto(t, l)
    BY <1>1, <1>2, <2>1, Going
  <2>2. CASE UNCHANGED pc
    BY <1>1, <2>2 DEF Types
  <2> QED  BY <1>2, <2>1, <2>2
<1>5. /\ UNCHANGED <<handler, mutex, queue, line, accepted, signalled, quit, exit, due, now, written, lost>>
      /\ dead' \in {dead, TRUE}
  BY DEF OutputFatal, FatalOpen, FatalOpenFails, FatalWrite, Crash, lines, process, files
<1>6. /\ disk' \in [Seconds -> Seq(Nat)] /\ made' \in SUBSET Seconds /\ log' \in Seconds \cup {NoFile}
      /\ reused' \in BOOLEAN
  <2>1. CASE FatalOpen(t)
    BY <1>1, <2>1 DEF FatalOpen, CreateNewFile, Types
  <2>2. CASE FatalWrite(t)
    <3>1. \A s \in Seconds : Append(disk[s], Fatal) \in Seq(Nat)
      BY <1>1 DEF Types, Fatal
    <3> QED  BY <1>1, <2>2, <3>1, ZenonT(40) DEF FatalWrite, Types
  <2>3. CASE OutputFatal(t) \/ FatalOpenFails(t) \/ Crash(t)
    BY <1>1, <2>3 DEF OutputFatal, FatalOpenFails, Crash, Types, files
  <2> QED  BY <2>1, <2>2, <2>3
<1>7. Types'
  BY <1>1, <1>4, <1>5, <1>6 DEF Types
<1>8. Files' /\ Lines' /\ (reused => reused') /\ lost' = lost /\ \A n : Flushed(n) /\ ~reused' => Flushed(n)'
  <2>1. CASE FatalOpen(t)
    <3>1. CreateNewFile /\ UNCHANGED <<lines, now, lost>>
      BY <2>1 DEF FatalOpen
    <3> QED  BY <1>7, <3>1, CreateLines
  <2>2. CASE FatalWrite(t) /\ disk' # disk
    BY <1>7, <2>2, FatalLines DEF FatalWrite
  <2>3. CASE OutputFatal(t) \/ FatalOpenFails(t) \/ Crash(t) \/ (FatalWrite(t) /\ disk' = disk)
    <3>1. Silent
      BY <1>1, <1>5, <2>3 DEF OutputFatal, FatalOpenFails, Crash, FatalWrite, files, Silent, Types, Seconds
    <3>2. reused' = reused /\ lost' = lost
      BY <3>1 DEF Silent
    <3> QED  BY <1>7, <3>1, <3>2, SilentLines
  <2> QED  BY <2>1, <2>2, <2>3
<1>9. Locking'
  BY <1>2, <1>4, <1>5, LockSilentInv DEF LockSilent
<1>10. Writing'
  BY <1>1, <1>4, <1>5, WriteSilentInv DEF WriteSilent
<1>11. pc'[Main] \in Ended <=> pc[Main] \in Ended
  BY <1>2, <1>3, <1>4
<1>12. ExitSilent
  BY <1>1, <1>2, <1>3, <1>4, <1>5, <1>8, <1>11 DEF ExitSilent, Types, Ended
<1> QED  BY <1>7, <1>8, <1>9, <1>10, <1>12, ExitSilentInv DEF LogInv
----------------------------------------------------------------------------
(* Before it takes the mutex, the writer opens a new file if it must, and  *)
(* returns when it cannot                                                  *)
LEMMA RollInv ==
  ASSUME LogInv, CheckRoll \/ Roll \/ RollFails
  PROVE  LogInv'
<1> USE Distinct
<1>1. Types
  BY DEF LogInv
<1>2. PICK l \in {"create", "lock", "failed"} : Goto(Writer, l)
  BY DEF CheckRoll, Roll, RollFails
<1>3. pc' \in [All -> Labels] /\ pc'[Writer] = l /\ \A u \in All : u # Writer => pc'[u] = pc[u]
  BY <1>1, <1>2, Going DEF Labels
<1>4. pc[Writer] \in {"top", "create"}
  BY DEF CheckRoll, Roll, RollFails, At
<1>5. UNCHANGED <<handler, mutex, queue, line, accepted, signalled, quit, exit, due, now, dead>>
  BY DEF CheckRoll, Roll, RollFails, lines, process
<1>6. Types'
  <2>1. CASE CheckRoll
    BY <1>1, <1>3, <1>5, <2>1 DEF CheckRoll, Types, files
  <2>2. CASE Roll
    BY <1>1, <1>3, <1>5, <2>2 DEF Roll, CreateNewFile, Types
  <2>3. CASE RollFails
    BY <1>1, <1>3, <1>5, <2>3 DEF RollFails, Types
  <2> QED  BY <2>1, <2>2, <2>3
<1>7. Files' /\ Lines' /\ (reused => reused') /\ lost' = lost /\ \A n : Flushed(n) /\ ~reused' => Flushed(n)'
  <2>1. CASE Roll
    <3>1. CreateNewFile /\ UNCHANGED <<lines, now, lost>>
      BY <2>1 DEF Roll
    <3> QED  BY <1>6, <3>1, CreateLines
  <2>2. CASE CheckRoll \/ RollFails
    <3>1. Silent
      BY <1>1, <1>5, <2>2 DEF CheckRoll, RollFails, files, Silent, Types, Seconds
    <3>2. reused' = reused /\ lost' = lost
      BY <3>1 DEF Silent
    <3> QED  BY <1>6, <3>1, <3>2, SilentLines
  <2> QED  BY <2>1, <2>2
<1>8. Locking'
  BY <1>3, <1>5, LockSilentInv DEF LockSilent
<1>9. Writing'
  <2>1. line = <<>> /\ line' = <<>> /\ Len(<<>>) = 0
    BY <1>4, <1>5 DEF LogInv, Writing
  <2>2. written' <= RollSize /\ (pc'[Writer] = "lock" => written' < RollSize)
    <3>1. CASE CheckRoll
      <4>1. written' = written /\ pc'[Writer] = (IF log = NoFile \/ written >= RollSize THEN "create" ELSE "lock")
        BY <1>1, <3>1 DEF CheckRoll, files, Goto, Types
      <4>2. written \in Nat /\ written <= RollSize
        BY <1>1 DEF Types, LogInv, Writing
      <4> QED  BY <4>1, <4>2
    <3>2. CASE Roll \/ RollFails
      BY <3>2 DEF Roll, RollFails
    <3> QED  BY <3>1, <3>2
  <2> QED  BY <1>3, <2>1, <2>2 DEF Writing
<1>10. ExitSilent
  BY <1>1, <1>3, <1>4, <1>5, <1>7 DEF ExitSilent, Types
<1> QED  BY <1>6, <1>7, <1>8, <1>9, <1>10, ExitSilentInv DEF LogInv

(* The writer takes the mutex, lets go of it in wait, or is woken *)
LEMMA WaitInv ==
  ASSUME LogInv, WriterLock \/ DecideToWait \/ Park \/ WakeUp \/ SpuriousWakeUp
  PROVE  LogInv'
<1> USE Distinct
<1>1. Types
  BY DEF LogInv
<1>2. PICK l \in {"test", "park", "waiting", "woken"} : Goto(Writer, l)
  BY DEF WriterLock, DecideToWait, Park, WakeUp, SpuriousWakeUp
<1>3. pc' \in [All -> Labels] /\ pc'[Writer] = l /\ \A u \in All : u # Writer => pc'[u] = pc[u]
  BY <1>1, <1>2, Going DEF Labels
<1>4. pc[Writer] \in {"lock", "test", "park", "waiting", "woken"} /\ handler[Writer] = "none"
  BY DEF WriterLock, DecideToWait, Park, WakeUp, SpuriousWakeUp, At
<1>5. /\ UNCHANGED <<handler, queue, line, accepted, signalled, quit, exit, due, now, dead>>
      /\ UNCHANGED <<disk, made, log, written, reused, lost>>
  BY DEF WriterLock, DecideToWait, Park, WakeUp, SpuriousWakeUp, lines, process, files
<1>6. mutex' \in All \cup {Nobody}
  BY <1>1 DEF WriterLock, DecideToWait, Park, WakeUp, SpuriousWakeUp, Types
<1>7. Types'
  BY <1>1, <1>3, <1>5, <1>6 DEF Types
<1>8. Silent
  BY <1>1, <1>5 DEF Silent, Types, Seconds
<1>9. Files' /\ Lines' /\ lost' = lost /\ \A n : Flushed(n)' <=> Flushed(n)
  BY <1>7, <1>8, SilentLines
<1>10. Locking'
  <2>1. CASE WriterLock \/ WakeUp
    <3>1. mutex = Nobody /\ mutex' = Writer /\ pc'[Writer] = "test"
      BY <1>1, <2>1 DEF WriterLock, WakeUp, Goto, Types
    <3> QED  BY <1>3, <1>4, <1>5, <3>1 DEF LogInv, Locking
  <2>2. CASE DecideToWait
    <3>1. mutex' = mutex /\ pc'[Writer] = "park" /\ pc[Writer] = "test"
      BY <1>1, <2>2 DEF DecideToWait, Goto, Types, At
    <3> QED  BY <1>3, <1>4, <1>5, <3>1 DEF LogInv, Locking
  <2>3. CASE Park
    <3>1. mutex' = Nobody /\ pc'[Writer] = "waiting" /\ pc[Writer] = "park"
      BY <1>1, <2>3 DEF Park, Goto, Types, At
    <3>2. mutex = Writer
      BY <3>1 DEF LogInv, Locking
    <3> QED  BY <1>3, <1>4, <1>5, <3>1, <3>2 DEF LogInv, Locking
  <2>4. CASE SpuriousWakeUp
    <3>1. mutex' = mutex /\ pc'[Writer] = "woken"
      BY <1>1, <2>4 DEF SpuriousWakeUp, Goto, Types
    <3> QED  BY <1>3, <1>5, <3>1, LockSilentInv DEF LockSilent
  <2> QED  BY <2>1, <2>2, <2>3, <2>4
<1>11. Writing'
  BY <1>3, <1>4, <1>5 DEF LogInv, Writing
<1>12. ExitSilent
  BY <1>1, <1>3, <1>4, <1>5, <1>9 DEF ExitSilent, Types
<1> QED  BY <1>7, <1>9, <1>10, <1>11, <1>12, ExitSilentInv DEF LogInv
----------------------------------------------------------------------------
(* The writer takes a line, ... *)
LEMMA TakeInv ==
  ASSUME LogInv, Take
  PROVE  LogInv'
<1> USE Distinct
<1>1. Types
  BY DEF LogInv
<1>2. pc' \in [All -> Labels] /\ pc'[Writer] = "write" /\ \A u \in All : u # Writer => pc'[u] = pc[u]
  BY <1>1, Going DEF Take, Labels
<1>3. /\ pc[Writer] = "test" /\ handler[Writer] = "none" /\ queue # <<>> /\ line' = <<Head(queue)>>
      /\ queue' = Tail(queue) /\ mutex' = Nobody
      /\ UNCHANGED <<handler, accepted, signalled, quit, exit, due, now, dead, disk, made, log, written, reused, lost>>
  BY DEF Take, At, process, files
<1>4. line = <<>> /\ written < RollSize
  BY <1>3 DEF LogInv, Writing
<1>5. Types'
  <2>1. queue \in Seq(Nat)
    BY <1>1 DEF Types
  <2>2. queue' \in Seq(Nat) /\ line' \in Seq(Nat)
    BY <1>3, <2>1
  <2> QED  BY <1>1, <1>2, <1>3, <2>2 DEF Types
<1>6. Files' /\ Lines' /\ lost' = lost /\ \A n : Flushed(n)' <=> Flushed(n)
  BY <1>3, <1>4, <1>5, TakeLines DEF files
<1>7. Locking'
  <2>1. mutex = Writer
    BY <1>3 DEF LogInv, Locking
  <2> QED  BY <1>2, <1>3, <2>1 DEF LogInv, Locking
<1>8. Writing'
  <2>1. Len(line') = 1
    BY <1>3
  <2> QED  BY <1>2, <1>3, <1>4, <2>1 DEF LogInv, Writing
<1>9. ExitSilent
  BY <1>1, <1>2, <1>3, <1>6 DEF ExitSilent, Types
<1> QED  BY <1>5, <1>6, <1>7, <1>8, <1>9, ExitSilentInv DEF LogInv

(* ... writes it ... *)
LEMMA WriteLineInv ==
  ASSUME LogInv, WriteLine
  PROVE  LogInv'
<1> USE Distinct
<1>1. Types
  BY DEF LogInv
<1>2. pc' \in [All -> Labels] /\ pc'[Writer] = "top" /\ \A u \in All : u # Writer => pc'[u] = pc[u]
  BY <1>1, Going DEF WriteLine, Labels
<1>3. /\ pc[Writer] = "write" /\ log # NoFile /\ disk' = [disk EXCEPT ![log] = @ \o line]
      /\ line' = <<>> /\ written' = written + 1
      /\ UNCHANGED <<handler, mutex, queue, accepted, signalled, quit, exit, due, now, dead, made, log, reused, lost>>
  BY DEF WriteLine, At, process
<1>4. Len(line) = 1 /\ written < RollSize /\ written \in Nat
  BY <1>1, <1>3 DEF LogInv, Writing, Types
<1>5. Types'
  <2>1. line \in Seq(Nat) /\ disk \in [Seconds -> Seq(Nat)]
    BY <1>1 DEF Types
  <2>2. \A s \in Seconds : disk[s] \o line \in Seq(Nat)
    BY <2>1
  <2>3. disk' \in [Seconds -> Seq(Nat)]
    BY <1>3, <2>1, <2>2
  <2>4. line' \in Seq(Nat) /\ written' \in Nat
    BY <1>3, <1>4
  <2> QED  BY <1>1, <1>2, <1>3, <2>3, <2>4 DEF Types
<1>6. Files' /\ Lines' /\ lost' = lost /\ \A n : Flushed(n) => Flushed(n)'
  BY <1>3, <1>4, <1>5, WriteLines
<1>7. Locking'
  BY <1>2, <1>3, LockSilentInv DEF LockSilent
<1>8. Writing'
  BY <1>2, <1>3, <1>4 DEF Writing
<1>9. ExitSilent
  BY <1>1, <1>2, <1>3, <1>6 DEF ExitSilent, Types
<1> QED  BY <1>5, <1>6, <1>7, <1>8, <1>9, ExitSilentInv DEF LogInv

(* ... or fflush cannot, and the writer goes on ... *)
LEMMA FlushFailsInv ==
  ASSUME LogInv, FlushFails
  PROVE  LogInv'
<1> USE Distinct
<1>1. Types
  BY DEF LogInv
<1>2. pc' \in [All -> Labels] /\ pc'[Writer] = "top" /\ \A u \in All : u # Writer => pc'[u] = pc[u]
  BY <1>1, Going DEF FlushFails, Labels
<1>3. /\ pc[Writer] = "write" /\ line' = <<>> /\ written' = written + 1 /\ lost' = lost \cup {line[1]}
      /\ UNCHANGED <<handler, mutex, queue, accepted, signalled, quit, exit, due, now, dead>>
      /\ UNCHANGED <<disk, made, log, reused>>
  BY DEF FlushFails, At, process
<1>4. Len(line) = 1 /\ written < RollSize /\ written \in Nat
  BY <1>1, <1>3 DEF LogInv, Writing, Types
<1>5. Types'
  <2>1. line \in Seq(Nat)
    BY <1>1 DEF Types
  <2>2. line[1] \in Nat
    BY <1>4, <2>1
  <2>4. line' \in Seq(Nat) /\ written' \in Nat
    BY <1>3, <1>4
  <2>3. lost' \in SUBSET Nat
    BY <1>1, <1>3, <2>2 DEF Types
  <2> QED  BY <1>1, <1>2, <1>3, <2>3, <2>4 DEF Types
<1>6. Files' /\ Lines' /\ \A n : Flushed(n)' <=> Flushed(n)
  BY <1>3, <1>4, <1>5, LoseLine
<1>7. Locking'
  BY <1>2, <1>3, LockSilentInv DEF LockSilent
<1>8. Writing'
  BY <1>2, <1>3, <1>4 DEF Writing
<1>9. ExitSilent
  BY <1>1, <1>2, <1>3, <1>6 DEF ExitSilent, Types
<1> QED  BY <1>5, <1>6, <1>7, <1>8, <1>9, ExitSilentInv DEF LogInv

(* ... or cannot: it gives up, or the process crashes *)
LEMMA WriteFailsInv ==
  ASSUME LogInv, WriteFails \/ WriteToNull
  PROVE  LogInv'
<1> USE Distinct
<1>1. Types
  BY DEF LogInv
<1>2. /\ UNCHANGED <<handler, mutex, queue, line, accepted, signalled, quit, exit, due, now>>
      /\ UNCHANGED <<disk, made, log, written, reused, lost>> /\ dead' \in {dead, TRUE} /\ pc[Writer] = "write"
  BY DEF WriteFails, WriteToNull, At, lines, process, files
<1>3. /\ pc' \in [All -> Labels] /\ pc'[Writer] \in {"write", "failed"}
      /\ \A u \in All : u # Writer => pc'[u] = pc[u]
  <2>1. CASE WriteFails
    BY <1>1, <2>1, Going DEF WriteFails, Labels
  <2>2. CASE WriteToNull
    BY <1>1, <1>2, <2>2 DEF WriteToNull, Types
  <2> QED  BY <2>1, <2>2
<1>4. Types'
  BY <1>1, <1>2, <1>3 DEF Types
<1>5. Silent
  BY <1>1, <1>2 DEF Silent, Types, Seconds
<1>6. Files' /\ Lines' /\ lost' = lost /\ \A n : Flushed(n)' <=> Flushed(n)
  BY <1>4, <1>5, SilentLines
<1>7. Locking'
  BY <1>2, <1>3, LockSilentInv DEF LockSilent
<1>8. Writing'
  <2>1. Len(line) <= 1 /\ (pc'[Writer] = "write" => Len(line) = 1)
    BY <1>2 DEF LogInv, Writing
  <2> QED  BY <1>2, <1>3, <2>1 DEF LogInv, Writing
<1>9. ExitSilent
  BY <1>1, <1>2, <1>3, <1>6 DEF ExitSilent, Types
<1> QED  BY <1>4, <1>6, <1>7, <1>8, <1>9, ExitSilentInv DEF LogInv

(* The writer returns with nothing in its queue or in its hands, so that   *)
(* every line queued so far is in a file or was lost to fflush             *)
LEMMA WriterReturnsInv ==
  ASSUME LogInv, WriterReturns
  PROVE  LogInv'
<1> USE Distinct
<1>1. Types
  BY DEF LogInv
<1>2. pc' \in [All -> Labels] /\ pc'[Writer] = "done" /\ \A u \in All : u # Writer => pc'[u] = pc[u]
  BY <1>1, Going DEF WriterReturns, Labels
<1>3. /\ pc[Writer] = "test" /\ handler[Writer] = "none" /\ queue = <<>> /\ exit /\ mutex' = Nobody
      /\ UNCHANGED <<handler, queue, line, accepted, signalled, quit, exit, due, now, dead>>
      /\ UNCHANGED <<disk, made, log, written, reused, lost>>
  BY DEF WriterReturns, At, lines, process, files
<1>4. Types'
  BY <1>1, <1>2, <1>3 DEF Types
<1>5. Silent
  BY <1>1, <1>3 DEF Silent, Types, Seconds
<1>6. Files' /\ Lines' /\ lost' = lost /\ \A n : Flushed(n)' <=> Flushed(n)
  BY <1>4, <1>5, SilentLines
<1>7. Locking'
  <2>1. mutex = Writer
    BY <1>3 DEF LogInv, Locking
  <2> QED  BY <1>2, <1>3, <2>1 DEF LogInv, Locking
<1>8. Writing'
  BY <1>2, <1>3 DEF LogInv, Writing
<1>9. Exiting'
  <2>1. accepted \in Nat /\ due \in Nat /\ due <= accepted
    BY <1>1 DEF Types, LogInv, Exiting
  <2>2. Base = accepted
    <3>1. line = <<>> /\ Len(<<>>) = 0
      BY <1>3 DEF LogInv, Writing
    <3> QED  BY <1>3, <2>1, <3>1 DEF Base
  <2>3. ~reused => \A n \in (1..due) \ lost : Flushed(n)
    BY <2>1, <2>2 DEF LogInv, Lines
  <2>4. (exit <=> pc[Main] \in {"notify", "join", "return"}) /\ pc'[Main] = pc[Main]
    BY <1>2 DEF LogInv, Exiting
  <2> QED  BY <1>2, <1>3, <1>6, <2>1, <2>3, <2>4 DEF Exiting
<1> QED  BY <1>4, <1>6, <1>7, <1>8, <1>9 DEF LogInv
----------------------------------------------------------------------------
(* SIGINT comes, once, and its handler waits for the mutex or calls quit *)
LEMMA SignalInv ==
  ASSUME LogInv, NEW t \in All, Signal(t) \/ HandlerLock(t) \/ HandlerQuit(t)
  PROVE  LogInv'
<1> USE Distinct
<1>1. Types
  BY DEF LogInv
<1>2. PICK h \in Handling : handler' = [handler EXCEPT ![t] = h] /\ h \in {"none", "lock", "push"}
  BY DEF Signal, HandlerLock, HandlerQuit, Handling
<1>3. handler' \in [All -> Handling] /\ handler'[t] = h /\ \A u \in All : u # t => handler'[u] = handler[u]
  BY <1>1, <1>2, Handling1
<1>4. /\ UNCHANGED <<pc, queue, line, accepted, exit, due, now, dead>>
      /\ UNCHANGED <<disk, made, log, written, reused, lost>>
  BY DEF Signal, HandlerLock, HandlerQuit, lines, process, files
<1>5. mutex' \in All \cup {Nobody} /\ signalled' \in BOOLEAN /\ quit' \in BOOLEAN
  BY <1>1 DEF Signal, HandlerLock, HandlerQuit, process, Types
<1>6. Types'
  BY <1>1, <1>3, <1>4, <1>5 DEF Types
<1>7. Silent
  BY <1>1, <1>4 DEF Silent, Types, Seconds
<1>8. Files' /\ Lines' /\ lost' = lost /\ \A n : Flushed(n)' <=> Flushed(n)
  BY <1>6, <1>7, SilentLines
<1>9. Locking'
  <2>1. CASE Signal(t)
    <3>1. ~signalled /\ signalled' /\ handler'[t] = "lock" /\ mutex' = mutex
      BY <1>1, <2>1 DEF Signal, Types
    <3>2. (\A u \in All : handler[u] = "none") /\ accepted <= MaxLines
      BY <3>1 DEF LogInv, Locking
    <3> QED  BY <1>3, <1>4, <3>1, <3>2 DEF LogInv, Locking
  <2>2. CASE HandlerLock(t)
    <3>1. /\ handler[t] = "lock" /\ handler'[t] = "push" /\ mutex = Nobody /\ mutex' = t
          /\ signalled' = signalled
      BY <1>1, <2>2 DEF HandlerLock, Types, process
    <3>2. /\ pc[t] # "push" /\ (t = Writer => pc[t] \notin {"test", "park"})
          /\ pc[Writer] \notin {"test", "park"} /\ \A u \in Threads : pc[u] # "push"
      BY <3>1 DEF LogInv, Locking, All
    <3> QED  BY <1>3, <1>4, <3>1, <3>2 DEF LogInv, Locking
  <2>3. CASE HandlerQuit(t)
    <3>1. handler[t] = "quit" /\ handler'[t] = "none" /\ mutex' = mutex /\ signalled' = signalled
      BY <1>1, <2>3 DEF HandlerQuit, Types
    <3> QED  BY <1>3, <1>4, <3>1 DEF LogInv, Locking
  <2> QED  BY <2>1, <2>2, <2>3
<1>10. Writing'
  BY <1>4, WriteSilentInv DEF WriteSilent
<1>11. ExitSilent
  BY <1>1, <1>4, <1>8 DEF ExitSilent, Types
<1> QED  BY <1>6, <1>8, <1>9, <1>10, <1>11, ExitSilentInv DEF LogInv

(* The line of the handler, which may be one beyond the bound of output *)
LEMMA HandlerPushInv ==
  ASSUME LogInv, NEW t \in All, HandlerPush(t)
  PROVE  LogInv'
<1> USE Distinct
<1>1. Types
  BY DEF LogInv
<1>2. pc' \in [All -> Labels] /\ pc'[Writer] = Woken /\ \A u \in All : u # Writer => pc'[u] = pc[u]
  <2>1. pc \in [All -> Labels] /\ pc' = [pc EXCEPT ![Writer] = Woken]
    BY <1>1 DEF HandlerPush, Types
  <2> QED  BY <1>1, <2>1, WakingUp
<1>3. handler' \in [All -> Handling] /\ handler'[t] = "quit" /\ \A u \in All : u # t => handler'[u] = handler[u]
  BY <1>1, Handling1 DEF HandlerPush, Handling
<1>4. /\ mutex' = Nobody /\ handler[t] = "push"
      /\ queue' = Append(queue, accepted + 1) /\ accepted' = accepted + 1
      /\ UNCHANGED <<line, signalled, quit, dead, exit, due, now, disk, made, log, written, reused, lost>>
  BY DEF HandlerPush, Queue, process, files
<1>5. accepted \in Nat /\ queue \in Seq(Nat)
  BY <1>1 DEF Types
<1>6. Types'
  <2>1. accepted' \in Nat /\ queue' \in Seq(Nat)
    BY <1>4, <1>5
  <2> QED  BY <1>1, <1>2, <1>3, <1>4, <2>1 DEF Types
<1>7. Locking'
  <2>1. mutex = t /\ signalled /\ accepted <= MaxLines
    BY <1>4 DEF LogInv, Locking
  <2>2. \A u \in Threads : pc[u] # "push"
    BY <1>4, <2>1 DEF LogInv, Locking, All
  <2>3. pc[Writer] \notin {"test", "park", "push"}
    BY <1>4, <2>1 DEF LogInv, Locking
  <2>4. pc'[Writer] \notin {"test", "park", "push"}
    BY <1>2, <2>3 DEF Woken
  <2>5. \A u \in All : u # t => handler[u] = "none"
    BY <1>4 DEF LogInv, Locking
  <2>6. (\A u \in All : handler'[u] # "push") /\ \A u \in All : handler'[u] \in {"none", "quit"}
    BY <1>3, <2>5
  <2>7. \A u \in Threads : pc'[u] # "push"
    BY <1>2, <2>2
  <2>8. accepted' <= MaxLines + 1
    BY <1>4, <1>5, <2>1
  <2>9. \A u, v \in All : handler'[u] # "none" /\ handler'[v] # "none" => u = v
    BY <1>3, <2>5
  <2> QED  BY <1>4, <2>1, <2>4, <2>6, <2>7, <2>8, <2>9 DEF Locking
<1>8. Files' /\ Lines' /\ lost' = lost /\ \A n : Flushed(n)' <=> Flushed(n)
  BY <1>4, <1>6, QueueLines DEF Queue, HandlerPush, files
<1>9. Writing'
  BY <1>2, <1>4, WriteSilentInv DEF WriteSilent, Woken
<1>10. ExitSilent
  BY <1>1, <1>2, <1>4, <1>5, <1>8 DEF ExitSilent, Woken
<1> QED  BY <1>6, <1>7, <1>8, <1>9, <1>10, ExitSilentInv DEF LogInv

----------------------------------------------------------------------------
(* The main thread leaves its loop, notifies the writer, returns *)
LEMMA MainInv ==
  ASSUME LogInv, LoopEnds \/ NotifyExit \/ MainReturns
  PROVE  LogInv'
<1> USE Distinct
<1>1. Types
  BY DEF LogInv
<1>2. /\ UNCHANGED <<handler, mutex, queue, line, accepted, signalled, quit, exit, due, now>>
      /\ UNCHANGED <<disk, made, log, written, reused, lost>> /\ dead' \in {dead, TRUE}
  BY DEF LoopEnds, NotifyExit, MainReturns, lines, process, files
<1>3. /\ pc' \in [All -> Labels] /\ pc'[Main] \in {pc[Main], "setExit", "join"}
      /\ pc'[Main] = "return" => pc[Main] = "return"
      /\ pc'[Main] \in Ended <=> pc[Main] \in Ended
      /\ pc'[Writer] \in {pc[Writer], Woken}
      /\ \A u \in All : u \notin {Main, Writer} => pc'[u] = pc[u]
  <2>1. CASE LoopEnds
    <3>1. pc[Main] = "loop" /\ Goto(Main, "setExit")
      BY <2>1 DEF LoopEnds, At
    <3> QED  BY <1>1, <3>1, Going DEF Labels, Ended
  <2>2. CASE NotifyExit
    <3>1. pc[Main] = "notify"
      BY <2>2 DEF NotifyExit, At
    <3> QED  BY <1>1, <2>2, <3>1, NotifyGoing DEF NotifyExit, Ended
  <2>3. CASE MainReturns
    BY <1>1, <2>3 DEF MainReturns, Types
  <2> QED  BY <2>1, <2>2, <2>3
<1>4. Types'
  BY <1>1, <1>2, <1>3 DEF Types
<1>5. Silent
  BY <1>1, <1>2 DEF Silent, Types, Seconds
<1>6. Files' /\ Lines' /\ lost' = lost /\ \A n : Flushed(n)' <=> Flushed(n)
  BY <1>4, <1>5, SilentLines
<1>7. \A u \in All : pc'[u] = pc[u] \/ pc'[u] \notin {"push", "test", "park"}
  BY <1>3 DEF Woken
<1>8. Locking'
  BY <1>2, <1>7, LockSilentInv DEF LockSilent
<1>9. Writing'
  BY <1>2, <1>3, WriteSilentInv DEF WriteSilent, Woken
<1>10. ExitSilent
  BY <1>1, <1>2, <1>3, <1>6 DEF ExitSilent, Types, Woken
<1> QED  BY <1>4, <1>6, <1>8, <1>9, <1>10, ExitSilentInv DEF LogInv

(* m_bExit is set: the lines queued so far are due *)
LEMMA SetExitInv ==
  ASSUME LogInv, SetExit
  PROVE  LogInv'
<1> USE Distinct
<1>1. Types
  BY DEF LogInv
<1>2. /\ pc[Main] = "setExit" /\ exit' = TRUE /\ due' = accepted
      /\ UNCHANGED <<handler, mutex, queue, line, accepted, signalled, quit, dead, now>>
      /\ UNCHANGED <<disk, made, log, written, reused, lost>>
  BY DEF SetExit, At, lines, files
<1>3. pc' \in [All -> Labels] /\ pc'[Main] = "notify" /\ \A u \in All : u # Main => pc'[u] = pc[u]
  BY <1>1, Going DEF SetExit, Labels
<1>4. Types'
  BY <1>1, <1>2, <1>3 DEF Types
<1>5. Silent
  BY <1>1, <1>2 DEF Silent, Types, Seconds
<1>6. Files' /\ Lines'
  BY <1>4, <1>5, SilentLines
<1>7. Locking'
  BY <1>2, <1>3, LockSilentInv DEF LockSilent
<1>8. Writing'
  BY <1>2, <1>3, WriteSilentInv DEF WriteSilent
<1>9. Exiting'
  <2>1. pc'[Writer] # "done"
    BY <1>2, <1>3 DEF LogInv, Exiting
  <2>2. due' <= accepted'
    BY <1>1, <1>2 DEF Types
  <2> QED  BY <1>2, <1>3, <2>1, <2>2 DEF Exiting
<1> QED  BY <1>4, <1>6, <1>7, <1>8, <1>9 DEF LogInv

(* uninit has joined the writer, and closes the file *)
LEMMA JoinInv ==
  ASSUME LogInv, Join
  PROVE  LogInv'
<1> USE Distinct
<1>1. Types
  BY DEF LogInv
<1>2. /\ pc[Main] = "join" /\ pc[Writer] \in {"done", "failed"} /\ log' = NoFile
      /\ UNCHANGED <<handler, mutex, queue, line, accepted, signalled, quit, dead, exit, due, now>>
      /\ UNCHANGED <<disk, made, written, reused, lost>>
  BY DEF Join, At, lines, process
<1>3. pc' \in [All -> Labels] /\ pc'[Main] = "return" /\ \A u \in All : u # Main => pc'[u] = pc[u]
  BY <1>1, Going DEF Join, Labels
<1>4. Types'
  BY <1>1, <1>2, <1>3 DEF Types
<1>5. Silent
  BY <1>1, <1>2 DEF Silent, Types, Seconds
<1>6. Files' /\ Lines' /\ lost' = lost /\ \A n : Flushed(n)' <=> Flushed(n)
  BY <1>4, <1>5, SilentLines
<1>7. Locking'
  BY <1>2, <1>3, LockSilentInv DEF LockSilent
<1>8. Writing'
  BY <1>2, <1>3, WriteSilentInv DEF WriteSilent
<1>9. Exiting'
  BY <1>2, <1>3, <1>6 DEF LogInv, Exiting
<1> QED  BY <1>4, <1>6, <1>7, <1>8, <1>9 DEF LogInv

(* The clock, and nothing *)
LEMMA TickInv ==
  ASSUME LogInv, Tick \/ UNCHANGED vars
  PROVE  LogInv'
<1>1. Types
  BY DEF LogInv
<1>2. /\ UNCHANGED <<pc, handler, mutex, queue, line, accepted, signalled, quit, dead, exit, due>>
      /\ UNCHANGED <<disk, made, log, written, reused, lost>>
  BY DEF Tick, vars, lines, process, files
<1>3. now' \in Seconds /\ now <= now'
  <2>1. now \in Nat /\ now <= MaxTime /\ MaxTime \in Nat
    BY <1>1, Distinct DEF Types, Seconds
  <2>2. (now' = now + 1 /\ now < MaxTime) \/ now' = now
    BY DEF Tick, vars
  <2> QED  BY <2>1, <2>2 DEF Seconds
<1>4. Types'
  BY <1>1, <1>2, <1>3 DEF Types
<1>5. Silent
  BY <1>2, <1>3 DEF Silent
<1>6. Files' /\ Lines' /\ lost' = lost /\ \A n : Flushed(n)' <=> Flushed(n)
  BY <1>4, <1>5, SilentLines
<1>7. Locking' /\ Writing'
  BY <1>2, LockSilentInv, WriteSilentInv DEF LockSilent, WriteSilent
<1>8. ExitSilent
  BY <1>1, <1>2, <1>6 DEF ExitSilent, Types
<1> QED  BY <1>4, <1>6, <1>7, <1>8, ExitSilentInv DEF LogInv
----------------------------------------------------------------------------
(* Every step of output, writeThreadProc, resetHandler and uninit keeps it *)
LEMMA NextInv == LogInv /\ [Next]_vars => LogInv'
<1> SUFFICES ASSUME LogInv, [Next]_vars PROVE LogInv'
  OBVIOUS
<1>1. CASE \E t \in Threads : Output(t) \/ OutputFatal(t) \/ ThreadStep(t)
  BY <1>1, OutputInv, PushInv, FatalInv DEF ThreadStep
<1>2. CASE \E t \in All : Signal(t) \/ HandlerStep(t)
  BY <1>2, SignalInv, HandlerPushInv DEF HandlerStep
<1>3. CASE WriterStep \/ SpuriousWakeUp
  BY <1>3, RollInv, WaitInv, TakeInv, WriterReturnsInv, WriteLineInv, FlushFailsInv, WriteFailsInv DEF WriterStep
<1>4. CASE MainStep
  BY <1>4, MainInv, SetExitInv, JoinInv DEF MainStep
<1>5. CASE Tick \/ UNCHANGED vars
  BY <1>5, TickInv
<1> QED  BY <1>1, <1>2, <1>3, <1>4, <1>5 DEF Next

(* The invariant of the log: who may hold m_mutexWrite, how much room the  *)
(* open file has, which lines the files, the writer and the queue hold,    *)
(* and how far the exit has come                                           *)
THEOREM LogInvariant == Spec => []LogInv
<1> QED  BY InitInv, NextInv, PTL DEF Spec

(* The waiting lines are the ones after Base, in the order of push_back *)
LEMMA WaitingLines ==
  ASSUME LogInv
  PROVE  /\ Base \in Nat /\ accepted \in Nat /\ Len(Waiting) \in Nat
         /\ DOMAIN Waiting = 1..Len(Waiting) /\ Base + Len(Waiting) = accepted
         /\ \A i \in DOMAIN Waiting : Waiting[i] = Base + i
<1>1. /\ line \in Seq(Nat) /\ queue \in Seq(Nat) /\ Len(line) \in Nat /\ Len(queue) \in Nat /\ accepted \in Nat
  BY DEF LogInv, Types
<1>2. /\ Waiting \in Seq(Nat) /\ Len(Waiting) = Len(line) + Len(queue)
      /\ \A i \in 1..Len(line) + Len(queue) : Waiting[i] = IF i <= Len(line) THEN line[i] ELSE queue[i - Len(line)]
  BY <1>1, ConcatProperties DEF Waiting
<1>3. DOMAIN Waiting = 1..Len(Waiting)
  BY <1>2
<1>4. Base \in Nat /\ Base + Len(Waiting) = accepted
  BY <1>1, <1>2 DEF LogInv, Lines, Base
<1>5. ASSUME NEW i \in 1..Len(line) + Len(queue) PROVE Waiting[i] = Base + i
  <2>1. CASE i <= Len(line)
    <3>1. i \in 1..Len(line)
      BY <1>1, <2>1
    <3> QED  BY <1>2, <2>1, <3>1 DEF LogInv, Lines
  <2>2. CASE ~(i <= Len(line))
    <3> DEFINE k == i - Len(line)
    <3>1. k \in 1..Len(queue) /\ k = i - Len(line)
      BY <1>1, <2>2
    <3> HIDE DEF k
    <3>2. queue[k] = Base + Len(line) + k
      BY <3>1 DEF LogInv, Lines
    <3>3. Waiting[i] = queue[k]
      BY <1>2, <2>2, <3>1
    <3> QED  BY <1>1, <1>4, <3>1, <3>2, <3>3
  <2> QED  BY <2>1, <2>2
<1> QED  BY <1>1, <1>2, <1>3, <1>4, <1>5

(* The bounds of the model *)
LEMMA Typed == LogInv => TypeOK
<1> SUFFICES ASSUME LogInv PROVE TypeOK
  OBVIOUS
<1>1. accepted \in Nat /\ accepted <= MaxLines + 1 /\ due \in Nat /\ due <= accepted /\ MaxLines \in Nat
  BY Distinct DEF LogInv, Types, Locking, Exiting
<1>2. accepted \in 0..MaxLines + 1 /\ due \in 0..MaxLines + 1
  BY <1>1
<1>3. written \in 0..RollSize
  BY Distinct DEF LogInv, Types, Writing
<1>4. lost \subseteq 1..accepted
  <2>1. \A n \in 1..Base : n \in 1..accepted
    BY WaitingLines
  <2> QED  BY <2>1 DEF LogInv, Lines
<1>5. Len(line) <= 1
  BY DEF LogInv, Writing
<1> QED  BY <1>2, <1>3, <1>4, <1>5 DEF LogInv, Types, TypeOK, Labels, Handling

(* Whatever threads log, whenever the file rolls over, a FATAL line cuts   *)
(* in or the signal comes: the lines are written in the order of their     *)
(* push_back, none twice, and only a reused file name or a failed fflush   *)
(* loses one                                                               *)
THEOREM InOrder == Spec => []LogInOrder
<1>1. LogInv => LogInOrder
  <2> SUFFICES ASSUME LogInv PROVE LogInOrder
    OBVIOUS
  <2>1. TypeOK /\ FilesInOrder
    BY Typed DEF LogInv, Lines
  <2>2. \A i, j \in DOMAIN Waiting : i < j => Waiting[i] < Waiting[j]
    BY WaitingLines
  <2>3. ASSUME NEW s \in Seconds PROVE
          /\ DOMAIN disk[s] = 1..Len(disk[s])
          /\ \A i \in DOMAIN disk[s] : disk[s][i] \in Nat /\ disk[s][i] <= Base
    <3>1. disk[s] \in Seq(Nat)
      BY DEF LogInv, Types
    <3>2. DOMAIN disk[s] = 1..Len(disk[s]) /\ \A i \in DOMAIN disk[s] : disk[s][i] \in Nat
      BY <3>1
    <3> QED  BY <3>2 DEF LogInv, Lines
  <2>4. \A s \in Seconds : \A i \in DOMAIN disk[s], j \in DOMAIN Waiting : disk[s][i] < Waiting[j]
    BY <2>3, WaitingLines
  <2>5. \A s \in Seconds : \A i \in DOMAIN disk[s] : disk[s][i] \in {Fatal} \cup 1..accepted
    BY <2>3, WaitingLines DEF Fatal
  <2>6. \A j \in DOMAIN Waiting : Waiting[j] \in 1..accepted
    BY WaitingLines
  <2>7. ASSUME ~reused, NEW n \in (1..accepted) \ lost
        PROVE  Flushed(n) \/ \E j \in DOMAIN Waiting : Waiting[j] = n
    <3>1. CASE n <= Base
      BY <2>7, <3>1, WaitingLines DEF LogInv, Lines
    <3>2. CASE ~(n <= Base)
      <4> DEFINE j == n - Base
      <4>1. j \in 1..Len(Waiting) /\ Base + j = n
        BY <2>7, <3>2, WaitingLines
      <4> HIDE DEF j
      <4> QED  BY <4>1, WaitingLines
    <3> QED  BY <3>1, <3>2
  <2> QED  BY <2>1, <2>2, <2>4, <2>5, <2>6, <2>7 DEF LogInOrder
<1> QED  BY <1>1, LogInvariant, PTL

(* uninit sets m_bExit and joins the writer, which returns only with an    *)
(* empty queue: every line queued before uninit is in a file when it       *)
(* returns, or was given to an fflush that failed                          *)
THEOREM Flushes == Spec => []UninitFlushes
<1>1. LogInv => UninitFlushes
  BY DEF LogInv, Exiting, UninitFlushes
<1> QED  BY <1>1, LogInvariant, PTL
=============================================================================
