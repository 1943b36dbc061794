------------------------------ MODULE AsyncLog ------------------------------
(***************************************************************************)
(* The asynchronous log (src/ChatServer/src/asynclog/AsyncLog.cpp): the    *)
(* threads of the server queue lines, one writer thread takes them off and *)
(* writes them to files that roll over, a FATAL line is written by the     *)
(* thread itself, and the main thread ends the writer at exit.  SIGINT     *)
(* (main.cpp resetHandler) logs a line from whichever thread it hits.      *)
(*                                                                         *)
(* A line is the number of its push_back, the FATAL line is Fatal.  A file *)
(* is named by the second in which it was opened (the process id is fixed) *)
(* and its size is counted in lines.                                       *)
(***************************************************************************)
EXTENDS Integers, Sequences

CONSTANTS Threads,      \* the IO threads and the main thread
          Main,
          Writer,
          RollSize,     \* m_nFileRollSize
          MaxLines,     \* bound: lines ever queued
          MaxTime,      \* bound: the clock stops there
          Nobody

ASSUME LogAssumption ==
    /\ Main \in Threads
    /\ Writer \notin Threads /\ Nobody \notin Threads \cup {Writer}
    /\ RollSize \in Nat \ {0} /\ MaxLines \in Nat /\ MaxTime \in Nat

Seconds == 0..MaxTime
NoFile == -1
Fatal == 0
All == Threads \cup {Writer}

VARIABLES
    pc,        \* where each thread is in the code of the log
    handler,   \* where it is in resetHandler, which suspends the rest of it
    mutex,     \* holder of m_mutexWrite
    queue,     \* m_listLinesToWrite
    line,      \* strLine of the writer: <<>> or one line
    accepted,  \* lines queued so far
    exit,      \* m_bExit
    now,       \* the clock, in seconds
    disk,      \* [second]: the contents of the file opened then
    made,      \* the files that exist
    log,       \* m_hLogFile: the open file
    written,   \* m_nCurrentWrittenSize
    signalled, \* SIGINT was sent
    quit,      \* EventLoop::quit was called
    dead,      \* the process has crashed or main has returned
    due,       \* history: lines queued when uninit began
    reused,    \* history: a file was opened twice
    lost       \* history: lines that fflush could not write

vars == <<pc, handler, mutex, queue, line, accepted, exit, now, disk, made, log, written,
          signalled, quit, dead, due, reused, lost>>

files == <<disk, made, log, written, reused, lost>>
lines == <<queue, line, accepted>>
process == <<signalled, quit, dead, exit, due>>

(* t takes its next step at label l: the process lives and no signal       *)
(* handler runs on t                                                       *)
At(t, l) == ~dead /\ handler[t] = "none" /\ pc[t] = l
Goto(t, l) == pc' = [pc EXCEPT ![t] = l]

Init ==
    /\ pc = [t \in All |-> IF t = Writer THEN "top" ELSE IF t = Main THEN "loop" ELSE "idle"]
    /\ handler = [t \in All |-> "none"]
    /\ mutex = Nobody
    /\ queue = <<>> /\ line = <<>> /\ accepted = 0
    /\ exit = FALSE
    /\ now = 0
    /\ disk = [s \in Seconds |-> <<>>] /\ made = {} /\ log = NoFile /\ written = 0
    /\ signalled = FALSE /\ quit = FALSE /\ dead = FALSE
    /\ due = 0 /\ reused = FALSE /\ lost = {}

----------------------------------------------------------------------------
(* output, outputBinary: lines that pass the level filter *)

(* What t runs when it is not in the log: its own work or the event loop *)
Ready(t) == At(t, IF t = Main THEN "loop" ELSE "idle")

Output(t) ==
    /\ Ready(t)
    /\ accepted < MaxLines
    /\ mutex = Nobody
    /\ mutex' = t
    /\ Goto(t, "push")
    /\ UNCHANGED <<handler, lines, process, now, files>>

(* push_back, notify_one, unlock *)
Queue ==
    /\ queue' = Append(queue, accepted + 1)
    /\ accepted' = accepted + 1
    /\ mutex' = Nobody

Woken == IF pc[Writer] = "waiting" THEN "woken" ELSE pc[Writer]

(* Mutant: the writer is not notified *)
PushSilently(t) ==
    /\ At(t, "push")
    /\ Queue
    /\ Goto(t, IF t = Main THEN "loop" ELSE "idle")
    /\ UNCHANGED <<handler, line, process, now, files>>

Push(t) ==
    /\ At(t, "push")
    /\ Queue
    /\ pc' = [pc EXCEPT ![t] = IF t = Main THEN "loop" ELSE "idle", ![Writer] = Woken]
    /\ UNCHANGED <<handler, line, process, now, files>>

(* createNewFile: "w+" opens the file of this second empty *)
CreateNewFile ==
    /\ disk' = [disk EXCEPT ![now] = <<>>]
    /\ made' = made \cup {now}
    /\ log' = now
    /\ reused' = (reused \/ now \in made)

(* A FATAL line does not pass the queue: the file is opened if there is    *)
(* none, ...                                                               *)
OutputFatal(t) ==
    /\ Ready(t)
    /\ Goto(t, IF log = NoFile THEN "fatalOpen" ELSE "fatalWrite")
    /\ UNCHANGED <<handler, mutex, lines, process, now, files>>

FatalOpen(t) ==
    /\ At(t, "fatalOpen")
    /\ CreateNewFile
    /\ Goto(t, "fatalWrite")
    /\ UNCHANGED <<handler, mutex, lines, process, now, written, lost>>

(* ... or output returns false because it cannot be opened, ... *)
FatalOpenFails(t) ==
    /\ At(t, "fatalOpen")
    /\ log' = NoFile
    /\ Goto(t, IF t = Main THEN "loop" ELSE "idle")
    /\ UNCHANGED <<handler, mutex, lines, process, now, disk, made, written, reused, lost>>

(* ... the line is written, or cannot be (nobody looks at the result), and *)
(* the process crashes.                                                    *)
FatalWrite(t) ==
    /\ At(t, "fatalWrite")
    /\ \/ log # NoFile /\ disk' = [disk EXCEPT ![log] = Append(@, Fatal)]
       \/ UNCHANGED disk
    /\ Goto(t, "crash")
    /\ UNCHANGED <<handler, mutex, lines, process, now, made, log, written, reused, lost>>

Crash(t) ==
    /\ At(t, "crash")
    /\ dead' = TRUE
    /\ UNCHANGED <<pc, handler, mutex, lines, signalled, quit, exit, due, now, files>>

----------------------------------------------------------------------------
(* writeThreadProc *)

CheckRoll ==
    /\ At(Writer, "top")
    /\ Goto(Writer, IF log = NoFile \/ written >= RollSize THEN "create" ELSE "lock")
    /\ UNCHANGED <<handler, mutex, lines, process, now, files>>

Roll ==
    /\ At(Writer, "create")
    /\ CreateNewFile
    /\ written' = 0
    /\ Goto(Writer, "lock")
    /\ UNCHANGED <<handler, mutex, lines, process, now, lost>>

(* The writer thread returns when it cannot open a file *)
RollFails ==
    /\ At(Writer, "create")
    /\ log' = NoFile
    /\ written' = 0
    /\ Goto(Writer, "failed")
    /\ UNCHANGED <<handler, mutex, lines, process, now, disk, made, reused, lost>>

WriterLock ==
    /\ At(Writer, "lock")
    /\ mutex = Nobody
    /\ mutex' = Writer
    /\ Goto(Writer, "test")
    /\ UNCHANGED <<handler, lines, process, now, files>>

(* Mutant: front() without pop_front() *)
TakeAndKeep ==
    /\ At(Writer, "test")
    /\ queue # <<>>
    /\ line' = <<Head(queue)>>
    /\ mutex' = Nobody
    /\ Goto(Writer, "write")
    /\ UNCHANGED <<handler, queue, accepted, process, now, files>>

Take ==
    /\ At(Writer, "test")
    /\ queue # <<>>
    /\ line' = <<Head(queue)>>
    /\ queue' = Tail(queue)
    /\ mutex' = Nobody
    /\ Goto(Writer, "write")
    /\ UNCHANGED <<handler, accepted, process, now, files>>

(* Mutant: m_bExit is looked at before the queue *)
WriterReturnsEarly ==
    /\ At(Writer, "test")
    /\ exit
    /\ mutex' = Nobody
    /\ Goto(Writer, "done")
    /\ UNCHANGED <<handler, lines, process, now, files>>

WriterReturns ==
    /\ At(Writer, "test")
    /\ queue = <<>> /\ exit
    /\ mutex' = Nobody
    /\ Goto(Writer, "done")
    /\ UNCHANGED <<handler, lines, process, now, files>>

(* Nothing to do: m_bExit was false, and now m_cvWrite.wait is called *)
DecideToWait ==
    /\ At(Writer, "test")
    /\ queue = <<>> /\ ~exit
    /\ Goto(Writer, "park")
    /\ UNCHANGED <<handler, mutex, lines, process, now, files>>

Park ==
    /\ At(Writer, "park")
    /\ mutex' = Nobody
    /\ Goto(Writer, "waiting")
    /\ UNCHANGED <<handler, lines, process, now, files>>

(* Notified (or woken for no reason), wait locks the mutex again *)
WakeUp ==
    /\ At(Writer, "woken")
    /\ mutex = Nobody
    /\ mutex' = Writer
    /\ Goto(Writer, "test")
    /\ UNCHANGED <<handler, lines, process, now, files>>

SpuriousWakeUp ==
    /\ At(Writer, "waiting")
    /\ Goto(Writer, "woken")
    /\ UNCHANGED <<handler, mutex, lines, process, now, files>>

(* writeToFile *)
WriteLine ==
    /\ At(Writer, "write")
    /\ log # NoFile
    /\ disk' = [disk EXCEPT ![log] = @ \o line]
    /\ line' = <<>>
    /\ written' = written + 1
    /\ Goto(Writer, "top")
    /\ UNCHANGED <<handler, mutex, queue, accepted, process, now, made, log, reused, lost>>

(* m_hLogFile is null if FatalOpen has failed since: fwrite crashes *)
WriteToNull ==
    /\ At(Writer, "write")
    /\ log = NoFile
    /\ dead' = TRUE
    /\ UNCHANGED <<pc, handler, mutex, lines, signalled, quit, exit, due, now, files>>

(* fwrite only fills the stdio buffer; when the disk is full it is fflush  *)
(* that fails, and its result is not looked at: the line is counted as     *)
(* written and the thread goes on.                                         *)
FlushFails ==
    /\ At(Writer, "write")
    /\ log # NoFile
    /\ lost' = lost \cup {line[1]}
    /\ line' = <<>>
    /\ written' = written + 1
    /\ Goto(Writer, "top")
    /\ UNCHANGED <<handler, mutex, queue, accepted, process, now, disk, made, log, reused>>

(* A line that does not fit the buffer makes fwrite itself fail: the       *)
(* thread returns.                                                         *)
WriteFails ==
    /\ At(Writer, "write")
    /\ Goto(Writer, "failed")
    /\ UNCHANGED <<handler, mutex, lines, process, now, files>>

----------------------------------------------------------------------------
(* resetHandler, on any thread that the signal hits *)

Signal(t) ==
    /\ ~dead /\ ~signalled
    /\ signalled' = TRUE
    /\ handler' = [handler EXCEPT ![t] = "lock"]
    /\ UNCHANGED <<pc, mutex, lines, quit, dead, exit, due, now, files>>

HandlerLock(t) ==
    /\ ~dead /\ handler[t] = "lock"
    /\ mutex = Nobody
    /\ mutex' = t
    /\ handler' = [handler EXCEPT ![t] = "push"]
    /\ UNCHANGED <<pc, lines, process, now, files>>

HandlerPush(t) ==
    /\ ~dead /\ handler[t] = "push"
    /\ Queue
    /\ pc' = [pc EXCEPT ![Writer] = Woken]
    /\ handler' = [handler EXCEPT ![t] = "quit"]
    /\ UNCHANGED <<line, process, now, files>>

HandlerQuit(t) ==
    /\ ~dead /\ handler[t] = "quit"
    /\ quit' = TRUE
    /\ handler' = [handler EXCEPT ![t] = "none"]
    /\ UNCHANGED <<pc, mutex, lines, signalled, dead, exit, due, now, files>>

----------------------------------------------------------------------------
(* The end of main: uninit, while the IO threads still run *)

LoopEnds ==
    /\ At(Main, "loop")
    /\ quit
    /\ Goto(Main, "setExit")
    /\ UNCHANGED <<handler, mutex, lines, process, now, files>>

(* m_bExit is set, and m_cvWrite notified, without the mutex *)
SetExit ==
    /\ At(Main, "setExit")
    /\ exit' = TRUE
    /\ due' = accepted
    /\ Goto(Main, "notify")
    /\ UNCHANGED <<handler, mutex, lines, signalled, quit, dead, now, files>>

NotifyExit ==
    /\ At(Main, "notify")
    /\ pc' = [pc EXCEPT ![Main] = "join", ![Writer] = Woken]
    /\ UNCHANGED <<handler, mutex, lines, process, now, files>>

(* join, then fclose *)
Join ==
    /\ At(Main, "join")
    /\ pc[Writer] \in {"done", "failed"}
    /\ handler[Writer] = "none"
    /\ log' = NoFile
    /\ Goto(Main, "return")
    /\ UNCHANGED <<handler, mutex, lines, process, now, disk, made, written, reused, lost>>

MainReturns ==
    /\ At(Main, "return")
    /\ dead' = TRUE
    /\ UNCHANGED <<pc, handler, mutex, lines, signalled, quit, exit, due, now, files>>

Tick ==
    /\ ~dead /\ now < MaxTime
    /\ now' = now + 1
    /\ UNCHANGED <<pc, handler, mutex, lines, process, files>>

----------------------------------------------------------------------------
HandlerStep(t) == HandlerLock(t) \/ HandlerPush(t) \/ HandlerQuit(t)

ThreadStep(t) ==
    Push(t) \/ FatalOpen(t) \/ FatalOpenFails(t) \/ FatalWrite(t) \/ Crash(t)

WriterStep ==
    \/ CheckRoll \/ Roll \/ RollFails \/ WriterLock \/ Take \/ WriterReturns
    \/ DecideToWait \/ Park \/ WakeUp \/ WriteLine \/ FlushFails \/ WriteToNull
    \/ WriteFails

MainStep == LoopEnds \/ SetExit \/ NotifyExit \/ Join \/ MainReturns

Next ==
    \/ \E t \in Threads : Output(t) \/ OutputFatal(t) \/ ThreadStep(t)
    \/ \E t \in All : Signal(t) \/ HandlerStep(t)
    \/ WriterStep \/ SpuriousWakeUp \/ MainStep \/ Tick

Spec == Init /\ [][Next]_vars

(* Every thread runs on; nothing is assumed of the signal, of the clock,   *)
(* of what is logged, or of spurious wake-ups.                             *)
Fairness ==
    /\ \A t \in Threads : WF_vars(ThreadStep(t))
    /\ \A t \in All : WF_vars(HandlerStep(t))
    /\ WF_vars(WriterStep)
    /\ WF_vars(MainStep)

FairSpec == Spec /\ Fairness

----------------------------------------------------------------------------
TypeOK ==
    /\ pc \in [All -> {"idle", "loop", "push", "fatalOpen", "fatalWrite", "crash",
                       "top", "create", "lock", "test", "park", "waiting", "woken", "write",
                       "done", "failed", "setExit", "notify", "join", "return"}]
    /\ handler \in [All -> {"none", "lock", "push", "quit"}]
    /\ mutex \in All \cup {Nobody}
    /\ queue \in Seq(Nat)
    /\ line \in Seq(Nat) /\ Len(line) <= 1
    /\ accepted \in 0..MaxLines + 1
    /\ now \in Seconds
    /\ disk \in [Seconds -> Seq(Nat)]
    /\ made \subseteq Seconds
    /\ log \in Seconds \cup {NoFile}
    /\ written \in 0..RollSize
    /\ due \in 0..MaxLines + 1
    /\ lost \subseteq 1..accepted
    /\ {exit, signalled, quit, dead, reused} \subseteq BOOLEAN

(* Lines that are not in a file yet *)
Waiting == line \o queue

Flushed(n) == \E s \in Seconds : \E i \in DOMAIN disk[s] : disk[s][i] = n

(* The files, oldest first, hold lines in the order they were queued *)
FilesInOrder ==
    \A s, r \in Seconds : \A i \in DOMAIN disk[s], j \in DOMAIN disk[r] :
        /\ s < r \/ (s = r /\ i < j)
        /\ disk[s][i] # Fatal /\ disk[r][j] # Fatal
        => disk[s][i] < disk[r][j]

(* Whatever the threads, the rollover, a FATAL line and the exit do, the   *)
(* files, the writer and m_listLinesToWrite hold the lines in the order    *)
(* they were queued, none twice; and unless a rollover has reused the file *)
(* name of the same second, every line is there that fflush could write.   *)
LogInOrder ==
    /\ TypeOK
    /\ FilesInOrder
    /\ \A i, j \in DOMAIN Waiting : i < j => Waiting[i] < Waiting[j]
    /\ \A s \in Seconds : \A i \in DOMAIN disk[s], j \in DOMAIN Waiting : disk[s][i] < Waiting[j]
    /\ \A s \in Seconds : \A i \in DOMAIN disk[s] : disk[s][i] \in {Fatal} \cup 1..accepted
    /\ \A j \in DOMAIN Waiting : Waiting[j] \in 1..accepted
    /\ ~reused => \A n \in (1..accepted) \ lost :
                     Flushed(n) \/ \E j \in DOMAIN Waiting : Waiting[j] = n

(* uninit returns only when every line queued before it is in a file, or   *)
(* has been given to an fflush that failed (writeThreadProc looks at       *)
(* m_bExit only when its queue is empty), unless the writer had to give up.*)
UninitFlushes ==
    pc[Main] = "return" /\ pc[Writer] # "failed" /\ ~reused =>
        \A n \in (1..due) \ lost : Flushed(n)

(* resetHandler runs on the thread that holds m_mutexWrite *)
Jammed == \E t \in All : handler[t] = "lock" /\ mutex = t

(* No wake-up of the writer is lost when a line is queued: the queue is    *)
(* worked off, unless the writer has ended or the signal has jammed it.    *)
QueueDrains ==
    queue # <<>> ~> (queue = <<>> \/ pc[Writer] \in {"done", "failed"} \/ dead \/ Jammed)

============================================================================
