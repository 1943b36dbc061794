---------------------------- MODULE DbPoolProofs ----------------------------
(***************************************************************************)
(* Proofs about the connection pool, for any threads, connections and      *)
(* bounds: the types, the exclusive ownership of connections, the exact    *)
(* loan record, the bound on the number of connections, and notifications  *)
(* for those that come back.                                               *)
(***************************************************************************)
EXTENDS DbPool, FiniteSetTheorems, TLAPS

----------------------------------------------------------------------------
(* What the queue operations do to the set of queued connections *)

LEMMA TailQueue ==
    ASSUME NEW s \in Seq(Conns), s # <<>>, IsInjective(s)
    PROVE  /\ Tail(s) \in Seq(Conns)
           /\ Len(Tail(s)) = Len(s) - 1
           /\ Head(s) \in Range(s)
           /\ Head(s) \in Conns
           /\ Head(s) \notin Range(Tail(s))
           /\ Range(Tail(s)) \subseteq Range(s)
           /\ IsInjective(Tail(s))
BY DEF Range, IsInjective

LEMMA AppendQueue ==
    ASSUME NEW s \in Seq(Conns), IsInjective(s), NEW c \in Conns, c \notin Range(s)
    PROVE  /\ Append(s, c) \in Seq(Conns)
           /\ Len(Append(s, c)) = Len(s) + 1
           /\ Range(Append(s, c)) = Range(s) \cup {c}
           /\ IsInjective(Append(s, c))
BY SMTT(30) DEF Range, IsInjective

LEMMA EmptyQueue ==
    /\ <<>> \in Seq(Conns)
    /\ Len(<<>>) = 0
    /\ Range(<<>>) = {}
    /\ IsInjective(<<>>)
BY DEF Range, IsInjective

----------------------------------------------------------------------------
(* A connection is owned exactly by the threads between acquire and release *)
HeldWhileUsing ==
    \A t \in Threads : held[t] # NoConn <=> pc[t] = "using"

(* _activeCount never under-counts (after shutdown it may over-count, for  *)
(* returnConnection then leaves it alone), and with the idle connections   *)
(* it stays within the bound.                                              *)
CountSound ==
    /\ Cardinality(Busy) <= active
    /\ Len(idle) + active <= MaxPoolSize

PoolInv ==
    /\ PoolTypes
    /\ HeldWhileUsing
    /\ ConnExclusive
    /\ BorrowLedger
    /\ CountSound

LEMMA BusyFinite ==
    IsFiniteSet(Busy) /\ Cardinality(Busy) \in Nat
BY PoolAssumption, FS_Subset, FS_CardinalityType DEF Busy

LEMMA InitInv == Init => PoolInv
<1> SUFFICES ASSUME Init PROVE PoolInv
    OBVIOUS
<1>1. PICK n \in 1..PoolSize : idle \in {s \in [1..n -> Conns] : IsInjective(s)}
    BY DEF Init
<1>2. idle \in Seq(Conns) /\ Len(idle) = n /\ IsInjective(idle)
    BY <1>1, PoolAssumption
<1>3. Busy = {}
    BY DEF Init, Busy
<1>4. Cardinality(Busy) = 0
    BY <1>3, FS_EmptySet
<1>a. shut \in BOOLEAN /\ late \in [Threads -> BOOLEAN]
    BY Zenon DEF Init
<1>b. /\ active \in 0..MaxPoolSize
      /\ pc \in [Threads -> Labels]
      /\ held \in [Threads -> Conns \cup {NoConn}]
      /\ mtx \in Threads \cup {Nobody}
      /\ borrowed \subseteq Conns
    BY PoolAssumption DEF Init, Labels
<1>5. PoolTypes
    BY <1>2, <1>a, <1>b, Zenon DEF PoolTypes
<1>6. HeldWhileUsing /\ ConnExclusive
    BY <1>2 DEF Init, HeldWhileUsing, ConnExclusive
<1>7. BorrowLedger
    BY DEF Init, BorrowLedger, Range
<1>8. CountSound
    BY <1>1, <1>2, <1>4, PoolAssumption DEF Init, CountSound
<1> QED
    BY <1>5, <1>6, <1>7, <1>8 DEF PoolInv

(* Steps that move no connection and keep the set of busy threads *)
LEMMA QuietStep ==
    ASSUME PoolInv,
           UNCHANGED <<idle, borrowed, active, shut, held>>,
           mtx' \in Threads \cup {Nobody},
           late' \in [Threads -> BOOLEAN],
           pc' \in [Threads -> Labels],
           \A t \in Threads : pc'[t] # pc[t] =>
               {pc[t], pc'[t]} \cap {"creating", "using"} = {}
    PROVE  PoolInv'
<1> USE DEF PoolInv
<1>1. PoolTypes'
    BY Zenon DEF PoolTypes
<1>2. Busy' = Busy
    BY DEF Busy
<1>3. CountSound'
    BY <1>2 DEF CountSound
<1>4. HeldWhileUsing'
    BY DEF HeldWhileUsing
<1>5. ConnExclusive' /\ BorrowLedger'
    BY Zenon DEF ConnExclusive, BorrowLedger
<1> QED
    BY <1>1, <1>3, <1>4, <1>5

(* Lend gives t a connection that nobody else has, out of the idle queue   *)
(* or new; q is what remains of the queue.                                 *)
LEMMA LendOwnership ==
    ASSUME PoolInv,
           NEW t \in Threads, pc[t] # "using",
           NEW c \in Conns, Lend(t, c),
           c \notin Range(held), c \notin Range(idle'),
           idle' \in Seq(Conns), IsInjective(idle'),
           Range(idle') \subseteq Range(idle), idle = <<>> => idle' = <<>>,
           UNCHANGED shut
    PROVE  HeldWhileUsing' /\ ConnExclusive' /\ BorrowLedger'
<1> USE DEF PoolInv
<1>1. held[t] = NoConn
    BY DEF HeldWhileUsing
<1>2. /\ held' = [held EXCEPT ![t] = c]
      /\ borrowed' = borrowed \cup {c}
      /\ pc' = [pc EXCEPT ![t] = "using"]
    BY DEF Lend, Goto
<1>3. held \in [Threads -> Conns \cup {NoConn}] /\ pc \in [Threads -> Labels]
    BY DEF PoolTypes
<1>4. HeldWhileUsing'
    BY <1>2, <1>3, PoolAssumption DEF HeldWhileUsing
<1>5. ConnExclusive'
    BY <1>2, <1>3 DEF ConnExclusive, Range
<1>6. Range(held') \ {NoConn} = (Range(held) \ {NoConn}) \cup {c}
    BY <1>1, <1>2, <1>3, PoolAssumption DEF Range
<1>7. BorrowLedger'
    BY <1>2, <1>6 DEF BorrowLedger
<1> QED
    BY <1>4, <1>5, <1>7

LEMMA LendTypes ==
    ASSUME PoolInv, NEW t \in Threads, NEW c \in Conns, Lend(t, c),
           idle' \in Seq(Conns), active' \in 0..MaxPoolSize,
           UNCHANGED <<shut, late>>
    PROVE  PoolTypes'
<1>1. /\ borrowed' \subseteq Conns
      /\ mtx' \in Threads \cup {Nobody}
      /\ pc' \in [Threads -> Labels]
      /\ held' \in [Threads -> Conns \cup {NoConn}]
    BY DEF Lend, Goto, PoolInv, PoolTypes, Labels
<1>2. shut' \in BOOLEAN /\ late' \in [Threads -> BOOLEAN]
    BY Zenon DEF PoolInv, PoolTypes
<1> QED
    BY <1>1, <1>2, Zenon DEF PoolTypes

LEMMA BorrowIdleInv ==
    ASSUME PoolInv, NEW t \in Threads, BorrowIdle(t)
    PROVE  PoolInv'
<1>1. PICK c \in {Head(idle)} \cup Fresh : Lend(t, c)
    BY DEF BorrowIdle
<1>2. /\ idle \in Seq(Conns) /\ IsInjective(idle) /\ idle # <<>>
      /\ idle' = Tail(idle) /\ active' = active + 1 /\ UNCHANGED <<shut, late>>
      /\ pc[t] = "loop" /\ active \in 0..MaxPoolSize /\ pc \in [Threads -> Labels]
      /\ held \in [Threads -> Conns \cup {NoConn}]
    BY DEF BorrowIdle, PoolInv, PoolTypes, ConnExclusive
<1>3. c \in Conns /\ c \notin Range(held) /\ c \notin Range(idle')
    <2>1. CASE c = Head(idle)
        <3>1. c \in Range(idle) /\ c \in Conns /\ c \notin Range(idle')
            BY <1>2, <2>1, TailQueue
        <3>2. c # NoConn
            BY <3>1, PoolAssumption
        <3> QED
            BY <1>2, <3>1, <3>2 DEF PoolInv, ConnExclusive, Range
    <2>2. CASE c \in Fresh
        BY <1>2, <2>2, TailQueue, PoolAssumption DEF Fresh, Live
    <2> QED
        BY <1>1, <2>1, <2>2
<1>4. HeldWhileUsing' /\ ConnExclusive' /\ BorrowLedger'
    BY <1>1, <1>2, <1>3, TailQueue, LendOwnership
<1>5. Len(idle') = Len(idle) - 1 /\ Len(idle) \in Nat \ {0}
    BY <1>2, TailQueue
<1>6. Busy' = Busy \cup {t} /\ t \notin Busy
    BY <1>1, <1>2 DEF Busy, Lend, Goto
<1>7. Cardinality(Busy') = Cardinality(Busy) + 1
    BY <1>6, BusyFinite, FS_AddElement
<1>8. CountSound' /\ active' \in 0..MaxPoolSize
    BY <1>2, <1>5, <1>7, BusyFinite, PoolAssumption DEF PoolInv, CountSound
<1>9. PoolTypes'
    BY <1>1, <1>2, <1>3, <1>8, TailQueue, LendTypes
<1> QED
    BY <1>4, <1>8, <1>9 DEF PoolInv

LEMMA CreatedInv ==
    ASSUME PoolInv, NEW t \in Threads, Created(t)
    PROVE  PoolInv'
<1>1. PICK c \in Fresh : Lend(t, c)
    BY DEF Created
<1>2. /\ idle \in Seq(Conns) /\ IsInjective(idle) /\ active \in 0..MaxPoolSize
      /\ UNCHANGED <<idle, active, shut, late>>
      /\ pc[t] = "creating" /\ pc \in [Threads -> Labels]
    BY DEF Created, PoolInv, PoolTypes, ConnExclusive
<1>3. c \in Conns /\ c \notin Range(held) /\ c \notin Range(idle')
    BY <1>2, PoolAssumption DEF Fresh, Live
<1>4. HeldWhileUsing' /\ ConnExclusive' /\ BorrowLedger'
    BY <1>1, <1>2, <1>3, LendOwnership
<1>5. PoolTypes'
    BY <1>1, <1>2, <1>3, LendTypes
<1>6. Busy' = Busy
    BY <1>1, <1>2 DEF Busy, Lend, Goto
<1>7. CountSound'
    BY <1>2, <1>6 DEF PoolInv, CountSound
<1> QED
    BY <1>4, <1>5, <1>7 DEF PoolInv

LEMMA DropDeadInv ==
    ASSUME PoolInv, NEW t \in Threads, DropDead(t)
    PROVE  PoolInv'
<1>1. /\ idle \in Seq(Conns) /\ IsInjective(idle) /\ idle # <<>> /\ idle' = Tail(idle)
      /\ UNCHANGED <<borrowed, active, shut, mtx, pc, held, late>>
    BY DEF DropDead, PoolInv, PoolTypes, ConnExclusive
<1>2. /\ idle' \in Seq(Conns) /\ IsInjective(idle') /\ Range(idle') \subseteq Range(idle)
      /\ Len(idle') = Len(idle) - 1 /\ Len(idle) \in Nat
    BY <1>1, TailQueue
<1>3. PoolTypes'
    BY <1>1, <1>2, Zenon DEF PoolInv, PoolTypes
<1>4. HeldWhileUsing' /\ ConnExclusive'
    BY <1>1, <1>2 DEF PoolInv, HeldWhileUsing, ConnExclusive
<1>5. BorrowLedger'
    BY <1>1 DEF PoolInv, BorrowLedger
<1>6. Busy' = Busy
    BY <1>1 DEF Busy
<1>7. CountSound'
    BY <1>1, <1>2, <1>6, PoolAssumption DEF PoolInv, CountSound, PoolTypes
<1> QED
    BY <1>3, <1>4, <1>5, <1>7 DEF PoolInv

LEMMA ExpandInv ==
    ASSUME PoolInv, NEW t \in Threads, Expand(t)
    PROVE  PoolInv'
<1>1. /\ pc[t] = "loop" /\ idle = <<>> /\ active < MaxPoolSize /\ active' = active + 1
      /\ mtx' = Nobody /\ pc' = [pc EXCEPT ![t] = "creating"]
      /\ UNCHANGED <<idle, borrowed, shut, held, late>>
      /\ pc \in [Threads -> Labels] /\ active \in 0..MaxPoolSize
    BY DEF Expand, Goto, PoolInv, PoolTypes
<1>2. active' \in 0..MaxPoolSize /\ pc' \in [Threads -> Labels]
    BY <1>1, PoolAssumption DEF Labels
<1>3. PoolTypes'
    BY <1>1, <1>2, Zenon DEF PoolInv, PoolTypes
<1>4. HeldWhileUsing'
    BY <1>1 DEF PoolInv, HeldWhileUsing
<1>5. ConnExclusive' /\ BorrowLedger'
    BY <1>1, Zenon DEF PoolInv, ConnExclusive, BorrowLedger
<1>6. Busy' = Busy \cup {t} /\ t \notin Busy
    BY <1>1 DEF Busy
<1>7. Cardinality(Busy') = Cardinality(Busy) + 1
    BY <1>6, BusyFinite, FS_AddElement
<1>8. CountSound'
    BY <1>1, <1>7, BusyFinite, PoolAssumption, EmptyQueue DEF PoolInv, CountSound
<1> QED
    BY <1>3, <1>4, <1>5, <1>8 DEF PoolInv

LEMMA CreateFailedInv ==
    ASSUME PoolInv, NEW t \in Threads, CreateFailed(t)
    PROVE  PoolInv'
<1>1. /\ pc[t] = "creating" /\ active' = active - 1
      /\ mtx' = t /\ pc' = [pc EXCEPT ![t] = "loop"]
      /\ UNCHANGED <<idle, borrowed, shut, held, late>>
      /\ pc \in [Threads -> Labels] /\ active \in 0..MaxPoolSize /\ idle \in Seq(Conns)
    BY DEF CreateFailed, Goto, PoolInv, PoolTypes
<1>2. Busy' = Busy \ {t} /\ t \in Busy
    BY <1>1 DEF Busy
<1>3. Cardinality(Busy') = Cardinality(Busy) - 1 /\ Cardinality(Busy') \in Nat
    BY <1>2, BusyFinite, FS_RemoveElement, FS_CardinalityType
<1>4. CountSound' /\ active' \in 0..MaxPoolSize
    BY <1>1, <1>3, BusyFinite, PoolAssumption DEF PoolInv, CountSound
<1>5. pc' \in [Threads -> Labels]
    BY <1>1 DEF Labels
<1>6. PoolTypes'
    BY <1>1, <1>4, <1>5, Zenon DEF PoolInv, PoolTypes
<1>7. HeldWhileUsing'
    BY <1>1 DEF PoolInv, HeldWhileUsing
<1>8. ConnExclusive' /\ BorrowLedger'
    BY <1>1, Zenon DEF PoolInv, ConnExclusive, BorrowLedger
<1> QED
    BY <1>4, <1>6, <1>7, <1>8 DEF PoolInv

(* The label changes of a Release: t leaves, and a waiter may be woken *)
LEMMA ReleaseLabels ==
    ASSUME PoolInv, NEW t \in Threads, pc[t] = "using",
           Goto(t, "out") \/ NotifyOne(t, "out")
    PROVE  /\ pc' \in [Threads -> Labels]
           /\ pc'[t] = "out"
           /\ \A u \in Threads \ {t} :
                  pc'[u] # pc[u] => pc[u] = "waiting" /\ pc'[u] = "woken"
           /\ t \in Busy
           /\ Busy' = Busy \ {t}
<1>1. pc \in [Threads -> Labels]
    BY DEF PoolInv, PoolTypes
<1>2. /\ pc' \in [Threads -> Labels]
      /\ pc'[t] = "out"
      /\ \A u \in Threads \ {t} :
             pc'[u] # pc[u] => pc[u] = "waiting" /\ pc'[u] = "woken"
    <2>1. CASE Goto(t, "out")
        BY <1>1, <2>1 DEF Goto, Labels
    <2>2. CASE ~Goto(t, "out")
        <3>1. PICK w \in Threads : /\ pc[w] = "waiting"
                                   /\ pc' = [pc EXCEPT ![t] = "out", ![w] = "woken"]
            BY <2>2 DEF NotifyOne
        <3> QED
            BY <1>1, <3>1 DEF Labels
    <2> QED
        BY <2>1, <2>2
<1> QED
    BY <1>1, <1>2 DEF Busy

LEMMA ReleaseInv ==
    ASSUME PoolInv, NEW t \in Threads, Release(t)
    PROVE  PoolInv'
<1>1. /\ pc[t] = "using"
      /\ Goto(t, "out") \/ NotifyOne(t, "out")
      /\ borrowed' = borrowed \ {held[t]}
      /\ held' = [held EXCEPT ![t] = NoConn]
      /\ UNCHANGED <<shut, mtx, late>>
      /\ \/ shut /\ UNCHANGED <<idle, active>>
         \/ ~shut /\ idle' = Append(idle, held[t]) /\ active' = active - 1
    BY DEF Release
<1>2. /\ idle \in Seq(Conns) /\ IsInjective(idle) /\ active \in 0..MaxPoolSize
      /\ held \in [Threads -> Conns \cup {NoConn}] /\ borrowed \subseteq Conns
      /\ \A u, v \in Threads : u # v /\ held[u] # NoConn => held[u] # held[v]
      /\ \A u \in Threads : held[u] # NoConn => held[u] \notin Range(idle)
    BY DEF PoolInv, PoolTypes, ConnExclusive
<1>3. held[t] \in Conns /\ held[t] \notin Range(idle)
    BY <1>1, <1>2 DEF PoolInv, HeldWhileUsing
<1>4. /\ idle' \in Seq(Conns) /\ IsInjective(idle')
      /\ \/ shut /\ idle' = idle
         \/ /\ ~shut
            /\ Range(idle') = Range(idle) \cup {held[t]}
            /\ Len(idle') = Len(idle) + 1
    BY <1>1, <1>2, <1>3, AppendQueue
<1>5. Cardinality(Busy') = Cardinality(Busy) - 1 /\ Cardinality(Busy') \in Nat
    BY <1>1, ReleaseLabels, BusyFinite, FS_RemoveElement, FS_CardinalityType
<1>6. CountSound' /\ active' \in 0..MaxPoolSize
    <2>1. Len(idle) \in Nat /\ Len(idle') \in Nat
        BY <1>2, <1>4
    <2> QED
        BY <2>1, <1>1, <1>2, <1>4, <1>5, BusyFinite, PoolAssumption DEF PoolInv, CountSound
<1>7. held' \in [Threads -> Conns \cup {NoConn}] /\ borrowed' \subseteq Conns
    BY <1>1, <1>2
<1>8. PoolTypes'
    BY <1>1, <1>4, <1>6, <1>7, ReleaseLabels, Zenon DEF PoolInv, PoolTypes
<1>9. HeldWhileUsing'
    BY <1>1, <1>2, ReleaseLabels DEF PoolInv, HeldWhileUsing
<1>10. ConnExclusive'
    <2>1. ASSUME NEW u \in Threads, held'[u] # NoConn
          PROVE  u # t /\ held'[u] = held[u] /\ held[u] # held[t]
        BY <1>1, <1>2, <2>1
    <2>2. ASSUME NEW u \in Threads, held'[u] # NoConn
          PROVE  held'[u] \notin Range(idle')
        BY <1>2, <1>4, <2>1, <2>2
    <2>3. ASSUME NEW u \in Threads, held'[u] # NoConn, NEW v \in Threads \ {u}
          PROVE  held'[v] # held'[u]
        BY <1>1, <1>2, <2>1, <2>3
    <2> QED
        BY <1>4, <2>2, <2>3 DEF ConnExclusive
<1>11. BorrowLedger'
    <2>1. Range(held') \ {NoConn} = (Range(held) \ {NoConn}) \ {held[t]}
        BY <1>1, <1>2, <1>3, PoolAssumption DEF Range
    <2> QED
        BY <1>1, <2>1 DEF PoolInv, BorrowLedger
<1> QED
    BY <1>6, <1>8, <1>9, <1>10, <1>11 DEF PoolInv

LEMMA ShutdownInv ==
    ASSUME PoolInv, Shutdown
    PROVE  PoolInv'
<1>1. /\ idle' = <<>> /\ borrowed' = {} /\ shut' = TRUE
      /\ UNCHANGED <<active, mtx, held, late>>
      /\ pc' = [t \in Threads |-> IF pc[t] = "waiting" THEN "woken" ELSE pc[t]]
      /\ pc \in [Threads -> Labels] /\ idle \in Seq(Conns) /\ active \in 0..MaxPoolSize
    BY DEF Shutdown, PoolInv, PoolTypes
<1>2. pc' \in [Threads -> Labels]
    BY <1>1 DEF Labels
<1>3. PoolTypes'
    BY <1>1, <1>2, EmptyQueue, Zenon DEF PoolInv, PoolTypes
<1>4. HeldWhileUsing'
    BY <1>1 DEF PoolInv, HeldWhileUsing
<1>5. ConnExclusive'
    BY <1>1, EmptyQueue DEF PoolInv, ConnExclusive
<1>6. BorrowLedger'
    BY <1>1 DEF BorrowLedger
<1>7. Busy' = Busy
    BY <1>1 DEF Busy
<1>8. CountSound'
    BY <1>1, <1>7, EmptyQueue, PoolAssumption DEF PoolInv, CountSound
<1> QED
    BY <1>3, <1>4, <1>5, <1>6, <1>8 DEF PoolInv

LEMMA NextInv == PoolInv /\ [Next]_vars => PoolInv'
<1> SUFFICES ASSUME PoolInv, [Next]_vars PROVE PoolInv'
    OBVIOUS
<1>t. /\ pc \in [Threads -> Labels] /\ late \in [Threads -> BOOLEAN]
      /\ mtx \in Threads \cup {Nobody}
    BY DEF PoolInv, PoolTypes
<1>1. ASSUME NEW t \in Threads, Call(t) \/ Lock(t) \/ Wait(t) \/ Retry(t) \/ Timeout(t)
      PROVE  PoolInv'
    <2>1. UNCHANGED <<idle, borrowed, active, shut, held>>
        BY <1>1 DEF Call, Lock, Wait, Retry, Timeout
    <2>2. mtx' \in Threads \cup {Nobody}
        BY <1>1, <1>t DEF Call, Lock, Wait, Retry, Timeout
    <2>3. late' \in [Threads -> BOOLEAN]
        BY <1>1, <1>t DEF Call, Lock, Wait, Retry, Timeout
    <2>4. PICK l \in Labels \ {"creating", "using"} : pc' = [pc EXCEPT ![t] = l]
        BY <1>1 DEF Call, Lock, Wait, Retry, Timeout, Goto, Labels
    <2>5. pc[t] \notin {"creating", "using"}
        BY <1>1 DEF Call, Lock, Wait, Retry, Timeout
    <2>6. pc' \in [Threads -> Labels] /\ \A u \in Threads : pc'[u] # pc[u] =>
               {pc[u], pc'[u]} \cap {"creating", "using"} = {}
        BY <1>t, <2>4, <2>5
    <2> QED
        BY <2>1, <2>2, <2>3, <2>6, QuietStep
<1>2. ASSUME NEW t \in Threads, DeadlinePasses(t)
      PROVE  PoolInv'
    <2>1. late' \in [Threads -> BOOLEAN]
        BY <1>2, <1>t DEF DeadlinePasses
    <2>2. UNCHANGED <<idle, borrowed, active, shut, held, mtx, pc>>
        BY <1>2 DEF DeadlinePasses
    <2> QED
        BY <1>t, <2>1, <2>2, QuietStep
<1>3. CASE UNCHANGED vars
    BY <1>t, <1>3, QuietStep DEF vars, pool
<1> QED
    BY <1>1, <1>2, <1>3, BorrowIdleInv, CreatedInv, DropDeadInv, ExpandInv,
       CreateFailedInv, ReleaseInv, ShutdownInv DEF Next, Step

THEOREM PoolInvariant == Spec => []PoolInv
<1>1. QED
    BY InitInv, NextInv, PTL DEF Spec

----------------------------------------------------------------------------
(* What the history makes of a step *)
LEMMA MissedCounted ==
    ASSUME Len(idle') \in Nat, missed \in Nat, CountMissed
    PROVE  /\ missed' \in 0..Len(idle')
           /\ missed' = Len(idle') \/ missed' >= missed
           /\ \A t \in Threads : pc[t] = "woken" /\ pc'[t] = "out" =>
                  missed' = Len(idle') \/ missed' >= missed + 1
<1> DEFINE leaving == {t \in Threads : pc[t] = "woken" /\ pc'[t] = "out"}
<1>1. IsFiniteSet(leaving) /\ Cardinality(leaving) \in Nat
    BY PoolAssumption, FS_Subset, FS_CardinalityType
<1>2. \/ missed' = missed + Cardinality(leaving) /\ missed' <= Len(idle')
      \/ missed' = Len(idle')
    BY <1>1 DEF CountMissed
<1>3. ASSUME NEW t \in Threads, pc[t] = "woken", pc'[t] = "out"
      PROVE  Cardinality(leaving) >= 1
    <2>1. t \in leaving
        BY <1>3
    <2> QED
        BY <1>1, <2>1, FS_EmptySet
<1> DEFINE n == Cardinality(leaving)
<1>4. n \in Nat /\ \A t \in Threads : pc[t] = "woken" /\ pc'[t] = "out" => n >= 1
    BY <1>1, <1>3
<1>5. missed' = Len(idle') \/ (missed' = missed + n /\ missed' <= Len(idle'))
    BY <1>2
<1> HIDE DEF n
<1>6. missed' \in 0..Len(idle') /\ (missed' = Len(idle') \/ missed' = missed + n)
    BY <1>4, <1>5
<1>7. missed' = Len(idle') \/ missed' >= missed
    BY <1>4, <1>6
<1>8. ASSUME NEW t \in Threads, pc[t] = "woken", pc'[t] = "out"
      PROVE  missed' = Len(idle') \/ missed' >= missed + 1
    <2>1. n >= 1
        BY <1>4, <1>8
    <2> QED
        BY <1>4, <1>6, <2>1
<1> QED
    BY <1>6, <1>7, <1>8

(* Every variable of the pool keeps its type; in particular _activeCount   *)
(* stays in 0.._maxPoolSize whatever acquire, returnConnection and         *)
(* shutdown do.                                                            *)
THEOREM TypeCorrect == Spec => []TypeOK
<1> DEFINE Counted == missed \in 0..Len(idle)
<1>1. Init => Counted
    <2> SUFFICES ASSUME Init PROVE Counted
        OBVIOUS
    <2>1. PICK n \in 1..PoolSize : idle \in {s \in [1..n -> Conns] : IsInjective(s)}
        BY DEF Init
    <2>2. Len(idle) = n
        BY <2>1, PoolAssumption
    <2> QED
        BY <2>1, <2>2, PoolAssumption DEF Init
<1>2. PoolInv /\ PoolInv' /\ Counted /\ [Next]_vars => Counted'
    <2> SUFFICES ASSUME PoolInv, PoolInv', Counted, [Next]_vars PROVE Counted'
        OBVIOUS
    <2>1. Len(idle) \in Nat /\ Len(idle') \in Nat
        BY DEF PoolInv, PoolTypes
    <2>2. CASE CountMissed
        BY <2>1, <2>2, MissedCounted
    <2>3. CASE UNCHANGED vars
        BY <2>3 DEF vars, pool
    <2> QED
        BY <2>2, <2>3 DEF Next
<1>3. PoolInv /\ Counted => TypeOK
    BY DEF PoolInv, TypeOK
<1> HIDE DEF Counted
<1> QED
    BY <1>1, <1>2, <1>3, PoolInvariant, PTL DEF Spec

(* No MYSQL handle is ever used by two threads, nor lent while it is in    *)
(* the idle queue.                                                         *)
THEOREM Exclusive == Spec => []ConnExclusive
BY PoolInvariant, PTL DEF PoolInv

(* The loan record that the leak scan reads is exact. *)
THEOREM LedgerExact == Spec => []BorrowLedger
BY PoolInvariant, PTL DEF PoolInv

(* The pool never has more than _maxPoolSize connections, and _activeCount *)
(* does not leave 0.._maxPoolSize.                                         *)
THEOREM Bounded == Spec => []PoolBound
<1>1. PoolInv /\ TypeOK => PoolBound
    <2> SUFFICES ASSUME PoolInv, TypeOK PROVE PoolBound
        OBVIOUS
    <2>1. Len(idle) \in Nat /\ active \in 0..MaxPoolSize
        BY DEF PoolInv, PoolTypes
    <2> QED
        BY <2>1, BusyFinite, PoolAssumption DEF PoolInv, CountSound, PoolBound
<1> QED
    BY <1>1, PoolInvariant, TypeCorrect, PTL


----------------------------------------------------------------------------
(* The waiters that returnConnection still owes a notification *)

(* There are finitely many threads, so the alerted ones can be counted *)
LEMMA AlertedFinite ==
    ASSUME NEW S, S \subseteq Alerted
    PROVE  /\ IsFiniteSet(Alerted) /\ IsFiniteSet(S)
           /\ Cardinality(Alerted) \in Nat /\ Cardinality(S) \in Nat
           /\ Cardinality(S) <= Cardinality(Alerted)
<1>1. IsFiniteSet(Alerted)
    BY PoolAssumption, FS_Subset DEF Alerted
<1> QED
    BY <1>1, FS_Subset, FS_CardinalityType

(* The connections beside which no thread sleeps, step by step *)
CountedStep == PoolInv /\ PoolInv' /\ missed \in Nat /\ CountMissed /\ NoStrandedConn

LEMMA CountedTypes ==
    ASSUME CountedStep
    PROVE  /\ Len(idle) \in Nat /\ Len(idle') \in Nat
           /\ missed' \in 0..Len(idle')
           /\ Cardinality(Alerted)' \in Nat /\ IsFiniteSet(Alerted')
<1>1. Len(idle) \in Nat /\ Len(idle') \in Nat
    BY DEF CountedStep, PoolInv, PoolTypes
<1>2. IsFiniteSet(Alerted')
    BY PoolAssumption, FS_Subset DEF Alerted
<1> QED
    BY <1>1, <1>2, MissedCounted, FS_CardinalityType DEF CountedStep

(* A step after which nobody waits, or nothing is idle, strands nothing *)
LEMMA NothingToStrand ==
    ASSUME CountedStep, idle' = <<>> \/ \A t \in Threads : pc'[t] # "waiting"
    PROVE  NoStrandedConn'
<1>1. idle' = <<>> => Len(idle') = 0
    BY EmptyQueue
<1> QED
    BY <1>1, CountedTypes DEF NoStrandedConn

(* Neither does one that alerts a waiter for each connection it brings, or *)
(* counts the one that leaves: G are the threads that stay alerted, or     *)
(* come to be, j the notifications used up.                                *)
LEMMA AlertedEnough ==
    ASSUME CountedStep,
           \E t \in Threads : pc[t] = "waiting",
           NEW G, G \subseteq Alerted', NEW k \in -1..1, NEW j \in 0..1,
           Cardinality(G) = Cardinality(Alerted) + k, Len(idle') <= Len(idle) + k + j,
           missed' = Len(idle') \/ missed' >= missed + j
    PROVE  NoStrandedConn'
<1>1. Cardinality(G) <= Cardinality(Alerted') /\ Cardinality(G) \in Nat
    BY CountedTypes, FS_Subset, FS_CardinalityType
<1>2. Cardinality(Alerted) \in Nat /\ missed \in Nat
    BY AlertedFinite DEF CountedStep
<1>3. Len(idle) <= Cardinality(Alerted) + missed
    BY DEF CountedStep, NoStrandedConn
<1>4. Len(idle') <= Cardinality(Alerted') + missed'
    BY <1>1, <1>2, <1>3, CountedTypes
<1> QED
    BY <1>4 DEF NoStrandedConn

(* Steps that bring no connection and distract no alerted thread *)
LEMMA StillAlerted ==
    ASSUME CountedStep,
           Len(idle') <= Len(idle), Alerted \subseteq Alerted',
           \A t \in Threads : pc'[t] = "waiting" => pc[t] = "waiting"
    PROVE  NoStrandedConn'
<1>1. CASE \E t \in Threads : pc[t] = "waiting"
    <2>1. Cardinality(Alerted) \in Nat /\ missed \in Nat
        BY AlertedFinite DEF CountedStep
    <2>2. /\ Cardinality(Alerted) = Cardinality(Alerted) + 0
          /\ Len(idle') <= Len(idle) + 0 + 0
          /\ missed' = Len(idle') \/ missed' >= missed + 0
        BY <2>1, CountedTypes, MissedCounted DEF CountedStep
    <2> QED
        BY <1>1, <2>2, AlertedEnough
<1>2. CASE ~ \E t \in Threads : pc[t] = "waiting"
    BY <1>2, NothingToStrand
<1> QED
    BY <1>1, <1>2

(* Branch 1 of acquire: one alerted thread takes one connection *)
LEMMA BorrowIdleAlerted ==
    ASSUME CountedStep, NEW t \in Threads, BorrowIdle(t)
    PROVE  NoStrandedConn'
<1>1. /\ pc[t] = "loop" /\ pc' = [pc EXCEPT ![t] = "using"]
      /\ idle # <<>> /\ idle' = Tail(idle) /\ idle \in Seq(Conns) /\ IsInjective(idle)
      /\ pc \in [Threads -> Labels]
    BY DEF CountedStep, BorrowIdle, Lend, Goto, PoolInv, PoolTypes, ConnExclusive
<1>2. Len(idle') = Len(idle) - 1 /\ Len(idle) \in Nat /\ Len(idle') \in Nat
    BY <1>1, TailQueue DEF CountedStep, PoolInv, PoolTypes
<1>3. t \in Alerted /\ Alerted \ {t} \subseteq Alerted'
    BY <1>1 DEF Alerted
<1>4. CASE \E w \in Threads : pc[w] = "waiting"
    <2>1. /\ IsFiniteSet(Alerted) /\ IsFiniteSet(Alerted \ {t})
          /\ Cardinality(Alerted) \in Nat
          /\ Cardinality(Alerted \ {t}) = Cardinality(Alerted) - 1
        BY <1>3, AlertedFinite, FS_RemoveElement
    <2>2. /\ Cardinality(Alerted \ {t}) = Cardinality(Alerted) + (-1)
          /\ Len(idle') <= Len(idle) + (-1) + 0
          /\ missed' = Len(idle') \/ missed' >= missed + 0
        BY <1>2, <2>1, CountedTypes, MissedCounted DEF CountedStep
    <2> QED
        BY <1>2, <1>3, <1>4, <2>1, <2>2, AlertedEnough
<1>5. CASE ~ \E w \in Threads : pc[w] = "waiting"
    BY <1>1, <1>5, NothingToStrand
<1> QED
    BY <1>4, <1>5

(* returnConnection: the waiter that notify_one wakes is for the           *)
(* connection that comes back                                              *)
LEMMA ReleaseAlerted ==
    ASSUME CountedStep, NEW t \in Threads, Release(t)
    PROVE  NoStrandedConn'
<1>1. /\ pc[t] = "using" /\ pc \in [Threads -> Labels]
      /\ held[t] \in Conns /\ idle \in Seq(Conns)
      /\ \/ UNCHANGED idle /\ Goto(t, "out")
         \/ idle' = Append(idle, held[t]) /\ NotifyOne(t, "out")
    BY DEF CountedStep, Release, PoolInv, PoolTypes, HeldWhileUsing
<1>2. CASE UNCHANGED idle /\ Goto(t, "out")
    <2>1. pc' = [pc EXCEPT ![t] = "out"] /\ Len(idle') <= Len(idle)
        BY <1>1, <1>2 DEF Goto
    <2>2. Alerted \subseteq Alerted'
        BY <1>1, <2>1 DEF Alerted
    <2> QED
        BY <1>1, <2>1, <2>2, StillAlerted
<1>3. CASE idle' = Append(idle, held[t]) /\ NotifyOne(t, "out")
    <2>1. CASE {w \in Threads : pc[w] = "waiting"} = {}
        <3>1. pc' = [pc EXCEPT ![t] = "out"]
            BY <1>3, <2>1 DEF NotifyOne, Goto
        <3> QED
            BY <1>1, <2>1, <3>1, NothingToStrand
    <2>2. CASE {w \in Threads : pc[w] = "waiting"} # {}
        <3>1. PICK w \in Threads : /\ pc[w] = "waiting"
                                   /\ pc' = [pc EXCEPT ![t] = "out", ![w] = "woken"]
            BY <1>3, <2>2 DEF NotifyOne
        <3>2. w \notin Alerted /\ Alerted \cup {w} \subseteq Alerted'
            BY <1>1, <3>1 DEF Alerted
        <3>3. /\ IsFiniteSet(Alerted) /\ IsFiniteSet(Alerted \cup {w})
              /\ Cardinality(Alerted) \in Nat
              /\ Cardinality(Alerted \cup {w}) = Cardinality(Alerted) + 1
            BY <3>2, AlertedFinite, FS_AddElement
        <3>4. Len(idle') = Len(idle) + 1 /\ Len(idle) \in Nat
            BY <1>1, <1>3
        <3>5. /\ Len(idle') <= Len(idle) + 1 + 0
              /\ missed' = Len(idle') \/ missed' >= missed + 0
            BY <3>4, CountedTypes, MissedCounted DEF CountedStep
        <3> QED
            BY <3>1, <3>2, <3>3, <3>5, AlertedEnough
    <2> QED
        BY <2>1, <2>2
<1> QED
    BY <1>1, <1>2, <1>3

(* The other steps *)
LEMMA OthersAlerted ==
    ASSUME CountedStep, NEW t \in Threads,
           \/ Call(t) \/ Lock(t) \/ Retry(t) \/ Timeout(t) \/ CreateFailed(t)
           \/ Created(t) \/ DropDead(t) \/ DeadlinePasses(t)
    PROVE  NoStrandedConn'
<1>1. /\ pc \in [Threads -> Labels] /\ late \in [Threads -> BOOLEAN]
      /\ idle \in Seq(Conns) /\ IsInjective(idle)
    BY DEF CountedStep, PoolInv, PoolTypes, ConnExclusive
<1>2. Len(idle') <= Len(idle)
    <2>1. CASE DropDead(t)
        <3>1. idle # <<>> /\ idle' = Tail(idle)
            BY <2>1 DEF DropDead
        <3>2. Len(idle') = Len(idle) - 1 /\ Len(idle) \in Nat
            BY <1>1, <3>1, TailQueue
        <3> QED
            BY <3>2
    <2>2. CASE UNCHANGED idle
        BY <1>1, <2>2
    <2> QED
        BY <2>1, <2>2 DEF Call, Lock, Retry, Timeout, CreateFailed, Created, DeadlinePasses
<1>3. CASE Call(t) \/ Lock(t) \/ Retry(t) \/ CreateFailed(t)
    <2>1. PICK l \in {"lock", "loop"} : pc' = [pc EXCEPT ![t] = l]
        BY <1>3 DEF Call, Lock, Retry, CreateFailed, Goto
    <2> QED
        BY <1>1, <1>2, <2>1, StillAlerted DEF Alerted
<1>4. CASE Timeout(t)
    <2>1. pc' = [pc EXCEPT ![t] = "out"] /\ pc[t] \in {"waiting", "woken"} /\ UNCHANGED idle
        BY <1>4 DEF Timeout, Goto
    <2>2. CASE pc[t] = "waiting"
        BY <1>1, <1>2, <2>1, <2>2, StillAlerted DEF Alerted
    <2>3. CASE pc[t] = "woken" /\ \E w \in Threads : pc[w] = "waiting"
        <3>1. t \in Alerted /\ Alerted \ {t} \subseteq Alerted'
            BY <1>1, <2>1, <2>3 DEF Alerted
        <3>2. Cardinality(Alerted \ {t}) = Cardinality(Alerted) - 1 /\ Cardinality(Alerted) \in Nat
            BY <3>1, AlertedFinite, FS_RemoveElement
        <3>3. missed' = Len(idle') \/ missed' >= missed + 1
            BY <1>1, <2>1, <2>3, CountedTypes, MissedCounted DEF CountedStep
        <3>4. /\ Cardinality(Alerted \ {t}) = Cardinality(Alerted) + (-1)
              /\ Len(idle') <= Len(idle) + (-1) + 1
            BY <2>1, <3>2, CountedTypes
        <3> QED
            BY <2>3, <3>1, <3>3, <3>4, AlertedEnough
    <2>4. CASE ~ \E w \in Threads : pc[w] = "waiting"
        BY <1>1, <2>1, <2>4, NothingToStrand
    <2> QED
        BY <2>1, <2>2, <2>3, <2>4
<1>5. CASE Created(t)
    <2>1. pc[t] = "creating" /\ pc' = [pc EXCEPT ![t] = "using"]
        BY <1>5 DEF Created, Lend, Goto
    <2> QED
        BY <1>1, <1>2, <2>1, StillAlerted DEF Alerted
<1>6. CASE DropDead(t) \/ DeadlinePasses(t)
    <2>1. UNCHANGED pc
        BY <1>6 DEF DropDead, DeadlinePasses
    <2> QED
        BY <1>2, <2>1, StillAlerted DEF Alerted
<1> QED
    BY <1>3, <1>4, <1>5, <1>6

(* One notify_one for each connection that returnConnection brings back:   *)
(* while a thread is parked in wait_until of acquire, the idle connections *)
(* are no more than the threads on their way to the queue and the          *)
(* notifications that went to threads whose deadline had passed.           *)
THEOREM NoneStranded == Spec => []NoStrandedConn
<1>1. Init => NoStrandedConn
    BY DEF Init, NoStrandedConn
<1>2. PoolInv /\ PoolInv' /\ TypeOK /\ NoStrandedConn /\ [Next]_vars => NoStrandedConn'
    <2> SUFFICES ASSUME PoolInv, PoolInv', TypeOK, NoStrandedConn, [Next]_vars
                 PROVE  NoStrandedConn'
        OBVIOUS
    <2>1. CASE UNCHANGED vars
        BY <2>1 DEF vars, pool, NoStrandedConn, Alerted
    <2> SUFFICES ASSUME Next PROVE NoStrandedConn'
        BY <2>1
    <2>2. CountedStep
        <3>1. Len(idle) \in Nat
            BY DEF PoolInv, PoolTypes
        <3> QED
            BY <3>1 DEF CountedStep, Next, TypeOK
    <2>3. CASE Shutdown
        BY <2>2, <2>3, NothingToStrand DEF Shutdown
    <2>4. ASSUME NEW t \in Threads, Expand(t) \/ Wait(t)
          PROVE  NoStrandedConn'
        BY <2>2, <2>4, NothingToStrand DEF Expand, Wait
    <2> QED
        BY <2>2, <2>3, <2>4, BorrowIdleAlerted, ReleaseAlerted, OthersAlerted DEF Next, Step
<1> QED
    BY <1>1, <1>2, PoolInvariant, TypeCorrect, PTL DEF Spec
============================================================================
