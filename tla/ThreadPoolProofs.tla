--------------------------- MODULE ThreadPoolProofs ---------------------------
(***************************************************************************)
(* What TLAPS proves of ThreadPool for every number of slots, every set of *)
(* tasks, every minNum, INT_MAX and wait time.                             *)
(***************************************************************************)
EXTENDS ThreadPool, FiniteSetTheorems, TLAPS

(***************************************************************************)
(* The helpers the workers' states change by                               *)
(***************************************************************************)

\* A signal of isEmpty moves at most one worker, from waiting to woken.
LEMMA CondSignalMoves ==
    ASSUME NEW f \in [Slots -> WorkerStates], NEW g \in CondSignal(f)
    PROVE  /\ g \in [Slots -> WorkerStates]
           /\ \A i \in Slots : g[i] = f[i] \/ (f[i] = "wait" /\ g[i] = "woken")
<1> DEFINE waiting == {i \in Slots : f[i] = "wait"}
<1>1. CASE waiting = {}
  <2>1. g = f
    BY <1>1 DEF CondSignal
  <2> QED
    BY <2>1
<1>2. CASE waiting # {}
  <2>1. PICK i \in waiting : g = [f EXCEPT ![i] = "woken"]
    BY <1>2 DEF CondSignal
  <2> QED
    BY <2>1 DEF WorkerStates
<1> QED
  BY <1>1, <1>2

\* The slots of f whose state is in S.
In(f, S) == {i \in Slots : f[i] \in S}

\* The slots whose state is in S, when slot i moves to state s: their number
\* changes by one, up, down or not at all.
LEMMA InMoves ==
    ASSUME NEW f \in [Slots -> WorkerStates], NEW g \in [Slots -> WorkerStates],
           NEW i \in Slots, \A j \in Slots \ {i} : g[j] = f[j], NEW S
    PROVE  /\ Cardinality(In(f, S)) \in Nat
           /\ (f[i] \in S <=> g[i] \in S) => In(g, S) = In(f, S)
           /\ f[i] \in S /\ g[i] \notin S =>
                 Cardinality(In(g, S)) = Cardinality(In(f, S)) - 1
           /\ f[i] \notin S /\ g[i] \in S =>
                 Cardinality(In(g, S)) = Cardinality(In(f, S)) + 1
<1>1. IsFiniteSet(In(f, S))
  BY FS_Subset, PoolAssumption DEF In
<1>2. Cardinality(In(f, S)) \in Nat
  BY <1>1, FS_CardinalityType
<1>3. ASSUME f[i] \in S <=> g[i] \in S
      PROVE  In(g, S) = In(f, S)
  BY <1>3 DEF In
<1>4. ASSUME f[i] \in S, g[i] \notin S
      PROVE  Cardinality(In(g, S)) = Cardinality(In(f, S)) - 1
  <2>1. In(g, S) = In(f, S) \ {i} /\ i \in In(f, S)
    BY <1>4 DEF In
  <2> QED
    BY <2>1, <1>1, FS_RemoveElement
<1>5. ASSUME f[i] \notin S, g[i] \in S
      PROVE  Cardinality(In(g, S)) = Cardinality(In(f, S)) + 1
  <2>1. In(g, S) = In(f, S) \cup {i} /\ i \notin In(f, S)
    BY <1>5 DEF In
  <2> QED
    BY <2>1, <1>1, FS_AddElement
<1> QED
  BY <1>2, <1>3, <1>4, <1>5

\* A signal leaves the set of slots in S as it is when S tells waiting and woken
\* workers no difference.
LEMMA InSignalled ==
    ASSUME NEW f \in [Slots -> WorkerStates], NEW g \in CondSignal(f), NEW S,
           "wait" \in S <=> "woken" \in S
    PROVE  In(g, S) = In(f, S)
  BY CondSignalMoves DEF In

(***************************************************************************)
(* Types.  finished is a set of tasks only because a worker in a task's    *)
(* function holds one.                                                     *)
(***************************************************************************)
TypeInv == TypeOK /\ HandsHoldTasks

\* The constructor sets the fields to values of their types, and nobody holds a task.
LEMMA TypeInit == Init => TypeInv
<1> SUFFICES ASSUME Init PROVE TypeInv
  OBVIOUS
<1> USE PoolAssumption DEF Init
<1>1. HandsHoldTasks
  BY DEF HandsHoldTasks, HandStates
<1>2. pc \in [Slots -> WorkerStates] /\ task \in [Slots -> Tasks \cup {NoTask}]
  BY DEF WorkerStates
<1>3. waitTime \in 0..IntMax /\ time \in 0..(IntMax - 2) /\ exitNum \in 0..ExitBound
  OBVIOUS
<1>4. task_queue \in Seq(Tasks) /\ pushed \subseteq Tasks /\ signals \subseteq pushed
  OBVIOUS
<1>5. busyNum \in Int /\ liveNum \in Int /\ seen \in Int /\ finished \subseteq Tasks
  OBVIOUS
<1>6. shutdown \in BOOLEAN /\ mgr \in ManagerStates /\ owner \in OwnerStates
  BY Zenon DEF ManagerStates, OwnerStates
<1> QED
  BY <1>1, <1>2, <1>3, <1>4, <1>5, <1>6, Zenon DEF TypeInv, TypeOK

\* The step that takes a task, waits for one or dies, holding the lock.
LEMMA TakeOrWaitTypes ==
    ASSUME TypeInv, NEW i \in Slots, pc[i] \in {"lock", "woken"}, TakeOrWait(i)
    PROVE  /\ task_queue' \in Seq(Tasks)
           /\ pc' \in [Slots -> WorkerStates]
           /\ task' \in [Slots -> Tasks \cup {NoTask}]
           /\ HandsHoldTasks'
           /\ UNCHANGED <<exitNum, liveNum>>
<1> USE PoolAssumption DEF TypeInv, TypeOK, HandsHoldTasks, HandStates, WorkerStates, Goto
<1>1. CASE shutdown
  BY <1>1 DEF TakeOrWait
<1>2. CASE ~shutdown /\ task_queue = <<>>
  BY <1>2 DEF TakeOrWait
<1>3. CASE ~shutdown /\ task_queue # <<>>
  <2>1. Head(task_queue) \in Tasks /\ Tail(task_queue) \in Seq(Tasks)
    BY <1>3
  <2> QED
    BY <1>3, <2>1 DEF TakeOrWait, Popped
<1> QED
  BY <1>1, <1>2, <1>3 DEF TakeOrWait

\* A step of worker() keeps the types; the one that pops a task is in TakeOrWaitTypes.
LEMMA WorkerTypes ==
    ASSUME TypeInv, NEW i \in Slots, Worker(i) \/ SpuriousWake(i)
    PROVE  TypeInv'
<1> USE PoolAssumption
    DEF TypeInv, TypeOK, HandsHoldTasks, HandStates, WorkerStates, Goto, queueVars, managerVars
<1>1. ASSUME WorkerLock(i) PROVE TypeInv'
  BY <1>1, TakeOrWaitTypes DEF WorkerLock
<1>2. ASSUME WorkerWake(i) PROVE TypeInv'
  <2>1. CASE exitNum > 0
    BY <1>2, <2>1 DEF WorkerWake, ExitAsked, OneLess
  <2>2. CASE exitNum = 0
    BY <1>2, <2>2, TakeOrWaitTypes DEF WorkerWake, ExitAsked
  <2> QED
    BY <2>1, <2>2
<1>3. ASSUME WorkerSignal(i) PROVE TypeInv'
  <2> DEFINE f == [pc EXCEPT ![i] = "counting"]
  <2>1. f \in [Slots -> WorkerStates] /\ pc' \in CondSignal(f)
    BY <1>3 DEF WorkerSignal
  <2>2. /\ pc' \in [Slots -> WorkerStates]
        /\ \A j \in Slots : pc'[j] = f[j] \/ (f[j] = "wait" /\ pc'[j] = "woken")
    BY <2>1, CondSignalMoves
  <2> QED
    BY <1>3, <2>2 DEF WorkerSignal
<1>4. ASSUME WorkerBusy(i) PROVE TypeInv'
  BY <1>4 DEF WorkerBusy
<1>5. ASSUME WorkerReturn(i) PROVE TypeInv'
  BY <1>5 DEF WorkerReturn
<1>6. ASSUME WorkerIdle(i) PROVE TypeInv'
  BY <1>6 DEF WorkerIdle, OneIdle
<1>7. ASSUME ExitThread(i) PROVE TypeInv'
  BY <1>7 DEF ExitThread, ClearedSlot
<1>8. ASSUME SpuriousWake(i) PROVE TypeInv'
  BY <1>8 DEF SpuriousWake
<1> QED
  BY <1>1, <1>2, <1>3, <1>4, <1>5, <1>6, <1>7, <1>8 DEF Worker

\* A step of manager() keeps the types; its clock is reduced modulo INT_MAX - 1.
LEMMA ManagerTypes ==
    ASSUME TypeInv, Manager \/ ManagerCheckTorn
    PROVE  TypeInv'
<1> USE PoolAssumption
    DEF TypeInv, TypeOK, HandsHoldTasks, HandStates, WorkerStates, ManagerStates,
        ManagerGoto, queueVars, workerVars
<1>1. ASSUME ManagerTop PROVE TypeInv'
  BY <1>1 DEF ManagerTop
<1>2. ASSUME ManagerCheck PROVE TypeInv'
  BY <1>2 DEF ManagerCheck
<1>3. ASSUME ManagerCheckTorn PROVE TypeInv'
  BY <1>3 DEF ManagerCheckTorn
<1>4. ASSUME ManagerCreate PROVE TypeInv'
  <2>1. PICK made \in SUBSET InState({"none"}), leaked \in SUBSET InState({"none"}) :
          /\ pc' = [i \in Slots |-> IF i \in made THEN "lock"
                                    ELSE IF i \in leaked THEN "leaked" ELSE pc[i]]
          /\ liveNum' = liveNum + Cardinality(made)
    BY <1>4 DEF ManagerCreate
  <2>2. IsFiniteSet(made)
    BY FS_Subset DEF InState
  <2>3. liveNum' \in Int
    BY <2>1, <2>2, FS_CardinalityType
  <2>4. pc' \in [Slots -> WorkerStates]
    BY <2>1
  <2>5. \A i \in Slots : pc'[i] = pc[i] \/ (pc[i] = "none" /\ pc'[i] \in {"lock", "leaked"})
    BY <2>1 DEF InState
  <2> QED
    BY <1>4, <2>3, <2>4, <2>5 DEF ManagerCreate
<1>5. ASSUME ManagerReadBusy PROVE TypeInv'
  BY <1>5 DEF ManagerReadBusy
<1>6. ASSUME ManagerShrink PROVE TypeInv'
  BY <1>6 DEF ManagerShrink
<1>7. ASSUME ManagerTick PROVE TypeInv'
  <2>1. time' \in 0..(IntMax - 2)
    BY <1>7 DEF ManagerTick, Rounds
  <2> QED
    BY <1>7, <2>1 DEF ManagerTick
<1>8. ASSUME ManagerClose PROVE TypeInv'
  BY <1>8 DEF ManagerClose
<1>9. ASSUME ManagerBump PROVE TypeInv'
  BY <1>9 DEF ManagerBump, Bumped
<1>10. ASSUME ManagerSignal PROVE TypeInv'
  BY <1>10, CondSignalMoves DEF ManagerSignal
<1> QED
  BY <1>1, <1>2, <1>3, <1>4, <1>5, <1>6, <1>7, <1>8, <1>9, <1>10 DEF Manager

\* push(), wait() and the destructor keep the types.
LEMMA CallerTypes ==
    ASSUME TypeInv,
           \/ Owner \/ Destroy
           \/ \E w \in WaitTimes : Wait(w)
           \/ \E t \in Tasks : Push(t) \/ PushSignal(t)
    PROVE  TypeInv'
<1> USE PoolAssumption
    DEF TypeInv, TypeOK, HandsHoldTasks, OwnerStates, queueVars, workerVars, managerVars
<1>1. ASSUME Joined PROVE TypeInv'
  BY <1>1 DEF Joined
<1>2. ASSUME Drain PROVE TypeInv'
  BY <1>2 DEF Drain
<1>3. ASSUME DrainBump PROVE TypeInv'
  BY <1>3 DEF DrainBump, Bumped
<1>4. ASSUME DrainSignal PROVE TypeInv'
  BY <1>4, CondSignalMoves DEF DrainSignal, HandStates
<1>5. ASSUME Destroy PROVE TypeInv'
  BY <1>5 DEF Destroy
<1>6. ASSUME NEW w \in WaitTimes, Wait(w) PROVE TypeInv'
  BY <1>6 DEF Wait
<1>7. ASSUME NEW t \in Tasks, Push(t) PROVE TypeInv'
  BY <1>7 DEF Push, Enqueue
<1>8. ASSUME NEW t \in Tasks, PushSignal(t) PROVE TypeInv'
  BY <1>8, CondSignalMoves DEF PushSignal, HandStates
<1> QED
  BY <1>1, <1>2, <1>3, <1>4, <1>5, <1>6, <1>7, <1>8 DEF Owner

\* Every step of the pool keeps the types.
LEMMA TypeStep == TypeInv /\ [Next]_vars => TypeInv'
<1>1. ASSUME TypeInv, UNCHANGED vars PROVE TypeInv'
  BY <1>1
  DEF TypeInv, TypeOK, HandsHoldTasks, vars, queueVars, workerVars, managerVars
<1> QED
  BY <1>1, WorkerTypes, ManagerTypes, CallerTypes DEF Next, Threads

\* The pool's fields keep their types: in particular exitNum is never negative (a
\* worker exits only on a request, pthread_pool.cpp:73) and the manager's clock stays
\* below INT_MAX - 1 (:137).
THEOREM TypesHold == Spec => []TypeOK
<1>1. TypeInv => TypeOK
  BY DEF TypeInv
<1> QED
  BY <1>1, TypeInit, TypeStep, PTL DEF Spec

(***************************************************************************)
(* The two counters.  Every step leaves both counts alone, or moves one    *)
(* worker across the border of one of them, or creates workers.            *)
(***************************************************************************)
Counters == LiveNumCounts /\ BusyNumCounts

\* A pool that has just been made has no worker to count.
LEMMA CountersInit == Init => Counters
<1> SUFFICES ASSUME Init PROVE Counters
  OBVIOUS
<1>1. InState(LiveStates) = {} /\ InState(BusyStates) = {}
  BY DEF Init, InState, LiveStates, BusyStates
<1> QED
  BY <1>1, FS_EmptySet DEF Counters, LiveNumCounts, BusyNumCounts, Init

\* What a step that moves no border leaves to show.
LEMMA CountersKept ==
    ASSUME Counters, UNCHANGED <<liveNum, busyNum>>,
           In(pc', LiveStates) = In(pc, LiveStates),
           In(pc', BusyStates) = In(pc, BusyStates)
    PROVE  Counters'
  BY DEF Counters, LiveNumCounts, BusyNumCounts, InState, In

\* What a step that moves worker i to state s leaves to show.
LEMMA CountersMoved ==
    ASSUME TypeInv, Counters, NEW i \in Slots, NEW s \in WorkerStates, Goto(i, s),
           liveNum' = liveNum + (IF s \in LiveStates THEN 1 ELSE 0)
                              - (IF pc[i] \in LiveStates THEN 1 ELSE 0),
           busyNum' = busyNum + (IF s \in BusyStates THEN 1 ELSE 0)
                              - (IF pc[i] \in BusyStates THEN 1 ELSE 0)
    PROVE  Counters'
<1>1. /\ pc \in [Slots -> WorkerStates] /\ pc' \in [Slots -> WorkerStates]
      /\ pc'[i] = s /\ \A j \in Slots \ {i} : pc'[j] = pc[j]
  BY DEF TypeInv, TypeOK, Goto
<1>2. /\ liveNum = Cardinality(In(pc, LiveStates))
      /\ busyNum = Cardinality(In(pc, BusyStates))
  BY DEF Counters, LiveNumCounts, BusyNumCounts, InState, In
<1>3. liveNum' = Cardinality(In(pc', LiveStates))
  <2>1. /\ Cardinality(In(pc, LiveStates)) \in Nat
        /\ (pc[i] \in LiveStates <=> s \in LiveStates) => In(pc', LiveStates) = In(pc, LiveStates)
        /\ pc[i] \in LiveStates /\ s \notin LiveStates =>
              Cardinality(In(pc', LiveStates)) = Cardinality(In(pc, LiveStates)) - 1
        /\ pc[i] \notin LiveStates /\ s \in LiveStates =>
              Cardinality(In(pc', LiveStates)) = Cardinality(In(pc, LiveStates)) + 1
    BY <1>1, InMoves
  <2> QED
    BY <1>2, <2>1
<1>4. busyNum' = Cardinality(In(pc', BusyStates))
  <2>1. /\ Cardinality(In(pc, BusyStates)) \in Nat
        /\ (pc[i] \in BusyStates <=> s \in BusyStates) => In(pc', BusyStates) = In(pc, BusyStates)
        /\ pc[i] \in BusyStates /\ s \notin BusyStates =>
              Cardinality(In(pc', BusyStates)) = Cardinality(In(pc, BusyStates)) - 1
        /\ pc[i] \notin BusyStates /\ s \in BusyStates =>
              Cardinality(In(pc', BusyStates)) = Cardinality(In(pc, BusyStates)) + 1
    BY <1>1, InMoves
  <2> QED
    BY <1>2, <2>1
<1> QED
  BY <1>3, <1>4 DEF Counters, LiveNumCounts, BusyNumCounts, InState, In

\* What a step that signals isEmpty and does nothing else to the workers leaves.
LEMMA CountersSignalled ==
    ASSUME TypeInv, Counters, pc' \in CondSignal(pc), UNCHANGED <<liveNum, busyNum>>
    PROVE  Counters'
<1>1. pc \in [Slots -> WorkerStates]
  BY DEF TypeInv, TypeOK
<1>2. In(pc', LiveStates) = In(pc, LiveStates)
  BY <1>1, InSignalled DEF LiveStates, WorkerStates
<1>3. In(pc', BusyStates) = In(pc, BusyStates)
  BY <1>1, InSignalled DEF BusyStates
<1> QED
  BY <1>2, <1>3, CountersKept

\* A worker that crosses a border of the live or the busy states updates the counter
\* in the same critical section.
LEMMA WorkerCounters ==
    ASSUME TypeInv, Counters, NEW i \in Slots, Worker(i) \/ SpuriousWake(i)
    PROVE  Counters'
<1> USE DEF LiveStates, BusyStates, WorkerStates
<1>t. liveNum \in Int /\ busyNum \in Int
  BY DEF TypeInv, TypeOK
<1>0. ASSUME TakeOrWait(i), pc[i] \in {"lock", "woken"}, UNCHANGED busyNum PROVE Counters'
  <2>1. PICK s \in {"dead", "wait", "popped"} : Goto(i, s)
    BY <1>0 DEF TakeOrWait
  <2>2. UNCHANGED liveNum
    BY <1>0 DEF TakeOrWait
  <2> QED
    BY <1>0, <1>t, <2>1, <2>2, CountersMoved
<1>1. ASSUME WorkerLock(i) PROVE Counters'
  BY <1>0, <1>1 DEF WorkerLock
<1>2. ASSUME WorkerWake(i) PROVE Counters'
  <2>1. CASE TakeOrWait(i)
    BY <1>0, <1>2, <2>1 DEF WorkerWake
  <2>2. CASE ~TakeOrWait(i)
    <3>1. /\ pc[i] = "woken" /\ Goto(i, "leaving")
          /\ liveNum' = liveNum - 1 /\ UNCHANGED busyNum
      BY <1>2, <2>2 DEF WorkerWake, OneLess
    <3> QED
      BY <3>1, <1>t, CountersMoved
  <2> QED
    BY <2>1, <2>2
<1>3. ASSUME WorkerSignal(i) PROVE Counters'
  <2> DEFINE f == [pc EXCEPT ![i] = "counting"]
  <2>1. /\ f \in [Slots -> WorkerStates] /\ pc' \in CondSignal(f)
        /\ pc[i] = "popped" /\ UNCHANGED <<liveNum, busyNum>>
    BY <1>3 DEF WorkerSignal, TypeInv, TypeOK
  <2>2. In(f, LiveStates) = In(pc, LiveStates) /\ In(f, BusyStates) = In(pc, BusyStates)
    BY <2>1 DEF In, TypeInv, TypeOK
  <2>3. In(pc', LiveStates) = In(f, LiveStates)
    BY <2>1, InSignalled
  <2>4. In(pc', BusyStates) = In(f, BusyStates)
    BY <2>1, InSignalled
  <2> QED
    BY <2>1, <2>2, <2>3, <2>4, CountersKept
<1>4. ASSUME WorkerBusy(i) PROVE Counters'
  BY <1>4, <1>t, CountersMoved DEF WorkerBusy
<1>5. ASSUME WorkerReturn(i) PROVE Counters'
  BY <1>5, <1>t, CountersMoved DEF WorkerReturn
<1>6. ASSUME WorkerIdle(i) PROVE Counters'
  BY <1>6, <1>t, CountersMoved DEF WorkerIdle, OneIdle
<1>7. ASSUME ExitThread(i) PROVE Counters'
  BY <1>7, <1>t, CountersMoved DEF ExitThread, ClearedSlot
<1>8. ASSUME SpuriousWake(i) PROVE Counters'
  BY <1>8, <1>t, CountersMoved DEF SpuriousWake
<1> QED
  BY <1>1, <1>2, <1>3, <1>4, <1>5, <1>6, <1>7, <1>8 DEF Worker

\* The manager adds to liveNum the workers that pthread_create made, and no other.
LEMMA CreateCounters ==
    ASSUME TypeInv, Counters, ManagerCreate
    PROVE  Counters'
<1>1. PICK made \in SUBSET InState({"none"}), leaked \in SUBSET InState({"none"}) :
        /\ pc' = [i \in Slots |-> IF i \in made THEN "lock"
                                  ELSE IF i \in leaked THEN "leaked" ELSE pc[i]]
        /\ liveNum' = liveNum + Cardinality(made)
  BY DEF ManagerCreate
<1>2. /\ made \subseteq Slots
      /\ \A i \in made \cup leaked : pc[i] = "none"
  BY DEF InState
<1>3. IsFiniteSet(made) /\ IsFiniteSet(In(pc, LiveStates))
  BY <1>2, PoolAssumption, FS_Subset DEF In
<1>4. /\ In(pc', LiveStates) = In(pc, LiveStates) \cup made
      /\ In(pc, LiveStates) \cap made = {}
      /\ In(pc', BusyStates) = In(pc, BusyStates)
  BY <1>1, <1>2 DEF In, LiveStates, BusyStates, WorkerStates
<1>5. /\ Cardinality(In(pc', LiveStates)) = Cardinality(In(pc, LiveStates))
                                            + Cardinality(made) - Cardinality({})
      /\ Cardinality(In(pc, LiveStates)) \in Nat /\ Cardinality(made) \in Nat
  BY <1>3, <1>4, FS_Union, FS_CardinalityType
<1>6. liveNum' = Cardinality(In(pc', LiveStates))
  BY <1>1, <1>5, FS_EmptySet DEF Counters, LiveNumCounts, InState, In
<1>7. UNCHANGED busyNum
  BY DEF ManagerCreate
<1> QED
  BY <1>4, <1>6, <1>7 DEF Counters, LiveNumCounts, BusyNumCounts, InState, In

\* Every step of the pool keeps both counters right.
LEMMA CountersStep == TypeInv /\ Counters /\ [Next]_vars => Counters'
<1> SUFFICES ASSUME TypeInv, Counters, [Next]_vars PROVE Counters'
  OBVIOUS
<1>1. ASSUME UNCHANGED <<pc, liveNum, busyNum>> PROVE Counters'
  BY <1>1 DEF Counters, LiveNumCounts, BusyNumCounts, InState
<1>2. ASSUME Manager \/ ManagerCheckTorn PROVE Counters'
  BY <1>1, <1>2, CreateCounters, CountersSignalled
  DEF Manager, ManagerTop, ManagerCheck, ManagerCheckTorn, ManagerReadBusy, ManagerShrink,
      ManagerTick, ManagerClose, ManagerBump, ManagerSignal, workerVars
<1>3. ASSUME Owner \/ Destroy PROVE Counters'
  BY <1>1, <1>3, CountersSignalled
  DEF Owner, Joined, Drain, DrainBump, DrainSignal, Destroy, workerVars
<1>4. ASSUME NEW w \in WaitTimes, Wait(w) PROVE Counters'
  BY <1>1, <1>4 DEF Wait, workerVars
<1>5. ASSUME NEW t \in Tasks, Push(t) \/ PushSignal(t) PROVE Counters'
  BY <1>1, <1>5, CountersSignalled DEF Push, PushSignal, workerVars
<1>6. CASE UNCHANGED vars
  BY <1>1, <1>6 DEF vars, workerVars
<1> QED
  BY <1>2, <1>3, <1>4, <1>5, <1>6, WorkerCounters DEF Next, Threads

\* liveNum counts the workers that have neither left nor failed to start: the
\* decrement of a worker that exits (pthread_pool.cpp:75) and the manager's increment
\* (:116) never lose one.
THEOREM LiveNumHolds == Spec => []LiveNumCounts
<1>1. Counters => LiveNumCounts
  BY DEF Counters
<1> QED
  BY <1>1, TypeInit, TypeStep, CountersInit, CountersStep, PTL DEF Spec

\* busyNum counts the workers between its two updates (pthread_pool.cpp:90, :94).
THEOREM BusyNumHolds == Spec => []BusyNumCounts
<1>1. Counters => BusyNumCounts
  BY DEF Counters
<1> QED
  BY <1>1, TypeInit, TypeStep, CountersInit, CountersStep, PTL DEF Spec

(***************************************************************************)
(* Tasks.  As far as they are concerned a step is one of four: a push, the *)
(* pop of the head of the queue, the return of a task's function, or a     *)
(* step that touches neither the queue nor what the workers hold.          *)
(***************************************************************************)
Takes(i) ==
    /\ pc[i] \in {"lock", "woken"}
    /\ task_queue # <<>>
    /\ task' = [task EXCEPT ![i] = Head(task_queue)]
    /\ task_queue' = Tail(task_queue)
    /\ Goto(i, "popped")
    /\ UNCHANGED <<pushed, finished>>

Quiet ==
    /\ UNCHANGED <<task_queue, pushed, task, finished>>
    /\ In(pc', HandStates) = In(pc, HandStates)

\* A step of worker() takes a task, ends one, or leaves the tasks where they are.
LEMMA WorkerKinds ==
    ASSUME TypeInv, NEW i \in Slots, Worker(i) \/ SpuriousWake(i)
    PROVE  Quiet \/ Takes(i) \/ WorkerReturn(i)
<1> USE DEF Goto, HandStates, queueVars
<1>t. pc \in [Slots -> WorkerStates]
  BY DEF TypeInv, TypeOK
<1>0. ASSUME TakeOrWait(i), pc[i] \in {"lock", "woken"}, UNCHANGED <<pushed, finished>>
      PROVE  Quiet \/ Takes(i)
  <2>1. CASE shutdown \/ task_queue = <<>>
    BY <1>0, <1>t, <2>1 DEF TakeOrWait, Quiet, In
  <2>2. CASE ~shutdown /\ task_queue # <<>>
    BY <1>0, <2>2 DEF TakeOrWait, Takes, Popped
  <2> QED
    BY <2>1, <2>2
<1>1. ASSUME WorkerLock(i) PROVE Quiet \/ Takes(i)
  BY <1>0, <1>1 DEF WorkerLock
<1>2. ASSUME WorkerWake(i) PROVE Quiet \/ Takes(i)
  <2>1. CASE TakeOrWait(i)
    BY <1>0, <1>2, <2>1 DEF WorkerWake
  <2>2. CASE ~TakeOrWait(i)
    BY <1>2, <1>t, <2>2 DEF WorkerWake, Quiet, In
  <2> QED
    BY <2>1, <2>2
<1>3. ASSUME WorkerSignal(i) PROVE Quiet
  <2> DEFINE f == [pc EXCEPT ![i] = "counting"]
  <2>1. f \in [Slots -> WorkerStates] /\ pc' \in CondSignal(f) /\ pc[i] = "popped"
    BY <1>3, <1>t DEF WorkerSignal, WorkerStates
  <2>2. In(f, HandStates) = In(pc, HandStates)
    BY <2>1, <1>t DEF In
  <2>3. In(pc', HandStates) = In(f, HandStates)
    BY <2>1, InSignalled
  <2> QED
    BY <1>3, <2>2, <2>3 DEF WorkerSignal, Quiet
<1>4. ASSUME WorkerBusy(i) \/ WorkerIdle(i) \/ ExitThread(i) \/ SpuriousWake(i) PROVE Quiet
  BY <1>4, <1>t DEF WorkerBusy, WorkerIdle, ExitThread, ClearedSlot, SpuriousWake, Quiet, In
<1> QED
  BY <1>1, <1>2, <1>3, <1>4 DEF Worker

\* So does every step of the pool but push(), which adds one.
LEMMA StepKinds ==
    ASSUME TypeInv, [Next]_vars
    PROVE  \/ Quiet
           \/ \E t \in Tasks : Push(t)
           \/ \E i \in Slots : Takes(i) \/ WorkerReturn(i)
<1>1. pc \in [Slots -> WorkerStates]
  BY DEF TypeInv, TypeOK
<1>2. ASSUME pc' \in CondSignal(pc), UNCHANGED <<task_queue, pushed, task, finished>>
      PROVE  Quiet
  BY <1>1, <1>2, InSignalled DEF Quiet, HandStates
<1>3. ASSUME UNCHANGED <<pc, task_queue, pushed, task, finished>> PROVE Quiet
  BY <1>3 DEF Quiet, In
<1>4. ASSUME ManagerCreate PROVE Quiet
  <2>1. PICK made \in SUBSET InState({"none"}), leaked \in SUBSET InState({"none"}) :
          pc' = [i \in Slots |-> IF i \in made THEN "lock"
                                 ELSE IF i \in leaked THEN "leaked" ELSE pc[i]]
    BY <1>4 DEF ManagerCreate
  <2>2. In(pc', HandStates) = In(pc, HandStates)
    BY <2>1 DEF InState, In, HandStates
  <2> QED
    BY <1>4, <2>2 DEF ManagerCreate, Quiet, queueVars
<1>5. ASSUME Manager \/ ManagerCheckTorn PROVE Quiet
  BY <1>2, <1>3, <1>4, <1>5
  DEF Manager, ManagerTop, ManagerCheck, ManagerCheckTorn, ManagerReadBusy, ManagerShrink,
      ManagerTick, ManagerClose, ManagerBump, ManagerSignal, workerVars, queueVars
<1>6. ASSUME Owner \/ Destroy PROVE Quiet
  BY <1>2, <1>3, <1>6
  DEF Owner, Joined, Drain, DrainBump, DrainSignal, Destroy, workerVars, queueVars
<1>7. ASSUME NEW w \in WaitTimes, Wait(w) PROVE Quiet
  BY <1>3, <1>7 DEF Wait, workerVars, queueVars
<1>8. ASSUME NEW t \in Tasks, PushSignal(t) PROVE Quiet
  BY <1>2, <1>8 DEF PushSignal
<1>9. CASE UNCHANGED vars
  BY <1>3, <1>9 DEF vars, workerVars, queueVars
<1> QED
  BY <1>5, <1>6, <1>7, <1>8, <1>9, WorkerKinds DEF Next, Threads

Conserved == HandedOnce /\ OnePlace /\ SomePlace

Queued == {task_queue[n] : n \in DOMAIN task_queue}

\* At first there is no task anywhere.
LEMMA ConservedInit == Init => Conserved
  BY DEF Init, Conserved, HandedOnce, OnePlace, SomePlace, Running, InState, HandStates

\* push() puts a task that was nowhere in the queue.
LEMMA PushConserves ==
    ASSUME TypeInv, Conserved, NEW t \in Tasks, Push(t)
    PROVE  Conserved'
<1>1. /\ task_queue \in Seq(Tasks) /\ task_queue' = Append(task_queue, t)
      /\ t \notin pushed /\ pushed' = pushed \cup {t}
      /\ UNCHANGED <<pc, task, finished>>
  BY DEF Push, Enqueue, TypeInv, TypeOK, workerVars
<1>2. Running' = Running /\ InState(HandStates)' = InState(HandStates)
  BY <1>1 DEF Running, InState
<1>3. /\ DOMAIN task_queue' = DOMAIN task_queue \cup {Len(task_queue) + 1}
      /\ \A n \in DOMAIN task_queue : n # Len(task_queue) + 1 /\ task_queue'[n] = task_queue[n]
      /\ task_queue'[Len(task_queue) + 1] = t
  BY <1>1
<1>4. \A n \in DOMAIN task_queue : task_queue[n] # t
  BY <1>1 DEF Conserved, SomePlace
<1>5. t \notin Running \cup finished
  BY <1>1 DEF Conserved, SomePlace
<1>6. HandedOnce'
  BY <1>1, <1>2, <1>3, <1>4 DEF Conserved, HandedOnce
<1>7. OnePlace'
  BY <1>1, <1>2, <1>3, <1>5 DEF Conserved, OnePlace
<1>8. SomePlace'
  BY <1>1, <1>2, <1>3 DEF Conserved, SomePlace
<1> QED
  BY <1>6, <1>7, <1>8 DEF Conserved

\* A worker that takes a task moves it from the queue to its hands.
LEMMA TakeConserves ==
    ASSUME TypeInv, Conserved, NEW i \in Slots, Takes(i)
    PROVE  /\ Conserved'
           /\ Running' = Running \cup {Head(task_queue)}
           /\ i \notin InState(HandStates)
<1> DEFINE h == Head(task_queue)
<1>1. /\ task_queue \in Seq(Tasks) /\ task_queue # <<>> /\ task_queue' = Tail(task_queue)
      /\ task \in [Slots -> Tasks \cup {NoTask}] /\ task' = [task EXCEPT ![i] = h]
      /\ pc \in [Slots -> WorkerStates] /\ pc' = [pc EXCEPT ![i] = "popped"]
      /\ pc[i] \in {"lock", "woken"} /\ UNCHANGED <<pushed, finished>>
  BY DEF Takes, Goto, TypeInv, TypeOK
<1>2. /\ 1 \in DOMAIN task_queue /\ h = task_queue[1]
      /\ DOMAIN task_queue' = {n \in Nat \ {0} : n + 1 \in DOMAIN task_queue}
      /\ \A n \in DOMAIN task_queue' : task_queue'[n] = task_queue[n + 1]
      /\ \A n \in DOMAIN task_queue : n \in Nat /\ (n = 1 \/ n - 1 \in DOMAIN task_queue')
  BY <1>1
<1>3. i \notin InState(HandStates) /\ InState(HandStates)' = InState(HandStates) \cup {i}
  BY <1>1 DEF InState, HandStates
<1>4. /\ task'[i] = h
      /\ \A j \in InState(HandStates) : j \in Slots /\ task'[j] = task[j]
  BY <1>1, <1>3 DEF InState
<1>5. Running' = Running \cup {h}
  BY <1>3, <1>4 DEF Running
<1>6. h \notin Running \cup finished
  BY <1>2 DEF Conserved, OnePlace
<1>7. HandedOnce'
  <2>1. \A j, k \in InState(HandStates)' : task'[j] = task'[k] => j = k
    BY <1>3, <1>4, <1>6 DEF Conserved, HandedOnce, Running
  <2>2. \A m, n \in DOMAIN task_queue' : task_queue'[m] = task_queue'[n] => m = n
    BY <1>2 DEF Conserved, HandedOnce
  <2> QED
    BY <2>1, <2>2 DEF HandedOnce
<1>8. OnePlace'
  <2>1. \A n \in DOMAIN task_queue' : task_queue'[n] # h
    BY <1>2 DEF Conserved, HandedOnce
  <2>2. \A n \in DOMAIN task_queue' : task_queue'[n] \notin Running \cup finished
    BY <1>2 DEF Conserved, OnePlace
  <2> QED
    BY <1>1, <1>5, <1>6, <2>1, <2>2 DEF Conserved, OnePlace
<1>9. SomePlace'
  <2>1. Queued = Queued' \cup {h}
    BY <1>2 DEF Queued
  <2> QED
    BY <1>1, <1>5, <2>1 DEF Conserved, SomePlace, Queued
<1> QED
  BY <1>3, <1>5, <1>7, <1>8, <1>9 DEF Conserved

\* A task whose function returns moves from its worker to the finished ones.
LEMMA ReturnConserves ==
    ASSUME TypeInv, Conserved, NEW i \in Slots, WorkerReturn(i)
    PROVE  /\ Conserved'
           /\ task[i] \in Running /\ Running' = Running \ {task[i]}
<1>1. /\ task \in [Slots -> Tasks \cup {NoTask}] /\ task' = [task EXCEPT ![i] = NoTask]
      /\ pc \in [Slots -> WorkerStates] /\ pc' = [pc EXCEPT ![i] = "ran"] /\ pc[i] = "run"
      /\ finished' = finished \cup {task[i]} /\ UNCHANGED <<task_queue, pushed>>
  BY DEF WorkerReturn, Goto, TypeInv, TypeOK, queueVars
<1>2. i \in InState(HandStates) /\ InState(HandStates)' = InState(HandStates) \ {i}
  BY <1>1 DEF InState, HandStates
<1>3. \A j \in InState(HandStates)' : j # i /\ task'[j] = task[j]
  BY <1>1, <1>2 DEF InState
<1>4. task[i] \in Running
  BY <1>2 DEF Running
<1>5. Running' = Running \ {task[i]}
  BY <1>2, <1>3 DEF Running, Conserved, HandedOnce
<1>6. HandedOnce'
  BY <1>1, <1>2, <1>3 DEF Conserved, HandedOnce
<1>7. OnePlace'
  BY <1>1, <1>4, <1>5 DEF Conserved, OnePlace
<1>8. SomePlace'
  BY <1>1, <1>4, <1>5 DEF Conserved, SomePlace
<1> QED
  BY <1>4, <1>5, <1>6, <1>7, <1>8 DEF Conserved

\* A step that leaves the tasks where they are conserves them.
LEMMA QuietConserves ==
    ASSUME Conserved, Quiet
    PROVE  Conserved' /\ Running' = Running
<1>1. Running' = Running /\ InState(HandStates)' = InState(HandStates)
  BY DEF Quiet, Running, InState, In
<1> QED
  BY <1>1 DEF Conserved, HandedOnce, OnePlace, SomePlace, Quiet

\* Every step of the pool conserves the tasks.
LEMMA ConservedStep == TypeInv /\ Conserved /\ [Next]_vars => Conserved'
  BY StepKinds, QuietConserves, PushConserves, TakeConserves, ReturnConserves

\* No task is lost, run twice or in two places at once, whatever workers are created,
\* woken, told to exit or end at shutdown between push() and the return of its function.
THEOREM TasksConservedHolds == Spec => []TasksConserved
<1>1. TypeInv /\ Conserved => TasksConserved
  BY DEF TypeInv, Conserved, TasksConserved
<1> QED
  BY <1>1, TypeInit, TypeStep, ConservedInit, ConservedStep, PTL DEF Spec

(***************************************************************************)
(* The pool implements TaskQueue                                           *)
(***************************************************************************)

\* While a worker holds no task there are fewer tasks running than slots.
LEMMA FreeWorkerMeansRoom ==
    ASSUME TypeInv, NEW i \in Slots, i \notin InState(HandStates)
    PROVE  Cardinality(Running) < maxNum
<1> DEFINE H == InState(HandStates)
           f == [j \in H |-> task[j]]
<1>1. H \in SUBSET (Slots \ {i})
  BY DEF InState
<1>2. /\ IsFiniteSet(Slots \ {i}) /\ Cardinality(Slots \ {i}) = maxNum - 1
      /\ IsFiniteSet(Slots) /\ maxNum \in Nat
  BY PoolAssumption, FS_RemoveElement, FS_CardinalityType DEF maxNum
<1>3. IsFiniteSet(H) /\ Cardinality(H) <= maxNum - 1
  BY <1>1, <1>2, FS_Subset
<1>4. f \in Surjection(H, Running)
  BY DEF Surjection, Running
<1>5. IsFiniteSet(Running) /\ Cardinality(Running) <= Cardinality(H)
  BY <1>3, <1>4, FS_Surjection
<1>6. Cardinality(H) \in Nat /\ Cardinality(Running) \in Nat
  BY <1>3, <1>5, FS_CardinalityType
<1> QED
  BY <1>2, <1>3, <1>5, <1>6

\* A pool that has just been made is an empty queue.
LEMMA RefineInit == Init => TQ!Init
<1> SUFFICES ASSUME Init PROVE TQ!Init
  OBVIOUS
<1>1. Running = {}
  BY DEF Init, Running, InState, HandStates
<1> QED
  BY <1>1 DEF Init, TQ!Init

\* Every step of the pool is a step of the queue: push() is Submit, a pop is Start, the
\* return of a function is Finish, and the rest leaves the queue alone.
LEMMA RefineStep == TypeInv /\ Conserved /\ [Next]_vars => [TQ!Next]_TQ!vars
<1> SUFFICES ASSUME TypeInv, Conserved, [Next]_vars PROVE [TQ!Next]_TQ!vars
  OBVIOUS
<1>1. CASE Quiet
  BY <1>1, QuietConserves DEF Quiet, TQ!vars
<1>2. ASSUME NEW t \in Tasks, Push(t) PROVE TQ!Submit(t)
  <2>1. Running' = Running
    BY <1>2 DEF Push, Running, InState, workerVars
  <2> QED
    BY <1>2, <2>1 DEF Push, Enqueue, TQ!Submit, workerVars
<1>3. ASSUME NEW i \in Slots, Takes(i) PROVE TQ!Start
  <2>1. Running' = Running \cup {Head(task_queue)} /\ i \notin InState(HandStates)
    BY <1>3, TakeConserves
  <2>2. Cardinality(Running) < maxNum
    BY <2>1, FreeWorkerMeansRoom
  <2>3. Cardinality(Running) = TQ!Cardinality(Running)
    BY DEF Cardinality, TQ!Cardinality
  <2> QED
    BY <1>3, <2>1, <2>2, <2>3 DEF Takes, TQ!Start
<1>4. ASSUME NEW i \in Slots, WorkerReturn(i) PROVE \E t \in Tasks : TQ!Finish(t)
  <2>1. task[i] \in Running /\ Running' = Running \ {task[i]}
    BY <1>4, ReturnConserves
  <2>2. task[i] \in Tasks
    BY <1>4 DEF WorkerReturn, TypeInv, TypeOK, HandsHoldTasks, HandStates
  <2>3. TQ!Finish(task[i])
    BY <1>4, <2>1 DEF WorkerReturn, TQ!Finish, queueVars
  <2> QED
    BY <2>2, <2>3
<1> QED
  BY <1>1, <1>2, <1>3, <1>4, StepKinds DEF TQ!Next

\* Every behaviour of the pool is one of the queue of tasks the judge relies on: tasks
\* start in the order of their pushes, once each, at most maxNum of them at a time.
THEOREM PoolImplementsTaskQueue == Spec => ImplementsTaskQueue
  BY TypeInit, TypeStep, ConservedInit, ConservedStep, RefineInit, RefineStep, PTL
  DEF Spec, ImplementsTaskQueue, TQ!Spec

(***************************************************************************)
(* Closing and destroying the pool                                         *)
(***************************************************************************)

\* A wait time other than the default belongs to a caller that is still in wait(),
\* until the manager has returned: what DefaultNeverCloses needs to be inductive.
Waited == waitTime # IntMax => owner = "join" \/ mgr = "done"

CloseInv == Waited /\ DefaultNeverCloses

\* Every step of the pool keeps CloseInv; only the manager's tick can begin to close.
LEMMA CloseStep == TypeInv /\ CloseInv /\ [Next]_vars => CloseInv'
<1> SUFFICES ASSUME TypeInv, CloseInv, [Next]_vars PROVE CloseInv'
  OBVIOUS
<1> USE DEF CloseInv, Waited, DefaultNeverCloses
<1>1. ASSUME UNCHANGED <<waitTime, mgr, owner>> PROVE CloseInv'
  BY <1>1
<1>2. ASSUME NEW i \in Slots, Worker(i) \/ SpuriousWake(i) PROVE CloseInv'
  BY <1>1, <1>2
  DEF Worker, WorkerLock, WorkerWake, WorkerSignal, WorkerBusy, WorkerReturn, WorkerIdle,
      ExitThread, SpuriousWake, managerVars
<1>3. ASSUME ManagerTick PROVE CloseInv'
  <2>1. time' \in 0..(IntMax - 2) /\ waitTime \in 0..IntMax /\ IntMax \in Nat
    BY <1>3, PoolAssumption, ManagerTypes DEF Manager, TypeInv, TypeOK
  <2>2. CASE time' >= waitTime
    BY <1>3, <2>1, <2>2 DEF ManagerTick, ManagerGoto
  <2>3. CASE ~(time' >= waitTime)
    BY <1>3, <2>3 DEF ManagerTick, ManagerGoto
  <2> QED
    BY <2>2, <2>3
<1>4. ASSUME \/ ManagerTop \/ ManagerCheck \/ ManagerCheckTorn \/ ManagerCreate
             \/ ManagerReadBusy \/ ManagerShrink \/ ManagerClose \/ ManagerBump
             \/ ManagerSignal
      PROVE  CloseInv'
  BY <1>4
  DEF ManagerTop, ManagerCheck, ManagerCheckTorn, ManagerCreate, ManagerReadBusy,
      ManagerShrink, ManagerClose, ManagerBump, ManagerSignal, ManagerGoto
<1>5. ASSUME Owner \/ Destroy PROVE CloseInv'
  BY <1>5 DEF Owner, Joined, Drain, DrainBump, DrainSignal, Destroy, managerVars
<1>6. ASSUME NEW w \in WaitTimes, Wait(w) PROVE CloseInv'
  BY <1>6 DEF Wait, managerVars
<1>7. ASSUME NEW t \in Tasks, Push(t) \/ PushSignal(t) PROVE CloseInv'
  BY <1>1, <1>7 DEF Push, PushSignal, managerVars
<1>8. CASE UNCHANGED vars
  BY <1>1, <1>8 DEF vars, managerVars
<1> QED
  BY <1>2, <1>3, <1>4, <1>5, <1>6, <1>7, <1>8 DEF Next, Threads, Manager

\* The pool the judge creates, on which nobody calls wait(), is never closed by its
\* manager, however long it idles (pthread_pool.cpp:6, :137, :142).
THEOREM DefaultNeverClosesHolds == Spec => []DefaultNeverCloses
<1>1. Init => CloseInv
  BY DEF Init, CloseInv, Waited, DefaultNeverCloses
<1>2. CloseInv => DefaultNeverCloses
  BY DEF CloseInv
<1> QED
  BY <1>1, <1>2, TypeInit, TypeStep, CloseStep, PTL DEF Spec

=============================================================================
