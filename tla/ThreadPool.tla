------------------------------ MODULE ThreadPool ------------------------------
(***************************************************************************)
(* The judge's thread pool (OJ_Judge/code/pthread_pool.{h,cpp}): callers   *)
(* push tasks, worker threads take them in order, a manager thread creates *)
(* workers when tasks queue up, asks them to exit when they idle, and ends *)
(* the pool for a caller blocked in wait(); the owner may destroy it.      *)
(*                                                                         *)
(* A critical section of mutexPool or mutexBusyNum is one step.  What the  *)
(* code reads with no lock (the manager's conditions, the loops on liveNum)*)
(* is read in steps of its own, and pthread_cond_signal, which the code    *)
(* calls after it has unlocked, is a step of its own.                      *)
(***************************************************************************)
EXTENDS Integers, Sequences, FiniteSets

CONSTANTS
    Slots,       \* the indices of threadID[]: there are maxNum of them
    Tasks,       \* the tasks callers may push, each once
    NoTask,      \* no task
    minNum,      \* the constructor's min
    IntMax,      \* INT_MAX
    WaitTimes,   \* the arguments wait() is called with
    ExitBound,   \* bound: exitNum is counted up to here
    CreateFails, \* whether pthread_create may fail for a worker
    MayDestroy   \* whether the owner may run the destructor

ASSUME PoolAssumption ==
    /\ IsFiniteSet(Slots)
    /\ NoTask \notin Tasks
    /\ minNum \in Nat
    /\ IntMax \in Nat /\ IntMax > 2
    /\ WaitTimes \subseteq 0..IntMax
    /\ ExitBound \in Nat \ {0}
    /\ CreateFails \in BOOLEAN
    /\ MayDestroy \in BOOLEAN

maxNum == Cardinality(Slots)

VARIABLES
    task_queue,  \* tasks pushed and not taken
    pushed,      \* history: every task pushed
    signals,     \* tasks whose push has yet to signal isEmpty
    pc,          \* where the worker of each slot is; "none": threadID[i] == 0
    task,        \* the task in the hands of each worker
    finished,    \* history: the tasks whose function has returned
    busyNum, liveNum, exitNum, shutdown, waitTime,
    mgr,         \* where the manager is
    seen,        \* the busyNum the manager read last
    time,        \* the manager's count of idle rounds
    owner        \* where the pool's owner is, in wait() or in the destructor

queueVars  == <<task_queue, pushed, signals>>
workerVars == <<pc, task, finished>>
managerVars == <<mgr, seen, time>>
vars == <<queueVars, workerVars, busyNum, liveNum, exitNum, shutdown, waitTime,
          managerVars, owner>>

WorkerStates == {"none",     \* no thread in the slot
                 "lock",     \* about to lock mutexPool at the top of the loop
                 "wait",     \* in pthread_cond_wait
                 "woken",    \* woken, about to lock mutexPool again
                 "popped",   \* has a task and unlocked, about to signal
                 "counting", \* about to count itself busy
                 "run",      \* in the task's function
                 "ran",      \* out of it, about to count itself idle
                 "leaving",  \* off the count of live threads, on its way out
                 "dead",     \* exited at shutdown, its slot still set
                 "leaked"}   \* pthread_create failed and left the slot set

\* The workers that liveNum counts (one that ends at shutdown does not take itself
\* off), and those that busyNum counts.
LiveStates == WorkerStates \ {"none", "leaving", "leaked"}
BusyStates == {"run", "ran"}

ManagerStates == {"top", "check", "create", "readBusy", "shrink", "bump", "signal",
                  "sleep", "close", "closeBump", "closeSignal", "done"}

OwnerStates == {"idle", "join", "drain", "drainBump", "drainSignal", "gone"}

InState(S) == {i \in Slots : pc[i] \in S}

(***************************************************************************)
(* pthread_cond_signal(&isEmpty): wakes one of the waiting workers of f,   *)
(* if there is one.                                                        *)
(***************************************************************************)
CondSignal(f) ==
    LET waiting == {i \in Slots : f[i] = "wait"}
    IN  IF waiting = {} THEN {f} ELSE {[f EXCEPT ![i] = "woken"] : i \in waiting}

\* exitNum++, up to ExitBound.
Bumped(n) == IF n < ExitBound THEN n + 1 ELSE n

Init ==
    /\ task_queue = <<>> /\ pushed = {} /\ signals = {}
    /\ pc = [i \in Slots |-> "none"]
    /\ task = [i \in Slots |-> NoTask]
    /\ finished = {}
    /\ busyNum = 0 /\ liveNum = 0 /\ exitNum = 0
    /\ shutdown = FALSE
    /\ waitTime = IntMax
    /\ mgr = "top" /\ seen = 0 /\ time = 0
    /\ owner = "idle"

-----------------------------------------------------------------------------
(* Callers of push(), from any thread while the pool is up. *)

\* Mutant: the newest task first.
EnqueueFront(q, t) == <<t>> \o q

Enqueue(q, t) == Append(q, t)

Push(t) ==
    /\ owner \in {"idle", "join"}
    /\ t \notin pushed
    /\ task_queue' = Enqueue(task_queue, t)
    /\ pushed' = pushed \cup {t}
    /\ signals' = signals \cup {t}
    /\ UNCHANGED <<workerVars, busyNum, liveNum, exitNum, shutdown, waitTime,
                   managerVars, owner>>

PushSignal(t) ==
    /\ t \in signals
    /\ signals' = signals \ {t}
    /\ pc' \in CondSignal(pc)
    /\ UNCHANGED <<task_queue, pushed, task, finished, busyNum, liveNum, exitNum,
                   shutdown, waitTime, managerVars, owner>>

-----------------------------------------------------------------------------
(* worker() *)

Goto(i, s) == pc' = [pc EXCEPT ![i] = s]

\* Mutant: front() with no pop().
NotPopped(q) == q

Popped(q) == Tail(q)

\* The test of the inner while and what follows it, holding mutexPool.
TakeOrWait(i) ==
    /\ \/ /\ shutdown
          /\ Goto(i, "dead")
          /\ UNCHANGED <<task_queue, task>>
       \/ /\ ~shutdown
          /\ task_queue = <<>>
          /\ Goto(i, "wait")
          /\ UNCHANGED <<task_queue, task>>
       \/ /\ ~shutdown
          /\ task_queue # <<>>
          /\ task' = [task EXCEPT ![i] = Head(task_queue)]
          /\ task_queue' = Popped(task_queue)
          /\ Goto(i, "popped")
    /\ UNCHANGED <<exitNum, liveNum>>

WorkerLock(i) ==
    /\ pc[i] = "lock"
    /\ TakeOrWait(i)
    /\ UNCHANGED <<pushed, signals, finished, busyNum, shutdown, waitTime,
                   managerVars, owner>>

\* Mutant: a woken worker exits whether or not it was asked to.
ExitAlways == TRUE

ExitAsked == exitNum > 0

\* Mutant: a worker that exits is still counted.
StillLive == liveNum

OneLess == liveNum - 1

\* Back from pthread_cond_wait: an exit that has been asked for comes first.
WorkerWake(i) ==
    /\ pc[i] = "woken"
    /\ \/ /\ ExitAsked
          /\ exitNum' = exitNum - 1
          /\ liveNum' = OneLess
          /\ Goto(i, "leaving")
          /\ UNCHANGED <<task_queue, task>>
       \/ /\ ~ExitAsked
          /\ TakeOrWait(i)
    /\ UNCHANGED <<pushed, signals, finished, busyNum, shutdown, waitTime,
                   managerVars, owner>>

\* pthread_cond_wait may return with no signal.
SpuriousWake(i) ==
    /\ pc[i] = "wait"
    /\ Goto(i, "woken")
    /\ UNCHANGED <<queueVars, task, finished, busyNum, liveNum, exitNum, shutdown,
                   waitTime, managerVars, owner>>

WorkerSignal(i) ==
    /\ pc[i] = "popped"
    /\ pc' \in CondSignal([pc EXCEPT ![i] = "counting"])
    /\ UNCHANGED <<queueVars, task, finished, busyNum, liveNum, exitNum, shutdown,
                   waitTime, managerVars, owner>>

WorkerBusy(i) ==
    /\ pc[i] = "counting"
    /\ busyNum' = busyNum + 1
    /\ Goto(i, "run")
    /\ UNCHANGED <<queueVars, task, finished, liveNum, exitNum, shutdown, waitTime,
                   managerVars, owner>>

WorkerReturn(i) ==
    /\ pc[i] = "run"
    /\ finished' = finished \cup {task[i]}
    /\ task' = [task EXCEPT ![i] = NoTask]
    /\ Goto(i, "ran")
    /\ UNCHANGED <<queueVars, busyNum, liveNum, exitNum, shutdown, waitTime,
                   managerVars, owner>>

\* Mutant: busyNum is not brought down again.
StillBusy == busyNum

OneIdle == busyNum - 1

WorkerIdle(i) ==
    /\ pc[i] = "ran"
    /\ busyNum' = OneIdle
    /\ Goto(i, "lock")
    /\ UNCHANGED <<queueVars, task, finished, liveNum, exitNum, shutdown, waitTime,
                   managerVars, owner>>

\* Mutant: the slot is not cleared.
KeptSlot == "leaked"

ClearedSlot == "none"

\* exitThread(), which clears the slot with no lock.
ExitThread(i) ==
    /\ pc[i] = "leaving"
    /\ Goto(i, ClearedSlot)
    /\ UNCHANGED <<queueVars, task, finished, busyNum, liveNum, exitNum, shutdown,
                   waitTime, managerVars, owner>>

Worker(i) ==
    \/ WorkerLock(i) \/ WorkerWake(i) \/ WorkerSignal(i) \/ WorkerBusy(i)
    \/ WorkerReturn(i) \/ WorkerIdle(i) \/ ExitThread(i)

-----------------------------------------------------------------------------
(* manager() *)

ManagerGoto(s) == mgr' = s

ManagerTop ==
    /\ mgr = "top"
    /\ \/ /\ shutdown
          /\ ManagerGoto("done")
          /\ UNCHANGED seen
       \/ /\ ~shutdown
          /\ seen' = busyNum
          /\ ManagerGoto("check")
    /\ UNCHANGED <<queueVars, workerVars, busyNum, liveNum, exitNum, shutdown,
                   waitTime, time, owner>>

ManagerCheck ==
    /\ mgr = "check"
    /\ ManagerGoto(IF seen < Len(task_queue) /\ liveNum < maxNum
                   THEN "create" ELSE "readBusy")
    /\ UNCHANGED <<queueVars, workerVars, busyNum, liveNum, exitNum, shutdown,
                   waitTime, seen, time, owner>>

\* task_queue.size() is read with no lock: a read that overlaps a push or a pop
\* may give any size.
QueueRace == \/ pushed # Tasks /\ owner \in {"idle", "join"}
             \/ InState({"lock", "woken"}) # {}

ManagerCheckTorn ==
    /\ mgr = "check"
    /\ QueueRace
    /\ liveNum < maxNum
    /\ \E s \in {"create", "readBusy"} : ManagerGoto(s)
    /\ UNCHANGED <<queueVars, workerVars, busyNum, liveNum, exitNum, shutdown,
                   waitTime, seen, time, owner>>

\* A worker for every empty slot, up to the first pthread_create that fails: it
\* may leave a value in the slot, and the slots after it are not tried.
ManagerCreate ==
    /\ mgr = "create"
    /\ \E made \in SUBSET InState({"none"}), leaked \in SUBSET InState({"none"}) :
          /\ made \cap leaked = {}
          /\ IF made = InState({"none"}) \/ ~CreateFails
             THEN made = InState({"none"})
             ELSE Cardinality(leaked) <= 1
          /\ pc' = [i \in Slots |-> IF i \in made THEN "lock"
                                    ELSE IF i \in leaked THEN "leaked" ELSE pc[i]]
          /\ liveNum' = liveNum + Cardinality(made)
    /\ ManagerGoto("readBusy")
    /\ UNCHANGED <<queueVars, task, finished, busyNum, exitNum, shutdown, waitTime,
                   seen, time, owner>>

ManagerReadBusy ==
    /\ mgr = "readBusy"
    /\ seen' = busyNum
    /\ ManagerGoto("shrink")
    /\ UNCHANGED <<queueVars, workerVars, busyNum, liveNum, exitNum, shutdown,
                   waitTime, time, owner>>

ManagerShrink ==
    /\ mgr = "shrink"
    /\ ManagerGoto(IF seen * 2 < liveNum /\ liveNum > minNum THEN "bump" ELSE "sleep")
    /\ UNCHANGED <<queueVars, workerVars, busyNum, liveNum, exitNum, shutdown,
                   waitTime, seen, time, owner>>

\* Mutant: the idle rounds are not counted modulo INT_MAX - 1.
RoundsNoWrap == time + 1

Rounds == (time + 1) % (IntMax - 1)

\* After sleep(3): count the idle rounds, close the pool when there are enough.
ManagerTick ==
    /\ mgr = "sleep"
    /\ time' = IF busyNum = 0 THEN Rounds ELSE 0
    /\ ManagerGoto(IF time' >= waitTime THEN "close" ELSE "top")
    /\ UNCHANGED <<queueVars, workerVars, busyNum, liveNum, exitNum, shutdown,
                   waitTime, seen, owner>>

\* The condition of the loops that end the workers.
WorkersLeft == liveNum # 0

ManagerClose ==
    /\ mgr = "close"
    /\ ManagerGoto(IF WorkersLeft THEN "closeBump" ELSE "done")
    /\ UNCHANGED <<queueVars, workerVars, busyNum, liveNum, exitNum, shutdown,
                   waitTime, seen, time, owner>>

\* exitNum++ under the lock, in the loop that shrinks and in the one that closes.
ManagerBump ==
    /\ \/ mgr = "bump" /\ ManagerGoto("signal")
       \/ mgr = "closeBump" /\ ManagerGoto("closeSignal")
    /\ exitNum' = Bumped(exitNum)
    /\ UNCHANGED <<queueVars, workerVars, busyNum, liveNum, shutdown, waitTime,
                   seen, time, owner>>

\* Mutant: the request to exit is made and nobody is woken for it.
ManagerNoSignal ==
    /\ \/ mgr = "signal" /\ ManagerGoto("readBusy")
       \/ mgr = "closeSignal" /\ ManagerGoto("close")
    /\ UNCHANGED <<queueVars, workerVars, busyNum, liveNum, exitNum, shutdown,
                   waitTime, seen, time, owner>>

ManagerSignal ==
    /\ \/ mgr = "signal" /\ ManagerGoto("readBusy")
       \/ mgr = "closeSignal" /\ ManagerGoto("close")
    /\ pc' \in CondSignal(pc)
    /\ UNCHANGED <<queueVars, task, finished, busyNum, liveNum, exitNum, shutdown,
                   waitTime, seen, time, owner>>

Manager ==
    \/ ManagerTop \/ ManagerCheck \/ ManagerCreate \/ ManagerReadBusy \/ ManagerShrink
    \/ ManagerTick \/ ManagerClose \/ ManagerBump \/ ManagerSignal

-----------------------------------------------------------------------------
(* The owner: wait() and ~ThreadPool() *)

\* A manager that has returned and been joined cannot be joined again.
Wait(w) ==
    /\ owner = "idle"
    /\ mgr # "done"
    /\ waitTime' = w
    /\ owner' = "join"
    /\ UNCHANGED <<queueVars, workerVars, busyNum, liveNum, exitNum, shutdown,
                   managerVars>>

\* pthread_join(managerID): wait() returns when the manager has.
Joined ==
    /\ owner = "join"
    /\ mgr = "done"
    /\ owner' = "idle"
    /\ UNCHANGED <<queueVars, workerVars, busyNum, liveNum, exitNum, shutdown,
                   waitTime, managerVars>>

Destroy ==
    /\ MayDestroy
    /\ owner = "idle"
    /\ signals = {}
    /\ shutdown' = TRUE
    /\ owner' = "drain"
    /\ UNCHANGED <<queueVars, workerVars, busyNum, liveNum, exitNum, waitTime,
                   managerVars>>

\* The destructor's loop, and the release of the locks and of threadID after it.
Drain ==
    /\ owner = "drain"
    /\ owner' = IF WorkersLeft THEN "drainBump" ELSE "gone"
    /\ UNCHANGED <<queueVars, workerVars, busyNum, liveNum, exitNum, shutdown,
                   waitTime, managerVars>>

DrainBump ==
    /\ owner = "drainBump"
    /\ exitNum' = Bumped(exitNum)
    /\ owner' = "drainSignal"
    /\ UNCHANGED <<queueVars, workerVars, busyNum, liveNum, shutdown, waitTime,
                   managerVars>>

\* Mutant: the destructor asks for exits and wakes nobody.
DrainNoSignal ==
    /\ owner = "drainSignal"
    /\ owner' = "drain"
    /\ UNCHANGED <<queueVars, workerVars, busyNum, liveNum, exitNum, shutdown, waitTime,
                   managerVars>>

DrainSignal ==
    /\ owner = "drainSignal"
    /\ pc' \in CondSignal(pc)
    /\ owner' = "drain"
    /\ UNCHANGED <<queueVars, task, finished, busyNum, liveNum, exitNum, shutdown,
                   waitTime, managerVars>>

Owner == Joined \/ Drain \/ DrainBump \/ DrainSignal

-----------------------------------------------------------------------------
\* A thread that runs on once the pool is freed has no defined behaviour.
Threads ==
    /\ owner # "gone"
    /\ \/ \E i \in Slots : Worker(i) \/ SpuriousWake(i)
       \/ Manager
       \/ ManagerCheckTorn

Next ==
    \/ Threads
    \/ Owner
    \/ Destroy
    \/ \E w \in WaitTimes : Wait(w)
    \/ \E t \in Tasks : Push(t) \/ PushSignal(t)

Spec == Init /\ [][Next]_vars

(***************************************************************************)
(* Every thread keeps running and every task function returns (a runner's  *)
(* commands are bounded by the sandbox's wall time).  A read of the queue's*)
(* size is torn only while a push or a pop overlaps it, and there are      *)
(* finitely many: the check is infinitely often a clean one.               *)
(***************************************************************************)
Fairness ==
    /\ \A i \in Slots : WF_vars(owner # "gone" /\ Worker(i))
    /\ WF_vars(owner # "gone" /\ Manager)
    /\ SF_vars(owner # "gone" /\ ManagerCheck)
    /\ WF_vars(Owner)
    /\ \A t \in Tasks : WF_vars(PushSignal(t))

FairSpec == Spec /\ Fairness
-----------------------------------------------------------------------------
(* Properties *)

\* The types of the pool's fields; exitNum is never negative, so no worker exits
\* that was not asked to, and the manager's clock never reaches INT_MAX - 1.
TypeOK ==
    /\ task_queue \in Seq(Tasks)
    /\ pushed \subseteq Tasks
    /\ signals \subseteq pushed
    /\ pc \in [Slots -> WorkerStates]
    /\ task \in [Slots -> Tasks \cup {NoTask}]
    /\ finished \subseteq Tasks
    /\ busyNum \in Int /\ liveNum \in Int
    /\ exitNum \in 0..ExitBound
    /\ shutdown \in BOOLEAN
    /\ waitTime \in 0..IntMax
    /\ mgr \in ManagerStates
    /\ seen \in Int
    /\ time \in 0..(IntMax - 2)
    /\ owner \in OwnerStates

\* liveNum is the number of workers that have neither left nor failed to start,
\* whatever wake-ups, exits and creations overlap: so it stays within 0..maxNum,
\* and the loops that run until it is 0 do not end with a worker left behind.
LiveNumCounts == liveNum = Cardinality(InState(LiveStates))

\* busyNum is the number of workers between their two updates of it.  It is never
\* negative, which the manager's comparison with the unsigned queue size relies on.
BusyNumCounts == busyNum = Cardinality(InState(BusyStates))

\* The workers that hold a task: from the pop to the return of its function.
HandStates == {"popped", "counting", "run"}

Running == {task[i] : i \in InState(HandStates)}

\* A worker holds a task exactly from the pop to the return of its function.
HandsHoldTasks == \A i \in Slots : pc[i] \in HandStates <=> task[i] # NoTask

\* No two workers hold the same task, and it is queued once.
HandedOnce ==
    /\ \A i, j \in InState(HandStates) : task[i] = task[j] => i = j
    /\ \A m, n \in DOMAIN task_queue : task_queue[m] = task_queue[n] => m = n

\* A task is in one place at a time.
OnePlace ==
    /\ \A n \in DOMAIN task_queue : task_queue[n] \notin Running \cup finished
    /\ Running \cap finished = {}

\* A task that was pushed is somewhere, and nothing else is.
SomePlace == pushed = {task_queue[n] : n \in DOMAIN task_queue} \cup Running \cup finished

\* No task is lost or run twice: each pushed task is queued once, or in the hands
\* of one worker, or finished, whichever workers exit, wake or start meanwhile.
TasksConserved == HandsHoldTasks /\ HandedOnce /\ OnePlace /\ SomePlace

\* A pool nobody waits on is never closed: the idle rounds are counted modulo
\* INT_MAX - 1, so the default waitTime of INT_MAX stays out of their reach, and a
\* manager that is closing does so for a caller still blocked in wait().
DefaultNeverCloses ==
    mgr \in {"close", "closeBump", "closeSignal"} => waitTime # IntMax /\ owner = "join"

\* Every task pushed is run to its end, though a worker woken for it may exit
\* instead (a request to exit that was left over) and leave it in the queue.
EveryTaskRuns == \A t \in Tasks : t \in pushed ~> t \in finished

\* The manager's shrinking loop ends: enough idle workers take its requests.
ShrinkEnds == mgr = "bump" ~> mgr = "sleep"

\* wait() returns once the pool has idled for the rounds it was given.
WaitReturns == owner = "join" ~> owner = "idle"

\* The pool implements the queue of tasks the judge builds on.
TQ == INSTANCE TaskQueue WITH Capacity <- maxNum, submitted <- pushed,
                              pending <- task_queue, running <- Running
ImplementsTaskQueue == TQ!Spec

\* The destructor's loop over liveNum ends, unless a worker has ended by itself at
\* shutdown (line 82): that one stays in liveNum for good.
DestructorReturns == owner = "drain" ~> owner = "gone" \/ InState({"dead"}) # {}
=============================================================================
