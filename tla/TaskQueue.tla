------------------------------ MODULE TaskQueue ------------------------------
(***************************************************************************)
(* What the judge asks of its thread pool: a FIFO queue of tasks served by *)
(* at most Capacity threads.  Each task handed over is started at most     *)
(* once, in the order of the hand-overs, and, when the threads are fair,   *)
(* each one is finished.  ThreadPool implements this specification, and    *)
(* JudgePipeline is built on it in the place of the pool.                  *)
(***************************************************************************)
EXTENDS Naturals, Sequences, FiniteSets

CONSTANTS Tasks,      \* the tasks that may be handed over, each at most once
          Capacity    \* how many of them may be running at once

VARIABLES submitted,  \* the tasks handed over so far
          pending,    \* the queue of the ones no thread has started
          running,    \* the ones a thread is executing
          finished    \* the ones whose function has returned

vars == <<submitted, pending, running, finished>>

Init ==
    /\ submitted = {}
    /\ pending = <<>>
    /\ running = {}
    /\ finished = {}

Submit(t) ==
    /\ t \notin submitted
    /\ submitted' = submitted \cup {t}
    /\ pending' = Append(pending, t)
    /\ UNCHANGED <<running, finished>>

Start ==
    /\ pending # <<>>
    /\ Cardinality(running) < Capacity
    /\ running' = running \cup {Head(pending)}
    /\ pending' = Tail(pending)
    /\ UNCHANGED <<submitted, finished>>

Finish(t) ==
    /\ t \in running
    /\ running' = running \ {t}
    /\ finished' = finished \cup {t}
    /\ UNCHANGED <<submitted, pending>>

Next == Start \/ \E t \in Tasks : Submit(t) \/ Finish(t)

Spec == Init /\ [][Next]_vars

FairSpec ==
    /\ Spec
    /\ WF_vars(Start)
    /\ \A t \in Tasks : WF_vars(Finish(t))
=============================================================================
