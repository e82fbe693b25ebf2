---------------------------- MODULE MCThreadPool ----------------------------
(* Instances of ThreadPool for TLC. *)
EXTENDS ThreadPool, TLC

CONSTANTS s1, s2, s3, t1, t2, t3

TwoSlots == {s1, s2}
ThreeSlots == {s1, s2, s3}
TwoTasks == {t1, t2}
ThreeTasks == {t1, t2, t3}

NoWaits == {}
OneWait == {1}

\* The slots of threadID[] and the tasks are interchangeable.
SlotsAndTasks == Permutations(Slots) \cup Permutations(Tasks)
=============================================================================
