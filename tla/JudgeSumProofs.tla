--------------------------- MODULE JudgeSumProofs ----------------------------
(***************************************************************************)
(* What the key "Judge:<file>__sum" says and what is recorded from it:     *)
(* SumIsEarned, for users who submit to a problem once, whatever is lost;  *)
(* and PassIsEarned, for users who wait for a verdict before they submit   *)
(* to the problem again, while no query fails.  When the test cases stay   *)
(* as they are, a "Pass" means that all of them were right (PassIsRight).  *)
(***************************************************************************)
EXTENDS JudgeVerdictProofs, FiniteSetTheorems

\* The first n of the rows t on which the submission is right, and how many they are.
RightBelow(s, t, n) == {i \in 1..n : Program[s].case[t[i]] = "right"}
Earned(s, t, n) == Cardinality(RightBelow(s, t, n))

\* The rows that are right are finitely many, ...
LEMMA EarnedType ==
    ASSUME NEW s, NEW t, NEW n \in Nat
    PROVE  IsFiniteSet(RightBelow(s, t, n)) /\ Earned(s, t, n) \in Nat
<1>1. IsFiniteSet(1..n)
  BY FS_Interval
<1>2. RightBelow(s, t, n) \subseteq 1..n
  BY DEF RightBelow
<1>3. IsFiniteSet(RightBelow(s, t, n))
  BY <1>1, <1>2, FS_Subset
<1> QED
  BY <1>3, FS_CardinalityType DEF Earned

\* ... one more after a row that is right, ...
LEMMA EarnedNext ==
    ASSUME NEW s, NEW t, NEW n \in Nat, Program[s].case[t[n + 1]] = "right"
    PROVE  Earned(s, t, n + 1) = Earned(s, t, n) + 1
<1>1. RightBelow(s, t, n + 1) = RightBelow(s, t, n) \cup {n + 1}
  <2>1. \A i : i \in 1..(n + 1) <=> i \in 1..n \/ i = n + 1
    OBVIOUS
  <2> QED
    BY <2>1 DEF RightBelow
<1>2. n + 1 \notin RightBelow(s, t, n)
  BY DEF RightBelow
<1>3. IsFiniteSet(RightBelow(s, t, n))
  BY EarnedType
<1> QED
  BY <1>1, <1>2, <1>3, FS_AddElement DEF Earned

\* ... and never fewer.
LEMMA EarnedGrows ==
    ASSUME NEW s, NEW t, NEW m \in Nat, NEW n \in Nat, m <= n
    PROVE  Earned(s, t, m) <= Earned(s, t, n)
<1>1. RightBelow(s, t, m) \subseteq RightBelow(s, t, n)
  BY DEF RightBelow
<1> QED
  BY <1>1, EarnedType, FS_Subset DEF Earned

\* Who has earned as much as there are rows is right on all of them.
LEMMA EarnedAll ==
    ASSUME NEW s, NEW t, NEW n \in Nat, Earned(s, t, n) >= n
    PROVE  \A i \in 1..n : Program[s].case[t[i]] = "right"
<1>1. IsFiniteSet(1..n) /\ Cardinality(1..n) = n
  BY FS_Interval
<1>2. RightBelow(s, t, n) \subseteq 1..n
  BY DEF RightBelow
<1>3. Cardinality(RightBelow(s, t, n)) = n
  <2>1. Cardinality(RightBelow(s, t, n)) <= n
    BY <1>1, <1>2, FS_Subset
  <2>2. Earned(s, t, n) \in Nat
    BY EarnedType
  <2> QED
    BY <2>1, <2>2 DEF Earned
<1>4. RightBelow(s, t, n) = 1..n
  BY <1>1, <1>2, <1>3, FS_Subset
<1> QED
  BY <1>4 DEF RightBelow

\* A file name whose sum is known: its submissions wait for a verdict one at a time, and
\* the key is reset for each, either because no query fails or because there is just one.
Single(f) == \E s \in Subs : SubsOf(f) = {s}
Tracked(f) == Calm(f) /\ (f \notin Lossy \/ Single(f))

\* The submission the sum of its file is about.
Watched(s) ==
    \/ req[s] \in {"expireSum", "select"}
    \/ req[s] = "accepted" /\ ~Judged(s)
    \/ req[s] \in {"unsent", "setSum"} /\ Single(FileOf[s])

\* What the sum may have reached.
Bound(s) ==
    IF run[s] \in {"compare", "count"} THEN Earned(s, tests[s], cur[s])
    ELSE IF run[s] = "expire" THEN Earned(s, tests[s], cur[s] + 1)
    ELSE IF run[s] \in {"rmSrc", "rmExe", "done"} THEN Earned(s, tests[s], Len(tests[s]))
    ELSE 0

SumWithin(s) == redis[FileOf[s]][Sum] # None => redis[FileOf[s]][Sum] <= Bound(s)

\* A sum that some submission of S to the problem has earned on the rows T of its task,
\* if it is above 0.
EarnedBy(T, S, f, v) ==
    v # None /\ v > 0 =>
        \E u \in SubsOf(f) \cap S : /\ Program[u].compiles
                                    /\ v <= Earned(u, T[u], Len(T[u]))

\* A case is counted only if the output was right.
CountInv ==
    \A s \in running : Calm(FileOf[s]) /\ run[s] = "count" =>
        Program[s].case[TestOf(s)] = "right"

SumInv ==
    /\ \A s \in Subs : Tracked(FileOf[s]) /\ Watched(s) => SumWithin(s)
    /\ \A f \in Files : Tracked(f) => EarnedBy(tests, submitted, f, redis[f][Sum])

\* What the polls have read.
ReadInv ==
    \A p \in Polls : Tracked(poll[p].file) /\ UnderWay(p) =>
        EarnedBy(tests, submitted, poll[p].file, poll[p].sum)

-----------------------------------------------------------------------------
(* The steps.                                                                *)

\* The task of a submission is made once.
LEMMA TestsStay ==
    ASSUME TypeInv, [Next]_vars
    PROVE  submitted \subseteq submitted' /\ \A u \in submitted : tests'[u] = tests[u]
<1>1. ASSUME NEW s \in Subs, cpp_runner(s) PROVE UNCHANGED <<submitted, tests>>
  BY <1>1, RunnerFrame
<1>2. ASSUME NEW s \in Subs, Request(s)
      PROVE  submitted \subseteq submitted' /\ \A u \in submitted : tests'[u] = tests[u]
  <2>1. tests \in [Subs -> Seq(Tests)] /\ submitted \subseteq Subs
    BY DEF TypeInv, ControlInv, ControlTypes
  <2> QED
    BY <1>2, <2>1
       DEF Request, Receive, SetSum, ExpireSum, TaskPush, TQ!Submit, poolVars, runnerVars
<1>3. ASSUME NEW p \in Polls, runState(p) PROVE UNCHANGED <<submitted, tests>>
  BY <1>3 DEF runState, PollSum, PollCase, PollInsert, PollDel, poolVars, runnerVars
<1>4. CASE Start \/ Restart \/ UNCHANGED vars
           \/ \E f \in Files : ChangeCases(f) \/ \E k \in Keys : KeyExpires(f, k)
  BY <1>4 DEF Start, TQ!Start, Restart, vars, ChangeCases, KeyExpires, poolVars, runnerVars
<1> QED
  BY <1>1, <1>2, <1>3, <1>4 DEF Next

\* A request is of a submission that has no runner yet.
LEMMA RequestFacts ==
    ASSUME TypeInv, NEW s \in Subs, Request(s)
    PROVE  /\ s \notin submitted /\ run[s] = "compile" /\ UNCHANGED <<run, cur, finished>>
           /\ \A u \in Subs \ {s} : /\ req'[u] = req[u] /\ tests'[u] = tests[u]
                                 /\ total'[u] = total[u]
<1>1. UNCHANGED <<run, cur, finished>>
  BY DEF Request, Receive, SetSum, ExpireSum, TaskPush, TQ!Submit, poolVars, runnerVars
<1>2. s \notin submitted /\ run[s] = "compile"
  <2>1. req[s] \notin {"accepted", "lost"}
    BY DEF Request, Receive, SetSum, ExpireSum, TaskPush
  <2> QED
    BY <2>1 DEF TypeInv, ControlInv, TaskInv
<1>3. \A u \in Subs \ {s} : req'[u] = req[u] /\ tests'[u] = tests[u] /\ total'[u] = total[u]
  <2>1. DOMAIN req = Subs /\ DOMAIN tests = Subs /\ DOMAIN total = Subs
    BY DEF TypeInv, ControlInv, ControlTypes
  <2> QED
    BY <2>1 DEF Request, Receive, SetSum, ExpireSum, TaskPush, runnerVars
<1> QED
  BY <1>1, <1>2, <1>3

\* A case is counted after its output was compared, which is the submission's own.
LEMMA CountStep ==
    ASSUME TypeInv, VerdictInv, CountInv, [Next]_vars
    PROVE  CountInv'
<1> SUFFICES ASSUME NEW u \in running', Calm(FileOf[u]), run'[u] = "count"
             PROVE  Program[u].case[tests'[u][cur'[u] + 1]] = "right"
  BY DEF CountInv, Calm, SubsOf, TestOf
<1> DEFINE Goal == Program[u].case[tests'[u][cur'[u] + 1]] = "right"
<1>1. ASSUME u \in running, run'[u] = run[u], cur'[u] = cur[u], tests'[u] = tests[u]
      PROVE  Goal
  BY <1>1 DEF CountInv, TestOf
<1>2. ASSUME NEW s \in Subs, cpp_runner(s) PROVE Goal
  <2>1. u \in running /\ u \in Subs /\ DOMAIN run = Subs /\ UNCHANGED tests
    BY <1>2, RunnerFrame, RunnerFacts DEF TypeInv, ControlInv, ControlTypes
  <2>2. CASE u # s
    BY <1>1, <1>2, <2>1, <2>2, RunnerFrame
  <2>3. CASE u = s
    <3>1. Compare(u)
      BY <1>2, <2>1, <2>3
         DEF cpp_runner, Compile, Link, BoxInit, CopyIn, BoxRun, CopyOut, Count, ExpireCase,
             SetCode, ExpireCode, RemoveSource, RemoveExecutable, Goto
    <3>2. /\ out[FileOf[u]][cur[u]] = <<TestOf(u), "right">> /\ run[u] = "compare"
          /\ UNCHANGED cur
      BY <2>1, <3>1 DEF Compare, Goto, At
    <3>3. cur[u] \in Indices /\ cur[u] < total[u]
      BY <2>1, RunnerFacts
    <3>4. OwnOutputs(u, total[u])
      BY <2>1, <3>2 DEF VerdictInv, Own, Comparing, InTail, TailSteps
    <3>5. out[FileOf[u]][cur[u]] = OutputOf(u, TestOf(u))
      BY <3>3, <3>4 DEF OwnOutputs, TestOf
    <3>6. Program[u].case[TestOf(u)] = "right"
      BY <3>2, <3>5 DEF OutputOf
    <3> QED
      BY <2>1, <3>2, <3>6 DEF TestOf
  <2> QED
    BY <2>2, <2>3
<1>3. ASSUME NEW s \in Subs, Request(s) PROVE Goal
  <2>1. u \in running /\ u \in Subs /\ u \in submitted
    BY <1>3, RunnerFacts
       DEF Request, Receive, SetSum, ExpireSum, TaskPush, TQ!Submit, poolVars
  <2> QED
    BY <1>1, <1>3, <2>1, RequestFacts
<1>4. ASSUME NEW p \in Polls, runState(p) PROVE Goal
  BY <1>1, <1>4 DEF runState, PollSum, PollCase, PollInsert, PollDel, poolVars, runnerVars
<1>5. CASE UNCHANGED vars \/ \E f \in Files : ChangeCases(f) \/ \E k \in Keys : KeyExpires(f, k)
  BY <1>1, <1>5 DEF vars, ChangeCases, KeyExpires, poolVars, runnerVars
<1>6. CASE Start
  <2>1. /\ Len(pending) > 0 /\ running' = running \cup {pending[1]}
        /\ UNCHANGED runnerVars
    BY <1>6 DEF Start, TQ!Start, TypeInv, ControlInv, ControlTypes
  <2>2. run[pending[1]] = "compile"
    BY <2>1 DEF TypeInv, ControlInv, ControlTypes, QueueInv
  <2> QED
    BY <1>1, <2>1, <2>2 DEF runnerVars
<1>7. CASE Restart
  BY <1>7 DEF Restart
<1> QED
  BY <1>2, <1>3, <1>4, <1>5, <1>6, <1>7 DEF Next

\* The commands that may touch the sum of a file.
LEMMA SumCommands ==
    ASSUME TypeInv, NEW f \in Files, NEW g \in Files, NEW k \in Keys, NEW v
    PROVE  /\ RedisExpire(g, k) \/ UNCHANGED redisVars => redis'[f][Sum] = redis[f][Sum]
           /\ Gone(g, k) \/ RedisDel(g, k) => redis'[f][Sum] \in {redis[f][Sum], None}
           /\ RedisSet(g, k, v) => \/ redis'[f][Sum] = redis[f][Sum]
                                   \/ f = g /\ k = Sum /\ redis'[f][Sum] = v
           /\ RedisSet(f, Sum, v) /\ f \notin Lossy => redis'[f][Sum] = v
           /\ RedisIncr(g, Sum) => \/ redis'[f][Sum] = redis[f][Sum]
                                   \/ f = g /\ redis'[f][Sum] = Incremented(redis[f][Sum])
<1>1. redis \in [Files -> [Keys -> Int \cup {None}]] /\ Sum \in Keys
  BY DEF TypeInv, RedisTypes, Keys
<1>2. RedisExpire(g, k) \/ UNCHANGED redisVars => redis'[f][Sum] = redis[f][Sum]
  BY DEF RedisExpire, RedisError, redisVars
<1>3. ASSUME NEW h \in Files, NEW j \in Keys, NEW x, redis' = [redis EXCEPT ![h][j] = x]
      PROVE  redis'[f][Sum] = IF f = h /\ j = Sum THEN x ELSE redis[f][Sum]
  BY <1>1, <1>3
<1>4. Gone(g, k) \/ RedisDel(g, k) => redis'[f][Sum] \in {redis[f][Sum], None}
  BY <1>3 DEF Gone, RedisDel, RedisError, redisVars
<1>5. RedisSet(g, k, v) => \/ redis'[f][Sum] = redis[f][Sum]
                           \/ f = g /\ k = Sum /\ redis'[f][Sum] = v
  BY <1>3 DEF RedisSet, RedisError, redisVars
<1>6. RedisSet(f, Sum, v) /\ f \notin Lossy => redis'[f][Sum] = v
  BY <1>1, <1>3 DEF RedisSet, RedisError
<1>7. ASSUME RedisIncr(g, Sum)
      PROVE  \/ redis'[f][Sum] = redis[f][Sum]
             \/ f = g /\ redis'[f][Sum] = Incremented(redis[f][Sum])
  <2>1. CASE redis' = [redis EXCEPT ![g][Sum] = Incremented(redis[g][Sum])]
    BY <1>1, <1>3, <2>1
  <2> QED
    BY <1>7, <2>1 DEF RedisIncr, RedisError, redisVars
<1> QED
  BY <1>2, <1>4, <1>5, <1>6, <1>7

\* The steps that may touch the sum of a file: a request resets it, a runner counts a
\* case or leaves a code below zero, and it may expire.
LEMMA SumSteps ==
    ASSUME TypeInv, [Next]_vars, NEW f \in Files
    PROVE  \/ redis'[f][Sum] \in {redis[f][Sum], None}
           \/ \E s \in SubsOf(f) : SetSum(s) /\ redis'[f][Sum] = 0
           \/ redis'[f][Sum] \in {-2, -3}
           \/ \E s \in SubsOf(f) : Count(s) /\ redis'[f][Sum] = Incremented(redis[f][Sum])
<1>1. Sum \in Keys /\ \A s \in Subs : FileOf[s] \in Files
  BY JudgeAssumption DEF Keys
<1>2. ASSUME NEW s \in Subs, Request(s)
      PROVE  \/ redis'[f][Sum] = redis[f][Sum]
             \/ s \in SubsOf(f) /\ SetSum(s) /\ redis'[f][Sum] = 0
  <2>1. CASE SetSum(s)
    BY <1>1, <2>1, SumCommands DEF SetSum, ResetSum, SubsOf
  <2>2. CASE ~SetSum(s)
    <3>1. RedisExpire(FileOf[s], Sum) \/ UNCHANGED redisVars
      BY <1>2, <2>2 DEF Request, Receive, ExpireSum, TaskPush
    <3> QED
      BY <1>1, <3>1, SumCommands
  <2> QED
    BY <2>1, <2>2
<1>3. ASSUME NEW s \in Subs, cpp_runner(s)
      PROVE  \/ redis'[f][Sum] = redis[f][Sum]
             \/ redis'[f][Sum] \in {-2, -3}
             \/ s \in SubsOf(f) /\ Count(s) /\ redis'[f][Sum] = Incremented(redis[f][Sum])
  <2>1. s \in running /\ cur[s] \in Keys /\ cur[s] # Sum
    <3>1. s \in running
      BY <1>3, RunnerFrame
    <3> QED
      BY <3>1, RunnerFacts, CasesAreKeys
  <2>2. CASE Count(s)
    BY <1>1, <2>2, SumCommands DEF Count, SubsOf
  <2>3. CASE Compare(s)
    <3>1. \E v : RedisSet(FileOf[s], cur[s], v)
      BY <2>3 DEF Compare
    <3> QED
      BY <1>1, <2>1, <3>1, SumCommands
  <2>4. CASE SetCode(s)
    <3>1. \E v \in {-2, -3} : RedisSet(FileOf[s], Sum, v)
      BY <2>4 DEF SetCode
    <3> QED
      BY <1>1, <3>1, SumCommands
  <2>5. CASE ~Count(s) /\ ~Compare(s) /\ ~SetCode(s)
    <3>1. \/ RedisExpire(FileOf[s], Sum) \/ RedisExpire(FileOf[s], cur[s])
          \/ UNCHANGED redisVars
      BY <1>3, <2>5
         DEF cpp_runner, Compile, Link, BoxInit, CopyIn, BoxRun, CopyOut, ExpireCase,
             CaseExpires, ExpireCode, RemoveSource, RemoveExecutable
    <3> QED
      BY <1>1, <2>1, <3>1, SumCommands
  <2> QED
    BY <2>2, <2>3, <2>4, <2>5
<1>4. ASSUME NEW p \in Polls, runState(p) PROVE redis'[f][Sum] \in {redis[f][Sum], None}
  <2>1. CASE PollDel(p)
    <3>1. poll[p].file \in Files /\ poll[p].i \in Keys
      BY <2>1, CasesAreKeys DEF PollDel, TypeInv, PollInv, UnderWay
    <3> QED
      BY <2>1, <3>1, SumCommands DEF PollDel, CaseDeleted
  <2>2. CASE ~PollDel(p)
    BY <1>1, <1>4, <2>2, SumCommands DEF runState, PollSum, PollCase, PollInsert
  <2> QED
    BY <2>1, <2>2
<1>5. ASSUME NEW g \in Files, NEW k \in Keys, KeyExpires(g, k)
      PROVE  redis'[f][Sum] \in {redis[f][Sum], None}
  BY <1>5, SumCommands DEF KeyExpires
<1>6. CASE Start \/ Restart \/ UNCHANGED vars \/ \E g \in Files : ChangeCases(g)
  BY <1>6 DEF Start, Restart, vars, ChangeCases, redisVars
<1> QED
  BY <1>2, <1>3, <1>4, <1>5, <1>6 DEF Next

\* What the sum may have reached is a number, ...
LEMMA BoundType ==
    ASSUME TypeInv, NEW s \in Subs
    PROVE  Bound(s) \in Nat
<1>1. cur[s] \in Nat /\ cur[s] + 1 \in Nat /\ Len(tests[s]) \in Nat
  BY DEF TypeInv, ControlInv, ControlTypes
<1>2. /\ Earned(s, tests[s], cur[s]) \in Nat /\ Earned(s, tests[s], cur[s] + 1) \in Nat
      /\ Earned(s, tests[s], Len(tests[s])) \in Nat
  BY <1>1, EarnedType
<1> QED
  BY <1>2 DEF Bound

\* ... also after a step, ...
LEMMA BoundTypeNext ==
    ASSUME TypeInv', NEW s \in Subs
    PROVE  Bound(s)' \in Nat
<1>1. cur'[s] \in Nat /\ cur'[s] + 1 \in Nat /\ Len(tests'[s]) \in Nat
  BY DEF TypeInv, ControlInv, ControlTypes
<1>2. /\ Earned(s, tests'[s], cur'[s]) \in Nat /\ Earned(s, tests'[s], cur'[s] + 1) \in Nat
      /\ Earned(s, tests'[s], Len(tests'[s])) \in Nat
  BY <1>1, EarnedType
<1> QED
  BY <1>2 DEF Bound, Earned, RightBelow

\* ... and it grows while the runner compares, by one with each case that is counted.
LEMMA BoundGrows ==
    ASSUME TypeInv, TypeInv', CountInv, NEW s \in running, Calm(FileOf[s]), cpp_runner(s)
    PROVE  /\ Bound(s)' >= Bound(s)
           /\ Count(s) => Bound(s)' = Bound(s) + 1
<1> DEFINE t == tests[s]
           m == Len(tests[s])
<1>1. /\ s \in Subs /\ cur[s] \in Nat /\ cur[s] + 1 \in Nat /\ m \in Nat
      /\ cur[s] <= m /\ cur[s] + 1 <= m
  <2>1. s \in Subs /\ cur[s] < total[s] /\ total[s] \in 1..MaxRows /\ total[s] = m
    BY RunnerFacts
  <2>2. cur[s] \in Nat
    BY <2>1 DEF TypeInv, ControlInv, ControlTypes
  <2> QED
    BY <2>1, <2>2, JudgeAssumption
<1>2. DOMAIN run = Subs /\ DOMAIN cur = Subs /\ tests' = tests
  BY <1>1, RunnerFrame DEF TypeInv, ControlInv, ControlTypes
<1> DEFINE Now == Earned(s, t, cur[s])
           Then == Earned(s, t, cur[s] + 1)
           End == Earned(s, t, m)
<1>3. Now \in Nat /\ Then \in Nat /\ End \in Nat
  BY <1>1, EarnedType
<1>4. Now <= Then /\ Then <= End
  BY <1>1, EarnedGrows
<1>5. Bound(s) \in Nat /\ Bound(s)' \in Nat
  BY <1>1, BoundType, BoundTypeNext
<1>6. CASE Compare(s)
  <2>1. run[s] = "compare" /\ run'[s] \in {"count", "expire"} /\ cur'[s] = cur[s]
    BY <1>1, <1>2, <1>6 DEF Compare, At, Goto
  <2>2. Bound(s) = Now /\ Bound(s)' \in {Now, Then}
    BY <1>2, <2>1 DEF Bound, Earned, RightBelow
  <2> QED
    BY <1>3, <1>4, <1>6, <2>1, <2>2 DEF Count, At
<1>7. CASE Count(s)
  <2>1. run[s] = "count" /\ run'[s] = "expire" /\ cur'[s] = cur[s]
    BY <1>1, <1>2, <1>7 DEF Count, At, Goto
  <2>2. Program[s].case[t[cur[s] + 1]] = "right"
    BY <2>1 DEF CountInv, TestOf
  <2>3. Then = Now + 1
    BY <1>1, <2>2, EarnedNext
  <2>4. Bound(s) = Now /\ Bound(s)' = Then
    BY <1>2, <2>1 DEF Bound, Earned, RightBelow
  <2> QED
    BY <1>3, <2>3, <2>4
<1>8. CASE ExpireCase(s)
  <2>1. run[s] = "expire"
        /\ (run'[s] = "rmSrc" \/ (run'[s] = "compare" /\ cur'[s] = cur[s] + 1))
    BY <1>1, <1>2, <1>8 DEF ExpireCase, At, Goto
  <2>2. Bound(s) = Then /\ Bound(s)' \in {Then, End}
    BY <1>2, <2>1 DEF Bound, Earned, RightBelow
  <2> QED
    BY <1>3, <1>4, <2>1, <2>2 DEF Count, At
<1>9. CASE RemoveSource(s) \/ RemoveExecutable(s)
  <2>1. \/ run[s] \in {"rmSrc", "rmExe"} /\ run'[s] \in {"rmExe", "done"}
        \/ run[s] \in {"brokenRmSrc", "brokenRmExe"}
    BY <1>1, <1>2, <1>9 DEF RemoveSource, RemoveExecutable, At, Goto
  <2>2. Bound(s)' = Bound(s) \/ Bound(s) = 0
    BY <1>2, <2>1 DEF Bound, Earned, RightBelow
  <2> QED
    BY <1>5, <2>1, <2>2 DEF Count, At
<1>10. CASE ~Compare(s) /\ ~Count(s) /\ ~ExpireCase(s) /\ ~RemoveSource(s)
            /\ ~RemoveExecutable(s)
  <2>1. run[s] \notin {"compare", "count", "expire", "rmSrc", "rmExe", "done"}
    BY <1>10
       DEF cpp_runner, Compile, Link, BoxInit, CopyIn, BoxRun, CopyOut, SetCode, ExpireCode, At
  <2>2. Bound(s) = 0
    BY <2>1 DEF Bound
  <2> QED
    BY <1>5, <1>10, <2>2
<1> QED
  BY <1>6, <1>7, <1>8, <1>9, <1>10

\* A submission whose sum is watched after a step was watched before it, with no higher
\* bound, unless the step has just reset its sum.
LEMMA WatchedStep ==
    ASSUME TypeInv, TypeInv', CountInv, [Next]_vars, NEW s \in Subs, Tracked(FileOf[s]),
           Watched(s)'
    PROVE  \/ SetSum(s) /\ redis'[FileOf[s]][Sum] = 0
           \/ Watched(s) /\ Bound(s)' >= Bound(s) /\ (Count(s) => Bound(s)' = Bound(s) + 1)
<1> DEFINE Goal == Watched(s) /\ Bound(s)' >= Bound(s) /\ (Count(s) => Bound(s)' = Bound(s) + 1)
<1>1. Bound(s) \in Nat
  BY BoundType
<1>2. ASSUME Watched(s), run'[s] = run[s], cur'[s] = cur[s], tests'[s] = tests[s], ~Count(s)
      PROVE  Goal
  <2>1. Bound(s)' = Bound(s)
    BY <1>2 DEF Bound, Earned, RightBelow
  <2> QED
    BY <1>1, <1>2, <2>1
<1>3. \A u \in Subs : Count(u) => cpp_runner(u) /\ req'[u] = req[u] /\ run'[u] # run[u]
  <2> SUFFICES ASSUME NEW u \in Subs, Count(u)
               PROVE  cpp_runner(u) /\ req'[u] = req[u] /\ run'[u] # run[u]
    OBVIOUS
  <2>1. run[u] = "count" /\ run'[u] = "expire" /\ UNCHANGED req
    BY DEF Count, At, Goto, TypeInv, ControlInv, ControlTypes
  <2> QED
    BY <2>1 DEF cpp_runner
<1>4. DOMAIN req = Subs
  BY DEF TypeInv, ControlInv, ControlTypes
<1>5. ASSUME req'[s] = req[s] PROVE Watched(s)
  <2>1. ~Receive(s)
    BY <1>4, <1>5 DEF Receive
  <2>2. req[s] = "accepted" /\ ~Judged(s)' => ~Judged(s)
    BY <2>1, JudgedStays
  <2> QED
    BY <1>5, <2>2 DEF Watched, Single, SubsOf
<1>6. ASSUME NEW u \in Subs, cpp_runner(u) PROVE Goal
  <2>1. UNCHANGED <<req, tests>>
    BY <1>6, RunnerFrame
  <2>2. Watched(s)
    BY <1>5, <2>1
  <2>3. CASE u = s
    BY <1>6, <2>2, <2>3, BoundGrows, RunnerFrame DEF Tracked
  <2>4. CASE u # s
    <3>1. run'[s] = run[s] /\ cur'[s] = cur[s]
      BY <1>6, <2>4, RunnerFrame
    <3>2. ~Count(s)
      BY <1>3, <3>1
    <3> QED
      BY <1>2, <2>1, <2>2, <3>1, <3>2
  <2> QED
    BY <2>3, <2>4
<1>7. ASSUME NEW u \in Subs, Request(u)
      PROVE  (SetSum(s) /\ redis'[FileOf[s]][Sum] = 0) \/ Goal
  <2>1. UNCHANGED <<run, cur>> /\ u \notin submitted /\ run[u] = "compile"
    BY <1>7, RequestFacts
  <2>2. ~Count(s)
    BY <1>3, <2>1
  <2>3. CASE u # s
    <3>1. req'[s] = req[s] /\ tests'[s] = tests[s]
      BY <1>7, <2>3, RequestFacts
    <3> QED
      BY <1>2, <1>5, <2>1, <2>2, <3>1
  <2>4. ASSUME u = s, Watched(s) PROVE Goal
    <3>1. Bound(s) = 0 /\ Bound(s)' = 0
      BY <2>1, <2>4 DEF Bound
    <3> QED
      BY <2>2, <2>4, <3>1
  <2>5. CASE u = s /\ ~SetSum(s)
    <3>1. Watched(s)
      BY <1>4, <1>7, <2>5
         DEF Request, Receive, ExpireSum, TaskPush, Watched, Single, SubsOf
    <3> QED
      BY <2>4, <2>5, <3>1
  <2>6. CASE SetSum(s) /\ Single(FileOf[s]) /\ u = s
    <3>1. Watched(s)
      BY <2>6 DEF SetSum, Watched
    <3> QED
      BY <2>4, <2>6, <3>1
  <2>7. CASE SetSum(s) /\ ~Single(FileOf[s]) /\ u = s
    <3>1. /\ FileOf[s] \notin Lossy /\ RedisSet(FileOf[s], Sum, 0) /\ FileOf[s] \in Files
          /\ Sum \in Keys
      BY <2>7, JudgeAssumption DEF SetSum, ResetSum, Tracked, Keys
    <3> QED
      BY <2>7, <3>1, SumCommands
  <2> QED
    BY <2>3, <2>5, <2>6, <2>7
<1>8. ASSUME UNCHANGED <<req, run, cur, tests>> PROVE Goal
  BY <1>2, <1>3, <1>5, <1>8
<1>9. ASSUME NEW p \in Polls, runState(p) PROVE Goal
  <2>1. UNCHANGED <<req, run, cur, tests>>
    BY <1>9 DEF runState, PollSum, PollCase, PollInsert, PollDel, runnerVars
  <2> QED
    BY <1>8, <2>1
<1>10. CASE Start \/ UNCHANGED vars
            \/ \E f \in Files : ChangeCases(f) \/ \E k \in Keys : KeyExpires(f, k)
  <2>1. UNCHANGED <<req, run, cur, tests>>
    BY <1>10 DEF Start, vars, ChangeCases, KeyExpires, runnerVars
  <2> QED
    BY <1>8, <2>1
<1>11. CASE Restart
  <2>1. /\ UNCHANGED <<run, cur, tests>>
        /\ req'[s] = IF Ended(s) THEN req[s] ELSE "lost"
    BY <1>11 DEF Restart
  <2>2. req'[s] = req[s]
    BY <2>1 DEF Watched
  <2> QED
    BY <1>8, <1>2, <1>3, <1>5, <2>1, <2>2
<1> QED
  BY <1>6, <1>7, <1>9, <1>10, <1>11 DEF Next

\* A case is counted for the submission whose sum is watched: it is the only one under
\* its file name that has no verdict yet.
LEMMA CountedIsWatched ==
    ASSUME TypeInv, AloneInv, NEW s \in Subs, Tracked(FileOf[s]), Watched(s),
           NEW u \in SubsOf(FileOf[s]), Count(u)
    PROVE  u = s
<1>1. u \in Subs /\ FileOf[u] = FileOf[s]
  BY DEF SubsOf
<1>2. ~Judged(u)
  <2>1. u \in running /\ run[u] = "count"
    BY DEF Count, At
  <2>2. req[u] = "accepted" /\ u \notin finished
    BY <2>1, RunnerFacts
  <2> QED
    BY <2>1, <2>2 DEF Judged, Ended
<1>3. CASE Single(FileOf[s])
  BY <1>1, <1>3 DEF Single, SubsOf
<1>4. CASE ~Single(FileOf[s])
  <2>1. ~Judged(s)
    BY <1>4 DEF Watched, Judged, Ended
  <2> QED
    BY <1>1, <1>2, <2>1 DEF AloneInv, Tracked
<1> QED
  BY <1>3, <1>4

\* What has been earned is not lost.
LEMMA EarnedByStays ==
    ASSUME TypeInv, [Next]_vars, NEW f, NEW v, EarnedBy(tests, submitted, f, v)
    PROVE  EarnedBy(tests', submitted', f, v)
  BY TestsStay DEF EarnedBy

\* Every step keeps the sum within what has been earned.
LEMMA SumStep ==
    ASSUME TypeInv, TypeInv', AloneInv, VerdictInv, CountInv, SumInv, [Next]_vars
    PROVE  SumInv'
<1>1. /\ \A f \in Files : redis[f][Sum] \in Int \cup {None} /\ redis'[f][Sum] \in Int \cup {None}
      /\ None \notin Int
      /\ \A s \in Subs : FileOf[s] \in Files
  BY JudgeAssumption DEF TypeInv, RedisTypes, Keys
<1>2. ASSUME NEW s \in Subs, Tracked(FileOf[s]), Watched(s)' PROVE SumWithin(s)'
  <2> DEFINE f == FileOf[s]
  <2>1. f \in Files /\ Bound(s) \in Nat
    BY <1>1, BoundType
  <2>2. Bound(s)' \in Nat
    BY BoundTypeNext
  <2>3. SUFFICES ASSUME redis'[f][Sum] # None PROVE redis'[f][Sum] <= Bound(s)'
    BY DEF SumWithin, Bound, Earned, RightBelow
  <2>4. CASE redis'[f][Sum] \in {0, -2, -3}
    BY <2>2, <2>4
  <2>5. CASE redis'[f][Sum] \notin {0, -2, -3}
    <3>1. Watched(s) /\ Bound(s)' >= Bound(s) /\ (Count(s) => Bound(s)' = Bound(s) + 1)
      BY <1>2, <2>5, WatchedStep
    <3>2. redis[f][Sum] # None => redis[f][Sum] <= Bound(s)
      BY <1>2, <3>1 DEF SumInv, SumWithin
    <3>3. \/ redis'[f][Sum] = redis[f][Sum]
          \/ \E u \in SubsOf(f) : Count(u) /\ redis'[f][Sum] = Incremented(redis[f][Sum])
      BY <2>1, <2>3, <2>5, SumSteps
    <3>4. CASE redis'[f][Sum] = redis[f][Sum]
      BY <1>1, <2>1, <2>2, <2>3, <3>1, <3>2, <3>4
    <3>5. ASSUME NEW u \in SubsOf(f), Count(u), redis'[f][Sum] = Incremented(redis[f][Sum])
          PROVE  redis'[f][Sum] <= Bound(s)'
      <4>1. u = s
        BY <1>2, <3>1, <3>5, CountedIsWatched
      <4>2. Bound(s)' = Bound(s) + 1
        BY <3>1, <3>5, <4>1
      <4> QED
        BY <1>1, <2>1, <3>2, <3>5, <4>2 DEF Incremented
    <3> QED
      BY <3>3, <3>4, <3>5
  <2> QED
    BY <2>4, <2>5
<1>3. ASSUME NEW f \in Files, Tracked(f) PROVE EarnedBy(tests', submitted', f, redis'[f][Sum])
  <2>1. EarnedBy(tests, submitted, f, redis[f][Sum])
    BY <1>3 DEF SumInv
  <2>2. CASE redis'[f][Sum] \in {None, 0, -2, -3}
    BY <2>2 DEF EarnedBy
  <2>3. CASE redis'[f][Sum] = redis[f][Sum]
    BY <2>1, <2>3, EarnedByStays
  <2>4. ASSUME NEW s \in SubsOf(f), Count(s), redis'[f][Sum] = Incremented(redis[f][Sum])
        PROVE  EarnedBy(tests', submitted', f, redis'[f][Sum])
    <3> DEFINE m == Len(tests[s])
    <3>1. s \in running /\ run[s] = "count"
      BY <2>4 DEF Count, At
    <3>2. /\ s \in Subs /\ FileOf[s] = f /\ s \in submitted /\ s \notin finished
          /\ req[s] = "accepted" /\ cur[s] < total[s] /\ total[s] = m
      BY <3>1, RunnerFacts DEF SubsOf
    <3>3. Program[s].compiles /\ Program[s].case[tests[s][cur[s] + 1]] = "right"
      BY <1>3, <3>1, <3>2 DEF VerdictInv, Own, CountInv, Tracked, Comparing, TestOf
    <3>4. cur[s] \in Nat /\ cur[s] + 1 \in Nat /\ m \in Nat /\ cur[s] + 1 <= m
      BY <3>2 DEF TypeInv, ControlInv, ControlTypes
    <3>5. /\ Earned(s, tests[s], cur[s] + 1) = Earned(s, tests[s], cur[s]) + 1
          /\ Earned(s, tests[s], cur[s] + 1) <= Earned(s, tests[s], m)
          /\ Earned(s, tests[s], cur[s]) \in Nat /\ Earned(s, tests[s], m) \in Nat
      BY <3>3, <3>4, EarnedNext, EarnedGrows, EarnedType
    <3>6. redis[f][Sum] # None => redis[f][Sum] <= Earned(s, tests[s], cur[s])
      <4>1. Watched(s)
        BY <3>1, <3>2 DEF Watched, Judged, Ended
      <4>2. SumWithin(s)
        BY <1>3, <3>2, <4>1 DEF SumInv
      <4> QED
        BY <3>1, <3>2, <4>2 DEF SumWithin, Bound
    <3>7. redis'[f][Sum] <= Earned(s, tests[s], m)
      BY <1>1, <2>4, <3>5, <3>6 DEF Incremented
    <3>8. s \in SubsOf(f) \cap submitted' /\ tests'[s] = tests[s]
      BY <2>4, <3>2, TestsStay
    <3>9. redis'[f][Sum] <= Earned(s, tests'[s], Len(tests'[s]))
      BY <3>7, <3>8
    <3> QED
      BY <3>3, <3>8, <3>9 DEF EarnedBy
  <2> QED
    BY <1>3, <2>2, <2>3, <2>4, SumSteps
<1>4. ASSUME NEW f \in Files PROVE Tracked(f)' <=> Tracked(f)
  BY DEF Tracked, Calm, Single, SubsOf
<1> QED
  BY <1>1, <1>2, <1>3, <1>4 DEF SumInv

\* What a poll has read of the sum had been earned, and still is.
LEMMA ReadStep ==
    ASSUME TypeInv, SumInv, ReadInv, [Next]_vars
    PROVE  ReadInv'
<1> SUFFICES ASSUME NEW p \in Polls, Tracked(poll'[p].file), UnderWay(p)'
             PROVE  EarnedBy(tests', submitted', poll'[p].file, poll'[p].sum)
  BY DEF ReadInv, Tracked, Calm, Single, SubsOf
<1>1. ASSUME UnderWay(p), poll'[p].file = poll[p].file, poll'[p].sum = poll[p].sum
      PROVE  EarnedBy(tests', submitted', poll'[p].file, poll'[p].sum)
  <2>1. EarnedBy(tests, submitted, poll[p].file, poll[p].sum)
    BY <1>1 DEF ReadInv
  <2> QED
    BY <1>1, <2>1, EarnedByStays
<1>2. DOMAIN poll = Polls
  BY DEF TypeInv, PollInv
<1>3. ASSUME NEW q \in Polls, runState(q)
      PROVE  EarnedBy(tests', submitted', poll'[p].file, poll'[p].sum)
  <2>1. CASE p # q
    <3>1. poll'[p] = poll[p]
      BY <1>2, <1>3, <2>1 DEF runState, PollSum, PollCase, PollInsert, PollDel
    <3> QED
      BY <1>1, <3>1 DEF UnderWay
  <2>2. ASSUME p = q, NEW f \in Files, PollSum(q, f)
        PROVE  EarnedBy(tests', submitted', poll'[p].file, poll'[p].sum)
    <3>1. PICK v \in RedisGet(f, Sum) :
            poll' = [poll EXCEPT ![q] = [at |-> "cases", file |-> f, sum |-> v,
                                         complete |-> TRUE, i |-> 0]]
      BY <2>2 DEF PollSum
    <3>2. poll'[p].file = f /\ poll'[p].sum = v
      BY <1>2, <2>2, <3>1
    <3>3. v \in {redis[f][Sum], None}
      BY <3>1 DEF RedisGet
    <3>4. EarnedBy(tests, submitted, f, v)
      <4>1. CASE v = None
        BY <4>1 DEF EarnedBy
      <4>2. CASE v = redis[f][Sum]
        BY <3>2, <4>2 DEF SumInv
      <4> QED
        BY <3>3, <4>1, <4>2
    <3> QED
      BY <3>2, <3>4, EarnedByStays
  <2>3. CASE p = q /\ PollCase(q)
    <3>1. PICK v : poll' = [poll EXCEPT ![q] =
              [at |-> IF poll[q].i + 1 < NumCases THEN "cases"
                      ELSE IF poll[q].complete /\ v # None THEN "insert" ELSE "done",
               file |-> poll[q].file, sum |-> poll[q].sum,
               complete |-> poll[q].complete /\ v # None, i |-> (poll[q].i + 1) % NumCases]]
      BY <2>3 DEF PollCase
    <3>2. poll'[p].file = poll[p].file /\ poll'[p].sum = poll[p].sum /\ UnderWay(p)
      BY <1>2, <2>3, <3>1 DEF PollCase, UnderWay
    <3> QED
      BY <1>1, <3>2
  <2>4. CASE p = q /\ PollInsert(q)
    <3>1. poll'[p].file = poll[p].file /\ poll'[p].sum = poll[p].sum /\ UnderWay(p)
      BY <1>2, <2>4 DEF PollInsert, UnderWay, TypeInv, PollInv
    <3> QED
      BY <1>1, <3>1
  <2>5. CASE p = q /\ PollDel(q)
    <3>1. PICK e, c, n : poll' = [poll EXCEPT ![q] =
              [at |-> e, file |-> poll[q].file, sum |-> poll[q].sum, complete |-> c, i |-> n]]
      BY <2>5 DEF PollDel
    <3>2. poll'[p].file = poll[p].file /\ poll'[p].sum = poll[p].sum /\ UnderWay(p)
      BY <1>2, <2>5, <3>1 DEF PollDel, UnderWay
    <3> QED
      BY <1>1, <3>2
  <2> QED
    BY <1>3, <2>1, <2>2, <2>3, <2>4, <2>5 DEF runState
<1>4. ASSUME UNCHANGED poll PROVE EarnedBy(tests', submitted', poll'[p].file, poll'[p].sum)
  BY <1>1, <1>4 DEF UnderWay
<1>5. ASSUME NEW s \in Subs, Request(s) \/ cpp_runner(s)
      PROVE  EarnedBy(tests', submitted', poll'[p].file, poll'[p].sum)
  <2>1. UNCHANGED poll
    BY <1>5
       DEF Request, Receive, SetSum, ExpireSum, TaskPush, cpp_runner, Compile, Link, BoxInit,
           CopyIn, BoxRun, CopyOut, Compare, Count, ExpireCase, SetCode, ExpireCode,
           RemoveSource, RemoveExecutable, pollVars
  <2> QED
    BY <1>4, <2>1
<1>6. CASE Start \/ UNCHANGED vars
           \/ \E f \in Files : ChangeCases(f) \/ \E k \in Keys : KeyExpires(f, k)
  <2>1. UNCHANGED poll
    BY <1>6 DEF Start, vars, ChangeCases, KeyExpires, pollVars
  <2> QED
    BY <1>4, <2>1
<1>7. CASE Restart
  <2>0. PICK cut : cut = [NoPoll EXCEPT !.at = "done"]
    OBVIOUS
  <2>1. cut.at = "done"
    BY <2>0 DEF NoPoll
  <2>2. poll'[p] = IF UnderWay(p) THEN cut ELSE poll[p]
    BY <1>7, <2>0 DEF Restart
  <2>3. poll'[p] = poll[p] /\ UnderWay(p)
    BY <2>1, <2>2 DEF UnderWay
  <2> QED
    BY <1>1, <2>3
<1> QED
  BY <1>3, <1>5, <1>6, <1>7 DEF Next

\* The sum, and what the polls have read of it, is earned in every state.
LEMMA SumInvHolds == Spec => [](TypeInv /\ SumInv /\ ReadInv)
<1> DEFINE Inv == CountInv /\ SumInv /\ ReadInv
<1>1. Init => Inv
  <2> SUFFICES ASSUME Init PROVE Inv
    OBVIOUS
  <2>1. CountInv
    BY DEF Init, TQ!Init, CountInv
  <2>2. \A f \in Files : redis[f][Sum] = None
    BY DEF Init, Keys
  <2>3. SumInv
    BY <2>2, JudgeAssumption DEF SumInv, SumWithin, EarnedBy
  <2>4. ReadInv
    BY DEF Init, ReadInv, UnderWay, NoPoll
  <2> QED
    BY <2>1, <2>3, <2>4
<1>2. TypeInv /\ TypeInv' /\ AloneInv /\ VerdictInv /\ Inv /\ [Next]_vars => Inv'
  BY CountStep, SumStep, ReadStep
<1> HIDE DEF Inv
<1>3. Inv => SumInv /\ ReadInv
  BY DEF Inv
<1> QED
  BY <1>1, <1>2, <1>3, VerdictInvHolds, PTL DEF Spec

\* The sum of a user who submits once to a problem never says more than the submission
\* has earned on the rows of its task: whatever expires, whichever queries and commands
\* fail, however the test cases change and whenever the server is restarted.
THEOREM SumIsEarnedHolds == Spec => []SumIsEarned
<1>1. TypeInv /\ SumInv => SumIsEarned
  <2> SUFFICES ASSUME TypeInv, SumInv, NEW s \in Subs, SubsOf(FileOf[s]) = {s},
                      redis[FileOf[s]][Sum] # None
               PROVE  redis[FileOf[s]][Sum] <= Cardinality(RightRows(s))
    BY DEF SumIsEarned
  <2> DEFINE v == redis[FileOf[s]][Sum]
             m == Len(tests[s])
  <2>1. FileOf[s] \in Files /\ v \in Int /\ m \in Nat
    BY JudgeAssumption DEF TypeInv, RedisTypes, Keys, ControlInv, ControlTypes
  <2>2. Tracked(FileOf[s])
    BY DEF Tracked, Calm, Single
  <2>3. EarnedBy(tests, submitted, FileOf[s], v)
    BY <2>1, <2>2 DEF SumInv
  <2>4. Earned(s, tests[s], m) \in Nat
    BY <2>1, EarnedType
  <2>5. v <= Earned(s, tests[s], m)
    BY <2>1, <2>3, <2>4 DEF EarnedBy
  <2> QED
    BY <2>5 DEF Earned, RightBelow, RightRows
<1> QED
  BY <1>1, SumInvHolds, PTL

\* A "Pass" is recorded by a poll that has read a sum of NumCases, which was earned.
LEMMA PassStep ==
    ASSUME Lossy = {}, ~Overlap, TypeInv, ReadInv, [Next]_vars,
           NEW r \in results', r.result = "Pass", r \notin results
    PROVE  \E u \in SubsOf(r.file) \cap submitted :
              Program[u].compiles /\ Cardinality(RightRows(u)) >= NumCases
<1>1. ASSUME NEW s \in Subs, Request(s) \/ cpp_runner(s) PROVE UNCHANGED results
  BY <1>1
     DEF Request, Receive, SetSum, ExpireSum, TaskPush, cpp_runner, Compile, Link, BoxInit,
         CopyIn, BoxRun, CopyOut, Compare, Count, ExpireCase, SetCode, ExpireCode,
         RemoveSource, RemoveExecutable, pollVars
<1>2. PICK p \in Polls : PollInsert(p)
  BY <1>1
     DEF Next, runState, PollSum, PollCase, PollDel, Start, Restart, vars, ChangeCases,
         KeyExpires, pollVars
<1>3. r = [poll |-> p, file |-> poll[p].file,
           result |-> IF poll[p].sum = NumCases THEN "Pass" ELSE "Unpass"]
  BY <1>2 DEF PollInsert
<1>4. r.file = poll[p].file /\ poll[p].sum = NumCases
  BY <1>3
<1>5. UnderWay(p) /\ Tracked(poll[p].file)
  BY <1>2 DEF PollInsert, UnderWay, Tracked, Calm
<1>6. EarnedBy(tests, submitted, r.file, NumCases)
  BY <1>4, <1>5 DEF ReadInv
<1>7. NumCases \in Nat /\ NumCases > 0 /\ NumCases # None
  BY JudgeAssumption
<1>8. PICK u \in SubsOf(r.file) \cap submitted :
        Program[u].compiles /\ NumCases <= Earned(u, tests[u], Len(tests[u]))
  BY <1>6, <1>7 DEF EarnedBy
<1>9. Len(tests[u]) \in Nat
  BY <1>8 DEF SubsOf, TypeInv, ControlInv, ControlTypes
<1>10. Earned(u, tests[u], Len(tests[u])) \in Nat
  BY <1>9, EarnedType
<1>11. Earned(u, tests[u], Len(tests[u])) >= NumCases
  BY <1>7, <1>8, <1>10
<1> QED
  BY <1>8, <1>11 DEF Earned, RightBelow, RightRows

\* "Pass" is recorded only if a submission really gave the right output on as many rows
\* of its task as there are test cases, for users who wait for a verdict before they
\* submit again, when no query fails: whatever polls, restarts, expiring keys, failing
\* commands and changes of the test cases come in between.
THEOREM PassIsEarnedHolds ==
    ASSUME ~Overlap, Lossy = {}
    PROVE  Spec => []PassIsEarned
<1>1. Init => PassIsEarned
  BY DEF Init, PassIsEarned
<1>2. TypeInv /\ ReadInv /\ PassIsEarned /\ [Next]_vars => PassIsEarned'
  <2> SUFFICES ASSUME TypeInv, ReadInv, PassIsEarned, [Next]_vars,
                      NEW r \in results', r.result = "Pass"
               PROVE  \E s \in SubsOf(r.file) \cap submitted' :
                         Program[s].compiles /\ Cardinality(RightRows(s)') >= NumCases
    BY DEF PassIsEarned, SubsOf
  <2>1. PICK u \in SubsOf(r.file) \cap submitted :
          Program[u].compiles /\ Cardinality(RightRows(u)) >= NumCases
    BY PassStep DEF PassIsEarned
  <2>2. u \in submitted' /\ RightRows(u)' = RightRows(u)
    BY <2>1, TestsStay DEF RightRows
  <2> QED
    BY <2>1, <2>2
<1> QED
  BY <1>1, <1>2, SumInvHolds, PTL DEF Spec

-----------------------------------------------------------------------------
(* When the test cases of a problem are uploaded once and stay.              *)

FirstRows == [n \in 1..NumCases |-> n - 1]

FirstInv ==
    /\ \A f \in Files : cases[f] = FirstRows
    /\ \A s \in submitted : tests[s] = FirstRows

\* Nothing else touches the rows, and every task is given all of them.
LEMMA FirstStep ==
    ASSUME ~MayWipe, TypeInv, FirstInv, [Next]_vars
    PROVE  FirstInv'
<1>1. UNCHANGED cases
  BY RunnerFrame
     DEF Next, Request, Receive, SetSum, ExpireSum, TaskPush, runState, PollSum, PollCase,
         PollInsert, PollDel, Start, Restart, vars, ChangeCases, KeyExpires
<1>2. ASSUME NEW s \in submitted' \ submitted PROVE tests'[s] = FirstRows
  <2>1. ASSUME NEW u \in Subs, cpp_runner(u) PROVE FALSE
    BY <1>2, <2>1, RunnerFrame
  <2>2. ASSUME NEW u \in Subs, Request(u) PROVE tests'[s] = FirstRows
    <3>1. /\ TQ!Submit(u) /\ tests' = [tests EXCEPT ![u] = cases[FileOf[u]]]
      BY <1>2, <2>2 DEF Request, Receive, SetSum, ExpireSum, TaskPush, poolVars
    <3>2. s = u /\ FileOf[u] \in Files
      BY <1>2, <2>2, <3>1, JudgeAssumption DEF TQ!Submit
    <3> QED
      BY <2>2, <3>1, <3>2 DEF FirstInv, TypeInv, ControlInv, ControlTypes
  <2>3. ASSUME NEW p \in Polls, runState(p) PROVE FALSE
    BY <1>2, <2>3 DEF runState, PollSum, PollCase, PollInsert, PollDel, poolVars
  <2> QED
    BY <1>2, <2>1, <2>2, <2>3
       DEF Next, Start, TQ!Start, Restart, vars, ChangeCases, KeyExpires, poolVars
<1> QED
  BY <1>1, <1>2, TestsStay DEF FirstInv

\* "Pass" is recorded only for a submission that is right on every test case.
PassIsRight ==
    \A r \in results : r.result = "Pass" => \E s \in SubsOf(r.file) \cap submitted : AllRight(s)

\* It is so when the test cases are not uploaded once more while they are used, for users
\* who wait for a verdict before they submit again, when no query fails: there are then
\* as many rows as test_num says, and a sum that reaches it has counted each of them.
THEOREM PassIsRightHolds ==
    ASSUME ~Overlap, Lossy = {}, ~MayWipe
    PROVE  Spec => []PassIsRight
<1>1. Init => FirstInv
  BY DEF Init, TQ!Init, FirstInv, FirstRows
<1>2. TypeInv /\ FirstInv /\ [Next]_vars => FirstInv'
  BY FirstStep
<1>3. FirstInv /\ PassIsEarned => PassIsRight
  <2> SUFFICES ASSUME FirstInv, PassIsEarned, NEW r \in results, r.result = "Pass"
               PROVE  \E s \in SubsOf(r.file) \cap submitted : AllRight(s)
    BY DEF PassIsRight
  <2>1. PICK u \in SubsOf(r.file) \cap submitted :
          Program[u].compiles /\ Cardinality(RightRows(u)) >= NumCases
    BY DEF PassIsEarned
  <2>2. tests[u] = FirstRows
    BY <2>1 DEF FirstInv
  <2>3. NumCases \in Nat /\ Len(FirstRows) = NumCases
    BY JudgeAssumption DEF FirstRows
  <2>4. Earned(u, FirstRows, NumCases) >= NumCases
    BY <2>1, <2>2, <2>3 DEF Earned, RightBelow, RightRows
  <2>5. \A n \in 1..NumCases : Program[u].case[FirstRows[n]] = "right"
    BY <2>3, <2>4, EarnedAll
  <2>6. ASSUME NEW i \in Cases PROVE Program[u].case[i] = "right"
    <3>1. i + 1 \in 1..NumCases /\ FirstRows[i + 1] = i
      BY <2>3 DEF Cases, FirstRows
    <3> QED
      BY <2>5, <3>1
  <2> QED
    BY <2>1, <2>6 DEF AllRight
<1> QED
  BY <1>1, <1>2, <1>3, PassIsEarnedHolds, TypeInvHolds, PTL DEF Spec
=============================================================================
