------------------------- MODULE JudgeRecordProofs --------------------------
(***************************************************************************)
(* How often the verdicts of a user on a problem are recorded:             *)
(* RecordedOnce, for pages that wait for the answer to a poll before they  *)
(* send the next one, while no query fails.  The argument is a balance: a  *)
(* row is paid for with the key of the last case, which is there once for  *)
(* each submission that was compared to the end, or with a poll that a     *)
(* restart has cut short.  There may be more rows than cases, or fewer.    *)
(***************************************************************************)
EXTENDS JudgePipelineProofs, FiniteSetTheorems

Last == NumCases - 1

\* The rows of a file.
RowsOf(f) == {r \in results : r.file = f}

\* The polls that a restart has cut short.
Cut == {p \in Polls : poll[p].at = "done" /\ poll[p].file = None}

\* The submissions whose runner has set the key of the last case that a poll looks for,
\* though it may have more rows, or never will.
Compared(f) ==
    {s \in SubsOf(f) : \/ run[s] \in {"count", "expire"} /\ cur[s] >= Last
                       \/ run[s] = "compare" /\ cur[s] > Last
                       \/ run[s] \in {"rmSrc", "rmExe", "done"}}

\* A row may still be inserted for what is in Redis: a poll has found all the keys, or
\* the last one is there and no poll is about to delete it.
Owed(f) ==
    \/ \E p \in Polls : poll[p].file = f /\ poll[p].at = "insert"
    \/ redis[f][Last] # None /\ \A p \in Polls : ~(poll[p].file = f /\ poll[p].at = "del")

Debt(f) == IF Owed(f) THEN 1 ELSE 0

\* Polls come one at a time.
OneUnderWay == \A p, q \in Polls : UnderWay(p) /\ UnderWay(q) => p = q

\* What is counted is finite in every state, though submissions and polls never end.
FiniteInv == IsFiniteSet(submitted) /\ IsFiniteSet(results) /\ IsFiniteSet(Cut)

Balanced(f) ==
    Cardinality(RowsOf(f)) + Debt(f) <= Cardinality(Compared(f)) + Cardinality(Cut)

BalanceInv == \A f \in Files : Balanced(f)

-----------------------------------------------------------------------------
(* Counting.                                                                 *)

\* A finite set with an element that another one lacks, and all of its elements, is
\* larger by one at least.
LEMMA OneMore ==
    ASSUME NEW S, NEW T, IsFiniteSet(T), S \subseteq T, NEW x \in T, x \notin S
    PROVE  Cardinality(S) + 1 <= Cardinality(T)
<1>1. IsFiniteSet(S)
  BY FS_Subset
<1>2. Cardinality(S \cup {x}) = Cardinality(S) + 1 /\ IsFiniteSet(S \cup {x})
  BY <1>1, FS_AddElement
<1>3. Cardinality(S \cup {x}) <= Cardinality(T)
  BY FS_Subset
<1> QED
  BY <1>2, <1>3

\* What is counted is counted in numbers, and stays below a larger set.
LEMMA Counted ==
    ASSUME NEW S, NEW T, IsFiniteSet(T), S \subseteq T
    PROVE  /\ IsFiniteSet(S) /\ Cardinality(S) \in Nat /\ Cardinality(T) \in Nat
           /\ Cardinality(S) <= Cardinality(T)
<1>1. IsFiniteSet(S) /\ Cardinality(S) <= Cardinality(T)
  BY FS_Subset
<1> QED
  BY <1>1, FS_CardinalityType

\* The submissions that were compared were handed over.
LEMMA ComparedHandedOver ==
    ASSUME TypeInv, NEW f \in Files
    PROVE  Compared(f) \subseteq SubsOf(f) \cap submitted
  BY DEF Compared, SubsOf, TypeInv, ControlInv, TaskInv

\* The balance is kept by a step that adds no row and no debt, ...
LEMMA BalanceKept ==
    ASSUME FiniteInv, FiniteInv', NEW f \in Files, Balanced(f),
           Compared(f) \subseteq submitted, Compared(f)' \subseteq submitted',
           Compared(f) \subseteq Compared(f)', Cut \subseteq Cut',
           \/ RowsOf(f)' = RowsOf(f) /\ (Owed(f)' => Owed(f))
           \/ RowsOf(f)' = RowsOf(f) /\ \E s \in Compared(f)' : s \notin Compared(f)
           \/ RowsOf(f)' = RowsOf(f) /\ \E p \in Cut' : p \notin Cut
           \/ (\E x : RowsOf(f)' \subseteq RowsOf(f) \cup {x}) /\ Owed(f) /\ ~Owed(f)'
    PROVE  Balanced(f)'
<1> DEFINE R == Cardinality(RowsOf(f))
           C == Cardinality(Compared(f))
           K == Cardinality(Cut)
           RR == Cardinality(RowsOf(f)')
           CC == Cardinality(Compared(f)')
           KK == Cardinality(Cut')
<1>1. /\ IsFiniteSet(RowsOf(f)) /\ R \in Nat
      /\ IsFiniteSet(RowsOf(f)') /\ RR \in Nat
  <2>1. RowsOf(f) \subseteq results /\ RowsOf(f)' \subseteq results'
    BY DEF RowsOf
  <2> QED
    BY <2>1, Counted DEF FiniteInv
<1>2. /\ IsFiniteSet(Compared(f)) /\ C \in Nat
      /\ IsFiniteSet(Compared(f)') /\ CC \in Nat
  BY Counted DEF FiniteInv
<1>3. C <= CC
  BY <1>2, Counted
<1>4. IsFiniteSet(Cut) /\ IsFiniteSet(Cut') /\ K \in Nat /\ KK \in Nat /\ K <= KK
  BY Counted DEF FiniteInv
<1>5. R + Debt(f) <= C + K
  BY DEF Balanced
<1>6. SUFFICES RR + Debt(f)' <= CC + KK
  BY DEF Balanced
<1>7. Debt(f) \in {0, 1} /\ Debt(f)' \in {0, 1}
  BY DEF Debt
<1>8. CASE RowsOf(f)' = RowsOf(f) /\ (Owed(f)' => Owed(f))
  <2>1. Debt(f)' <= Debt(f) /\ RR = R
    BY <1>8 DEF Debt
  <2> HIDE DEF R, C, K, RR, CC, KK
  <2> QED
    BY <1>1, <1>2, <1>3, <1>4, <1>5, <1>7, <2>1
<1>9. CASE RowsOf(f)' = RowsOf(f) /\ \E s \in Compared(f)' : s \notin Compared(f)
  <2>1. C + 1 <= CC /\ RR = R
    BY <1>2, <1>9, OneMore
  <2> HIDE DEF R, C, K, RR, CC, KK
  <2> QED
    BY <1>1, <1>2, <1>4, <1>5, <1>7, <2>1
<1>10. CASE RowsOf(f)' = RowsOf(f) /\ \E p \in Cut' : p \notin Cut
  <2>1. K + 1 <= KK /\ RR = R
    BY <1>4, <1>10, OneMore
  <2> HIDE DEF R, C, K, RR, CC, KK
  <2> QED
    BY <1>1, <1>2, <1>3, <1>4, <1>5, <1>7, <2>1
<1>11. CASE (\E x : RowsOf(f)' \subseteq RowsOf(f) \cup {x}) /\ Owed(f) /\ ~Owed(f)'
  <2>1. PICK x : RowsOf(f)' \subseteq RowsOf(f) \cup {x}
    BY <1>11
  <2>2. IsFiniteSet(RowsOf(f) \cup {x}) /\ Cardinality(RowsOf(f) \cup {x}) <= R + 1
    <3>1. /\ IsFiniteSet(RowsOf(f) \cup {x})
          /\ Cardinality(RowsOf(f) \cup {x})
               = IF x \in RowsOf(f) THEN Cardinality(RowsOf(f)) ELSE Cardinality(RowsOf(f)) + 1
      BY <1>1, FS_AddElement
    <3> QED
      BY <1>1, <3>1
  <2>3. RR <= Cardinality(RowsOf(f) \cup {x}) /\ Cardinality(RowsOf(f) \cup {x}) \in Nat
    BY <2>1, <2>2, Counted
  <2>4. Debt(f) = 1 /\ Debt(f)' = 0
    BY <1>11 DEF Debt
  <2> HIDE DEF R, C, K, RR, CC, KK
  <2> QED
    BY <1>1, <1>2, <1>3, <1>4, <1>5, <2>2, <2>3, <2>4
<1> QED
  BY <1>8, <1>9, <1>10, <1>11

-----------------------------------------------------------------------------
(* The steps.                                                                *)

\* What a step of a poll does: the poll alone moves, it has found the key of the last
\* case when it goes on to insert a row, and deletes that key last.
LEMMA PollActs ==
    ASSUME TypeInv, NEW q \in Polls, runState(q)
    PROVE  /\ UNCHANGED <<submitted, run, cur>>
           /\ \A p \in Polls \ {q} : poll'[p] = poll[p]
           /\ \/ /\ poll[q].at = "idle" /\ poll'[q].at = "cases"
                 /\ \E f \in Files : PollSum(q, f)
                 /\ UNCHANGED <<redis, results>>
              \/ /\ poll[q].at = "cases" /\ poll'[q].at \in {"cases", "insert", "done"}
                 /\ poll'[q].file = poll[q].file
                 /\ poll'[q].at = "insert" => redis[poll[q].file][Last] # None
                 /\ UNCHANGED <<redis, results>>
              \/ /\ poll[q].at = "insert" /\ poll'[q].at = "del"
                 /\ poll'[q].file = poll[q].file
                 /\ UNCHANGED redis
                 /\ \E x : x.file = poll[q].file /\ results' \in {results, results \cup {x}}
              \/ /\ poll[q].at = "del" /\ poll'[q].at \in {"del", "done"}
                 /\ poll'[q].file = poll[q].file
                 /\ RedisDel(poll[q].file, poll[q].i)
                 /\ poll'[q].at = "done" => poll[q].i = Last
                 /\ UNCHANGED results
<1>1. DOMAIN poll = Polls
  BY DEF TypeInv, PollInv
<1>2. UNCHANGED <<submitted, run, cur>>
  BY DEF runState, PollSum, PollCase, PollInsert, PollDel, poolVars, runnerVars
<1>3. \A p \in Polls \ {q} : poll'[p] = poll[p]
  BY <1>1 DEF runState, PollSum, PollCase, PollInsert, PollDel
<1>4. UnderWay(q) => poll[q].i \in Cases /\ NumCases \in Nat \ {0}
  BY JudgeAssumption DEF TypeInv, PollInv
<1>5. ASSUME NEW f \in Files, PollSum(q, f)
      PROVE  poll[q].at = "idle" /\ poll'[q].at = "cases" /\ UNCHANGED <<redis, results>>
  BY <1>1, <1>5 DEF PollSum, redisVars
<1>6. ASSUME PollCase(q)
      PROVE  /\ poll[q].at = "cases" /\ poll'[q].at \in {"cases", "insert", "done"}
             /\ poll'[q].file = poll[q].file
             /\ poll'[q].at = "insert" => redis[poll[q].file][Last] # None
             /\ UNCHANGED <<redis, results>>
  <2>1. PICK v \in RedisGet(poll[q].file, poll[q].i) : poll' = [poll EXCEPT ![q] =
            [at |-> IF poll[q].i + 1 < NumCases THEN "cases"
                    ELSE IF poll[q].complete /\ v # None THEN "insert" ELSE "done",
             file |-> poll[q].file, sum |-> poll[q].sum,
             complete |-> poll[q].complete /\ v # None, i |-> (poll[q].i + 1) % NumCases]]
    BY <1>6 DEF PollCase
  <2> DEFINE end == IF poll[q].i + 1 < NumCases THEN "cases"
                    ELSE IF poll[q].complete /\ v # None THEN "insert" ELSE "done"
  <2>2. poll'[q].at = end /\ poll'[q].file = poll[q].file
    BY <1>1, <2>1
  <2>3. end = "insert" => v # None /\ ~(poll[q].i + 1 < NumCases)
    OBVIOUS
  <2>4. v # None => v = redis[poll[q].file][poll[q].i]
    BY <2>1 DEF RedisGet
  <2>5. ~(poll[q].i + 1 < NumCases) => poll[q].i = Last
    BY <1>4, <1>6 DEF PollCase, UnderWay, Cases, Last
  <2>6. end \in {"cases", "insert", "done"}
    OBVIOUS
  <2>7. poll[q].at = "cases" /\ UNCHANGED <<redis, results>>
    BY <1>6 DEF PollCase, redisVars
  <2> HIDE DEF end
  <2> QED
    BY <2>2, <2>3, <2>4, <2>5, <2>6, <2>7
<1>7. ASSUME PollInsert(q)
      PROVE  /\ poll[q].at = "insert" /\ poll'[q].at = "del"
             /\ poll'[q].file = poll[q].file
             /\ UNCHANGED redis
             /\ \E x : x.file = poll[q].file /\ results' \in {results, results \cup {x}}
  <2>1. PICK x : x = [poll |-> q, file |-> poll[q].file,
                      result |-> IF poll[q].sum = NumCases THEN "Pass" ELSE "Unpass"]
    OBVIOUS
  <2>2. x.file = poll[q].file
    BY <2>1
  <2>3. results' \in {results, results \cup {x}}
    BY <1>7, <2>1 DEF PollInsert
  <2>4. poll'[q].at = "del" /\ poll'[q].file = poll[q].file
    BY <1>7 DEF PollInsert, TypeInv, PollInv
  <2> QED
    BY <1>7, <2>2, <2>3, <2>4 DEF PollInsert, redisVars
<1>8. ASSUME PollDel(q)
      PROVE  /\ poll[q].at = "del" /\ poll'[q].at \in {"del", "done"}
             /\ poll'[q].file = poll[q].file
             /\ RedisDel(poll[q].file, poll[q].i)
             /\ poll'[q].at = "done" => poll[q].i = Last
             /\ UNCHANGED results
  <2>1. poll' = [poll EXCEPT ![q] =
            [at |-> IF poll[q].i + 1 < NumCases THEN "del" ELSE "done", file |-> poll[q].file,
             sum |-> poll[q].sum, complete |-> poll[q].complete,
             i |-> (poll[q].i + 1) % NumCases]]
    BY <1>8 DEF PollDel
  <2>2. /\ poll'[q].at = IF poll[q].i + 1 < NumCases THEN "del" ELSE "done"
        /\ poll'[q].file = poll[q].file
    BY <1>1, <2>1
  <2>3. ~(poll[q].i + 1 < NumCases) => poll[q].i = Last
    BY <1>4, <1>8 DEF PollDel, UnderWay, Cases, Last
  <2> QED
    BY <1>8, <2>2, <2>3 DEF PollDel, CaseDeleted
<1> QED
  BY <1>2, <1>3, <1>5, <1>6, <1>7, <1>8 DEF runState

\* What a restart does to the polls.
LEMMA RestartCuts ==
    ASSUME Restart, NEW p \in Polls
    PROVE  IF UnderWay(p) THEN poll'[p].at = "done" /\ poll'[p].file = None
                          ELSE poll'[p] = poll[p]
<1>1. PICK cut : cut = [NoPoll EXCEPT !.at = "done"]
  OBVIOUS
<1>2. cut.at = "done" /\ cut.file = None
  BY <1>1 DEF NoPoll
<1>3. poll'[p] = IF UnderWay(p) THEN cut ELSE poll[p]
  BY <1>1 DEF Restart
<1> QED
  BY <1>2, <1>3

\* The steps that leave the polls and the rows alone.
LEMMA PollsLeft ==
    ASSUME [Next]_vars, ~Restart, \A q \in Polls : ~runState(q)
    PROVE  UNCHANGED <<poll, results>>
<1>1. ASSUME NEW s \in Subs, Request(s) \/ cpp_runner(s) PROVE UNCHANGED <<poll, results>>
  BY <1>1
     DEF Request, Receive, SetSum, ExpireSum, TaskPush, cpp_runner, Compile, Link, BoxInit,
         CopyIn, BoxRun, CopyOut, Compare, Count, ExpireCase, SetCode, ExpireCode,
         RemoveSource, RemoveExecutable, pollVars
<1> QED
  BY <1>1 DEF Next, Start, vars, ChangeCases, KeyExpires, pollVars

\* Polls come one at a time when the page waits for the answers.
LEMMA OneStep ==
    ASSUME OnePage, TypeInv, OneUnderWay, [Next]_vars
    PROVE  OneUnderWay'
<1>1. ASSUME NEW q \in Polls, runState(q) PROVE OneUnderWay'
  <2>1. CASE UnderWay(q)
    <3>1. \A p \in Polls : UnderWay(p)' => UnderWay(p)
      BY <1>1, <2>1, PollActs DEF UnderWay
    <3> QED
      BY <3>1 DEF OneUnderWay, UnderWay
  <2>2. CASE ~UnderWay(q)
    <3>1. \A p \in Polls : ~UnderWay(p)
      BY <1>1, <2>2 DEF runState, PollSum, PollCase, PollInsert, PollDel, UnderWay
    <3>2. \A p \in Polls : UnderWay(p)' => p = q
      BY <1>1, <3>1, PollActs DEF UnderWay
    <3> QED
      BY <3>2 DEF OneUnderWay, UnderWay
  <2> QED
    BY <2>1, <2>2
<1>2. CASE Restart
  <2>1. \A p \in Polls : ~UnderWay(p)'
    BY <1>2, RestartCuts DEF UnderWay
  <2> QED
    BY <2>1 DEF OneUnderWay, UnderWay
<1>3. CASE ~Restart /\ \A q \in Polls : ~runState(q)
  BY <1>3, PollsLeft DEF OneUnderWay, UnderWay
<1> QED
  BY <1>1, <1>2, <1>3

\* A poll that was cut short stays so.
LEMMA CutStays ==
    ASSUME TypeInv, [Next]_vars
    PROVE  Cut \subseteq Cut'
<1>1. ASSUME NEW p \in Polls, poll[p].at = "done" PROVE poll'[p] = poll[p]
  <2>1. CASE \E q \in Polls : runState(q)
    BY <1>1, <2>1, PollActs
  <2>2. CASE Restart
    BY <1>1, <2>2, RestartCuts DEF UnderWay
  <2>3. CASE ~Restart /\ \A q \in Polls : ~runState(q)
    BY <2>3, PollsLeft
  <2> QED
    BY <2>1, <2>2, <2>3
<1> QED
  BY <1>1 DEF Cut

\* No step adds more than one submission, row or poll that was cut short.
LEMMA FiniteStep ==
    ASSUME TypeInv, OneUnderWay, FiniteInv, [Next]_vars
    PROVE  FiniteInv'
<1>1. ASSUME NEW S, NEW T, NEW x, IsFiniteSet(S), T \subseteq S \cup {x} PROVE IsFiniteSet(T)
  <2>1. IsFiniteSet(S \cup {x})
    BY <1>1, FS_AddElement
  <2> QED
    BY <1>1, <2>1, FS_Subset
<1>2. \E x : submitted' \subseteq submitted \cup {x}
  <2>1. ASSUME NEW s \in Subs, cpp_runner(s) PROVE submitted' = submitted
    BY <2>1, RunnerFrame
  <2>2. ASSUME NEW s \in Subs, Request(s) PROVE submitted' \subseteq submitted \cup {s}
    BY <2>2 DEF Request, Receive, SetSum, ExpireSum, TaskPush, TQ!Submit, poolVars
  <2>3. ASSUME NEW q \in Polls, runState(q) PROVE submitted' = submitted
    BY <2>3, PollActs
  <2> QED
    BY <2>1, <2>2, <2>3
       DEF Next, poolVars, ChangeCases, KeyExpires, Start, TQ!Start, Restart, vars
<1>3. \E x : results' \subseteq results \cup {x}
  <2>1. ASSUME NEW q \in Polls, runState(q) PROVE \E x : results' \subseteq results \cup {x}
    BY <2>1, PollActs
  <2>2. CASE Restart
    BY <2>2 DEF Restart
  <2> QED
    BY <2>1, <2>2, PollsLeft
<1>4. \E x : Cut' \subseteq Cut \cup {x}
  <2>1. ASSUME NEW q \in Polls, runState(q) PROVE Cut' \subseteq Cut \cup {q}
    BY <2>1, PollActs DEF Cut
  <2>2. CASE Restart
    <3>1. PICK x : \A p \in Polls : UnderWay(p) => p = x
      BY DEF OneUnderWay
    <3>2. \A p \in Polls \ {x} : poll'[p] = poll[p]
      BY <2>2, <3>1, RestartCuts
    <3> QED
      BY <3>2 DEF Cut
  <2>3. CASE ~Restart /\ \A q \in Polls : ~runState(q)
    BY <2>3, PollsLeft DEF Cut
  <2> QED
    BY <2>1, <2>2, <2>3
<1> QED
  BY <1>1, <1>2, <1>3, <1>4 DEF FiniteInv

\* The commands that may touch the key of the last case of a file.
LEMMA LastKey ==
    ASSUME TypeInv, NEW f \in Files, NEW g \in Files, NEW k \in Keys, NEW v
    PROVE  /\ \/ RedisExpire(g, k) \/ RedisIncr(g, Sum) \/ RedisSet(g, Sum, v)
              \/ UNCHANGED redisVars
              => redis'[f][Last] = redis[f][Last]
           /\ RedisSet(g, k, v) => redis'[f][Last] = redis[f][Last] \/ (f = g /\ k = Last)
           /\ Gone(g, k) \/ RedisDel(g, k) => redis'[f][Last] \in {redis[f][Last], None}
           /\ RedisDel(f, Last) /\ Lossy = {} => redis'[f][Last] = None
<1>1. /\ redis \in [Files -> [Keys -> Int \cup {None}]]
      /\ Sum \in Keys /\ Last \in Keys /\ Last # Sum
  <2>1. redis \in [Files -> [Keys -> Int \cup {None}]]
    BY DEF TypeInv, RedisTypes
  <2>2. Last \in Cases
    BY JudgeAssumption DEF Cases, Last
  <2> QED
    BY <2>1, <2>2, CasesAreKeys DEF Keys
<1>2. ASSUME NEW h \in Files, NEW j \in Keys, NEW x, redis' = [redis EXCEPT ![h][j] = x]
      PROVE  redis'[f][Last] = IF f = h /\ j = Last THEN x ELSE redis[f][Last]
  BY <1>1, <1>2
<1>3. RedisExpire(g, k) \/ UNCHANGED redisVars => redis'[f][Last] = redis[f][Last]
  BY DEF RedisExpire, RedisError, redisVars
<1>4. ASSUME RedisIncr(g, Sum) PROVE redis'[f][Last] = redis[f][Last]
  <2>1. CASE redis' = [redis EXCEPT ![g][Sum] = Incremented(redis[g][Sum])]
    BY <1>1, <1>2, <2>1
  <2> QED
    BY <1>4, <2>1 DEF RedisIncr, RedisError, redisVars
<1>5. RedisSet(g, Sum, v) => redis'[f][Last] = redis[f][Last]
  BY <1>1, <1>2 DEF RedisSet, RedisError, redisVars
<1>6. RedisSet(g, k, v) => redis'[f][Last] = redis[f][Last] \/ (f = g /\ k = Last)
  BY <1>2 DEF RedisSet, RedisError, redisVars
<1>7. Gone(g, k) \/ RedisDel(g, k) => redis'[f][Last] \in {redis[f][Last], None}
  BY <1>2 DEF Gone, RedisDel, RedisError, redisVars
<1>8. RedisDel(f, Last) /\ Lossy = {} => redis'[f][Last] = None
  BY <1>1, <1>2 DEF Gone, RedisDel, RedisError
<1> QED
  BY <1>3, <1>4, <1>5, <1>6, <1>7, <1>8

\* A runner that has set the key of the last case will not do so again, and one that
\* sets it had not.
LEMMA RunnerCompares ==
    ASSUME TypeInv, NEW s \in Subs, cpp_runner(s), NEW f \in Files
    PROVE  /\ Compared(f) \subseteq Compared(f)'
           /\ \/ redis'[f][Last] = redis[f][Last]
              \/ \E u \in Compared(f)' : u \notin Compared(f)
<1>1. /\ s \in running /\ FileOf[s] \in Files /\ cur[s] \in Keys
      /\ \A u \in Subs \ {s} : run'[u] = run[u] /\ cur'[u] = cur[u]
  BY RunnerFrame, RunnerFacts
<1>2. /\ DOMAIN run = Subs /\ DOMAIN cur = Subs /\ Sum \in Keys
      /\ cur[s] \in Nat /\ Last \in Nat
  BY JudgeAssumption DEF TypeInv, ControlInv, ControlTypes, Keys, Last
<1> DEFINE Past(u) == \/ run[u] \in {"count", "expire"} /\ cur[u] >= Last
                      \/ run[u] = "compare" /\ cur[u] > Last
                      \/ run[u] \in {"rmSrc", "rmExe", "done"}
<1>3. Compared(f) = {u \in SubsOf(f) : Past(u)}
  BY DEF Compared
<1>4. \A u \in Subs \ {s} : Past(u)' <=> Past(u)
  BY <1>1
<1>5. Past(s) => Past(s)'
  BY <1>1, <1>2
     DEF cpp_runner, Compile, Link, BoxInit, CopyIn, BoxRun, CopyOut, Compare, Count,
         ExpireCase, SetCode, ExpireCode, RemoveSource, RemoveExecutable, At, Goto
<1>6. CASE Compare(s) /\ FileOf[s] = f /\ cur[s] = Last
  <2>1. s \in SubsOf(f) /\ ~Past(s) /\ Past(s)'
    BY <1>1, <1>2, <1>6 DEF Compare, At, Goto, SubsOf
  <2> QED
    BY <1>3, <1>4, <1>5, <2>1 DEF Compared, SubsOf
<1>7. CASE ~(Compare(s) /\ FileOf[s] = f /\ cur[s] = Last)
  <2>1. redis'[f][Last] = redis[f][Last]
    <3>1. CASE Compare(s)
      <4>1. \E v : RedisSet(FileOf[s], cur[s], v)
        BY <3>1 DEF Compare
      <4> QED
        BY <1>1, <1>7, <3>1, <4>1, LastKey
    <3>2. CASE ~Compare(s)
      <4>1. \/ RedisExpire(FileOf[s], Sum) \/ RedisExpire(FileOf[s], cur[s])
            \/ RedisIncr(FileOf[s], Sum) \/ (\E v : RedisSet(FileOf[s], Sum, v))
            \/ UNCHANGED redisVars
        BY <3>2
           DEF cpp_runner, Compile, Link, BoxInit, CopyIn, BoxRun, CopyOut, Count, ExpireCase,
               CaseExpires, SetCode, ExpireCode, RemoveSource, RemoveExecutable
      <4> QED
        BY <1>1, <1>2, <4>1, LastKey
    <3> QED
      BY <3>1, <3>2
  <2> QED
    BY <1>3, <1>4, <1>5, <2>1 DEF Compared, SubsOf
<1> QED
  BY <1>6, <1>7

\* A step of a poll adds a row only where one was owed, and then owes it no more.
LEMMA PollPays ==
    ASSUME Lossy = {}, TypeInv, OneUnderWay, NEW q \in Polls, runState(q), NEW f \in Files
    PROVE  \/ RowsOf(f)' = RowsOf(f) /\ (Owed(f)' => Owed(f))
           \/ (\E x : RowsOf(f)' \subseteq RowsOf(f) \cup {x}) /\ Owed(f) /\ ~Owed(f)'
<1>1. \A p \in Polls \ {q} : poll'[p] = poll[p]
  BY PollActs
<1>2. UnderWay(q) => \A p \in Polls \ {q} : poll[p].at \notin {"cases", "insert", "del"}
  BY DEF OneUnderWay, UnderWay
<1>3. CASE poll[q].at = "idle"
  <2>1. poll'[q].at = "cases" /\ UNCHANGED <<redis, results>>
    BY <1>3, PollActs
  <2> QED
    BY <1>1, <1>3, <2>1 DEF RowsOf, Owed
<1>4. CASE poll[q].at = "cases"
  <2>1. /\ poll'[q].at \in {"cases", "insert", "done"} /\ poll'[q].file = poll[q].file
        /\ poll'[q].at = "insert" => redis[poll[q].file][Last] # None
        /\ UNCHANGED <<redis, results>>
    BY <1>4, PollActs
  <2> QED
    BY <1>1, <1>2, <1>4, <2>1 DEF RowsOf, Owed, UnderWay
<1>5. CASE poll[q].at = "insert"
  <2>1. /\ poll'[q].at = "del" /\ poll'[q].file = poll[q].file /\ UNCHANGED redis
    BY <1>5, PollActs
  <2>2. PICK x : x.file = poll[q].file /\ results' \in {results, results \cup {x}}
    BY <1>5, PollActs
  <2>3. CASE poll[q].file = f
    <3>1. Owed(f)
      BY <1>5, <2>3 DEF Owed
    <3>2. ~Owed(f)'
      BY <1>1, <1>2, <1>5, <2>1, <2>3 DEF Owed, UnderWay
    <3>3. RowsOf(f)' \subseteq RowsOf(f) \cup {x}
      BY <2>2 DEF RowsOf
    <3> QED
      BY <3>1, <3>2, <3>3
  <2>4. CASE poll[q].file # f
    <3>1. RowsOf(f)' = RowsOf(f)
      BY <2>2, <2>4 DEF RowsOf
    <3>2. Owed(f)' => Owed(f)
      BY <1>1, <2>1, <2>4 DEF Owed
    <3> QED
      BY <3>1, <3>2
  <2> QED
    BY <2>3, <2>4
<1>6. CASE poll[q].at = "del"
  <2>1. /\ poll'[q].at \in {"del", "done"} /\ poll'[q].file = poll[q].file
        /\ RedisDel(poll[q].file, poll[q].i)
        /\ poll'[q].at = "done" => poll[q].i = Last
        /\ UNCHANGED results
    BY <1>6, PollActs
  <2>2. poll[q].file \in Files /\ poll[q].i \in Keys
    BY <1>6, CasesAreKeys DEF TypeInv, PollInv, UnderWay
  <2>3. redis'[f][Last] \in {redis[f][Last], None}
    BY <2>1, <2>2, LastKey
  <2>4. CASE poll[q].file = f
    <3>1. poll'[q].at = "done" => redis'[f][Last] = None
      BY <2>1, <2>2, <2>4, LastKey
    <3>2. ~Owed(f)'
      BY <1>1, <1>2, <1>6, <2>1, <2>4, <3>1 DEF Owed, UnderWay
    <3> QED
      BY <2>1, <3>2 DEF RowsOf
  <2>5. CASE poll[q].file # f
    BY <1>1, <2>1, <2>3, <2>5 DEF RowsOf, Owed
  <2> QED
    BY <2>4, <2>5
<1> QED
  BY <1>3, <1>4, <1>5, <1>6, PollActs

\* Every step keeps the balance.
LEMMA BalanceStep ==
    ASSUME Lossy = {}, TypeInv, TypeInv', OneUnderWay, FiniteInv, FiniteInv', BalanceInv,
           [Next]_vars
    PROVE  BalanceInv'
<1> SUFFICES ASSUME NEW f \in Files PROVE Balanced(f)'
  BY DEF BalanceInv
<1>1. Balanced(f) /\ Cut \subseteq Cut' /\ Compared(f) \subseteq submitted
  BY CutStays, ComparedHandedOver DEF BalanceInv
<1>2. Compared(f)' \subseteq submitted'
  BY DEF Compared, SubsOf, TypeInv, ControlInv, TaskInv
<1>3. ASSUME UNCHANGED <<run, cur>> PROVE Compared(f)' = Compared(f)
  BY <1>3 DEF Compared, SubsOf
<1>4. ASSUME UNCHANGED <<poll, results>>, redis'[f][Last] \in {redis[f][Last], None}
      PROVE  RowsOf(f)' = RowsOf(f) /\ (Owed(f)' => Owed(f))
  BY <1>4 DEF RowsOf, Owed
<1>5. ASSUME NEW s \in Subs, cpp_runner(s) PROVE Balanced(f)'
  <2>1. UNCHANGED <<poll, results>>
    BY <1>5
       DEF cpp_runner, Compile, Link, BoxInit, CopyIn, BoxRun, CopyOut, Compare, Count,
           ExpireCase, SetCode, ExpireCode, RemoveSource, RemoveExecutable, pollVars
  <2>2. RowsOf(f)' = RowsOf(f)
    BY <2>1 DEF RowsOf
  <2> QED
    BY <1>1, <1>2, <1>4, <1>5, <2>1, <2>2, RunnerCompares, BalanceKept
<1>6. ASSUME NEW s \in Subs, Request(s) PROVE Balanced(f)'
  <2>1. UNCHANGED <<poll, results, run, cur>>
    BY <1>6 DEF Request, Receive, SetSum, ExpireSum, TaskPush, pollVars, runnerVars
  <2>2. FileOf[s] \in Files /\ Sum \in Keys
    BY JudgeAssumption DEF Keys
  <2>3. \/ RedisSet(FileOf[s], Sum, 0) \/ RedisExpire(FileOf[s], Sum)
        \/ UNCHANGED redisVars
    BY <1>6 DEF Request, Receive, SetSum, ResetSum, ExpireSum, TaskPush
  <2>4. redis'[f][Last] = redis[f][Last]
    BY <2>2, <2>3, LastKey
  <2> QED
    BY <1>1, <1>2, <1>3, <1>4, <2>1, <2>4, BalanceKept
<1>7. ASSUME NEW q \in Polls, runState(q) PROVE Balanced(f)'
  <2>1. UNCHANGED <<run, cur>>
    BY <1>7, PollActs
  <2> QED
    BY <1>1, <1>2, <1>3, <1>7, <2>1, PollPays, BalanceKept
<1>8. ASSUME NEW g \in Files, NEW k \in Keys, KeyExpires(g, k) PROVE Balanced(f)'
  <2>1. UNCHANGED <<poll, results, run, cur>> /\ Gone(g, k)
    BY <1>8 DEF KeyExpires, pollVars, runnerVars
  <2>2. redis'[f][Last] \in {redis[f][Last], None}
    BY <2>1, LastKey
  <2> QED
    BY <1>1, <1>2, <1>3, <1>4, <2>1, <2>2, BalanceKept
<1>9. CASE Start \/ UNCHANGED vars \/ \E g \in Files : ChangeCases(g)
  <2>1. UNCHANGED <<poll, results, run, cur, redis>>
    BY <1>9 DEF Start, vars, ChangeCases, pollVars, runnerVars, redisVars
  <2> QED
    BY <1>1, <1>2, <1>3, <1>4, <2>1, BalanceKept
<1>10. CASE Restart
  <2>1. UNCHANGED <<results, run, cur, redis>>
    BY <1>10 DEF Restart, redisVars
  <2>2. RowsOf(f)' = RowsOf(f)
    BY <2>1 DEF RowsOf
  <2>3. CASE \E p \in Polls : UnderWay(p)
    <3>1. \E p \in Cut' : p \notin Cut
      BY <1>10, <2>3, RestartCuts DEF Cut, UnderWay
    <3> QED
      BY <1>1, <1>2, <1>3, <2>1, <2>2, <3>1, BalanceKept
  <2>4. CASE ~\E p \in Polls : UnderWay(p)
    <3>1. \A p \in Polls : poll'[p] = poll[p]
      BY <1>10, <2>4, RestartCuts
    <3>2. Owed(f)' => Owed(f)
      BY <2>1, <3>1 DEF Owed
    <3> QED
      BY <1>1, <1>2, <1>3, <2>1, <2>2, <3>2, BalanceKept
  <2> QED
    BY <2>3, <2>4
<1> QED
  BY <1>5, <1>6, <1>7, <1>8, <1>9, <1>10 DEF Next

\* Polls that do not overlap record no verdict twice, when no query fails, whatever the
\* submissions, the keys that expire and the restarts: each row is paid for by a
\* submission that was compared to the end, or by a poll that a restart has cut short.
THEOREM RecordedOnceHolds ==
    ASSUME OnePage, Lossy = {}
    PROVE  Spec => []RecordedOnce
<1> DEFINE Inv == OneUnderWay /\ FiniteInv /\ BalanceInv
<1>1. Init => Inv
  <2> SUFFICES ASSUME Init PROVE Inv
    OBVIOUS
  <2>1. submitted = {} /\ results = {} /\ \A p \in Polls : poll[p].at = "idle"
    BY DEF Init, TQ!Init, NoPoll
  <2>2. Cut = {} /\ OneUnderWay
    BY <2>1 DEF Cut, OneUnderWay, UnderWay
  <2>3. FiniteInv
    BY <2>1, <2>2, FS_EmptySet DEF FiniteInv
  <2>4. ASSUME NEW f \in Files PROVE Balanced(f)
    <3>1. RowsOf(f) = {}
      BY <2>1 DEF RowsOf
    <3>2. Compared(f) = {}
      BY DEF Init, Compared, SubsOf
    <3>3. Debt(f) = 0
      <4>1. Last \in Keys
        BY JudgeAssumption, CasesAreKeys DEF Last, Cases
      <4>2. redis[f][Last] = None
        BY <4>1 DEF Init
      <4> QED
        BY <2>1, <4>2 DEF Debt, Owed
    <3> QED
      BY <2>2, <3>1, <3>2, <3>3, FS_EmptySet DEF Balanced
  <2> QED
    BY <2>2, <2>3, <2>4 DEF BalanceInv
<1>2. TypeInv /\ TypeInv' /\ Inv /\ [Next]_vars => Inv'
  BY OneStep, FiniteStep, BalanceStep
<1>3. TypeInv /\ Inv => RecordedOnce
  <2> SUFFICES ASSUME TypeInv, Inv, NEW f \in Files
               PROVE  Cardinality(RowsOf(f))
                        <= Cardinality(SubsOf(f) \cap submitted) + Cardinality(Cut)
    BY DEF RecordedOnce, RowsOf, Cut
  <2>1. /\ Cardinality(RowsOf(f)) \in Nat
        /\ Cardinality(Cut) \in Nat
    <3>1. RowsOf(f) \subseteq results
      BY DEF RowsOf
    <3> QED
      BY <3>1, Counted DEF FiniteInv
  <2>2. /\ Cardinality(Compared(f)) \in Nat /\ Cardinality(SubsOf(f) \cap submitted) \in Nat
        /\ Cardinality(Compared(f)) <= Cardinality(SubsOf(f) \cap submitted)
    <3>1. IsFiniteSet(SubsOf(f) \cap submitted)
      <4>1. SubsOf(f) \cap submitted \subseteq submitted
        OBVIOUS
      <4> QED
        BY <4>1, Counted DEF FiniteInv
    <3> QED
      BY <3>1, ComparedHandedOver, Counted
  <2>3. Cardinality(RowsOf(f)) + Debt(f) <= Cardinality(Compared(f)) + Cardinality(Cut)
    BY DEF BalanceInv, Balanced
  <2>4. Debt(f) \in {0, 1}
    BY DEF Debt
  <2> QED
    BY <2>1, <2>2, <2>3, <2>4
<1> HIDE DEF Inv
<1> QED
  BY <1>1, <1>2, <1>3, TypeInvHolds, PTL DEF Spec
=============================================================================
