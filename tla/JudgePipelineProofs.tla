------------------------- MODULE JudgePipelineProofs -------------------------
(***************************************************************************)
(* What TLAPS proves of JudgePipeline for any submissions, files, polls    *)
(* and test cases: the types, the invariant of the pool and the requests   *)
(* that the other proofs rest on, the sandbox's mutual exclusion, and that *)
(* the results of the cases expire.                                        *)
(***************************************************************************)
EXTENDS JudgePipeline, SequenceTheorems, TLAPS

-----------------------------------------------------------------------------
(* Control: where the requests, the tasks and the runners are.               *)

ReqStates == {"unsent", "setSum", "expireSum", "select", "accepted", "refused", "lost"}

ControlTypes ==
    /\ submitted \subseteq Subs
    /\ pending \in Seq(Subs)
    /\ cases \in [Files -> Seq(Tests)]
    /\ \A f \in Files : Len(cases[f]) <= MaxRows
    /\ req \in [Subs -> ReqStates]
    /\ run \in [Subs -> RunnerStates]
    /\ total \in [Subs -> 0..MaxRows]
    /\ tests \in [Subs -> Seq(Tests)]
    /\ \A s \in Subs : total[s] = Len(tests[s])
    /\ cur \in [Subs -> Nat]

\* A task that waits in the queue has not begun; it is there once.
QueueInv ==
    /\ \A n \in 1..Len(pending) :
          /\ pending[n] \in submitted \ (running \cup finished)
          /\ req[pending[n]] = "accepted"
          /\ run[pending[n]] = "compile" /\ cur[pending[n]] = 0
    /\ \A m, n \in 1..Len(pending) : pending[m] = pending[n] => m = n

\* What was handed over has test cases and is accepted, or lost in a restart; what
\* runs or has ended was handed over; what was not handed over has no runner.
TaskInv ==
    /\ \A s \in submitted : cur[s] < total[s] /\ req[s] \in {"accepted", "lost"}
    /\ \A s \in Subs \ submitted :
          req[s] # "accepted" /\ run[s] = "compile" /\ cur[s] = 0
    /\ \A s \in running : s \in submitted \ finished /\ req[s] = "accepted"
    /\ \A s \in finished : s \in submitted /\ req[s] = "accepted"

ControlInv == ControlTypes /\ QueueInv /\ TaskInv

controlVars == <<submitted, pending, running, finished, cases, req, run, total, tests,
                 cur>>

\* At the start nothing has been sent.
LEMMA ControlInit == Init => ControlInv
<1> SUFFICES ASSUME Init PROVE ControlInv
  OBVIOUS
<1>1. QueueInv /\ TaskInv
  BY DEF Init, TQ!Init, QueueInv, TaskInv
<1>2. cases \in [Files -> Seq(Tests)] /\ \A f \in Files : Len(cases[f]) <= MaxRows
  <2> DEFINE rows == [n \in 1..NumCases |-> n - 1]
  <2>1. NumCases \in Nat /\ MaxRows \in Nat /\ NumCases <= MaxRows
        /\ \A n \in 1..NumCases : n - 1 \in Tests
    BY JudgeAssumption DEF Cases
  <2>2. rows \in Seq(Tests) /\ Len(rows) = NumCases
    BY <2>1
  <2>3. cases = [f \in Files |-> rows]
    BY DEF Init
  <2> HIDE DEF rows
  <2> QED
    BY <2>1, <2>2, <2>3
<1>3. tests \in [Subs -> Seq(Tests)] /\ total \in [Subs -> 0..MaxRows]
      /\ \A s \in Subs : total[s] = Len(tests[s])
  BY JudgeAssumption DEF Init
<1>4. /\ submitted \subseteq Subs /\ pending \in Seq(Subs) /\ cur \in [Subs -> Nat]
      /\ req \in [Subs -> ReqStates] /\ run \in [Subs -> RunnerStates]
  BY DEF Init, TQ!Init, ReqStates, RunnerStates
<1> QED
  BY <1>1, <1>2, <1>3, <1>4 DEF ControlInv, ControlTypes

\* The steps of a request.
LEMMA RequestControl ==
    ASSUME ControlInv, NEW s \in Subs, Request(s)
    PROVE  ControlInv'
<1> USE JudgeAssumption DEF ControlInv, ControlTypes, ReqStates
<1>1. CASE Receive(s) \/ SetSum(s) \/ ExpireSum(s)
  <2>1. PICK r \in {"setSum", "expireSum", "select"} : req' = [req EXCEPT ![s] = r]
    BY <1>1 DEF Receive, SetSum, ExpireSum
  <2>2. req[s] \notin {"accepted", "lost"}
    BY <1>1 DEF Receive, SetSum, ExpireSum
  <2>3. UNCHANGED <<submitted, pending, running, finished, cases, run, total, tests, cur>>
    BY <1>1 DEF Receive, SetSum, ExpireSum, poolVars, runnerVars
  <2> QED
    BY <2>1, <2>2, <2>3 DEF QueueInv, TaskInv
<1>2. CASE TaskPush(s)
  <2>1. CASE req' = [req EXCEPT ![s] = "refused"] /\ UNCHANGED <<poolVars, total, tests>>
    <3>1. UNCHANGED <<submitted, pending, running, finished, cases, run, total, tests, cur>>
          /\ req[s] = "select"
      BY <1>2, <2>1 DEF TaskPush, poolVars
    <3>2. ControlTypes' /\ TaskInv'
      BY <2>1, <3>1 DEF TaskInv
    <3>3. QueueInv'
      BY <2>1, <3>1 DEF QueueInv
    <3> QED
      BY <3>2, <3>3
  <2>2. CASE /\ cases[FileOf[s]] # <<>>
             /\ TQ!Submit(s)
             /\ total' = [total EXCEPT ![s] = Len(cases[FileOf[s]])]
             /\ tests' = [tests EXCEPT ![s] = cases[FileOf[s]]]
             /\ req' = [req EXCEPT ![s] = "accepted"]
    <3>1. UNCHANGED <<cases, run, cur, running, finished>> /\ s \notin submitted
          /\ submitted' = submitted \cup {s} /\ pending' = Append(pending, s)
      BY <1>2, <2>2 DEF TaskPush, TQ!Submit
    <3>2. s \notin running \cup finished /\ run[s] = "compile" /\ cur[s] = 0
      BY <3>1 DEF TaskInv
    <3>0. cases[FileOf[s]] \in Seq(Tests) /\ Len(cases[FileOf[s]]) \in 1..MaxRows
      <4>1. cases[FileOf[s]] \in Seq(Tests) /\ Len(cases[FileOf[s]]) <= MaxRows
        OBVIOUS
      <4>2. Len(cases[FileOf[s]]) \in Nat /\ Len(cases[FileOf[s]]) # 0
        BY <2>2, <4>1
      <4> QED
        BY <4>1, <4>2
    <3>3. ControlTypes'
      <4>1. total'[s] = Len(tests'[s]) /\ \A u \in Subs \ {s} : total'[u] = total[u] /\ tests'[u] = tests[u]
        BY <2>2
      <4>2. total' \in [Subs -> 0..MaxRows] /\ tests' \in [Subs -> Seq(Tests)]
        BY <2>2, <3>0
      <4> QED
        BY <2>2, <3>1, <4>1, <4>2
    <3>4. QueueInv'
      <4>1. /\ Len(pending') = Len(pending) + 1
            /\ \A n \in 1..Len(pending) : pending'[n] = pending[n]
            /\ pending'[Len(pending) + 1] = s
        BY <3>1
      <4>2. \A n \in 1..Len(pending) : pending[n] # s
        <5>1. \A n \in 1..Len(pending) : pending[n] \in submitted
          BY DEF QueueInv
        <5> QED
          BY <3>1, <5>1
      <4>3. req'[s] = "accepted" /\ \A u \in Subs \ {s} : req'[u] = req[u]
        BY <2>2
      <4>5. Len(pending) \in Nat /\ \A n \in 1..Len(pending) : pending[n] \in Subs
        OBVIOUS
      <4> HIDE DEF ControlInv, ControlTypes
      <4>4. \A n \in 1..Len(pending') : n = Len(pending) + 1 \/ n \in 1..Len(pending)
        BY <4>1, <4>5
      <4>6. ASSUME NEW n \in 1..Len(pending')
            PROVE  /\ pending'[n] \in submitted' \ (running \cup finished)
                   /\ req'[pending'[n]] = "accepted"
                   /\ run[pending'[n]] = "compile" /\ cur[pending'[n]] = 0
        BY <3>1, <3>2, <4>1, <4>2, <4>3, <4>4, <4>5 DEF QueueInv, ControlInv
      <4>7. ASSUME NEW m \in 1..Len(pending'), NEW n \in 1..Len(pending'),
                   pending'[m] = pending'[n]
            PROVE  m = n
        <5>1. \A i, j \in 1..Len(pending) : pending[i] = pending[j] => i = j
          BY DEF QueueInv, ControlInv
        <5>2. CASE m \in 1..Len(pending) /\ n \in 1..Len(pending)
          BY <4>1, <4>7, <5>1, <5>2
        <5>3. CASE m = Len(pending) + 1 /\ n \in 1..Len(pending)
          BY <4>1, <4>2, <4>7, <5>3
        <5>4. CASE n = Len(pending) + 1 /\ m \in 1..Len(pending)
          BY <4>1, <4>2, <4>7, <5>4
        <5> QED
          BY <4>4, <5>2, <5>3, <5>4
      <4> QED
        BY <3>1, <4>6, <4>7 DEF QueueInv
    <3>5. TaskInv'
      <4>1. total'[s] > 0 /\ \A u \in Subs \ {s} : total'[u] = total[u]
        BY <2>2, <3>0
      <4> QED
        BY <2>2, <3>1, <3>2, <4>1 DEF TaskInv
    <3> QED
      BY <3>3, <3>4, <3>5
  <2> QED
    BY <1>2, <2>1, <2>2 DEF TaskPush
<1> QED
  BY <1>1, <1>2 DEF Request

\* A thread takes the first task of the queue.
LEMMA StartControl ==
    ASSUME ControlInv, Start
    PROVE  ControlInv'
<1> USE DEF ControlInv, ControlTypes
<1>1. /\ Len(pending) > 0
      /\ running' = running \cup {pending[1]}
      /\ pending' = Tail(pending)
      /\ UNCHANGED <<submitted, finished, cases, req, run, total, tests, cur>>
  BY DEF Start, TQ!Start, runnerVars
<1>2. QueueInv'
  <2>1. Len(pending') = Len(pending) - 1 /\ \A n \in 1..Len(pending') : pending'[n] = pending[n + 1]
    BY <1>1
  <2>2. \A n \in 1..Len(pending') : n + 1 \in 1..Len(pending) /\ pending[n + 1] # pending[1]
    BY <1>1, <2>1 DEF QueueInv
  <2> HIDE DEF ControlInv, ControlTypes
  <2>3. ASSUME NEW n \in 1..Len(pending')
        PROVE  /\ pending'[n] \in submitted \ (running' \cup finished)
               /\ req[pending'[n]] = "accepted"
               /\ run[pending'[n]] = "compile" /\ cur[pending'[n]] = 0
    BY <1>1, <2>1, <2>2 DEF QueueInv, ControlInv
  <2>4. ASSUME NEW m \in 1..Len(pending'), NEW n \in 1..Len(pending'),
               pending'[m] = pending'[n]
        PROVE  m = n
    <3>1. m + 1 = n + 1
      BY <2>1, <2>2, <2>4 DEF QueueInv, ControlInv
    <3> QED
      BY <3>1
  <2> QED
    BY <1>1, <2>3, <2>4 DEF QueueInv
<1>3. TaskInv'
  BY <1>1 DEF TaskInv, QueueInv
<1> QED
  BY <1>1, <1>2, <1>3

\* The loops over the test cases stay below the number of them.
LEMMA RunnerMoves ==
    ASSUME ControlInv, NEW s \in running, NEW pc \in RunnerStates, NEW c \in Nat, c < total[s],
           run' = [run EXCEPT ![s] = pc], cur' = [cur EXCEPT ![s] = c],
           UNCHANGED <<submitted, pending, cases, req, total, tests>>,
           \/ UNCHANGED <<running, finished>>
           \/ running' = running \ {s} /\ finished' = finished \cup {s}
    PROVE  ControlInv'
<1>1. s \in submitted /\ s \in Subs /\ req[s] = "accepted"
  BY DEF ControlInv, ControlTypes, TaskInv
<1>2. \A u \in Subs \ {s} : run'[u] = run[u] /\ cur'[u] = cur[u]
  BY DEF ControlInv, ControlTypes
<1>3. ControlTypes' /\ cur'[s] = c
  BY <1>1 DEF ControlInv, ControlTypes
<1>4. TaskInv'
  BY <1>1, <1>2, <1>3 DEF ControlInv, ControlTypes, TaskInv
<1>5. \A n \in 1..Len(pending) : pending[n] # s /\ pending[n] \in Subs
  BY DEF ControlInv, ControlTypes, QueueInv
<1>6. QueueInv'
  BY <1>2, <1>5 DEF ControlInv, QueueInv
<1> QED
  BY <1>3, <1>4, <1>6 DEF ControlInv

\* Each step of a runner moves the runner alone.
LEMMA RunnerStep ==
    ASSUME ControlInv, NEW s \in Subs, cpp_runner(s)
    PROVE  /\ s \in running
           /\ UNCHANGED <<submitted, pending, cases, req, total, tests>>
           /\ \E pc \in RunnerStates : run' = [run EXCEPT ![s] = pc]
           /\ \E c \in Nat : c < total[s] /\ cur' = [cur EXCEPT ![s] = c]
           /\ \/ UNCHANGED <<running, finished>>
              \/ running' = running \ {s} /\ finished' = finished \cup {s}
<1> USE DEF Goto, At, poolVars, TQ!Finish
<1>1. s \in running
  BY DEF cpp_runner, Compile, Link, BoxInit, CopyIn, BoxRun, CopyOut, Compare, Count,
         ExpireCase, SetCode, ExpireCode, RemoveSource, RemoveExecutable
<1>2. UNCHANGED <<submitted, pending, cases, req, total, tests>>
  BY DEF cpp_runner, Compile, Link, BoxInit, CopyIn, BoxRun, CopyOut, Compare, Count,
         ExpireCase, SetCode, ExpireCode, RemoveSource, RemoveExecutable
<1>3. \E pc \in RunnerStates : run' = [run EXCEPT ![s] = pc]
  BY DEF cpp_runner, Compile, Link, BoxInit, CopyIn, BoxRun, CopyOut, Compare, Count,
         ExpireCase, SetCode, ExpireCode, RemoveSource, RemoveExecutable, RunnerStates
<1>4. \/ UNCHANGED <<running, finished>>
      \/ running' = running \ {s} /\ finished' = finished \cup {s}
  BY DEF cpp_runner, Compile, Link, BoxInit, CopyIn, BoxRun, CopyOut, Compare, Count,
         ExpireCase, SetCode, ExpireCode, RemoveSource, RemoveExecutable
<1>5. cur[s] \in Nat /\ total[s] \in Nat /\ cur[s] < total[s] /\ cur = [cur EXCEPT ![s] = cur[s]]
  BY <1>1, JudgeAssumption DEF ControlInv, ControlTypes, TaskInv
<1>6. \/ UNCHANGED cur \/ cur' = [cur EXCEPT ![s] = 0]
      \/ cur[s] + 1 # total[s] /\ cur' = [cur EXCEPT ![s] = cur[s] + 1]
  BY DEF cpp_runner, Compile, Link, BoxInit, CopyIn, BoxRun, CopyOut, Compare, Count,
         ExpireCase, SetCode, ExpireCode, RemoveSource, RemoveExecutable, LastCase
<1>7. \E c \in Nat : c < total[s] /\ cur' = [cur EXCEPT ![s] = c]
  BY <1>5, <1>6
<1> QED
  BY <1>1, <1>2, <1>3, <1>4, <1>7

\* A restart empties the pool; what it had not finished is lost.
LEMMA RestartControl ==
    ASSUME ControlInv, Restart
    PROVE  ControlInv'
<1>1. /\ req' = [s \in Subs |-> IF Ended(s) THEN req[s] ELSE "lost"]
      /\ pending' = <<>> /\ running' = {}
      /\ UNCHANGED <<submitted, finished, cases, run, total, tests, cur>>
  BY DEF Restart
<1>2. \A s \in finished : req'[s] = "accepted"
  BY <1>1 DEF ControlInv, ControlTypes, TaskInv, Ended
<1>3. \A s \in Subs : req'[s] \in {req[s], "lost"}
  BY <1>1
<1>4. ControlTypes'
  BY <1>1, <1>3 DEF ControlInv, ControlTypes, ReqStates
<1>5. QueueInv'
  BY <1>1 DEF QueueInv
<1>6. TaskInv'
  BY <1>1, <1>2, <1>3 DEF ControlInv, ControlTypes, TaskInv
<1> QED
  BY <1>4, <1>5, <1>6 DEF ControlInv

\* The polls, the expiry of keys and the end of a behaviour are no concern of the pool.
LEMMA OthersControl ==
    ASSUME ControlInv, UNCHANGED controlVars
    PROVE  ControlInv'
  BY DEF controlVars, ControlInv, ControlTypes, QueueInv, TaskInv

\* The rows of a problem's test cases stay within their bound.
LEMMA CasesControl ==
    ASSUME ControlInv, NEW f \in Files, ChangeCases(f)
    PROVE  ControlInv'
<1>1. UNCHANGED <<submitted, pending, running, finished, req, run, total, tests, cur>>
  BY DEF ChangeCases, poolVars, runnerVars
<1>2. cases' \in [Files -> Seq(Tests)] /\ \A g \in Files : Len(cases'[g]) <= MaxRows
  <2>1. cases \in [Files -> Seq(Tests)] /\ \A g \in Files : Len(cases[g]) <= MaxRows
    BY DEF ControlInv, ControlTypes
  <2>2. PICK r : (r = <<>> \/ r \in Rows) /\ cases' = [cases EXCEPT ![f] = r]
    BY DEF ChangeCases
  <2>3. r \in Seq(Tests) /\ Len(r) <= MaxRows
    <3>1. CASE r = <<>>
      BY <3>1, JudgeAssumption
    <3>2. CASE r \in Rows
      BY <3>2, JudgeAssumption
    <3> QED
      BY <2>2, <3>1, <3>2
  <2> QED
    BY <2>1, <2>2, <2>3
<1> QED
  BY <1>1, <1>2 DEF ControlInv, ControlTypes, QueueInv, TaskInv

\* The invariant of the pool and the requests holds in every state.
LEMMA ControlInvHolds == Spec => []ControlInv
<1>1. ControlInv /\ [Next]_vars => ControlInv'
  <2> SUFFICES ASSUME ControlInv, [Next]_vars PROVE ControlInv'
    OBVIOUS
  <2>1. ASSUME NEW s \in Subs, cpp_runner(s) PROVE ControlInv'
    BY <2>1, RunnerStep, RunnerMoves
  <2>2. ASSUME NEW p \in Polls, runState(p) PROVE ControlInv'
    BY <2>2, OthersControl
       DEF runState, PollSum, PollCase, PollInsert, PollDel, controlVars, poolVars, runnerVars
  <2>3. ASSUME NEW f \in Files, NEW k \in Keys, KeyExpires(f, k) PROVE ControlInv'
    BY <2>3, OthersControl DEF KeyExpires, controlVars, poolVars, runnerVars
  <2>4. CASE UNCHANGED vars
    BY <2>4, OthersControl DEF vars, controlVars, poolVars, runnerVars
  <2> QED
    BY <2>1, <2>2, <2>3, <2>4, RequestControl, StartControl, RestartControl, CasesControl
       DEF Next
<1> QED
  BY <1>1, ControlInit, PTL DEF Spec

-----------------------------------------------------------------------------
(* Data: the files, the keys in Redis, the sandbox and the polls.            *)

\* A file begins with a whole text.
StartsWithText(t) ==
    t # <<>> => /\ Len(t) >= Size[t[1]]
                /\ \A n \in 1..Size[t[1]] : t[n] = t[1]

SourceInv == src \in [Files -> Seq(Subs)] /\ \A f \in Files : StartsWithText(src[f])

\* A text written over another one: the new one, and what the old one has beyond it.
LEMMA OverwriteIs ==
    ASSUME NEW old \in Seq(Subs), NEW s \in Subs
    PROVE  /\ Overwrite(old, Text(s)) \in Seq(Subs)
           /\ Len(Overwrite(old, Text(s))) = IF Len(old) > Size[s] THEN Len(old) ELSE Size[s]
           /\ \A n \in 1..Size[s] : Overwrite(old, Text(s))[n] = s
<1>1. Size[s] \in Nat \ {0}
  BY JudgeAssumption
<1>2. Text(s) \in Seq(Subs) /\ Len(Text(s)) = Size[s] /\ \A n \in 1..Size[s] : Text(s)[n] = s
  BY <1>1 DEF Text
<1> DEFINE rest == SubSeq(old, Size[s] + 1, Len(old))
<1>3. rest \in Seq(Subs)
      /\ Len(rest) = IF Len(old) > Size[s] THEN Len(old) - Size[s] ELSE 0
  BY <1>1
<1>4. Overwrite(old, Text(s)) = Text(s) \o rest
  BY <1>2 DEF Overwrite
<1> DEFINE text == Text(s)
<1> HIDE DEF rest, text
<1>5. text \in Seq(Subs) /\ Len(text) = Size[s] /\ \A n \in 1..Size[s] : text[n] = s
  BY <1>2 DEF text
<1>6. PICK whole : whole = text \o rest
  OBVIOUS
<1>7. /\ whole \in Seq(Subs)
      /\ Len(whole) = Len(text) + Len(rest)
      /\ \A n \in 1..(Len(text) + Len(rest)) :
            whole[n] = IF n <= Len(text) THEN text[n] ELSE rest[n - Len(text)]
  BY <1>3, <1>5, <1>6, ConcatProperties, Zenon
<1>8. Len(old) \in Nat /\ Len(rest) \in Nat
  BY <1>3
<1>9. ASSUME NEW n \in 1..Size[s] PROVE whole[n] = s
  <2>1. n \in 1..(Len(text) + Len(rest)) /\ n <= Len(text)
    BY <1>1, <1>5, <1>8
  <2>2. whole[n] = text[n]
    BY <1>7, <2>1, Zenon
  <2> QED
    BY <1>5, <2>2
<1>10. Overwrite(old, Text(s)) = whole
  BY <1>4, <1>6 DEF text
<1> QED
  BY <1>1, <1>3, <1>5, <1>7, <1>8, <1>9, <1>10

\* What is written over a file begins with the text that was written.
LEMMA OverwriteStarts ==
    ASSUME NEW old \in Seq(Subs), NEW s \in Subs
    PROVE  /\ Overwrite(old, Text(s)) \in Seq(Subs)
           /\ Overwrite(old, Text(s)) # <<>> /\ Overwrite(old, Text(s))[1] = s
           /\ StartsWithText(Overwrite(old, Text(s)))
<1> DEFINE new == Overwrite(old, Text(s))
<1>1. Size[s] \in Nat \ {0}
  BY JudgeAssumption
<1>2. /\ new \in Seq(Subs)
      /\ Len(new) = IF Len(old) > Size[s] THEN Len(old) ELSE Size[s]
      /\ \A n \in 1..Size[s] : new[n] = s
  BY OverwriteIs
<1> HIDE DEF new
<1>3. new # <<>> /\ new[1] = s /\ Len(new) >= Size[s]
  BY <1>1, <1>2
<1>4. StartsWithText(new)
  BY <1>2, <1>3 DEF StartsWithText
<1> QED
  BY <1>2, <1>3, <1>4 DEF new

\* Only a request writes a source file, and only a runner removes one.
LEMMA SourceStep ==
    ASSUME SourceInv, [Next]_vars
    PROVE  SourceInv'
<1>1. ASSUME UNCHANGED src PROVE SourceInv'
  BY <1>1 DEF SourceInv, StartsWithText
<1>2. ASSUME NEW s \in Subs, Request(s) PROVE SourceInv'
  <2>1. CASE Receive(s)
    <3>1. FileOf[s] \in Files /\ src[FileOf[s]] \in Seq(Subs)
      BY JudgeAssumption DEF SourceInv
    <3>2. src' = [src EXCEPT ![FileOf[s]] = Overwrite(src[FileOf[s]], Text(s))]
      BY <2>1 DEF Receive
    <3> QED
      BY <3>1, <3>2, OverwriteStarts DEF SourceInv
  <2>2. CASE SetSum(s) \/ ExpireSum(s) \/ TaskPush(s)
    BY <1>1, <2>2 DEF SetSum, ExpireSum, TaskPush, fileVars
  <2> QED
    BY <1>2, <2>1, <2>2 DEF Request
<1>3. ASSUME NEW s \in Subs, cpp_runner(s) PROVE SourceInv'
  <2>1. CASE RemoveSource(s)
    <3>1. src' = [src EXCEPT ![FileOf[s]] = <<>>]
      BY <2>1 DEF RemoveSource, Removed
    <3>2. StartsWithText(<<>>) /\ <<>> \in Seq(Subs)
      BY DEF StartsWithText
    <3> QED
      BY <3>1, <3>2 DEF SourceInv
  <2>2. CASE ~RemoveSource(s)
    BY <1>1, <1>3, <2>2
       DEF cpp_runner, Compile, Link, BoxInit, CopyIn, BoxRun, CopyOut, Compare, Count,
           ExpireCase, SetCode, ExpireCode, RemoveExecutable, fileVars
  <2> QED
    BY <2>1, <2>2
<1>4. ASSUME NEW p \in Polls, runState(p) PROVE SourceInv'
  BY <1>1, <1>4 DEF runState, PollSum, PollCase, PollInsert, PollDel, fileVars
<1>5. ASSUME NEW f \in Files, ChangeCases(f) \/ \E k \in Keys : KeyExpires(f, k)
      PROVE  SourceInv'
  BY <1>1, <1>5 DEF ChangeCases, KeyExpires, fileVars
<1>6. CASE Start \/ Restart \/ UNCHANGED vars
  BY <1>1, <1>6 DEF Start, Restart, vars, fileVars
<1> QED
  BY <1>2, <1>3, <1>4, <1>5, <1>6 DEF Next

Boxes == [exe : Subs \cup {None}, case : Tests \cup {None}, output : Outputs]

\* The files, the runners' own variables and the sandbox.
FileTypes ==
    /\ built \in [Subs -> Subs \cup {None}]
    /\ exe \in [Files -> Subs \cup {None}]
    /\ out \in [Files -> [Indices -> Outputs]]
    /\ hasty \subseteq Subs
    /\ failed \in [Subs -> BOOLEAN]
    /\ lock \in Subs \cup {None}
    /\ box \in Boxes

\* The compiler builds a submission or nothing.
LEMMA BuildsTypes ==
    ASSUME NEW t \in Seq(Subs)
    PROVE  Builds(t) \subseteq Subs \cup {None}
<1>1. CASE t = <<>>
  BY <1>1 DEF Builds
<1>2. CASE t # <<>>
  <2>1. t[1] \in Subs
    BY <1>2
  <2> QED
    BY <1>2, <2>1 DEF Builds
<1> QED
  BY <1>1, <1>2

\* Each step of a runner keeps the types of the files and of the sandbox.
LEMMA RunnerFiles ==
    ASSUME ControlInv, SourceInv, FileTypes, NEW s \in Subs, cpp_runner(s)
    PROVE  FileTypes'
<1>1. FileOf[s] \in Files /\ cur[s] \in Indices /\ TestOf(s) \in Tests
  <2>1. s \in running
    BY RunnerStep
  <2>2. cur[s] \in Nat /\ cur[s] < total[s] /\ total[s] <= MaxRows /\ total[s] = Len(tests[s])
        /\ tests[s] \in Seq(Tests)
    BY <2>1, JudgeAssumption DEF ControlInv, ControlTypes, TaskInv
  <2>3. cur[s] + 1 \in 1..Len(tests[s])
    BY <2>2
  <2>4. TestOf(s) \in Tests
    BY <2>2, <2>3 DEF TestOf
  <2> QED
    BY <2>2, <2>4, JudgeAssumption DEF Indices
<1>2. CASE Compile(s)
  BY <1>1, <1>2, BuildsTypes DEF Compile, FileTypes, SourceInv, fileVars, sandboxVars
<1>3. CASE Link(s)
  BY <1>1, <1>3 DEF Link, FileTypes, sandboxVars
<1>c. ASSUME CommandFails(s) PROVE failed' \in [Subs -> BOOLEAN]
  BY <1>c DEF CommandFails, FileTypes
<1>e. EmptyBox \in Boxes
  BY DEF EmptyBox, NoOutput, Outputs, Boxes
<1>4. CASE BoxInit(s)
  <2>1. box' \in Boxes /\ failed' \in [Subs -> BOOLEAN]
    BY <1>4, <1>c, <1>e DEF BoxInit, FileTypes
  <2> QED
    BY <1>4, <2>1 DEF BoxInit, FileTypes, fileVars
<1>5. CASE CopyIn(s)
  <2>1. CASE /\ box' = [exe |-> exe[FileOf[s]], case |-> TestOf(s), output |-> box.output]
             /\ failed' = [failed EXCEPT ![s] = failed[s] \/ exe[FileOf[s]] = None]
    <3>1. exe[FileOf[s]] \in Subs \cup {None} /\ box.output \in Outputs
      BY <1>1 DEF FileTypes, Boxes
    <3>2. box' \in Boxes
      BY <1>1, <2>1, <3>1 DEF Boxes
    <3>3. failed' \in [Subs -> BOOLEAN]
      BY <2>1 DEF FileTypes
    <3> QED
      BY <1>5, <3>2, <3>3 DEF CopyIn, FileTypes, fileVars
  <2>2. CASE CommandFails(s) /\ UNCHANGED box
    BY <1>5, <1>c, <2>2 DEF CopyIn, FileTypes, fileVars
  <2> QED
    BY <1>5, <2>1, <2>2 DEF CopyIn
<1>6. CASE BoxRun(s)
  <2>1. CASE /\ box' = [box EXCEPT !.output = <<box.case, Outcome>>]
             /\ failed' = [failed EXCEPT ![s] = failed[s] \/ Outcome = "crash"]
    <3>1. Outcome \in {"right", "wrong", "crash"}
      <4>1. \A u \in Subs, c \in Tests : Program[u].case[c] \in {"right", "wrong", "crash"}
        BY JudgeAssumption
      <4>2. box.exe \in Subs \cup {None} /\ box.case \in Tests \cup {None}
        BY DEF FileTypes, Boxes
      <4> QED
        BY <4>1, <4>2 DEF Outcome
    <3>2. <<box.case, Outcome>> \in Outputs
      BY <3>1 DEF Outputs, FileTypes, Boxes
    <3>3. box' \in Boxes
      BY <2>1, <3>2 DEF FileTypes, Boxes
    <3>4. failed' \in [Subs -> BOOLEAN]
      BY <2>1 DEF FileTypes
    <3> QED
      BY <1>6, <3>3, <3>4 DEF BoxRun, FileTypes, fileVars
  <2>2. CASE CommandFails(s) /\ UNCHANGED box
    BY <1>6, <1>c, <2>2 DEF BoxRun, FileTypes, fileVars
  <2> QED
    BY <1>6, <2>1, <2>2 DEF BoxRun
<1>7. CASE CopyOut(s)
  <2>1. UNCHANGED <<built, exe, hasty>> /\ lock' = None
    BY <1>7 DEF CopyOut, Unlock
  <2>2. CASE /\ out' = [out EXCEPT ![FileOf[s]][cur[s]] = box.output]
             /\ box' = EmptyBox /\ UNCHANGED failed
    <3>1. box.output \in Outputs
      BY DEF FileTypes, Boxes
    <3>2. out' \in [Files -> [Indices -> Outputs]]
      BY <1>1, <2>2, <3>1 DEF FileTypes
    <3> QED
      BY <1>e, <2>1, <2>2, <3>2 DEF FileTypes
  <2>3. CASE CommandFails(s) /\ UNCHANGED <<out, box>>
    BY <1>c, <2>1, <2>3 DEF FileTypes
  <2> QED
    BY <1>7, <2>2, <2>3 DEF CopyOut
<1>8. CASE RemoveExecutable(s)
  BY <1>1, <1>8 DEF RemoveExecutable, FileTypes, sandboxVars
<1>9. CASE Compare(s) \/ Count(s) \/ ExpireCase(s) \/ SetCode(s) \/ ExpireCode(s)
           \/ RemoveSource(s)
  BY <1>9 DEF Compare, Count, ExpireCase, SetCode, ExpireCode, RemoveSource, FileTypes,
              fileVars, sandboxVars
<1> QED
  BY <1>2, <1>3, <1>4, <1>5, <1>6, <1>7, <1>8, <1>9 DEF cpp_runner

\* The other steps touch no executable, no output and no sandbox, but a restart sets
\* the runners' variables back.
LEMMA FilesStep ==
    ASSUME ControlInv, SourceInv, FileTypes, [Next]_vars
    PROVE  FileTypes'
<1>1. ASSUME UNCHANGED <<built, exe, out, hasty, failed, lock, box>> PROVE FileTypes'
  BY <1>1 DEF FileTypes
<1>2. ASSUME NEW s \in Subs, Request(s) PROVE FileTypes'
  <2>1. UNCHANGED <<built, exe, out, failed, lock, box>>
    BY <1>2
       DEF Request, Receive, SetSum, ExpireSum, TaskPush, fileVars, runnerVars, sandboxVars
  <2>2. hasty' \in {hasty, hasty \cup {s}}
    BY <1>2 DEF Request, Receive, SetSum, ExpireSum, TaskPush, fileVars
  <2> QED
    BY <2>1, <2>2 DEF FileTypes
<1>3. ASSUME NEW p \in Polls, runState(p) PROVE FileTypes'
  BY <1>1, <1>3
     DEF runState, PollSum, PollCase, PollInsert, PollDel, fileVars, runnerVars, sandboxVars
<1>4. ASSUME NEW f \in Files, ChangeCases(f) \/ \E k \in Keys : KeyExpires(f, k)
      PROVE  FileTypes'
  BY <1>1, <1>4 DEF ChangeCases, KeyExpires, fileVars, runnerVars, sandboxVars
<1>5. CASE Start \/ UNCHANGED vars
  BY <1>1, <1>5 DEF Start, vars, fileVars, runnerVars, sandboxVars
<1>6. CASE Restart
  BY <1>6 DEF Restart, FileTypes, fileVars
<1> QED
  BY <1>2, <1>3, <1>4, <1>5, <1>6, RunnerFiles DEF Next

\* The keys in Redis.
RedisTypes ==
    /\ redis \in [Files -> [Keys -> Int \cup {None}]]
    /\ ttl \in [Files -> [Keys -> BOOLEAN]]

\* A table of two keys with one entry replaced.
LEMMA EntryReplaced ==
    ASSUME NEW A, NEW B, NEW C, NEW g \in [A -> [B -> C]], NEW a \in A, NEW b \in B, NEW c \in C,
           NEW h, h = [g EXCEPT ![a][b] = c]
    PROVE  /\ h \in [A -> [B -> C]]
           /\ \A x \in A, y \in B : h[x][y] = IF x = a /\ y = b THEN c ELSE g[x][y]
  OBVIOUS

\* The commands keep the types of the keys.
LEMMA CommandsTypes ==
    ASSUME RedisTypes, NEW f \in Files, NEW k \in Keys, NEW v \in Int,
           \/ RedisSet(f, k, v) \/ RedisIncr(f, k) \/ RedisExpire(f, k) \/ Gone(f, k)
           \/ UNCHANGED redisVars
    PROVE  RedisTypes'
<1>1. CASE UNCHANGED redisVars
  BY <1>1 DEF redisVars, RedisTypes
<1>2. ASSUME NEW w \in Int \cup {None}, redis' = [redis EXCEPT ![f][k] = w]
      PROVE  redis' \in [Files -> [Keys -> Int \cup {None}]]
  BY <1>2, EntryReplaced DEF RedisTypes
<1>3. ASSUME NEW w \in BOOLEAN, ttl' = [ttl EXCEPT ![f][k] = w]
      PROVE  ttl' \in [Files -> [Keys -> BOOLEAN]]
  BY <1>3, EntryReplaced DEF RedisTypes
<1>4. CASE RedisSet(f, k, v)
  BY <1>1, <1>2, <1>3, <1>4 DEF RedisSet, RedisError, RedisTypes
<1>5. CASE RedisIncr(f, k)
  <2>1. Incremented(redis[f][k]) \in Int
    BY DEF RedisTypes, Incremented
  <2> QED
    BY <1>1, <1>2, <1>5, <2>1 DEF RedisIncr, RedisError, RedisTypes
<1>6. CASE RedisExpire(f, k)
  BY <1>1, <1>3, <1>6 DEF RedisExpire, RedisError, RedisTypes
<1>7. CASE Gone(f, k)
  BY <1>2, <1>3, <1>7 DEF Gone, RedisTypes
<1> QED
  BY <1>1, <1>4, <1>5, <1>6, <1>7

PollStates == {"idle", "cases", "insert", "del", "done"}

\* The polls: one that is under way asks for a file.
PollInv ==
    /\ poll \in [Polls -> [at : PollStates, file : Files \cup {None},
                           sum : Int \cup {None}, complete : BOOLEAN, i : Cases]]
    /\ \A p \in Polls : UnderWay(p) => poll[p].file \in Files
    /\ results \subseteq [poll : Polls, file : Files, result : {"Pass", "Unpass"}]

\* The keys that a poll reads and deletes are among those that a runner sets.
LEMMA CasesAreKeys == Cases \subseteq Indices /\ Indices \subseteq Keys /\ Sum \notin Indices
  BY JudgeAssumption DEF Cases, Indices, Keys, Sum

\* Each command of a request or a runner names a key of its file.
LEMMA SubsRedis ==
    ASSUME ControlInv, RedisTypes, NEW s \in Subs, Request(s) \/ cpp_runner(s)
    PROVE  RedisTypes'
<1>1. FileOf[s] \in Files /\ Sum \in Keys
  BY JudgeAssumption DEF Keys
<1>2. CASE Request(s)
  <2>1. \/ RedisSet(FileOf[s], Sum, 0) \/ RedisExpire(FileOf[s], Sum) \/ UNCHANGED redisVars
    BY <1>2 DEF Request, Receive, SetSum, ResetSum, ExpireSum, TaskPush
  <2> QED
    BY <1>1, <2>1, CommandsTypes
<1>3. CASE cpp_runner(s)
  <2>1. cur[s] \in Keys
    <3>1. s \in running
      BY <1>3, RunnerStep
    <3> QED
      BY <3>1, JudgeAssumption DEF ControlInv, ControlTypes, TaskInv, Indices, Keys
  <2>2. \/ \E v \in {-1, 1} : RedisSet(FileOf[s], cur[s], v)
        \/ \E v \in {-2, -3} : RedisSet(FileOf[s], Sum, v)
        \/ RedisIncr(FileOf[s], Sum)
        \/ RedisExpire(FileOf[s], Sum) \/ RedisExpire(FileOf[s], cur[s])
        \/ UNCHANGED redisVars
    BY <1>3 DEF cpp_runner, Compile, Link, BoxInit, CopyIn, BoxRun, CopyOut, Compare, Count,
                ExpireCase, CaseExpires, SetCode, ExpireCode, RemoveSource, RemoveExecutable
  <2> QED
    BY <1>1, <2>1, <2>2, CommandsTypes
<1> QED
  BY <1>2, <1>3

\* Every step keeps the types of the keys.
LEMMA RedisStep ==
    ASSUME ControlInv, PollInv, RedisTypes, [Next]_vars
    PROVE  RedisTypes'
<1>1. ASSUME UNCHANGED redisVars PROVE RedisTypes'
  BY <1>1 DEF RedisTypes, redisVars
<1>2. ASSUME NEW p \in Polls, runState(p) PROVE RedisTypes'
  <2>1. CASE PollDel(p)
    <3>1. poll[p].file \in Files /\ poll[p].i \in Keys
      BY <2>1, CasesAreKeys DEF PollDel, PollInv, UnderWay
    <3>2. Gone(poll[p].file, poll[p].i) \/ UNCHANGED redisVars
      BY <2>1 DEF PollDel, CaseDeleted, RedisDel, RedisError
    <3> QED
      BY <3>1, <3>2, CommandsTypes
  <2> QED
    BY <1>1, <1>2, <2>1 DEF runState, PollSum, PollCase, PollInsert
<1>3. ASSUME NEW f \in Files, NEW k \in Keys, KeyExpires(f, k) PROVE RedisTypes'
  BY <1>3, CommandsTypes DEF KeyExpires
<1>4. CASE Start \/ Restart \/ UNCHANGED vars \/ \E f \in Files : ChangeCases(f)
  BY <1>1, <1>4 DEF Start, Restart, vars, ChangeCases
<1> QED
  BY <1>2, <1>3, <1>4, SubsRedis DEF Next

\* The number of the next case of a poll: one more, or 0 after the last.
LEMMA NextNumber ==
    ASSUME NEW c \in Cases
    PROVE  (c + 1) % NumCases = IF c + 1 < NumCases THEN c + 1 ELSE 0
<1>1. c \in 0..(NumCases - 1) /\ NumCases \in Nat \ {0}
  BY JudgeAssumption DEF Cases
<1>2. CASE c + 1 < NumCases
  BY <1>1, <1>2
<1>3. CASE c + 1 = NumCases
  BY <1>1, <1>3
<1> QED
  BY <1>1, <1>2, <1>3

\* What a poll is when it has moved to another state, or to another case.
LEMMA PollMoves ==
    ASSUME PollInv, NEW p \in Polls, NEW r,
           r \in [at : PollStates, file : Files, sum : Int \cup {None}, complete : BOOLEAN,
                  i : Cases],
           poll' = [poll EXCEPT ![p] = r],
           results' \subseteq [poll : Polls, file : Files, result : {"Pass", "Unpass"}]
    PROVE  PollInv'
<1>1. r.file \in Files
  OBVIOUS
<1>2. r \in [at : PollStates, file : Files \cup {None}, sum : Int \cup {None},
             complete : BOOLEAN, i : Cases]
  OBVIOUS
<1>3. poll'[p] = r /\ \A q \in Polls \ {p} : poll'[q] = poll[q]
  BY DEF PollInv
<1> HIDE DEF PollStates
<1>4. poll' \in [Polls -> [at : PollStates, file : Files \cup {None}, sum : Int \cup {None},
                           complete : BOOLEAN, i : Cases]]
  BY <1>2 DEF PollInv
<1> QED
  BY <1>1, <1>3, <1>4 DEF PollInv, UnderWay

\* Each step of a poll keeps the types of the polls and of the rows they insert.
LEMMA PollStep ==
    ASSUME PollInv, RedisTypes, NEW p \in Polls, runState(p)
    PROVE  PollInv'
<1>1. CASE \E f \in Files : PollSum(p, f)
  <2>0. PICK f \in Files : PollSum(p, f)
    BY <1>1
  <2>1. PICK v \in RedisGet(f, Sum) :
          poll' = [poll EXCEPT ![p] = [at |-> "cases", file |-> f, sum |-> v,
                                       complete |-> TRUE, i |-> 0]]
    BY <2>0 DEF PollSum
  <2>2. v \in Int \cup {None} /\ 0 \in Cases /\ "cases" \in PollStates
    BY JudgeAssumption DEF RedisGet, RedisTypes, Keys, Cases, PollStates
  <2>3. UNCHANGED results
    BY <1>1 DEF PollSum
  <2> QED
    BY <2>1, <2>2, <2>3, PollMoves DEF PollInv
<1>2. ASSUME UnderWay(p)
      PROVE  /\ poll[p].file \in Files /\ poll[p].sum \in Int \cup {None}
             /\ poll[p].complete \in BOOLEAN /\ poll[p].i \in Cases
             /\ (poll[p].i + 1) % NumCases \in Cases
  <2>1. /\ poll[p].file \in Files /\ poll[p].sum \in Int \cup {None}
        /\ poll[p].complete \in BOOLEAN /\ poll[p].i \in Cases
    BY <1>2 DEF PollInv
  <2>2. (poll[p].i + 1) % NumCases \in Cases
    BY <2>1, NextNumber, JudgeAssumption DEF Cases
  <2> QED
    BY <2>1, <2>2
<1>3. CASE PollCase(p)
  <2>1. PICK v : poll' = [poll EXCEPT ![p] =
            [at |-> IF poll[p].i + 1 < NumCases THEN "cases"
                    ELSE IF poll[p].complete /\ v # None THEN "insert" ELSE "done",
             file |-> poll[p].file, sum |-> poll[p].sum,
             complete |-> poll[p].complete /\ v # None,
             i |-> (poll[p].i + 1) % NumCases]]
    BY <1>3 DEF PollCase
  <2>2. UnderWay(p) /\ UNCHANGED results
    BY <1>3 DEF PollCase, UnderWay
  <2> DEFINE end == IF poll[p].i + 1 < NumCases THEN "cases"
                    ELSE IF poll[p].complete /\ v # None THEN "insert" ELSE "done"
             all == poll[p].complete /\ v # None
             next == (poll[p].i + 1) % NumCases
  <2>3. end \in PollStates /\ all \in BOOLEAN /\ next \in Cases
    BY <1>2, <2>2 DEF PollStates
  <2>4. poll' = [poll EXCEPT ![p] = [at |-> end, file |-> poll[p].file, sum |-> poll[p].sum,
                                     complete |-> all, i |-> next]]
    BY <2>1
  <2> HIDE DEF end, all, next
  <2> QED
    BY <1>2, <2>2, <2>3, <2>4, PollMoves DEF PollInv
<1>4. CASE PollInsert(p)
  <2>1. UnderWay(p)
    BY <1>4 DEF PollInsert, UnderWay
  <2>2. PICK r : r = [poll[p] EXCEPT !.at = "del"]
    OBVIOUS
  <2>3. poll' = [poll EXCEPT ![p] = r]
    BY <1>4, <2>2 DEF PollInsert
  <2>4. results' \subseteq [poll : Polls, file : Files, result : {"Pass", "Unpass"}]
    BY <1>2, <1>4, <2>1 DEF PollInsert, PollInv
  <2>5. r \in [at : PollStates, file : Files, sum : Int \cup {None}, complete : BOOLEAN,
              i : Cases]
    <3>1. poll[p] \in [at : PollStates, file : Files, sum : Int \cup {None},
                       complete : BOOLEAN, i : Cases]
      BY <2>1 DEF PollInv
    <3>2. "del" \in PollStates
      BY DEF PollStates
    <3> QED
      BY <2>2, <3>1, <3>2
  <2> QED
    BY <2>3, <2>4, <2>5, PollMoves
<1>5. CASE PollDel(p)
  <2>1. poll' = [poll EXCEPT ![p] =
            [at |-> IF poll[p].i + 1 < NumCases THEN "del" ELSE "done", file |-> poll[p].file,
             sum |-> poll[p].sum, complete |-> poll[p].complete,
             i |-> (poll[p].i + 1) % NumCases]]
    BY <1>5 DEF PollDel
  <2>2. UnderWay(p) /\ UNCHANGED results
    BY <1>5 DEF PollDel, UnderWay
  <2> DEFINE end == IF poll[p].i + 1 < NumCases THEN "del" ELSE "done"
             next == (poll[p].i + 1) % NumCases
  <2>3. end \in PollStates /\ next \in Cases
    BY <1>2, <2>2 DEF PollStates
  <2>4. poll' = [poll EXCEPT ![p] = [at |-> end, file |-> poll[p].file, sum |-> poll[p].sum,
                                     complete |-> poll[p].complete, i |-> next]]
    BY <2>1
  <2> HIDE DEF end, next
  <2> QED
    BY <1>2, <2>2, <2>3, <2>4, PollMoves DEF PollInv
<1> QED
  BY <1>1, <1>3, <1>4, <1>5 DEF runState

\* Every step keeps the types of the polls.
LEMMA PollsStep ==
    ASSUME PollInv, RedisTypes, [Next]_vars
    PROVE  PollInv'
<1>1. ASSUME UNCHANGED pollVars PROVE PollInv'
  BY <1>1 DEF PollInv, UnderWay, pollVars
<1>2. ASSUME NEW s \in Subs, Request(s) \/ cpp_runner(s) PROVE PollInv'
  BY <1>1, <1>2
     DEF Request, Receive, SetSum, ExpireSum, TaskPush, cpp_runner, Compile, Link, BoxInit,
         CopyIn, BoxRun, CopyOut, Compare, Count, ExpireCase, SetCode, ExpireCode,
         RemoveSource, RemoveExecutable
<1>3. CASE Start \/ UNCHANGED vars
           \/ \E f \in Files : ChangeCases(f) \/ \E k \in Keys : KeyExpires(f, k)
  BY <1>1, <1>3 DEF Start, vars, ChangeCases, KeyExpires
<1>4. CASE Restart
  <2>0. PICK cut : cut = [NoPoll EXCEPT !.at = "done"]
    OBVIOUS
  <2>1. cut = [at |-> "done", file |-> None, sum |-> None, complete |-> TRUE, i |-> 0]
    BY <2>0 DEF NoPoll
  <2>2. poll' = [p \in Polls |-> IF UnderWay(p) THEN cut ELSE poll[p]] /\ UNCHANGED results
    BY <1>4, <2>0 DEF Restart
  <2>3. cut \in [at : PollStates, file : Files \cup {None}, sum : Int \cup {None},
                 complete : BOOLEAN, i : Cases] /\ cut.at = "done"
    BY <2>1, JudgeAssumption DEF PollStates, Cases
  <2> QED
    BY <2>2, <2>3 DEF PollInv, UnderWay
<1> QED
  BY <1>2, <1>3, <1>4, PollStep DEF Next

\* All the types.
TypeInv == ControlInv /\ SourceInv /\ FileTypes /\ RedisTypes /\ PollInv

\* At the start there is no file, no key and no poll.
LEMMA TypeInit == Init => TypeInv
<1> SUFFICES ASSUME Init PROVE TypeInv
  OBVIOUS
<1>1. SourceInv
  <2>1. StartsWithText(<<>>) /\ <<>> \in Seq(Subs)
    BY DEF StartsWithText
  <2> QED
    BY <2>1 DEF Init, SourceInv
<1>2. FileTypes /\ RedisTypes
  BY JudgeAssumption DEF Init, FileTypes, RedisTypes, Boxes, EmptyBox, NoOutput, Outputs
<1>3. PollInv
  <2>1. NoPoll \in [at : PollStates, file : Files \cup {None}, sum : Int \cup {None},
                    complete : BOOLEAN, i : Cases] /\ NoPoll.at = "idle"
    BY JudgeAssumption DEF NoPoll, PollStates, Cases
  <2> QED
    BY <2>1 DEF Init, PollInv, UnderWay
<1> QED
  BY <1>1, <1>2, <1>3, ControlInit DEF TypeInv

\* The types hold in every state, and with them what is known of pool and requests.
LEMMA TypeInvHolds == Spec => []TypeInv
<1>1. TypeInv /\ ControlInv' /\ [Next]_vars => TypeInv'
  BY SourceStep, FilesStep, RedisStep, PollsStep DEF TypeInv
<1> QED
  BY <1>1, TypeInit, ControlInvHolds, PTL DEF Spec

\* The files, keys and processes have their types, and a source file always begins with
\* one whole text, the last one written; a runner never goes beyond the cases of its task.
THEOREM TypeOKHolds == Spec => []TypeOK
<1>1. TypeInv => TypeOK
  <2> SUFFICES ASSUME TypeInv PROVE TypeOK
    OBVIOUS
  <2>1. /\ submitted \subseteq Subs /\ running \subseteq Subs /\ finished \subseteq Subs
        /\ pending \in Seq(Subs) /\ cases \in [Files -> Seq(Tests)]
        /\ req \in [Subs -> ReqStates] /\ run \in [Subs -> RunnerStates]
        /\ tests \in [Subs -> Seq(Tests)] /\ cur \in [Subs -> Nat]
        /\ \A s \in submitted : cur[s] < total[s]
    BY DEF TypeInv, ControlInv, ControlTypes, TaskInv
  <2>2. total = [s \in Subs |-> Len(tests[s])]
    BY DEF TypeInv, ControlInv, ControlTypes
  <2>3. ASSUME NEW f \in Files, src[f] # <<>>
        PROVE  /\ Len(src[f]) >= Size[src[f][1]]
               /\ SubSeq(src[f], 1, Size[src[f][1]]) = Text(src[f][1])
    <3> DEFINE t == src[f]
               k == Size[src[f][1]]
    <3>1. t \in Seq(Subs) /\ k \in Nat \ {0} /\ Len(t) >= k
          /\ \A n \in 1..k : t[n] = t[1]
      <4>1. t \in Seq(Subs) /\ StartsWithText(t)
        BY DEF TypeInv, SourceInv
      <4>2. t[1] \in Subs
        BY <2>3, <4>1
      <4> QED
        BY <2>3, <4>1, <4>2, JudgeAssumption DEF StartsWithText
    <3>2. Text(t[1]) = [n \in 1..k |-> t[1]]
      BY DEF Text
    <3> HIDE DEF t, k
    <3>3. SubSeq(t, 1, k) = [n \in 1..k |-> t[1]]
      BY <3>1
    <3> QED
      BY <3>1, <3>2, <3>3 DEF t, k
  <2> QED
    BY <2>1, <2>2, <2>3
       DEF TypeInv, SourceInv, FileTypes, RedisTypes, PollInv, TypeOK, ReqStates, Boxes,
           PollStates
<1> QED
  BY <1>1, TypeInvHolds, PTL

-----------------------------------------------------------------------------
(* The sandbox.  A runner that is between the init and the cleanup of the    *)
(* sandbox holds the mutex.                                                  *)

\* What is known of a submission that is being judged, ...
LEMMA RunnerFacts ==
    ASSUME TypeInv, NEW s \in running
    PROVE  /\ s \in Subs /\ s \in submitted /\ s \notin finished /\ req[s] = "accepted"
           /\ FileOf[s] \in Files
           /\ cur[s] \in Indices /\ cur[s] \in Keys
           /\ total[s] \in 1..MaxRows /\ cur[s] < total[s]
           /\ tests[s] \in Seq(Tests) /\ total[s] = Len(tests[s])
           /\ TestOf(s) \in Tests
<1>1. /\ s \in Subs /\ s \in submitted /\ s \notin finished /\ req[s] = "accepted"
      /\ cur[s] \in Nat /\ total[s] \in 0..MaxRows /\ cur[s] < total[s]
      /\ tests[s] \in Seq(Tests) /\ total[s] = Len(tests[s])
  BY DEF TypeInv, ControlInv, ControlTypes, TaskInv
<1>2. cur[s] + 1 \in 1..Len(tests[s])
  BY <1>1, JudgeAssumption
<1>3. TestOf(s) \in Tests
  BY <1>1, <1>2 DEF TestOf
<1> QED
  BY <1>1, <1>3, JudgeAssumption DEF Indices, Keys

\* ... and of the others when its runner moves.
LEMMA RunnerFrame ==
    ASSUME TypeInv, NEW s \in Subs, cpp_runner(s)
    PROVE  /\ s \in running
           /\ running' \subseteq running /\ running \ {s} \subseteq running'
           /\ UNCHANGED <<submitted, pending, cases, req, total, tests>>
           /\ \A u \in Subs \ {s} : run'[u] = run[u] /\ cur'[u] = cur[u]
<1>1. ControlInv /\ run \in [Subs -> RunnerStates] /\ cur \in [Subs -> Nat]
  BY DEF TypeInv, ControlInv, ControlTypes
<1>2. PICK pc, c : run' = [run EXCEPT ![s] = pc] /\ cur' = [cur EXCEPT ![s] = c]
  BY <1>1, RunnerStep
<1>3. \A u \in Subs \ {s} : run'[u] = run[u] /\ cur'[u] = cur[u]
  BY <1>1, <1>2
<1>4. /\ s \in running
      /\ running' \subseteq running /\ running \ {s} \subseteq running'
      /\ UNCHANGED <<submitted, pending, cases, req, total, tests>>
  BY <1>1, RunnerStep
<1> QED
  BY <1>3, <1>4

InBox(s) == run[s] \in {"copyIn", "run", "copyOut"}

LockInv == \A s \in running : InBox(s) => lock = s

\* At most one runner is at work in the sandbox.
OneInBox == \A s, u \in running : InBox(s) /\ InBox(u) => s = u

\* Each step of a runner keeps the mutex with the one in the sandbox.
LEMMA RunnerLock ==
    ASSUME TypeInv, LockInv, NEW s \in Subs, cpp_runner(s)
    PROVE  LockInv'
<1>1. /\ s \in running /\ running' \subseteq running
      /\ \A u \in running \ {s} : u \in Subs /\ run'[u] = run[u]
  BY RunnerFrame, RunnerFacts
<1>2. DOMAIN run = Subs
  BY DEF TypeInv, ControlInv, ControlTypes
<1>3. CASE BoxInit(s)
  <2>1. \A u \in running \ {s} : ~InBox(u)
    BY <1>1, <1>3, JudgeAssumption DEF BoxInit, Unlocked, LockInv
  <2> QED
    BY <1>1, <1>3, <2>1 DEF BoxInit, LockInv, InBox
<1>4. CASE CopyIn(s) \/ BoxRun(s)
  BY <1>1, <1>2, <1>4 DEF CopyIn, BoxRun, At, LockInv, InBox
<1>5. CASE CopyOut(s)
  <2>1. lock = s /\ \A u \in running \ {s} : ~InBox(u)
    BY <1>5 DEF CopyOut, At, LockInv, InBox
  <2>2. ~InBox(s)'
    BY <1>2, <1>5 DEF CopyOut, Goto, InBox
  <2> QED
    BY <1>1, <2>1, <2>2 DEF LockInv, InBox
<1>6. CASE ~(BoxInit(s) \/ CopyIn(s) \/ BoxRun(s) \/ CopyOut(s))
  <2>1. ~InBox(s)' /\ UNCHANGED lock
    BY <1>2, <1>6
       DEF cpp_runner, Compile, Link, Compare, Count, ExpireCase, SetCode, ExpireCode,
           RemoveSource, RemoveExecutable, Goto, InBox, sandboxVars
  <2> QED
    BY <1>1, <2>1 DEF LockInv, InBox
<1> QED
  BY <1>3, <1>4, <1>5, <1>6

\* The invariant of the mutex holds in every state.
LEMMA LockInvHolds == Spec => []LockInv
<1>1. Init => LockInv
  BY DEF Init, TQ!Init, LockInv
<1>2. TypeInv /\ LockInv /\ [Next]_vars => LockInv'
  <2> SUFFICES ASSUME TypeInv, LockInv, [Next]_vars PROVE LockInv'
    OBVIOUS
  <2>1. ASSUME UNCHANGED <<running, run, lock>> PROVE LockInv'
    BY <2>1 DEF LockInv, InBox
  <2>2. ASSUME NEW s \in Subs, Request(s) PROVE LockInv'
    BY <2>1, <2>2 DEF Request, Receive, SetSum, ExpireSum, TaskPush, TQ!Submit, poolVars,
                      runnerVars, sandboxVars
  <2>3. ASSUME NEW p \in Polls, runState(p) PROVE LockInv'
    BY <2>1, <2>3 DEF runState, PollSum, PollCase, PollInsert, PollDel, poolVars, runnerVars,
                      sandboxVars
  <2>4. CASE UNCHANGED vars
             \/ \E f \in Files : ChangeCases(f) \/ \E k \in Keys : KeyExpires(f, k)
    BY <2>1, <2>4 DEF ChangeCases, KeyExpires, vars, poolVars, runnerVars, sandboxVars
  <2>5. CASE Start
    <3>1. /\ Len(pending) > 0 /\ running' = running \cup {pending[1]} /\ UNCHANGED <<run, lock>>
      BY <2>5 DEF Start, TQ!Start, runnerVars, sandboxVars, TypeInv, ControlInv, ControlTypes
    <3>2. run[pending[1]] = "compile"
      BY <3>1 DEF TypeInv, ControlInv, ControlTypes, QueueInv
    <3> QED
      BY <3>1, <3>2 DEF LockInv, InBox
  <2>6. CASE Restart
    BY <2>6 DEF Restart, LockInv
  <2> QED
    BY <2>2, <2>3, <2>4, <2>5, <2>6, RunnerLock DEF Next
<1> QED
  BY <1>1, <1>2, TypeInvHolds, PTL DEF Spec

\* The commands of two runners never mix in the one sandbox, however many threads the
\* pool has and whenever the server is restarted.
THEOREM OneInBoxHolds == Spec => []OneInBox
<1>1. LockInv => OneInBox
  BY DEF LockInv, OneInBox
<1> QED
  BY <1>1, LockInvHolds, PTL

-----------------------------------------------------------------------------
(* The keys of the cases, when no query fails.                               *)

\* The runner that has set a key and is about to give it its time to live.
Timer(f, i, s) ==
    /\ s \in SubsOf(f)
    /\ s \in running \/ req[s] = "lost"
    /\ cur[s] = i
    /\ run[s] \in {"count", "expire"}

\* What the commands leave of the key of a case that is there, without a time to live,
\* after them.
LEMMA UntimedKeys ==
    ASSUME TypeInv, Lossy = {}, NEW f \in Files, NEW i \in Indices, redis'[f][i] # None, ~ttl'[f][i],
           NEW g \in Files, NEW k \in Keys, NEW v
    PROVE  /\ \/ RedisIncr(g, Sum) \/ RedisDel(g, k) \/ Gone(g, k) \/ UNCHANGED redisVars
              => redis[f][i] # None /\ ~ttl[f][i]
           /\ RedisSet(g, k, v) => (redis[f][i] # None /\ ~ttl[f][i]) \/ (f = g /\ i = k)
           /\ RedisExpire(g, k) => redis[f][i] # None /\ ~ttl[f][i] /\ ~(f = g /\ i = k)
<1>1. i \in Keys /\ i # Sum /\ Sum \in Keys
  BY CasesAreKeys DEF Keys
<1>2. /\ redis \in [Files -> [Keys -> Int \cup {None}]]
      /\ ttl \in [Files -> [Keys -> BOOLEAN]]
  BY DEF TypeInv, RedisTypes
<1>3. ASSUME RedisExpire(g, k)
      PROVE  redis[f][i] # None /\ ~ttl[f][i] /\ ~(f = g /\ i = k)
  <2>1. UNCHANGED redis /\ ttl' = [ttl EXCEPT ![g][k] = redis[g][k] # None]
    BY <1>3 DEF RedisExpire, RedisError
  <2>2. ttl'[f][i] = IF f = g /\ i = k THEN redis[g][k] # None ELSE ttl[f][i]
    BY <1>1, <1>2, <2>1
  <2> QED
    BY <2>1, <2>2
<1>4. ASSUME Gone(g, k)
      PROVE  redis[f][i] # None /\ ~ttl[f][i]
  <2>1. redis' = [redis EXCEPT ![g][k] = None] /\ ttl' = [ttl EXCEPT ![g][k] = FALSE]
    BY <1>4 DEF Gone
  <2>2. /\ redis'[f][i] = IF f = g /\ i = k THEN None ELSE redis[f][i]
        /\ ttl'[f][i] = IF f = g /\ i = k THEN FALSE ELSE ttl[f][i]
    BY <1>1, <1>2, <2>1
  <2> QED
    BY <2>2
<1>5. ASSUME RedisSet(g, k, v)
      PROVE  (redis[f][i] # None /\ ~ttl[f][i]) \/ (f = g /\ i = k)
  <2>1. redis' = [redis EXCEPT ![g][k] = v] /\ ttl' = [ttl EXCEPT ![g][k] = FALSE]
    BY <1>5 DEF RedisSet, RedisError
  <2>2. CASE ~(f = g /\ i = k)
    <3>1. redis'[f][i] = redis[f][i]
      BY <1>1, <1>2, <2>1, <2>2
    <3>2. ttl'[f][i] = ttl[f][i]
      BY <1>1, <1>2, <2>1, <2>2
    <3> QED
      BY <3>1, <3>2
  <2> QED
    BY <2>2
<1>6. ASSUME RedisIncr(g, Sum)
      PROVE  redis[f][i] # None /\ ~ttl[f][i]
  <2>1. redis' = [redis EXCEPT ![g][Sum] = Incremented(redis[g][Sum])] /\ UNCHANGED ttl
    BY <1>6 DEF RedisIncr, RedisError
  <2>2. redis'[f][i] = redis[f][i] /\ ttl'[f][i] = ttl[f][i]
    BY <1>1, <1>2, <2>1
  <2> QED
    BY <2>2
<1>7. ASSUME UNCHANGED redisVars PROVE redis[f][i] # None /\ ~ttl[f][i]
  BY <1>7 DEF redisVars
<1> QED
  BY <1>3, <1>4, <1>5, <1>6, <1>7 DEF RedisDel, RedisError

\* A step of a runner leaves no key without a time to live behind.
LEMMA RunnerTimes ==
    ASSUME TypeInv, CaseKeysExpire, Lossy = {}, NEW s \in Subs, cpp_runner(s),
           NEW f \in Files, NEW i \in Indices, redis'[f][i] # None, ~ttl'[f][i]
    PROVE  \E u \in Subs : Timer(f, i, u)'
<1>1. /\ s \in running /\ FileOf[s] \in Files /\ cur[s] \in Keys /\ s \in Subs
      /\ Sum \in Keys
  BY RunnerFrame, RunnerFacts DEF Keys
<1>2. run \in [Subs -> RunnerStates]
  BY DEF TypeInv, ControlInv, ControlTypes
<1>3. ASSUME redis[f][i] # None /\ ~ttl[f][i], ~Timer(f, i, s) \/ Timer(f, i, s)'
      PROVE  \E u \in Subs : Timer(f, i, u)'
  <2>1. PICK u \in Subs : Timer(f, i, u)
    BY <1>3 DEF CaseKeysExpire, Timer, SubsOf
  <2>2. CASE u = s
    BY <1>3, <2>1, <2>2
  <2>3. CASE u # s
    <3>1. /\ run'[u] = run[u] /\ cur'[u] = cur[u] /\ req'[u] = req[u]
          /\ u \in running => u \in running'
      BY <2>3, RunnerFrame
    <3> QED
      BY <2>1, <3>1 DEF Timer, SubsOf
  <2> QED
    BY <2>2, <2>3
<1>4. CASE Compare(s)
  <2>1. /\ run'[s] \in {"count", "expire"} /\ cur'[s] = cur[s] /\ s \in running'
    BY <1>1, <1>2, <1>4 DEF Compare, Goto, poolVars
  <2>2. (redis[f][i] # None /\ ~ttl[f][i]) \/ (f = FileOf[s] /\ i = cur[s])
    BY <1>1, <1>4, UntimedKeys DEF Compare
  <2>3. CASE f = FileOf[s] /\ i = cur[s]
    BY <1>1, <2>1, <2>3 DEF Timer, SubsOf
  <2>4. CASE redis[f][i] # None /\ ~ttl[f][i]
    BY <1>3, <1>4, <2>4 DEF Compare, At, Timer
  <2> QED
    BY <2>2, <2>3, <2>4
<1>5. CASE Count(s)
  <2>1. redis[f][i] # None /\ ~ttl[f][i]
    BY <1>1, <1>5, UntimedKeys DEF Count
  <2>2. Timer(f, i, s) => Timer(f, i, s)'
    BY <1>2, <1>5 DEF Count, Goto, Timer, SubsOf, poolVars
  <2> QED
    BY <1>3, <2>1, <2>2
<1>6. CASE ExpireCase(s)
  <2>1. redis[f][i] # None /\ ~ttl[f][i] /\ ~(f = FileOf[s] /\ i = cur[s])
    BY <1>1, <1>6, UntimedKeys DEF ExpireCase, CaseExpires
  <2> QED
    BY <1>3, <2>1 DEF Timer, SubsOf
<1>7. CASE ~Compare(s) /\ ~Count(s) /\ ~ExpireCase(s)
  <2>1. run[s] \notin {"count", "expire"}
    BY <1>7
       DEF cpp_runner, Compile, Link, BoxInit, CopyIn, BoxRun, CopyOut, SetCode, ExpireCode,
           RemoveSource, RemoveExecutable, At
  <2>2. \/ \E v \in {-2, -3} : RedisSet(FileOf[s], Sum, v)
        \/ RedisExpire(FileOf[s], Sum) \/ UNCHANGED redisVars
    BY <1>7
       DEF cpp_runner, Compile, Link, BoxInit, CopyIn, BoxRun, CopyOut, SetCode, ExpireCode,
           RemoveSource, RemoveExecutable
  <2>3. i # Sum
    BY CasesAreKeys
  <2>4. redis[f][i] # None /\ ~ttl[f][i]
    BY <1>1, <2>2, <2>3, UntimedKeys
  <2> QED
    BY <1>3, <2>1, <2>4 DEF Timer
<1> QED
  BY <1>4, <1>5, <1>6, <1>7

\* The result of a test case does not stay in Redis for ever when no query fails: a key
\* without a time to live is about to be given one, unless a restart came in between.
THEOREM CaseKeysExpireHolds ==
    ASSUME Lossy = {}
    PROVE  Spec => []CaseKeysExpire
<1>1. Init => CaseKeysExpire
  BY DEF Init, CaseKeysExpire, Keys
<1>2. TypeInv /\ CaseKeysExpire /\ [Next]_vars => CaseKeysExpire'
  <2> SUFFICES ASSUME TypeInv, CaseKeysExpire, [Next]_vars,
                      NEW f \in Files, NEW i \in Indices, redis'[f][i] # None, ~ttl'[f][i]
               PROVE  \E u \in Subs : Timer(f, i, u)'
    BY DEF CaseKeysExpire, Timer, SubsOf
  <2>1. ASSUME redis[f][i] # None /\ ~ttl[f][i], UNCHANGED <<run, cur>>,
               \A u \in Subs : u \in running \/ req[u] = "lost" =>
                                 u \in running' \/ req'[u] = "lost"
        PROVE  \E u \in Subs : Timer(f, i, u)'
    BY <2>1 DEF CaseKeysExpire, Timer, SubsOf
  <2>2. Sum \in Keys /\ i # Sum /\ \A s \in Subs : FileOf[s] \in Files
    BY JudgeAssumption, CasesAreKeys DEF Keys
  <2>3. ASSUME NEW s \in Subs, Request(s) PROVE \E u \in Subs : Timer(f, i, u)'
    <3>1. \/ RedisSet(FileOf[s], Sum, 0) \/ RedisExpire(FileOf[s], Sum)
          \/ UNCHANGED redisVars
      BY <2>3 DEF Request, Receive, SetSum, ResetSum, ExpireSum, TaskPush
    <3>2. redis[f][i] # None /\ ~ttl[f][i]
      BY <2>2, <3>1, UntimedKeys
    <3>3. \A u \in Subs : u \in running \/ req[u] = "lost" => u \in running' \/ req'[u] = "lost"
      <4>1. running' = running /\ req[s] # "lost" /\ \E r : req' = [req EXCEPT ![s] = r]
        BY <2>3 DEF Request, Receive, SetSum, ExpireSum, TaskPush, TQ!Submit, poolVars
      <4> QED
        BY <4>1 DEF TypeInv, ControlInv, ControlTypes
    <3>4. UNCHANGED <<run, cur>>
      BY <2>3 DEF Request, Receive, SetSum, ExpireSum, TaskPush, runnerVars
    <3> QED
      BY <2>1, <3>2, <3>3, <3>4
  <2>4. ASSUME NEW p \in Polls, runState(p) PROVE \E u \in Subs : Timer(f, i, u)'
    <3>1. UNCHANGED <<running, req, run, cur>>
      BY <2>4 DEF runState, PollSum, PollCase, PollInsert, PollDel, poolVars, runnerVars
    <3>2. CASE UNCHANGED redisVars
      BY <2>1, <2>2, <3>1, <3>2 DEF redisVars
    <3>3. CASE PollDel(p)
      <4>1. poll[p].file \in Files /\ poll[p].i \in Keys
        BY <3>3, CasesAreKeys DEF PollDel, TypeInv, PollInv, UnderWay
      <4>2. RedisDel(poll[p].file, poll[p].i)
        BY <3>3 DEF PollDel, CaseDeleted
      <4>3. redis[f][i] # None /\ ~ttl[f][i]
        BY <4>1, <4>2, UntimedKeys
      <4> QED
        BY <2>1, <3>1, <4>3
    <3> QED
      BY <2>4, <3>2, <3>3 DEF runState, PollSum, PollCase, PollInsert
  <2>5. ASSUME NEW g \in Files, NEW k \in Keys, KeyExpires(g, k)
        PROVE  \E u \in Subs : Timer(f, i, u)'
    <3>1. UNCHANGED <<running, req, run, cur>> /\ Gone(g, k)
      BY <2>5 DEF KeyExpires, poolVars, runnerVars
    <3>2. redis[f][i] # None /\ ~ttl[f][i]
      BY <3>1, UntimedKeys
    <3> QED
      BY <2>1, <3>1, <3>2
  <2>6. CASE Start \/ UNCHANGED vars \/ \E g \in Files : ChangeCases(g)
    <3>1. UNCHANGED <<req, run, cur, redis, ttl>> /\ running \subseteq running'
      BY <2>6 DEF Start, TQ!Start, vars, ChangeCases, poolVars, runnerVars, redisVars
    <3> QED
      BY <2>1, <3>1
  <2>7. CASE Restart
    <3>1. UNCHANGED <<run, cur, redis, ttl>>
          /\ req' = [s \in Subs |-> IF Ended(s) THEN req[s] ELSE "lost"]
      BY <2>7 DEF Restart, redisVars
    <3>2. \A s \in running : ~Ended(s)
      BY RunnerFacts DEF Ended
    <3> QED
      BY <2>1, <3>1, <3>2
  <2> QED
    BY <2>3, <2>4, <2>5, <2>6, <2>7, RunnerTimes DEF Next
<1> QED
  BY <1>1, <1>2, TypeInvHolds, PTL DEF Spec
=============================================================================
