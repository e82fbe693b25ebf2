---------------------------- MODULE JudgePipeline ----------------------------
(***************************************************************************)
(* Judging a submission (OJ_Judge/code/judge.cpp): runCpp stores the code  *)
(* and resets the counters, TaskPush hands the submission to the thread    *)
(* pool, cpp_runner compiles it, runs it on every test case in the one     *)
(* sandbox and leaves the results in Redis, and runState, polled by the    *)
(* page, reads them, records the verdict and clears them.                  *)
(*                                                                         *)
(* Requests, runners and polls interleave: every command, file operation   *)
(* and Redis or MySQL query on state that another of them may touch is a   *)
(* step.  The submissions of one user to one problem share a file name,    *)
(* and with it the source, the executable, the outputs and the Redis keys. *)
(* The server may be stopped or crash at any point and is started again,   *)
(* and a Redis or MySQL query may fail, which the code logs and passes by, *)
(* or a command in the sandbox, which it counts.  g++ fails only on what   *)
(* it is given, and rm never.  A request or a poll that is refused at once *)
(* (no token, no problem) touches none of this and is left out, and so is  *)
(* the Redis key "Judge:<file>", which is written and never read.          *)
(***************************************************************************)
EXTENDS Integers, Sequences, FiniteSets

CONSTANTS
    Subs,       \* the submissions
    Files,      \* the file names: user_name + "__" + porblem_title
    FileOf,     \* the file name of each submission
    Polls,      \* the requests for the status of a file
    NumCases,   \* test_num, in problems_cpp, of the problems
    Tests,      \* the test cases that are ever uploaded, the first NumCases of them
                \* with the problem
    Rows,       \* the bound on ChangeCases: the rows that test_cases may come to hold
    MaxRows,    \* and how many they are at most
    Program,    \* what each submission does: whether it compiles, and for each
                \* test case "right", "wrong" or "crash" (or out of time or memory)
    Size,       \* the length of the text of each submission
    Capacity,   \* the pool's maxNum
    None,       \* no submission, no executable, no key
    Overlap,    \* whether a user may submit before the verdict on an earlier
                \* submission to the same problem is there
    OnePage,    \* whether a poll is sent only when the one before has been answered
    Expiry,     \* whether a Redis key with a time to live may expire
    MayWipe,    \* whether the rows of test_cases may be deleted and uploaded anew
    MayRestart, \* whether the server may stop, or crash, and be started again
    Lossy,      \* the files for which a query may fail
    Failing     \* the submissions for which a command in the sandbox may fail

Cases == 0..(NumCases - 1)
Indices == 0..(MaxRows - 1)     \* of the rows that a task is given

ASSUME JudgeAssumption ==
    /\ FileOf \in [Subs -> Files]
    /\ NumCases \in Nat \ {0}
    /\ MaxRows \in Nat /\ NumCases <= MaxRows
    /\ Cases \subseteq Tests
    /\ Rows \subseteq Seq(Tests) /\ \A r \in Rows : Len(r) <= MaxRows
    /\ Program \in [Subs -> [compiles : BOOLEAN,
                             case : [Tests -> {"right", "wrong", "crash"}]]]
    /\ Size \in [Subs -> Nat \ {0}]
    /\ Capacity \in Nat \ {0}
    /\ None \notin Subs \cup Tests \cup Int
    /\ {Overlap, OnePage, Expiry, MayWipe, MayRestart} \subseteq BOOLEAN
    /\ Lossy \subseteq Files /\ Failing \subseteq Subs

VARIABLES
    submitted, pending, running, finished,  \* the pool: see TaskQueue
    cases,      \* per file: the test cases of the rows of its problem in test_cases
    src,        \* per file: the text of <file>.cpp, a sequence of the submissions
                \* whose text is there, unit by unit; <<>> when there is no file
    exe,        \* per file: the submission <file>__run was built from, or None
    out,        \* per file and index: the output that is there, which is known by the
                \* test case and by what the program did on it
    hasty,      \* history: the submissions that came when the runner of an earlier one
                \* had not removed the files yet
    redis, ttl, \* per file and key: the value, and whether it will expire
    req,        \* per submission: where its request is
    run,        \* per submission: where its runner is
    built,      \* per submission: what the compiler is about to write
    total,      \* per submission: the test_num of its runner's task
    tests,      \* per submission: the test_vec of the task, the test cases
    cur,        \* per submission: the runner's i
    failed,     \* per submission: whether the runner's status is not 0
    lock,       \* the holder of the sandbox's mutex
    box,        \* the sandbox: the executable, the input and the output in it
    poll,       \* per poll: where it is and what it has read
    results     \* the rows of submissions: who inserted them, the file, the result

TQ == INSTANCE TaskQueue WITH Tasks <- Subs

poolVars == <<submitted, pending, running, finished>>
fileVars == <<src, exe, out, hasty>>
redisVars == <<redis, ttl>>
runnerVars == <<run, built, total, tests, cur, failed>>
sandboxVars == <<lock, box>>
pollVars == <<poll, results>>
vars == <<poolVars, cases, fileVars, redisVars, req, runnerVars, sandboxVars, pollVars>>

Sum == -1                       \* the key "Judge:<file>__sum"
Keys == Indices \cup {Sum}      \* and the keys "Judge:<file>_<i>"

NoOutput == <<None, "none">>
EmptyBox == [exe |-> None, case |-> None, output |-> NoOutput]
NoPoll == [at |-> "idle", file |-> None, sum |-> None, complete |-> TRUE, i |-> 0]

Init ==
    /\ TQ!Init
    /\ cases = [f \in Files |-> [n \in 1..NumCases |-> n - 1]]
    /\ src = [f \in Files |-> <<>>]
    /\ exe = [f \in Files |-> None]
    /\ out = [f \in Files |-> [i \in Indices |-> NoOutput]]
    /\ hasty = {}
    /\ redis = [f \in Files |-> [k \in Keys |-> None]]
    /\ ttl = [f \in Files |-> [k \in Keys |-> FALSE]]
    /\ req = [s \in Subs |-> "unsent"]
    /\ run = [s \in Subs |-> "compile"]
    /\ built = [s \in Subs |-> None]
    /\ total = [s \in Subs |-> 0]
    /\ tests = [s \in Subs |-> <<>>]
    /\ cur = [s \in Subs |-> 0]
    /\ failed = [s \in Subs |-> FALSE]
    /\ lock = None
    /\ box = EmptyBox
    /\ poll = [p \in Polls |-> NoPoll]
    /\ results = {}

-----------------------------------------------------------------------------
(* Redis.  SET takes the time to live away, INCR of a missing key makes one  *)
(* that has none, EXPIRE and DEL of a missing key do nothing.  An error is   *)
(* caught and logged: the command is lost, and a read finds nothing.         *)

RedisError(f) == f \in Lossy /\ UNCHANGED redisVars

RedisSet(f, k, v) ==
    \/ /\ redis' = [redis EXCEPT ![f][k] = v]
       /\ ttl' = [ttl EXCEPT ![f][k] = FALSE]
    \/ RedisError(f)

Incremented(v) == IF v = None THEN 1 ELSE v + 1

\* Mutant: an INCR whose answer is lost is sent again.
RedisIncrAgain(f, k) ==
    \/ /\ \E v \in {Incremented(redis[f][k]), Incremented(redis[f][k]) + 1} :
             redis' = [redis EXCEPT ![f][k] = v]
       /\ UNCHANGED ttl
    \/ RedisError(f)

RedisIncr(f, k) ==
    \/ /\ redis' = [redis EXCEPT ![f][k] = Incremented(@)]
       /\ UNCHANGED ttl
    \/ RedisError(f)

RedisExpire(f, k) ==
    \/ /\ ttl' = [ttl EXCEPT ![f][k] = redis[f][k] # None]
       /\ UNCHANGED redis
    \/ RedisError(f)

Gone(f, k) ==
    /\ redis' = [redis EXCEPT ![f][k] = None]
    /\ ttl' = [ttl EXCEPT ![f][k] = FALSE]

RedisDel(f, k) == Gone(f, k) \/ RedisError(f)

\* What my_sync_check_token may return.
RedisGet(f, k) == {redis[f][k]} \cup (IF f \in Lossy THEN {None} ELSE {})

KeyExpires(f, k) ==
    /\ Expiry
    /\ ttl[f][k]
    /\ Gone(f, k)
    /\ UNCHANGED <<poolVars, cases, fileVars, req, runnerVars, sandboxVars, pollVars>>

\* add_test_out adds a row for a test case, whether or not there is one already;
\* add_problem on the title of a problem that exists deletes them all.
ChangeCases(f) ==
    /\ MayWipe
    /\ \/ cases' = [cases EXCEPT ![f] = <<>>]
       \/ \E c \in Tests : /\ Append(cases[f], c) \in Rows
                          /\ cases' = [cases EXCEPT ![f] = Append(@, c)]
    /\ UNCHANGED <<poolVars, fileVars, redisVars, req, runnerVars, sandboxVars, pollVars>>

-----------------------------------------------------------------------------
(* runCpp and TaskPush *)

Text(s) == [n \in 1..Size[s] |-> s]

\* open() without O_TRUNC: what is longer than the new text stays behind it.
Overwrite(old, new) == new \o SubSeq(old, Len(new) + 1, Len(old))

\* Mutant: the loop over the cases goes one too far.
PastLastCase(s) == cur[s] = total[s]

LastCase(s) == cur[s] + 1 = total[s]

\* Nothing is left to do for the submission.
Ended(s) == \/ req[s] \in {"unsent", "refused", "lost"}
            \/ req[s] = "accepted" /\ s \in finished

\* The verdict on the submission is there to be seen: the sum is below 0, or every key
\* is set and counted.  What the runner has left to do is some EXPIRE, and the rm's.
Judged(s) ==
    \/ Ended(s)
    \/ /\ req[s] = "accepted"
       /\ \/ run[s] \in {"crashExpire", "brokenExpire", "rmSrc", "rmExe"}
          \/ run[s] = "expire" /\ LastCase(s)

Receive(s) ==
    /\ req[s] = "unsent"
    /\ Overlap \/ \A u \in Subs : FileOf[u] = FileOf[s] => Judged(u)
    /\ src' = [src EXCEPT ![FileOf[s]] = Overwrite(@, Text(s))]
    /\ hasty' = IF \A u \in Subs : FileOf[u] = FileOf[s] => Ended(u) THEN hasty
                ELSE hasty \cup {s}
    /\ req' = [req EXCEPT ![s] = "setSum"]
    /\ UNCHANGED <<poolVars, cases, exe, out, redisVars, runnerVars, sandboxVars, pollVars>>

\* Mutant: the sum is set only if there is none yet.
KeepSum(f) == IF redis[f][Sum] = None THEN RedisSet(f, Sum, 0) ELSE UNCHANGED redisVars

ResetSum(f) == RedisSet(f, Sum, 0)

SetSum(s) ==
    /\ req[s] = "setSum"
    /\ ResetSum(FileOf[s])
    /\ req' = [req EXCEPT ![s] = "expireSum"]
    /\ UNCHANGED <<poolVars, cases, fileVars, runnerVars, sandboxVars, pollVars>>

ExpireSum(s) ==
    /\ req[s] = "expireSum"
    /\ RedisExpire(FileOf[s], Sum)
    /\ req' = [req EXCEPT ![s] = "select"]
    /\ UNCHANGED <<poolVars, cases, fileVars, runnerVars, sandboxVars, pollVars>>

\* The callback of the query for the test cases; the reply is sent after it.
TaskPush(s) ==
    /\ req[s] = "select"
    /\ \/ /\ cases[FileOf[s]] = <<>> \/ FileOf[s] \in Lossy
          /\ req' = [req EXCEPT ![s] = "refused"]
          /\ UNCHANGED <<poolVars, total, tests>>
       \/ /\ cases[FileOf[s]] # <<>>
          /\ TQ!Submit(s)
          /\ total' = [total EXCEPT ![s] = Len(cases[FileOf[s]])]
          /\ tests' = [tests EXCEPT ![s] = cases[FileOf[s]]]
          /\ req' = [req EXCEPT ![s] = "accepted"]
    /\ UNCHANGED <<cases, fileVars, redisVars, run, built, cur, failed, sandboxVars, pollVars>>

Request(s) == Receive(s) \/ SetSum(s) \/ ExpireSum(s) \/ TaskPush(s)

-----------------------------------------------------------------------------
(* cpp_runner *)

At(s, pc) == s \in running /\ run[s] = pc
Goto(s, pc) == run' = [run EXCEPT ![s] = pc]

\* A thread of the pool takes the next task.
Start ==
    /\ TQ!Start
    /\ UNCHANGED <<cases, fileVars, redisVars, req, runnerVars, sandboxVars, pollVars>>

\* What g++ may build from a text: nothing from a missing file, and from a text with
\* the end of an older one behind it, nothing or the newer program.
Builds(text) ==
    IF text = <<>> THEN {None}
    ELSE (IF Program[text[1]].compiles THEN {text[1]} ELSE {None})
         \cup (IF text = Text(text[1]) THEN {} ELSE {None})

\* g++ reads the source ...
Compile(s) ==
    /\ At(s, "compile")
    /\ \E b \in Builds(src[FileOf[s]]) : built' = [built EXCEPT ![s] = b]
    /\ Goto(s, "link")
    /\ UNCHANGED <<poolVars, cases, fileVars, redisVars, req, total, tests, cur, failed,
                   sandboxVars, pollVars>>

\* ... and writes the executable, or fails.
Link(s) ==
    /\ At(s, "link")
    /\ \/ /\ built[s] = None
          /\ Goto(s, "brokenRmSrc")
          /\ UNCHANGED exe
       \/ /\ built[s] # None
          /\ exe' = [exe EXCEPT ![FileOf[s]] = built[s]]
          /\ Goto(s, "lock")
    /\ UNCHANGED <<poolVars, cases, src, out, hasty, redisVars, req, built, total, tests, cur,
                   failed, sandboxVars, pollVars>>

\* Mutant: the mutex is not waited for.
AnyTime == TRUE

Unlocked == lock = None

\* A command in the sandbox that fails: all it does is add to the runner's status.
CommandFails(s) == s \in Failing /\ failed' = [failed EXCEPT ![s] = TRUE]

\* pthread_mutex_lock(&lock) and isolate --init.
BoxInit(s) ==
    /\ At(s, "lock")
    /\ Unlocked
    /\ lock' = s
    /\ \/ box' = EmptyBox /\ UNCHANGED failed
       \/ CommandFails(s) /\ UNCHANGED box
    /\ Goto(s, "copyIn")
    /\ UNCHANGED <<poolVars, cases, fileVars, redisVars, req, built, total, tests, cur,
                   pollVars>>

\* The test case that the runner is at.
TestOf(s) == tests[s][cur[s] + 1]

\* cp of the executable, which fails when there is none, and of the input.
CopyIn(s) ==
    /\ At(s, "copyIn")
    /\ \/ /\ box' = [exe |-> exe[FileOf[s]], case |-> TestOf(s), output |-> box.output]
          /\ failed' = [failed EXCEPT ![s] = @ \/ exe[FileOf[s]] = None]
       \/ CommandFails(s) /\ UNCHANGED box
    /\ Goto(s, "run")
    /\ UNCHANGED <<poolVars, cases, fileVars, redisVars, req, built, total, tests, cur, lock,
                   pollVars>>

\* What the executable in the sandbox does on the input there: it fails without either.
Outcome == IF box.exe = None \/ box.case = None THEN "crash"
           ELSE Program[box.exe].case[box.case]

\* isolate --run: its status is not 0 when the program fails or is missing.
BoxRun(s) ==
    /\ At(s, "run")
    /\ \/ /\ box' = [box EXCEPT !.output = <<box.case, Outcome>>]
          /\ failed' = [failed EXCEPT ![s] = @ \/ Outcome = "crash"]
       \/ CommandFails(s) /\ UNCHANGED box
    /\ Goto(s, "copyOut")
    /\ UNCHANGED <<poolVars, cases, fileVars, redisVars, req, built, total, tests, cur, lock,
                   pollVars>>

\* Mutant: the mutex is kept.
NoUnlock == UNCHANGED lock

Unlock == lock' = None

\* cp of the output, isolate --cleanup and pthread_mutex_unlock(&lock); after the
\* last case the outputs are compared if every command has gone well.
CopyOut(s) ==
    /\ At(s, "copyOut")
    /\ \/ /\ out' = [out EXCEPT ![FileOf[s]][cur[s]] = box.output]
          /\ box' = EmptyBox
          /\ UNCHANGED failed
       \/ CommandFails(s) /\ UNCHANGED <<out, box>>
    /\ Unlock
    /\ \/ /\ ~LastCase(s)
          /\ cur' = [cur EXCEPT ![s] = @ + 1]
          /\ Goto(s, "lock")
       \/ /\ LastCase(s)
          /\ cur' = [cur EXCEPT ![s] = 0]
          /\ Goto(s, IF failed'[s] THEN "crashSet" ELSE "compare")
    /\ UNCHANGED <<poolVars, cases, src, exe, hasty, redisVars, req, built, total, tests,
                   pollVars>>

\* file_cmp and the SET of the test case's key.
Compare(s) ==
    /\ At(s, "compare")
    /\ LET equal == out[FileOf[s]][cur[s]] = <<TestOf(s), "right">>
       IN  /\ RedisSet(FileOf[s], cur[s], IF equal THEN 1 ELSE -1)
           /\ Goto(s, IF equal THEN "count" ELSE "expire")
    /\ UNCHANGED <<poolVars, cases, fileVars, req, built, total, tests, cur, failed,
                   sandboxVars, pollVars>>

Count(s) ==
    /\ At(s, "count")
    /\ RedisIncr(FileOf[s], Sum)
    /\ Goto(s, "expire")
    /\ UNCHANGED <<poolVars, cases, fileVars, req, built, total, tests, cur, failed, sandboxVars,
                   pollVars>>

\* Mutant: the time to live goes to the wrong key.
SumExpires(s) == RedisExpire(FileOf[s], Sum)

CaseExpires(s) == RedisExpire(FileOf[s], cur[s])

ExpireCase(s) ==
    /\ At(s, "expire")
    /\ CaseExpires(s)
    /\ \/ /\ ~LastCase(s)
          /\ cur' = [cur EXCEPT ![s] = @ + 1]
          /\ Goto(s, "compare")
       \/ /\ LastCase(s)
          /\ UNCHANGED cur
          /\ Goto(s, "rmSrc")
    /\ UNCHANGED <<poolVars, cases, fileVars, req, built, total, tests, failed, sandboxVars,
                   pollVars>>

\* The sum is set to -3 after a command that failed, to -2 when g++ did.
SetCode(s) ==
    /\ \/ At(s, "crashSet") /\ RedisSet(FileOf[s], Sum, -3) /\ Goto(s, "crashExpire")
       \/ At(s, "brokenSet") /\ RedisSet(FileOf[s], Sum, -2) /\ Goto(s, "brokenExpire")
    /\ UNCHANGED <<poolVars, cases, fileVars, req, built, total, tests, cur, failed, sandboxVars,
                   pollVars>>

ExpireCode(s) ==
    /\ \/ At(s, "crashExpire") /\ Goto(s, "rmSrc") /\ UNCHANGED poolVars
       \/ At(s, "brokenExpire") /\ Goto(s, "done") /\ TQ!Finish(s)
    /\ RedisExpire(FileOf[s], Sum)
    /\ UNCHANGED <<cases, fileVars, req, built, total, tests, cur, failed, sandboxVars, pollVars>>

\* Mutant: the source is removed only when g++ has failed.
RemovedIfBroken(s) == IF At(s, "rmSrc") THEN src ELSE [src EXCEPT ![FileOf[s]] = <<>>]

Removed(s) == [src EXCEPT ![FileOf[s]] = <<>>]

RemoveSource(s) ==
    /\ \/ At(s, "rmSrc") /\ Goto(s, "rmExe")
       \/ At(s, "brokenRmSrc") /\ Goto(s, "brokenRmExe")
    /\ src' = Removed(s)
    /\ UNCHANGED <<poolVars, cases, exe, out, hasty, redisVars, req, built, total, tests, cur,
                   failed, sandboxVars, pollVars>>

RemoveExecutable(s) ==
    /\ \/ At(s, "rmExe") /\ Goto(s, "done") /\ TQ!Finish(s)
       \/ At(s, "brokenRmExe") /\ Goto(s, "brokenSet") /\ UNCHANGED poolVars
    /\ exe' = [exe EXCEPT ![FileOf[s]] = None]
    /\ UNCHANGED <<cases, src, out, hasty, redisVars, req, built, total, tests, cur, failed,
                   sandboxVars, pollVars>>

cpp_runner(s) ==
    \/ Compile(s) \/ Link(s) \/ BoxInit(s) \/ CopyIn(s) \/ BoxRun(s) \/ CopyOut(s)
    \/ Compare(s) \/ Count(s) \/ ExpireCase(s) \/ SetCode(s) \/ ExpireCode(s)
    \/ RemoveSource(s) \/ RemoveExecutable(s)

-----------------------------------------------------------------------------
(* runState *)

UnderWay(p) == poll[p].at \notin {"idle", "done"}

\* The callback of the query for test_num: the sum first ...
PollSum(p, f) ==
    /\ poll[p].at = "idle"
    /\ OnePage => \A q \in Polls : ~UnderWay(q)
    /\ \E v \in RedisGet(f, Sum) :
          poll' = [poll EXCEPT ![p] = [at |-> "cases", file |-> f, sum |-> v,
                                       complete |-> TRUE, i |-> 0]]
    /\ UNCHANGED <<poolVars, cases, fileVars, redisVars, req, runnerVars, sandboxVars, results>>

\* ... then the key of each case; a missing one counts as unfinished.
PollCase(p) ==
    /\ poll[p].at = "cases"
    /\ \E v \in RedisGet(poll[p].file, poll[p].i) :
          LET complete == poll[p].complete /\ v # None
          IN  poll' = [poll EXCEPT
                ![p] = [at |-> IF @.i + 1 < NumCases THEN "cases"
                               ELSE IF complete THEN "insert" ELSE "done",
                        file |-> @.file, sum |-> @.sum, complete |-> complete,
                        i |-> (@.i + 1) % NumCases]]
    /\ UNCHANGED <<poolVars, cases, fileVars, redisVars, req, runnerVars, sandboxVars, results>>

PollInsert(p) ==
    /\ poll[p].at = "insert"
    /\ \/ results' = results \cup
             {[poll |-> p, file |-> poll[p].file,
               result |-> IF poll[p].sum = NumCases THEN "Pass" ELSE "Unpass"]}
       \/ poll[p].file \in Lossy /\ UNCHANGED results
    /\ poll' = [poll EXCEPT ![p].at = "del"]
    /\ UNCHANGED <<poolVars, cases, fileVars, redisVars, req, runnerVars, sandboxVars>>

\* Mutant: the sum is deleted in place of the cases.
SumDeleted(p) == RedisDel(poll[p].file, Sum)

CaseDeleted(p) == RedisDel(poll[p].file, poll[p].i)

\* The keys of the cases are deleted, one query each; the sum is left.
PollDel(p) ==
    /\ poll[p].at = "del"
    /\ CaseDeleted(p)
    /\ poll' = [poll EXCEPT
          ![p] = [at |-> IF @.i + 1 < NumCases THEN "del" ELSE "done", file |-> @.file,
                  sum |-> @.sum, complete |-> @.complete, i |-> (@.i + 1) % NumCases]]
    /\ UNCHANGED <<poolVars, cases, fileVars, req, runnerVars, sandboxVars, results>>

runState(p) ==
    \/ \E f \in Files : PollSum(p, f)
    \/ PollCase(p) \/ PollInsert(p) \/ PollDel(p)

-----------------------------------------------------------------------------
(* The server ends, by SIGINT or by a crash, and the commands of its runners *)
(* with it; the queue, the requests and the polls are gone, the files, the   *)
(* tables and Redis are still there when it starts again.                    *)

Restart ==
    /\ MayRestart
    /\ (\E s \in Subs : ~Ended(s)) \/ \E p \in Polls : UnderWay(p)
    /\ req' = [s \in Subs |-> IF Ended(s) THEN req[s] ELSE "lost"]
    /\ poll' = [p \in Polls |-> IF UnderWay(p) THEN [NoPoll EXCEPT !.at = "done"]
                                               ELSE poll[p]]
    /\ pending' = <<>>
    /\ running' = {}
    /\ built' = [s \in Subs |-> None]
    /\ failed' = [s \in Subs |-> FALSE]
    /\ lock' = None
    /\ UNCHANGED <<submitted, finished, cases, fileVars, redisVars, run, total, tests, cur, box,
                   results>>

-----------------------------------------------------------------------------
Next ==
    \/ Start \/ Restart
    \/ \E s \in Subs : Request(s) \/ cpp_runner(s)
    \/ \E p \in Polls : runState(p)
    \/ \E f \in Files : ChangeCases(f) \/ \E k \in Keys : KeyExpires(f, k)

Spec == Init /\ [][Next]_vars

(***************************************************************************)
(* A request that has been received is carried through, the pool starts    *)
(* the tasks it is given (ThreadPool's EveryTaskRuns) and every command of *)
(* a runner ends: the sandbox bounds a program's wall time.                *)
(***************************************************************************)
Fairness ==
    /\ WF_vars(Start)
    /\ \A s \in Subs : /\ WF_vars(SetSum(s) \/ ExpireSum(s) \/ TaskPush(s))
                       /\ WF_vars(cpp_runner(s))

FairSpec == Spec /\ Fairness
-----------------------------------------------------------------------------
(* Properties *)

RunnerStates == {"compile", "link", "lock", "copyIn", "run", "copyOut", "compare", "count",
                 "expire", "crashSet", "crashExpire", "rmSrc", "rmExe", "brokenRmSrc",
                 "brokenRmExe", "brokenSet", "brokenExpire", "done"}

Outputs == (Tests \cup {None}) \X {"none", "right", "wrong", "crash"}

\* The types of the files, keys and processes.  The source of a file is always one
\* whole text, the last one written, with at most a rest of older ones behind it, and
\* a runner never goes beyond the test cases that it was given, however many rows there
\* were and whatever becomes of them.
TypeOK ==
    /\ submitted \subseteq Subs /\ running \subseteq Subs /\ finished \subseteq Subs
    /\ pending \in Seq(Subs)
    /\ cases \in [Files -> Seq(Tests)]
    /\ src \in [Files -> Seq(Subs)]
    /\ \A f \in Files : src[f] # <<>> =>
          /\ Len(src[f]) >= Size[src[f][1]]
          /\ SubSeq(src[f], 1, Size[src[f][1]]) = Text(src[f][1])
    /\ exe \in [Files -> Subs \cup {None}]
    /\ out \in [Files -> [Indices -> Outputs]]
    /\ hasty \subseteq Subs
    /\ redis \in [Files -> [Keys -> Int \cup {None}]]
    /\ ttl \in [Files -> [Keys -> BOOLEAN]]
    /\ req \in [Subs -> {"unsent", "setSum", "expireSum", "select", "accepted", "refused",
                      "lost"}]
    /\ run \in [Subs -> RunnerStates]
    /\ built \in [Subs -> Subs \cup {None}]
    /\ tests \in [Subs -> Seq(Tests)]
    /\ total = [s \in Subs |-> Len(tests[s])]
    /\ cur \in [Subs -> Nat]
    /\ \A s \in submitted : cur[s] < total[s]
    /\ failed \in [Subs -> BOOLEAN]
    /\ lock \in Subs \cup {None}
    /\ box \in [exe : Subs \cup {None}, case : Tests \cup {None}, output : Outputs]
    /\ poll \in [Polls -> [at : {"idle", "cases", "insert", "del", "done"},
                           file : Files \cup {None}, sum : Int \cup {None},
                           complete : BOOLEAN, i : Cases]]
    /\ results \subseteq [poll : Polls, file : Files, result : {"Pass", "Unpass"}]

AllRight(s) ==
    /\ Program[s].compiles
    /\ \A i \in Cases : Program[s].case[i] = "right"

SubsOf(f) == {s \in Subs : FileOf[s] = f}

\* The rows of the submission's task on which its output is right.
RightRows(s) == {n \in 1..Len(tests[s]) : Program[s].case[tests[s][n]] = "right"}

\* "Pass" is recorded for a user and a problem only if a submission of theirs really
\* gave the right output on as many rows of its own task as the problem has test cases,
\* whatever polls, restarts and changes of the test cases come in between.  As many rows,
\* and not all of the cases: while the test cases are uploaded once more there are two
\* rows for each, and half of the cases may do.
PassIsEarned ==
    \A r \in results : r.result = "Pass" =>
        \E s \in SubsOf(r.file) \cap submitted :
            Program[s].compiles /\ Cardinality(RightRows(s)) >= NumCases

\* The sum of a user who submits once to a problem never says more than the submission
\* has earned on the rows of its task, even when keys expire, queries and commands fail,
\* test cases come and go and the server is restarted: what is lost only ever lowers it.
SumIsEarned ==
    \A s \in Subs : SubsOf(FileOf[s]) = {s} /\ redis[FileOf[s]][Sum] # None =>
        redis[FileOf[s]][Sum] <= Cardinality(RightRows(s))

\* Polls that do not overlap record no verdict twice: each of them finds the keys of
\* one more judged submission, and deletes them before the next one looks.  Only one
\* cut short by a restart, after it recorded the verdict, leaves them to the next.
RecordedOnce ==
    LET Cut == {p \in Polls : poll[p].at = "done" /\ poll[p].file = None}
    IN  \A f \in Files :
            Cardinality({r \in results : r.file = f})
                <= Cardinality(SubsOf(f) \cap submitted) + Cardinality(Cut)

\* The source of an earlier, longer submission may still be there: it was refused for
\* want of test cases, or a restart came before its runner removed it.
LeftBehind(s) ==
    \E u \in SubsOf(FileOf[s]) \ {s} : Size[u] > Size[s] /\ req[u] \in {"refused", "lost"}

\* The output of s on a test case.
OutputOf(s, c) == <<c, Program[s].case[c]>>

Crashes(s) == \E n \in 1..Len(tests[s]) : Program[s].case[tests[s][n]] = "crash"

\* What cpp_runner finds out about s is so: it compares the outputs of s itself, on the
\* test cases of its task.  It gives -2 only if s does not compile or an older text was
\* left behind it, and -3 only if s compiles and then fails, or a command has failed; a
\* hasty submission, though, may get either, for the files that an earlier runner
\* removes are its own.
JudgedFairly(s) ==
    /\ run[s] \in {"compare", "count"} =>
          \A n \in 1..total[s] : out[FileOf[s]][n - 1] = OutputOf(s, tests[s][n])
    /\ run[s] \in {"brokenRmSrc", "brokenRmExe", "brokenSet", "brokenExpire"} =>
          ~Program[s].compiles \/ LeftBehind(s) \/ s \in hasty
    /\ run[s] \in {"crashSet", "crashExpire"} =>
          Program[s].compiles /\ (Crashes(s) \/ s \in Failing \cup hasty)

\* Every submission is judged by what it does itself, though all runners share one
\* sandbox, the files of a user are used again by the next submission, which may come
\* before the runner of the last one has removed them, and a restart leaves files and a
\* sandbox in any state.
VerdictsAreOwn == \A s \in running : JudgedFairly(s)

\* A submission that compiles, and has nothing of an older text behind it, is not told
\* that it does not, if its user waits for the verdict on the one before.
CompilesIfItDoes ==
    \A s \in running : run[s] = "brokenExpire" => ~Program[s].compiles \/ LeftBehind(s)

\* A user who submits once to a problem is judged by what the submission does, however
\* other users' submissions overlap and whenever the server is restarted.
OthersDoNoHarm == \A s \in running : SubsOf(FileOf[s]) = {s} => JudgedFairly(s)

\* The result of a test case does not stay in Redis for ever: a key that has no time
\* to live is about to be given one by the runner that set it, unless the server was
\* restarted between the two commands.
CaseKeysExpire ==
    \A f \in Files, i \in Indices : redis[f][i] # None /\ ~ttl[f][i] =>
        \E s \in SubsOf(f) : /\ s \in running \/ req[s] = "lost"
                             /\ cur[s] = i
                             /\ run[s] \in {"count", "expire"}

\* A submission that is answered with 200 is judged to the end, or lost in a restart:
\* no runner waits for ever for the sandbox, whatever another one's restart left.
AcceptedIsJudged ==
    \A s \in Subs : req[s] = "accepted" ~> s \in finished \/ req[s] = "lost"

\* "Unpass" is recorded only if some submission did not give the right output on
\* every test case.
UnpassIsEarned ==
    \A r \in results : r.result = "Unpass" =>
        \E s \in SubsOf(r.file) \cap submitted : ~AllRight(s)
=============================================================================
