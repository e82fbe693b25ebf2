# A TLA+ model of OJ_sys, an online judge

OJ_sys is a small online judge for C++: nginx serves static pages and passes
`/api/` to a C++ server (`OJ_Judge/code`), built on the wfrest and workflow
libraries. The server keeps accounts, problems, test cases and verdicts in MySQL,
tokens, counters and the results of a judging in Redis, and sources, executables
and outputs in files. A submission is judged by a task of the server's own thread
pool, which compiles it and runs it on every test case in the `isolate` sandbox.

This directory holds TLA+ modules for the server's components, with the failures
they meet (restarts, lost queries, failing commands, keys that expire), the TLC configurations that
check them on small instances, and proofs, checked by TLAPS, of the safety properties of
those runs, and of the refinements between the modules, for instances of any size.

## 1. Inventory

| Component | State | Operations | Interacts with | What is hard, and what makes it correct |
|---|---|---|---|---|
| Thread pool (`pthread_pool.{h,cpp}`) | `task_queue`, `threadID[]`, `busyNum`, `liveNum`, `exitNum`, `shutdown`, `waitTime`; the manager's `time` | `push`, `worker`, `manager`, `exitThread`, `wait`, destructor | called by `TaskPush`; runs `cpp_runner` | signals sent after the unlock, unlocked reads, requests to exit that are left over, termination. Counters count; a task is run once; every task is run; `wait` and the destructor return. |
| Judging (`judge.cpp`: `runCpp`, `TaskPush`, `cpp_runner`, `runState`) | source, executable and outputs under one name per user and problem; Redis keys `__sum` and `_i` with their times to live; sandbox 1 and its mutex; table `submissions` | one request per submission, one runner, any number of polls | pool, Redis, MySQL, g++, isolate, submit page | requests, runners and polls interleave at every query and command; keys expire; names are shared. Verdicts are earned; users do not disturb each other; what is accepted is judged. |
| Problem upload (`judge.cpp`: `add_test_in`, `add_test_out`, `add_problem`) | Redis mark of each input, counter of outputs, rows of `test_cases`, row of `problems_cpp` | one request per input, per output and per problem | staff dashboard's loop, Redis, MySQL | uploads left half way, marks that expire, counters that do not. What is published has all its cases once, and stays so. |
| Redis helpers (`judge.cpp:11-38`), commands and comparison (`:40-114`) | none | `redis_set_field`, `redis_incr`, `redis_expire`, `system_spawn_cmd`, `file_cmp` | `cpp_runner` | errors are swallowed; files are compared in blocks. What is lost never makes a verdict better than it was earned. |
| Accounts (`user_info.cpp`) | `user_table`, tokens in Redis for 259200 s, the buffer of `crypt()` | `userRegist`, `userLogin` | MySQL, Redis, all handlers through `my_sync_check_token` | handlers in several threads share the buffer; a token is made of the name and the second. Sessions are the user's own and end; roles are given by those who may; an account has its own password. |
| Parsing (`tool.cpp`) | none | `uriKV_get`, `url_decode`, `mysqlRespCheck`, `headerValueGet`, `my_sync_check_token` | all handlers | decoding comes before splitting; one page encodes and another does not. A value arrives as it was typed. |
| Problem list (`judge.cpp:660-695`, `stu-home.html:493-559`) | the page's `currentPage`, `isLoadingProblems` | `get_problem_list`, `loadProblems`, next, previous | MySQL | ids with gaps, problems added while a student turns pages. Nothing is left out. |
| Start-up, stop, configuration (`main.cpp`, `tool.h`) | `jsonManager`, `lock_list` (unused) | `main`, `signalHander`, `Free_func` | all | a stop loses the tasks in memory and leaves files, keys and rows half way. |
| Pages (`Nginx/html`), `nginx.conf` | the submit page's poll counter | forms, upload loop, polling | the server's routes | the submit button is enabled again when a verdict shows, or after ten polls, although the judging may go on. |
| `nginx-1.28.0`, `build`, `test_isolate` | | vendored, generated, a trial | | not modelled. |

`PROJECT.json` lists the same components with their status, the hazards of each at
the line where they bite, and for every definition the lines of code it stands for.

## 2. The modules

```
TaskQueue <--- refinement --- ThreadPool <-- MCThreadPool
    |                             ^
    | INSTANCE (the pool)         +-- ThreadPoolProofs
    v
JudgePipeline <-- MCJudgePipeline
    ^
    +-- JudgePipelineProofs <-- JudgeVerdictProofs <-- JudgeSumProofs
                 ^
                 +-- JudgeRecordProofs

ProblemUpload <-- MCProblemUpload
    ^
    +-- ProblemUploadProofs

Accounts <--- refinement -- Portal <-- MCPortal
                                ^
                                +-- PortalProofs

RequestTools, FileCompare, ProblemList <-- MCWeb
                ^
                +-- WebProofs

   (all other arrows: EXTENDS, from the module that extends)
```

### TaskQueue

What the judge asks of its pool, as an abstract specification: tasks are handed
over (`Submit`), started in that order, at most `Capacity` at a time (`Start`), and
end (`Finish`). `ThreadPool` implements it; `JudgePipeline` uses its actions in the
place of the pool, so that the two models fit together.

### ThreadPool

`pc[i]` is the place of the worker of slot `i` of `threadID[]` in `worker()`, `mgr`
the manager's in `manager()`, and `owner` that of the thread that calls `wait()` or
the destructor. A critical section of `mutexPool` or `mutexBusyNum` is one action.
Steps of their own are

* each `pthread_cond_signal`, which the code calls after it has unlocked
  (`PushSignal`, `WorkerSignal`, `ManagerSignal`, `DrainSignal`): a push and its
  signal are two steps, and between them any other thread may run;
* what the manager and the destructor read with no lock: the manager reads
  `busyNum` into `seen` and decides in a later step. A read of the queue's size
  that overlaps a push or a pop may give anything (`ManagerCheckTorn`);
* the clearing of the slot in `exitThread()`, done with no lock after `liveNum`
  was decremented, so that the manager may meanwhile count a worker as gone and
  find its slot still taken.

`pthread_cond_wait` may return with no signal (`SpuriousWake`), and
`pthread_create` may fail at any slot and leave a value in it. The order of the
slots is not kept: which of them are made before the first failure is any subset,
more than the code allows. `pushed` and `finished` are history variables. Once the
destructor has freed the pool its threads have no defined behaviour, and the model
stops them.

### JudgePipeline

Submissions, polls and file names are sets. A submission's file name,
`user_name + "__" + porblem_title`, decides which source, executable, outputs and
Redis keys it uses: `FileOf` says which submissions share one. What a submission's
program does on each case is a constant (`Program`), so that verdicts can be held
against it. Every command, file operation and query on shared state is an action;
`cpp_runner` locks the sandbox, initialises it, copies in, runs, copies out,
unlocks, for each case, then compares and counts case by case. The text of a file
is a sequence of units, because `open()` has no `O_TRUNC` and leaves the end of a
longer text behind a shorter one; what g++ makes of such a mixture is either choice.
A key's time to live is one bit, and a key that has one may expire at any time.

`test_num` of the table `problems_cpp` is `NumCases`, and the rows of `test_cases` are a
sequence, `cases`, that need not have that length: `add_test_out` adds a row whether or not
the case has one, and `add_problem` on a title that exists deletes them all, so that there
may be no row, some of them, or, while a published title is uploaded once more, two for
each case (`ChangeCases`; `Rows` and `MaxRows` bound it, and are any values in the
theorems). `TaskPush` copies the rows into the task (`tests`, `total`) and the runner goes
by these, while `runState` goes by `NumCases`. An output is known by the test case it is for
and by what the program did on it: the right outputs of two test cases are taken to differ,
and the text of a test file to be the same when it is uploaded again.

Failures:

* `Restart`: the server ends, by SIGINT or by a crash, at any point and is started
  again. The pool's queue, the requests and the polls are gone; files, tables, Redis
  and the contents of the sandbox are as they were. The commands of a runner are
  taken to end with the server, as they do when SIGINT reaches the process group. A
  submission that was cut has `req` = "lost".
* `Lossy`: a Redis command or a MySQL query fails at any time. The code logs it and
  goes on (`RedisError`), reads nothing (`RedisGet`), refuses a submission whose
  query for the test cases fails, and records no verdict when the INSERT fails.
  `Lossy` is the set of files whose queries may fail.
* `Failing`: the submissions for which a command in the sandbox may fail, the `init`, the
  copies, the run or the `cleanup`. It adds to the runner's status and does nothing else
  (`CommandFails`): the box, or the output, stays as it was, whoever filled it. `CopyIn` and
  `CopyOut` each stand for two commands, of which both or neither take effect: when only one
  has failed the status is not 0 all the same, and nothing that the round leaves is compared.
  The status is a sum, and is taken not to come back to 0 (a `posix_spawn` that fails adds
  -1, a command ended by SIGHUP adds 1). That g++ or `rm` fails on files it could use is
  left out.
* `Expiry`: a key that has a time to live expires at any time.

Left out: requests that are refused before they change anything, and the Redis key
`Judge:<file>`, which is written and never read.

`Overlap = FALSE` stands for a user who waits for the verdict before submitting to the
same problem again, as the submit page has its user wait by disabling the button
(`Judged`): until the sum is negative (`Judge.html:87-90`), or all keys are set and
counted (`:62-64`, `:95-97`). It does not wait for the runner to end: the last EXPIRE and
the two `rm`s are still to come, and a submission that arrives before them is `hasty`.
What happens to it is the finding of `judge_page`. The page enables its button earlier
than `Judged` in four cases: after ten polls (`:101-104`), when keys of an earlier
submission are still there, when the last key is set and its INCR is yet to come, and when
there are more rows than `test_num`. These, and a second window, are `Overlap = TRUE`,
under which `OthersDoNoHarm`, `SumIsEarned`, `RecordedOnce`, `CaseKeysExpire` and `TypeOK`
are proved too, and `PassIsEarned` fails (`judge_overlap`).
`OnePage` stands for polls each sent after the answer to the one before, which the page's
interval of a second makes likely and does not enforce.

### ProblemUpload

One title. `at[u]` is the next step of attempt `u`, of the dashboard's loop
("in", "out", "add") or inside a handler, whose queries are steps. The page may
leave between two requests, a mark may expire between any two steps. `Turns` says
that attempts come one after the other, `Again` that one may be begun although the
title is already published. `Restart` cuts every handler that is under way between
two of its queries. The texts of the test files and the token and role checks, which
refuse before any change, are left out. No query fails: the SET, EXPIRE, INCR, INSERT and
DEL of a test case have callbacks that are NULL, the handler answers 200 whatever becomes
of them, and after a failure nothing that is said here of counts and rows holds.

### Portal

Logins and registrations, each in a thread of its own. `crypt()` returns a pointer to
one buffer of the process: `userLogin` copies it at once (`LoginCopy`), `userRegist`
only after the token was looked up in Redis (`RegCheck`). The queries are steps. A
token is the pair of the name and the second it was made in, which is what
`md5(name + salt)` and the time of day tell apart; after a day a token may come again,
for the same user. The table starts with the accounts "admin" and "teacher", is taken
to refuse a second row with a name (the reply is 200 all the same), and a registration
carries the cookie of some login that was answered, or none. Names are those that
decoding leaves alone. That "admin" and "teacher" have the roles of these names is assumed
of the table: nothing in the repository makes the two accounts.

Every query may fail: a SELECT that fails is a user who is not found, a token that cannot
be looked up is nobody's, and the results of SET, EXPIRE and INSERT are not looked at. The
server may be restarted at any point (`Restart`): handlers under way are cut, and what they
have stored stays. `unlimited` is a history variable, of the tokens whose last EXPIRE
failed or was cut off.

`Accounts` is what the portal promises, with the steps of the handlers left out: an
account is made in one step by an account that may make it at that moment, and is never
changed or lost; a session is opened by somebody who has an account, under a token that
is free or their own, and ends. The rows of `user_table` are the accounts, the keys in
Redis the sessions (`ImplementsAccounts`).

### RequestTools, FileCompare and ProblemList

`RequestTools` follows two values from what a user types to what a handler finds. The
dashboard's request comes first, which encodes them, then the submit page's, which does
not (`Upload`, `Submit`); the handler decodes the URI and looks for the "?" (`Arrive`), and
the loop of `uriKV_get` takes one pair off the front in each round (`SplitPair`). `After`
gives the whole text when there is no separator, as `substr(npos + 1)` does, and the map
keeps the first value of a key. A text is a sequence of symbols, an escape such as `%26` is
one, whether a page made it or a user typed it: `Escape` is what the encoder makes of a
symbol (a typed `%41` becomes `%2541`), `Meaning` what the decoder makes of an escape. The
browser cuts an unencoded request at a "#". An escape that is no hexadecimal number leaves
`sscanf`'s variable without a value (`tool.cpp:33`); such texts are left out. `KeysOf` gives the names of a submission's files
and keys, each part joined to the next by "_" as in `runCpp` and `cpp_runner`.

`FileCompare` is `file_cmp`: the two files are opened, or cannot be, and then a block of
each is read and compared in each round.

`ProblemList` is `get_problem_list` with the student page's paging, while rows are added,
some of them not public; requests may fail. The query has no `ORDER BY`: rows are taken to
come in the order of the primary key, over which its condition ranges. (The page reads the
fields of a row by name while the server sends arrays, so what it shows of a row is mostly
empty: the model is about the rows that are sent.)

The three share no state: `MCWeb` checks them in one run, one at a time, each while the
others have not begun.

## 3. The runs

| Run | Checks | Shows |
|---|---|---|
| `pool_judge` | `TypeOK`, `EveryTaskRuns`, `ShrinkEnds`, no deadlock | The pool as the server uses it (never closed or destroyed): every task is run to its end, though a request to exit that was left over may take the worker that was woken for it. |
| `pool_api` | `LiveNumCounts`, `BusyNumCounts`, `TasksConserved`, `DefaultNeverCloses`, `WaitReturns`, `DestructorReturns`, `ImplementsTaskQueue` | The whole interface, with `wait()`, the destructor and failing `pthread_create`. A worker that ends by itself at `shutdown` (line 82) is not taken off `liveNum`; the destructor can wait for ever only after that. |
| `judge_turns` | `TypeOK`, `PassIsEarned`, `RecordedOnce`, `VerdictsAreOwn`, `CaseKeysExpire` | A user who submits twice, the second time as soon as a verdict is there, and polls, while test cases are deleted and uploaded again, one of them twice, and the server restarts: verdicts are own and earned, and recorded once; no result stays in Redis for ever unless a restart cuts SET from EXPIRE. |
| `judge_faults` | `SumIsEarned`, `OthersDoNoHarm`, `AcceptedIsJudged` | Two users at the same time, lost queries of one, failing commands of the other, expiring keys and restarts: a sum is never more than was earned, nobody is harmed by what another does, and nobody waits for the sandbox for ever. |
| `judge_poll` | `UnpassIsEarned`, violated | `runState` reads the sum before the cases: "Unpass" for a right submission. |
| `judge_overlap` | `PassIsEarned`, violated | Two overlapping half-right submissions add up to "Pass". |
| `judge_page` | `CompilesIfItDoes`, violated | A user who waits for the verdict, and no longer, loses the source of the next submission to the `rm` of the last one's runner: -2 for a program that compiles. |
| `upload_turns` | `TypeOK`, `PublishedIsComplete`, `NothingHidden` | Attempts left half way, or cut by a restart, never get a problem published with a wrong set of cases, nor block the title. |
| `upload_again` | `PublishedKeepsCases`, violated | A refused upload deletes the published problem's test cases. |
| `portal` | `SessionsAreOwn`, `SessionsExpire`, `SessionsHaveRoles`, `RolesAreGranted`, `ImplementsAccounts` | Logins within a second, tokens that expire, a registration by anybody, failing queries and restarts: sessions and roles are right, at the moment they are given, and a session is without end only where its EXPIRE failed or was cut off. |
| `portal_crypt` | `PasswordsAreOwn`, violated | An account is stored with the hash of another request's password. |
| `web` | `ValuesArrive`, `TitlesAgree`, `KeysApart`, `FilesCompared`, `NoneIsSkipped` | Which values survive decoding and splitting, when the two pages name the same problem, and that names without "_" share no file and no key; the comparison in blocks is equality, and says so of a missing file; the list leaves nothing out while problems are added and requests fail. |

Each violated property states what a comment or a page of the repository says; the
findings in `PROJECT.json` quote it. Each property of the other runs has a mutant in
`PROJECT.json`: a definition, changed as a plausible bug would change it, under which
TLC finds the property violated.

### Exceptions the passing properties make

Some properties hold only with an exception for what the code gets wrong. The
exceptions are part of the result:

* `DestructorReturns` excepts a worker that ended at line 82 of `pthread_pool.cpp`:
  it stays in `liveNum`, and the loop `while(liveNum)` at line 49 has no other end.
* `VerdictsAreOwn` and `OthersDoNoHarm` except, by `LeftBehind`, a source written over
  a longer one that a refused or lost submission left there: without `O_TRUNC`
  (`judge.cpp:291`) its end stays, and code that compiles is reported as -2. They except,
  by `hasty`, a submission that came before the runner of an earlier one had removed the
  files: it may get -2 or -3 for want of them, but is never compared on other outputs than
  its own.
* `PassIsEarned` asks for as many right rows of one task as the problem has test cases, and
  not for all test cases: while a published title is uploaded once more there are two rows
  for each case, and a program that is right on half of the cases reaches `test_num` and is
  recorded as "Pass". `PassIsRight`, which is proved for rows that do not change, is
  without this exception.
* `RecordedOnce` excepts polls that overlap (`OnePage`) and polls cut by a restart:
  either may record a verdict again.
* `CaseKeysExpire` excepts a restart between SET and EXPIRE, `AcceptedIsJudged` a
  submission that a restart has lost.
* `SessionsExpire` excepts, by `unlimited`, a token whose EXPIRE failed or was cut off by a
  restart after its last SET (`user_info.cpp:98-102`): that session has no end.
* `ValuesArrive`, `TitlesAgree` and `KeysApart` say exactly for which texts ("&"; "+", "#"
  and what looks like an escape; "_") the code goes wrong.

That the pool may shrink below `minNum`, though `pthread_pool.h:47` calls it the least
number of threads, is not stated by any run.

### Bounds

* Pool: two slots, two tasks, `minNum` 1. Two workers are enough for a signal to
  wake the wrong one, for one to exit while the other is created, and for the pool
  to fall below its minimum; two tasks for one to wait behind another.
  `IntMax = 4` lets the manager's clock wrap within a few rounds. `ExitBound = 2`:
  `exitNum` grows without limit in the code while nobody takes a request, and
  `Bumped` stops counting at the bound. That loses only requests beyond the number
  of workers, while the loops that make them go on making them. The theorems hold
  for every bound.
* Judging: two test cases, so that there is a first and a last one and two programs
  each right where the other is wrong; the pool's capacity 2. `judge_turns`: two
  submissions under one name and two polls, which are alike (`SYMMETRY SymmetricPolls`);
  keys do not expire and nothing fails there. The rows are none, the first, both, or the
  first one twice (`Attempts`), the least that shows a "Pass" for half of the cases; with
  four rows it is too long for a run. A change of the rows matters only to a request that
  is about to read them, so that it is made only then (`LateChanges`): any number of
  changes before it can be made one after the other at that time, and no other step reads
  `cases`. `judge_faults`: two submissions under two names, no poll, every failure, each
  kind for one of the two; the rows do not change there.
* Upload: four attempts with one, two, two and three cases: fewer, as many and more
  than what an abandoned attempt has left.
* Accounts: two seconds, so that logins fall into the same one or not; four logins, two
  of them of one user, which are alike and may be exchanged (`SYMMETRY Twins`), and one of
  somebody registered meanwhile.
* Texts: every pair of texts of up to two symbols, of ten that matter to the code, and
  longer ones that hold a pair or a key of their own; names of up to two symbols and case
  numbers of one and two digits for the keys. Files: all of up to five bytes of two
  kinds, with blocks of two, so that lengths fall on, before and behind the end of a
  block. The list: pages of two, ids up to six, four pages.

`CHECK_DEADLOCK FALSE` is set where the system really comes to rest: all submissions
judged, all attempts ended, the pool closed or destroyed. In
`pool_judge` the manager never stops and deadlock is checked.

### Fairness

The threads of the pool are weakly fair: a thread that can run does run, every
task's function returns (the commands of a runner end; the sandbox limits a
program's wall time to two seconds), and the loops of the manager and the
destructor sleep and go on. Strong fairness of the clean read of the queue's size
(`ManagerCheck`) says that the read is not torn every time: a torn one needs an
overlapping push or pop. `SpuriousWake`, `Push`, `Wait` and `Destroy` have no
fairness. In `JudgePipeline` a request that has been received is carried through,
and the pool starts what it holds, which is what `EveryTaskRuns` says of the pool.
`BoxInit` of a single runner is only weakly fair, as `pthread_mutex_lock` is; with
finitely many submissions the mutex becomes free for good. A restart, a failing query
and an expiring key have no fairness: they may happen and need not.

## 4. The proofs

Eight modules hold proofs. Each theorem is for every value of the constants that the
named assumption of its module admits (`PoolAssumption`, `JudgeAssumption`, ...: what
the constants are, with at least one case, slot, page or byte of a block; that an escape
a user may type is one the encoder knows) and, where the table says so, under the values of the switches that its run has. Nothing is assumed finite that the
model does not make finite: submissions, polls, users and ids may be infinitely many.

| Theorem | Property | Under | Inductive invariant, and why it is needed |
|---|---|---|---|
| *ThreadPoolProofs* | | | |
| `TypesHold` | `TypeOK` | | `TypeInv = TypeOK /\ HandsHoldTasks`: that `finished` holds only tasks needs that a worker in a task's function holds one. |
| `LiveNumHolds`, `BusyNumHolds` | `LiveNumCounts`, `BusyNumCounts` | | `Counters`, with `TypeInv`. A step moves one slot (`InMoves`) or signals (`InSignalled`, which does not move a slot across a border), and `CreateCounters` adds a whole set. |
| `TasksConservedHolds` | `TasksConserved` | | `Conserved = HandedOnce /\ OnePlace /\ SomePlace`. `StepKinds` sorts all steps into four: push, take, return, and those that leave the tasks alone. |
| `PoolImplementsTaskQueue` | `ImplementsTaskQueue` | | `TypeInv /\ Conserved`; `FreeWorkerMeansRoom` shows that a worker that takes a task finds fewer than `maxNum` running. |
| `DefaultNeverClosesHolds` | `DefaultNeverCloses` | | `CloseInv` adds `Waited`: a wait time that is not the default belongs to a caller still in `wait()`. |
| *JudgePipelineProofs* | | | |
| `TypeOKHolds` | `TypeOK` | | `TypeInv`, of which `ControlInv` is the core: what is in the queue has not begun, what runs was accepted and has an index below the number of rows of its task. `OverwriteIs` says what a text written over another is. |
| `OneInBoxHolds` | (none) | | `LockInv`: who is between init and cleanup of the sandbox holds the mutex. |
| `CaseKeysExpireHolds` | `CaseKeysExpire` | `Lossy = {}` | inductive with `TypeInv`; `UntimedKeys` says what each Redis command leaves. |
| *JudgeVerdictProofs* | | | |
| `VerdictsAreOwnHolds` | `VerdictsAreOwn` | `~Overlap` | `VerdictInv` follows a runner from g++ to the comparison: what it has built, what is in the sandbox, which outputs are there. It rests on `AloneInv` (per calm file one submission that waits for its verdict), `HastyInv` (it is hasty as long as an earlier runner is at work), `TextInv` (the source begins with its text, and its length is that of a text left behind) and `LockInv`. |
| `OthersDoNoHarmHolds` | `OthersDoNoHarm` | | the same, which is stated for the files that are `Calm`: no overlap, or one submission only. |
| *JudgeSumProofs* | | | |
| `SumIsEarnedHolds` | `SumIsEarned` | | `SumInv`: the sum is at most `Bound`, what the submission has earned on the rows of its task up to the runner's place in the loop (`Earned`); `CountInv`: what is counted was right, from `VerdictInv`; `TestsStay`: the rows of a task do not change once it is handed over, whatever becomes of the table. It also says of every sum which submission has earned it (`EarnedBy`), for after the restart that loses its runner. |
| `PassIsEarnedHolds` | `PassIsEarned` | `~Overlap`, `Lossy = {}` | `ReadInv`: what a poll has read had been earned, by one submission on one task. |
| `PassIsRightHolds` | (`PassIsRight`) | the same, and `~MayWipe` | `FirstInv`: the rows are those the problem was published with, so that as many right rows as there are cases are all of them. |
| *JudgeRecordProofs* | | | |
| `RecordedOnceHolds` | `RecordedOnce` | `OnePage`, `Lossy = {}` | `BalanceInv`: rows and a row that is still owed (a poll has found all keys, or the last key is there and no poll is deleting it) are together at most the submissions compared up to the last of the keys a poll reads, and the polls cut by a restart; `OneUnderWay`; and `FiniteInv`, so that all of it can be counted. |
| *ProblemUploadProofs* | | | |
| `TypeOKHolds` | `TypeOK` | | `CaseInRange`: the page's case is below the attempt's number. |
| `PublishedIsCompleteHolds`, `NothingHiddenHolds` | `PublishedIsComplete`, `NothingHidden` | `Turns`, `~Again` | `UploadInv`: at each step of an attempt, how many cases are counted and stored, if the attempt began on a clean title; `OneAtATime`. |
| *PortalProofs* | | | |
| `SessionsAreOwnHolds`, `SessionsExpireHolds`, `SessionsHaveRolesHolds` | as named | | `SessionInv`: a token names the user it was made for and stands for nobody else, and who was found in the table has a row. That of a token without time to live a login is at EXPIRE, or it is in `unlimited`, is kept by the SET, the EXPIRE and the restart. |
| `RolesAreGrantedHolds` | `RolesAreGranted` | | `RoleInv`: a registration that is about to insert was allowed to, by an account that is still there. |
| `PortalImplementsAccounts` | `ImplementsAccounts` | | `SessionInv` and `RoleInv`: a SET opens a session (`SetOpensSession`), an INSERT makes an account or is refused by the table (`InsertMakesAccount`), and no other step is seen. |
| `PasswordsAreOwnIfApart` | (`PasswordsAreOwn`, `LoginsAreOwn`) | `CallsApart` | `PasswordInv`: a hash is the request's own from the call of `crypt()` to its use. `CallsApart` says that no step calls `crypt()` while another's hash is still in the buffer. |
| *WebProofs* | | | |
| `ValuesArriveHolds`, `TitlesAgreeHolds` | `ValuesArrive`, `TitlesAgree` | | `RequestInv`: before the first round all of what was sent is there (`Whole`), and afterwards the first value is in the map, and the second one too or it is what comes next, unless the first has an "&" (`FoundFirst`). `EncodedArrives`: decoding undoes the encoding; `UnencodedIs`: of a text that was not encoded it changes each "+" and each escape and nothing else, while a "#" ends it. |
| `KeysApartHolds` | `KeysApart` | | `KeyNames`: without "_" in them, the user and the title can be read off a key, as what is before its first "_" and what is between its second and the next. |
| `FilesComparedHolds` | `FilesCompared` | | `CompareInv`: up to the place that was read the two files agree, and neither ends before it. |
| `NoneIsSkippedHolds` | `NoneIsSkipped` | | `ListInv`: ids are never withdrawn. `PageFindsID`: fewer than `PAGE_SIZE` rows of a page come before an id of it, with or without gaps. |

The inductive invariants were checked by TLC on the instances of the runs before they
were proved. The assumptions are needed: without `~Overlap`, `PassIsEarned` is what
`judge_overlap` refutes; with a file in `Lossy`, an EXPIRE or DEL that fails leaves the keys that
`CaseKeysExpire` and `RecordedOnce` are about, and a reset that fails leaves a sum that
the next submission of the user adds to.

The theorems reach beyond the runs: `judge_turns` checks its properties with keys that do
not expire, no failure, at most two rows and all of its switches together, while
`RecordedOnceHolds` and `CaseKeysExpireHolds` have no need of `~Overlap`,
`VerdictsAreOwnHolds` none of `Lossy = {}`, and all of them hold with any rows, failing
commands and expiring keys. `SumIsEarned` is checked with rows that stay and proved for
rows that change.

`PasswordsAreOwn` fails in the run `portal_crypt`, and `PasswordsAreOwnIfApart` says why:
with a lock around each call of `crypt()` and the copy of its result, or with `crypt_r()`,
it would hold, and so would `LoginsAreOwn`, that who is logged in has given the password
of the account.

The proofs about texts need no induction: a text is a function on its positions, the
first place of a symbol is the least of a set of numbers (`LeastMember`, from the
well-foundedness of `<`), and what the loop of `uriKV_get` does after the two rounds that
matter is covered by the map's keeping what it has.

Only model-checked: all liveness (`EveryTaskRuns`, `ShrinkEnds`, `WaitReturns`,
`DestructorReturns`, `AcceptedIsJudged`), which the prover does not do.

## 5. What is not modelled

* nginx 1.28.0, which is vendored unchanged and is about 220,000 of the repository's
  239,000 lines of code, the build files and `test_isolate`: third-party, generated or
  a trial. The program itself is about 1,400 lines of C++ and the scripts of five
  pages; the share of the repository's lines the map can reach is bounded by that.
* The pages, but for the requests they send, their order and their URIs, and the
  paging of the list; `nginx.conf`; the configuration, read once.
* Memory: what a thread does on a pool that was freed (the destructor does not join
  the manager, and a worker that is off the count still has to unlock and to clear
  its slot), a constructor that fails and then deletes a pointer without a value
  (`pthread_pool.cpp:39`), the undefined reads after a query with no rows, and a
  mixture of two hashes in the buffer of `crypt()`.
* A limit of the queue of tasks: the code ignores `queueSize`.
* Failing queries of an upload (`judge.cpp:565-580`, `:630-645`): the code ignores them and
  answers 200, so that counts, rows and marks no longer belong together and nothing can be
  promised of the problem.
* Commands of a runner that outlive a crash of the server; they are taken to end with it.
* Test files whose text changes when they are uploaded again.
* Two uploads of one title at the same time. Marks, counts and rows of a title have no
  owner, so the code promises nothing about them.
* That the pool keeps `minNum` workers: it does not (requests to exit that nobody has
  taken yet are made again every millisecond), and nothing depends on it, since
  `EveryTaskRuns` holds all the same.
* A click on "next" while a page of the list is loading, which changes the number and
  loads nothing, is modelled, but no property says that pages are not skipped by it.
* `wordexp` in `system_spawn_cmd`, hash functions, the library's form parser.

## 6. Plan

Done, in this order: `ThreadPool` with its abstract specification and proofs, since
everything is judged through it; `JudgePipeline`, then with restarts and lost queries;
`ProblemUpload`; `Portal`; `RequestTools` and `ProblemList`.

Then the proofs: of `ThreadPool` and its refinement; of `JudgePipeline`, from the control
of its processes to the verdicts, the sum and the rows; of `ProblemUpload` and `Portal`,
with the specification of accounts that `Portal` implements; of `RequestTools`, `FileCompare` and
`ProblemList`. Every invariant and every refinement that a run checks and that holds is
proved.

Left: liveness stays with TLC. A condition under which `UnpassIsEarned` holds would have to
keep polls away from a submission that is under way altogether: besides reading the sum
before the keys, a poll may find the last key set and the sum not yet incremented, or the
keys of an earlier submission beside the sum of the next one.
