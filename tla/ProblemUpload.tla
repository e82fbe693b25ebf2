---------------------------- MODULE ProblemUpload ----------------------------
(***************************************************************************)
(* Uploading a problem (OJ_Judge/code/judge.cpp: add_test_in, add_test_out *)
(* and add_problem, called in a loop by the staff dashboard).  For each    *)
(* test case the page sends the input and then the output; the server      *)
(* marks the input in Redis, counts the outputs there and adds the case to *)
(* the table test_cases.  The problem itself comes last: it is published   *)
(* if as many outputs were counted as it has test cases, and otherwise     *)
(* what was uploaded is thrown away.                                       *)
(*                                                                         *)
(* All is about one title.  A handler is a series of queries and each is a *)
(* step; the page leaves at will between two requests, and the server may  *)
(* be stopped or crash between two queries.  Requests refused at once (no  *)
(* token, a student's) and the files' texts are left out.  No query fails: *)
(* the results of the SET, EXPIRE, INCR, INSERT and DEL of the test cases  *)
(* are thrown away (NULL callbacks), so after a failure there the handler  *)
(* answers 200 all the same, and what is said below of counts and rows     *)
(* does not hold.                                                          *)
(***************************************************************************)
EXTENDS Integers, FiniteSets

CONSTANTS
    Uploads,   \* attempts to upload the problem, each by one run of the page's loop
    Num,       \* the number of test cases of each attempt
    MaxCases,  \* bound: the most test cases an attempt has
    Turns,     \* whether an attempt is begun only when no other is under way
    Again      \* whether one is begun although the title is published

ASSUME UploadAssumption ==
    /\ MaxCases \in Nat \ {0}
    /\ Num \in [Uploads -> 1..MaxCases]
    /\ Turns \in BOOLEAN /\ Again \in BOOLEAN

Cases == 0..(MaxCases - 1)

VARIABLES
    flag,      \* per case: the key of its input in Redis, "none", "set" or, with a
               \* time to live, "timed"
    count,     \* the key <title>_total_case_num; 0 when there is none
    rows,      \* per case: how many rows of test_cases name it
    problem,   \* test_num in the title's row of problems_cpp; 0 when there is none
    at,        \* per attempt: the next step of the page or of the handler
    case       \* per attempt: the page's i

vars == <<flag, count, rows, problem, at, case>>

\* The states of an attempt in which the page, not a handler, moves next, the last ones,
\* those of the handlers, and all those of the loop over the test cases.
PageStates == {"in", "out", "add"}
EndStates == {"done", "refused", "left"}
HandlerStates == {"inSet", "inExpire", "incr", "row", "delFlag", "check", "insert",
                  "delCount", "wipeRows", "wipeCount"}
Looping == {"in", "inSet", "inExpire", "out", "incr", "row", "delFlag"}

Init ==
    /\ flag = [c \in Cases |-> "none"]
    /\ count = 0
    /\ rows = [c \in Cases |-> 0]
    /\ problem = 0
    /\ at = [u \in Uploads |-> "new"]
    /\ case = [u \in Uploads |-> 0]

Goto(u, s) == at' = [at EXCEPT ![u] = s]
-----------------------------------------------------------------------------
\* The page's loop begins, ...
Begin(u) ==
    /\ at[u] = "new"
    /\ Turns => \A v \in Uploads : at[v] \in EndStates \cup {"new"}
    /\ Again \/ problem = 0
    /\ Goto(u, "in")
    /\ UNCHANGED <<flag, count, rows, problem, case>>

\* ... and is left: the page is closed, or the network fails.
Leave(u) ==
    /\ at[u] \in PageStates
    /\ Goto(u, "left")
    /\ UNCHANGED <<flag, count, rows, problem, case>>

\* add_test_in: the callback stores the input, and its key is SET and then EXPIREd.
add_test_in(u) ==
    \/ /\ at[u] = "in"
       /\ Goto(u, "inSet")
       /\ UNCHANGED <<flag, count, rows, problem, case>>
    \/ /\ at[u] = "inSet"
       /\ flag' = [flag EXCEPT ![case[u]] = "set"]
       /\ Goto(u, "inExpire")
       /\ UNCHANGED <<count, rows, problem, case>>
    \/ /\ at[u] = "inExpire"
       /\ flag' = [flag EXCEPT ![case[u]] = IF @ = "none" THEN "none" ELSE "timed"]
       /\ Goto(u, "out")
       /\ UNCHANGED <<count, rows, problem, case>>

\* Mutant: the loop goes on for one case too many.
OneMore(u) == case[u] + 1 <= Num[u]

\* The condition of the page's loop, for the next i.
More(u) == case[u] + 1 < Num[u]

\* add_test_out: refused with 409 when the input is not marked, and then the page
\* stops; otherwise the output is stored and counted, the case is added to the table
\* and the mark is removed.
add_test_out(u) ==
    \/ /\ at[u] = "out"
       /\ Goto(u, IF flag[case[u]] = "none" THEN "left" ELSE "incr")
       /\ UNCHANGED <<flag, count, rows, problem, case>>
    \/ /\ at[u] = "incr"
       /\ count' = count + 1
       /\ Goto(u, "row")
       /\ UNCHANGED <<flag, rows, problem, case>>
    \/ /\ at[u] = "row"
       /\ rows' = [rows EXCEPT ![case[u]] = @ + 1]
       /\ Goto(u, "delFlag")
       /\ UNCHANGED <<flag, count, problem, case>>
    \/ /\ at[u] = "delFlag"
       /\ flag' = [flag EXCEPT ![case[u]] = "none"]
       /\ case' = [case EXCEPT ![u] = @ + 1]
       /\ Goto(u, IF More(u) THEN "in" ELSE "add")
       /\ UNCHANGED <<count, rows, problem>>

\* Mutant: too many test cases are taken for enough.
Enough(u) == count >= Num[u]

\* The comparison of the count with test_num.
Complete(u) == count = Num[u]

\* Mutant: the rows are left when an upload is thrown away.
KeptRows == rows

NoRows == [c \in Cases |-> 0]

\* The rows and the count are deleted: 409 if the title exists, 412 if the count is
\* not right.
Wipe(u) ==
    \/ /\ at[u] = "wipeRows"
       /\ rows' = NoRows
       /\ Goto(u, "wipeCount")
       /\ UNCHANGED <<flag, count, problem, case>>
    \/ /\ at[u] = "wipeCount"
       /\ count' = 0
       /\ Goto(u, "refused")
       /\ UNCHANGED <<flag, rows, problem, case>>

\* add_problem: looks the title up, checks the count, inserts the problem (the title is
\* taken to be unique in the table) and deletes the count.
add_problem(u) ==
    \/ /\ at[u] = "add"
       /\ Goto(u, IF problem # 0 THEN "wipeRows" ELSE "check")
       /\ UNCHANGED <<flag, count, rows, problem, case>>
    \/ /\ at[u] = "check"
       /\ Goto(u, IF Complete(u) THEN "insert" ELSE "wipeRows")
       /\ UNCHANGED <<flag, count, rows, problem, case>>
    \/ Wipe(u)
    \/ /\ at[u] = "insert"
       /\ problem' = IF problem = 0 THEN Num[u] ELSE problem
       /\ Goto(u, "delCount")
       /\ UNCHANGED <<flag, count, rows, case>>
    \/ /\ at[u] = "delCount"
       /\ count' = 0
       /\ Goto(u, "done")
       /\ UNCHANGED <<flag, rows, problem, case>>

\* The key of an input expires after 1000 seconds.
FlagExpires(c) ==
    /\ flag[c] = "timed"
    /\ flag' = [flag EXCEPT ![c] = "none"]
    /\ UNCHANGED <<count, rows, problem, at, case>>

\* The server ends in the middle of a handler and is started again: the queries that
\* were to come are gone, and the page takes the failed request for an error.
Restart ==
    /\ \E u \in Uploads : at[u] \in HandlerStates
    /\ at' = [u \in Uploads |-> IF at[u] \in HandlerStates THEN "left" ELSE at[u]]
    /\ UNCHANGED <<flag, count, rows, problem, case>>

Next ==
    \/ Restart
    \/ \E u \in Uploads : \/ Begin(u) \/ Leave(u)
                          \/ add_test_in(u) \/ add_test_out(u) \/ add_problem(u)
    \/ \E c \in Cases : FlagExpires(c)

Spec == Init /\ [][Next]_vars
-----------------------------------------------------------------------------
(* Properties *)

\* The types of the keys, the tables and the attempts; while the page's loop is at work on
\* a test case, its number is one of the attempt's own.
TypeOK ==
    /\ flag \in [Cases -> {"none", "set", "timed"}]
    /\ count \in Nat
    /\ rows \in [Cases -> Nat]
    /\ problem \in 0..MaxCases
    /\ at \in [Uploads -> {"new"} \cup PageStates \cup HandlerStates \cup EndStates]
    /\ case \in [Uploads -> 0..MaxCases]
    /\ \A u \in Uploads : at[u] \in Looping => case[u] < Num[u]

\* A published problem has each of its test cases once and no other, though earlier
\* attempts were left half way, or cut short between any two queries by a restart, and
\* their cases and counts are still there.
PublishedIsComplete ==
    problem # 0 => \A c \in Cases : rows[c] = IF c < problem THEN 1 ELSE 0

\* An attempt that was left or cut short does not spoil the title for good: while no
\* handler runs, a count of 0 means that nothing is left of earlier attempts, so the
\* next upload that is not disturbed is published.  A case is counted before it gets
\* its row, and the rows are deleted before the count.
NothingHidden ==
    (\A u \in Uploads : at[u] \notin HandlerStates) /\ count = 0 /\ problem = 0
        => \A c \in Cases : rows[c] = 0

\* A problem that was published with all its test cases keeps at least one row for each.
PublishedKeepsCases == problem # 0 => \A c \in 0..(problem - 1) : rows[c] > 0
=============================================================================
