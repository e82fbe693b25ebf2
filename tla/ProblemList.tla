---------------------------- MODULE ProblemList ----------------------------
(***************************************************************************)
(* The list of problems: get_problem_list (OJ_Judge/code/judge.cpp) and    *)
(* the student's page that shows it (Nginx/html/student/stu-home.html),    *)
(* while problems are added.  A problem that is not public, and an id that *)
(* an INSERT took and did not use, leave gaps among the ids that are       *)
(* listed.  A row is known by its id.                                      *)
(***************************************************************************)
EXTENDS Integers, Sequences, FiniteSets

CONSTANTS
    PAGE_SIZE,  \* of the page, and the LIMIT of the query
    MaxID,      \* bound: the ids given
    MaxPage     \* bound: the pages a student turns

ASSUME ListAssumption == PAGE_SIZE \in Nat \ {0} /\ MaxID \in Nat /\ MaxPage \in Nat \ {0}

VARIABLES
    table,        \* per id: whether problems_cpp has a public problem under it
    currentPage,  \* 0 before the list is opened
    loading,      \* the page isLoadingProblems stands for, or 0
    loaded,       \* the pages that have been shown since the list was opened
    seen,         \* the ids of the rows they were sent
    old           \* the public ids when the list was opened

listVars == <<table, currentPage, loading, loaded, seen, old>>

Public == {id \in DOMAIN table : table[id]}

ListInit ==
    /\ table = <<>>
    /\ currentPage = 0 /\ loading = 0
    /\ loaded = {} /\ seen = {} /\ old = {}

\* An id is given, with AUTO_INCREMENT: to a public problem or not.
AddRow ==
    /\ Len(table) < MaxID
    /\ \E public \in BOOLEAN : table' = Append(table, public)
    /\ UNCHANGED <<currentPage, loading, loaded, seen, old>>

\* loadProblems returns at once while another page is being loaded.
loadProblems(page) == loading' = IF loading # 0 THEN loading ELSE page

\* The list is opened, for the first time or anew.
Open ==
    /\ currentPage' = 1
    /\ loadProblems(1)
    /\ loaded' = {} /\ seen' = {} /\ old' = Public
    /\ UNCHANGED table

\* problemset-next and problemset-prev: the number changes even if nothing is loaded.
Turn ==
    /\ currentPage # 0
    /\ \/ currentPage < MaxPage /\ currentPage' = currentPage + 1
       \/ currentPage > 1 /\ currentPage' = currentPage - 1
    /\ loadProblems(currentPage')
    /\ UNCHANGED <<table, loaded, seen, old>>

\* Mutant: the page begins after beginID.
FromNext(beginID) == {id \in Public : id > beginID}

\* The ids from beginID on.
From(beginID) == {id \in Public : id >= beginID}

\* The query reads the table in the order of its key, and LIMIT takes the first rows.
get_problem_list(beginID) ==
    {id \in From(beginID) : Cardinality({i \in From(beginID) : i < id}) < PAGE_SIZE}

Show ==
    /\ loading # 0
    /\ seen' = seen \cup get_problem_list((loading - 1) * PAGE_SIZE)
    /\ loaded' = loaded \cup {loading}
    /\ loading' = 0
    /\ UNCHANGED <<table, currentPage, old>>

\* The request fails, or is answered with 403: the page shows that, and none of the rows.
LoadingFailed ==
    /\ loading # 0
    /\ loading' = 0
    /\ UNCHANGED <<table, currentPage, loaded, seen, old>>

ListNext == AddRow \/ Open \/ Turn \/ Show \/ LoadingFailed

ListSpec == ListInit /\ [][ListNext]_listVars

-----------------------------------------------------------------------------
\* The pages overlap where ids have gaps, but they leave nothing out: a problem that was
\* public when the list was opened has been seen once the page of its id was shown,
\* whatever was added since and whichever pages were turned to before.
NoneIsSkipped == \A id \in old : (id \div PAGE_SIZE) + 1 \in loaded => id \in seen
=============================================================================
