--------------------------- MODULE MCJudgePipeline ---------------------------
(* Instances of JudgePipeline for TLC. *)
EXTENDS JudgePipeline, TLC

CONSTANTS s1, s2, s3, f1, f2, p1, p2

Prog(c, a, b) == [compiles |-> c, case |-> (0 :> a @@ 1 :> b)]

Right == Prog(TRUE, "right", "right")
FirstHalf == Prog(TRUE, "right", "wrong")
SecondHalf == Prog(TRUE, "wrong", "right")
Crashing == Prog(TRUE, "right", "crash")
Broken == Prog(FALSE, "wrong", "wrong")

\* s1 and s2 are of one user to one problem, s3 is of another user.
FileOfSub == [s \in Subs |-> IF s = s3 THEN f2 ELSE f1]

\* Two programs each of which is right where the other is wrong, and a right one.
Halves == [s \in Subs |-> IF s = s1 THEN FirstHalf ELSE IF s = s2 THEN SecondHalf ELSE Right]

\* A program that does not compile, one that fails on a case, and a right one.
Faulty == [s \in Subs |-> IF s = s1 THEN Broken ELSE IF s = s2 THEN Crashing ELSE Right]

AllOfThemRight == [s \in Subs |-> Right]

\* The second text of a user is shorter than the first.
SizeOfSub == [s \in Subs |-> IF s = s1 THEN 2 ELSE 1]

EqualSize == [s \in Subs |-> 1]

\* The rows of attempts to upload the problem's two test cases, one of which may have
\* been left after the first case and made once more.
Attempts == {<<>>, <<0>>, <<0, 1>>, <<0, 0>>}

\* A change of the rows is seen only by a request that is about to read them: what
\* comes earlier might as well come then.
LateChanges == cases' # cases => \E s \in Subs : req[s] = "select"

SymmetricPolls == Permutations(Polls)
=============================================================================
