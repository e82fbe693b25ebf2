------------------------- MODULE ProblemUploadProofs -------------------------
(***************************************************************************)
(* What TLAPS proves of ProblemUpload for any attempts with any numbers of *)
(* test cases: the types, and, for attempts made one at a time on a title  *)
(* that is not published, the two invariants of the run upload_turns.      *)
(***************************************************************************)
EXTENDS ProblemUpload, TLAPS

-----------------------------------------------------------------------------
(* Types.  An attempt that has not begun is at case 0, which is one of its   *)
(* own.                                                                      *)

NewAtZero == \A u \in Uploads : at[u] = "new" => case[u] = 0

TypeInv == TypeOK /\ NewAtZero

\* A step of an attempt keeps the types.
LEMMA AttemptKeepsTypes ==
    ASSUME TypeInv, NEW u \in Uploads,
           Begin(u) \/ Leave(u) \/ add_test_in(u) \/ add_test_out(u) \/ add_problem(u)
    PROVE  TypeInv'
<1> USE UploadAssumption
    DEF TypeInv, TypeOK, NewAtZero, PageStates, HandlerStates, EndStates, Goto
<1>1. CASE Begin(u) \/ Leave(u)
  BY <1>1 DEF Begin, Leave, Looping
<1>2. CASE add_test_in(u)
  BY <1>2 DEF add_test_in, Looping
<1>3. CASE add_test_out(u)
  BY <1>3 DEF add_test_out, More, Looping
<1>4. CASE add_problem(u)
  BY <1>4 DEF add_problem, Wipe, NoRows, Looping
<1> QED
  BY <1>1, <1>2, <1>3, <1>4

\* The types hold in every state.
LEMMA TypeInvHolds == Spec => []TypeInv
<1>1. Init => TypeInv
  BY UploadAssumption DEF Init, TypeInv, TypeOK, NewAtZero, Cases
<1>2. TypeInv /\ [Next]_vars => TypeInv'
  <2> SUFFICES ASSUME TypeInv, [Next]_vars PROVE TypeInv'
    OBVIOUS
  <2>1. CASE Restart
    BY <2>1 DEF Restart, TypeInv, TypeOK, NewAtZero, EndStates, HandlerStates, Looping
  <2>2. CASE \E c \in Cases : FlagExpires(c)
    BY <2>2 DEF FlagExpires, TypeInv, TypeOK, NewAtZero
  <2>3. CASE UNCHANGED vars
    BY <2>3 DEF vars, TypeInv, TypeOK, NewAtZero
  <2> QED
    BY <2>1, <2>2, <2>3, AttemptKeepsTypes DEF Next
<1> QED
  BY <1>1, <1>2, PTL DEF Spec

\* The keys, the tables and the attempts have their types, whatever overlaps.
THEOREM TypeOKHolds == Spec => []TypeOK
<1>1. TypeInv => TypeOK
  BY DEF TypeInv
<1> QED
  BY <1>1, TypeInvHolds, PTL

-----------------------------------------------------------------------------
(* Attempts one at a time.  The count is never below what the attempt under  *)
(* way has counted; if it is exactly that, nothing was left by an earlier    *)
(* one, and the table has the attempt's rows and no other.                   *)

Active(u) == at[u] \notin EndStates \cup {"new"}

Adding == {"add", "check", "insert", "wipeRows"}

\* The cases of the attempt that have been counted, and those that have a row.
Counted(u) == IF at[u] \in Adding THEN Num[u]
              ELSE IF at[u] \in {"row", "delFlag"} THEN case[u] + 1 ELSE case[u]
Stored(u) == IF at[u] \in Adding THEN Num[u]
             ELSE IF at[u] = "delFlag" THEN case[u] + 1 ELSE case[u]

\* The first n cases have one row each and the others none.
Exactly(n) == \A c \in Cases : rows[c] = IF c < n THEN 1 ELSE 0

OneAtATime == \A u, v \in Uploads : Active(u) /\ Active(v) => u = v

AttemptInv(u) ==
    /\ at[u] \in Looping \cup Adding =>
          /\ problem = 0
          /\ count >= Counted(u)
          /\ count = Counted(u) => Exactly(Stored(u))
    /\ at[u] = "insert" => count = Num[u]
    /\ at[u] = "wipeCount" => problem = 0 /\ Exactly(0)
    /\ at[u] = "delCount" => problem = Num[u]

\* Between two attempts a count of 0 means an empty table.
Clean == (\A u \in Uploads : ~Active(u)) /\ count = 0 /\ problem = 0 => Exactly(0)

UploadInv ==
    /\ TypeInv
    /\ OneAtATime
    /\ \A u \in Uploads : AttemptInv(u)
    /\ Clean
    /\ PublishedIsComplete

\* A step that one attempt takes, alone under way, keeps the invariant if it keeps the
\* attempt's own part: the others are not under way, and nothing is said of them.
LEMMA OthersStay ==
    ASSUME UploadInv, TypeInv', NEW u \in Uploads, Active(u) \/ Begin(u), Turns,
           \A v \in Uploads \ {u} : at'[v] = at[v] /\ case'[v] = case[v],
           at'[u] # "new"
    PROVE  /\ OneAtATime'
           /\ \A v \in Uploads \ {u} : ~Active(v) /\ ~Active(v)' /\ AttemptInv(v)'
<1>1. \A v \in Uploads \ {u} : ~Active(v)
  BY DEF UploadInv, OneAtATime, Begin, Active
<1>2. \A v \in Uploads \ {u} : ~Active(v)'
  BY <1>1 DEF Active
<1>3. \A v \in Uploads \ {u} : AttemptInv(v)'
  BY <1>1 DEF Active, UploadInv, AttemptInv, Looping, Adding, EndStates
<1> QED
  BY <1>1, <1>2, <1>3 DEF OneAtATime

\* An attempt that ends leaves a clean table or a count that is not 0.
LEMMA EndIsClean ==
    ASSUME UploadInv, NEW u \in Uploads, Active(u), count = 0, problem = 0
    PROVE  Exactly(0)
<1>1. AttemptInv(u) /\ at[u] \in Looping \cup Adding \cup {"wipeCount", "delCount"}
  BY DEF UploadInv, TypeInv, TypeOK, Active, EndStates, PageStates, HandlerStates,
         Looping, Adding
<1>2. Num[u] \in Nat \ {0} /\ case[u] \in Nat
  BY UploadAssumption DEF UploadInv, TypeInv, TypeOK, Cases
<1>3. CASE at[u] \in Looping \cup Adding
  <2>1. Counted(u) = 0 /\ Stored(u) = 0
    BY <1>1, <1>2, <1>3 DEF AttemptInv, Counted, Stored
  <2> QED
    BY <1>1, <1>3, <2>1 DEF AttemptInv
<1> QED
  BY <1>1, <1>2, <1>3 DEF AttemptInv

\* The steps of an attempt that is begun, left, or at work on a test case.
LEMMA LoopKeepsInv ==
    ASSUME UploadInv, TypeInv', Turns, ~Again, NEW u \in Uploads,
           Begin(u) \/ Leave(u) \/ add_test_in(u) \/ add_test_out(u)
    PROVE  UploadInv'
<1> USE UploadAssumption DEF Goto
<1>1. /\ Active(u) \/ Begin(u)
      /\ at'[u] # "new"
      /\ \A v \in Uploads \ {u} : at'[v] = at[v] /\ case'[v] = case[v]
  BY DEF UploadInv, TypeInv, TypeOK, Active, EndStates, PageStates, Begin, Leave,
         add_test_in, add_test_out
<1>2. /\ OneAtATime'
      /\ \A v \in Uploads \ {u} : ~Active(v) /\ ~Active(v)' /\ AttemptInv(v)'
  BY <1>1, OthersStay
<1>3. problem = 0 /\ problem' = 0
  BY <1>1 DEF UploadInv, AttemptInv, Looping, Adding, PageStates, Begin, Leave, add_test_in,
              add_test_out
<1>4. PublishedIsComplete'
  BY <1>3 DEF PublishedIsComplete
<1>5. AttemptInv(u) /\ case[u] \in Nat /\ count \in Nat
      /\ Num[u] \in Nat \ {0} /\ DOMAIN at = Uploads /\ case \in [Uploads -> Nat]
      /\ rows \in [Cases -> Nat] /\ (at[u] \in Looping => case[u] < Num[u])
      /\ (at[u] = "new" => case[u] = 0)
  BY DEF UploadInv, TypeInv, TypeOK, NewAtZero, Cases, PageStates, HandlerStates, EndStates
<1>6. AttemptInv(u)'
  <2>1. CASE Begin(u)
    <3>1. count = 0 => Exactly(0)
      BY <1>2, <1>3, <2>1 DEF UploadInv, Clean, Begin, Active
    <3>2. case'[u] = 0 /\ at'[u] = "in" /\ UNCHANGED <<count, rows>>
      BY <1>5, <2>1 DEF Begin
    <3> QED
      BY <1>3, <1>5, <3>1, <3>2 DEF AttemptInv, Counted, Stored, Exactly, Looping, Adding
  <2>2. CASE Leave(u)
    BY <1>5, <2>2 DEF Leave, AttemptInv, Looping, Adding
  <2>3. CASE add_test_in(u)
    BY <1>3, <1>5, <2>3 DEF add_test_in, AttemptInv, Counted, Stored, Exactly, Looping, Adding
  <2>4. CASE add_test_out(u) /\ at[u] = "out"
    BY <1>3, <1>5, <2>4 DEF add_test_out, AttemptInv, Counted, Stored, Exactly, Looping, Adding
  <2>5. CASE add_test_out(u) /\ at[u] = "incr"
    BY <1>3, <1>5, <2>5 DEF add_test_out, AttemptInv, Counted, Stored, Exactly, Looping, Adding
  <2>6. CASE add_test_out(u) /\ at[u] = "row"
    <3>1. case[u] \in Cases
      BY <1>5, <2>6 DEF Cases, Looping
    <3> QED
      BY <1>3, <1>5, <2>6, <3>1
         DEF add_test_out, AttemptInv, Counted, Stored, Exactly, Looping, Adding, Cases
  <2>7. CASE add_test_out(u) /\ at[u] = "delFlag"
    <3>1. case' = [case EXCEPT ![u] = @ + 1]
      BY <2>7 DEF add_test_out
    <3>2. CASE case[u] + 1 < Num[u]
      <4>1. at'[u] = "in" /\ case'[u] = case[u] + 1 /\ UNCHANGED <<count, rows>>
        BY <1>5, <2>7, <3>1, <3>2 DEF add_test_out, More
      <4> QED
        BY <1>3, <1>5, <2>7, <4>1 DEF AttemptInv, Counted, Stored, Exactly, Looping, Adding
    <3>3. CASE case[u] + 1 = Num[u]
      <4>1. at'[u] = "add" /\ UNCHANGED <<count, rows>>
        BY <1>5, <2>7, <3>3 DEF add_test_out, More
      <4> QED
        BY <1>3, <1>5, <2>7, <3>3, <4>1
           DEF AttemptInv, Counted, Stored, Exactly, Looping, Adding
    <3> QED
      BY <1>5, <2>7, <3>2, <3>3 DEF Looping
  <2> QED
    BY <2>1, <2>2, <2>3, <2>4, <2>5, <2>6, <2>7 DEF add_test_out
<1>7. Clean'
  <2>1. CASE Active(u)'
    BY <2>1 DEF Clean
  <2>2. CASE ~Active(u)'
    <3>1. at'[u] = "left" /\ Active(u) /\ UNCHANGED <<count, rows, problem>>
      BY <1>1, <1>5, <2>2
         DEF Active, EndStates, Begin, Leave, add_test_in, add_test_out
    <3> QED
      BY <3>1, EndIsClean DEF Clean, Exactly
  <2> QED
    BY <2>1, <2>2
<1> QED
  BY <1>2, <1>4, <1>6, <1>7 DEF UploadInv

\* The steps of add_problem.
LEMMA AddKeepsInv ==
    ASSUME UploadInv, TypeInv', Turns, ~Again, NEW u \in Uploads, add_problem(u)
    PROVE  UploadInv'
<1> USE UploadAssumption DEF Goto
<1>1. /\ Active(u)
      /\ at'[u] # "new"
      /\ \A v \in Uploads \ {u} : at'[v] = at[v] /\ case'[v] = case[v]
  BY DEF UploadInv, TypeInv, TypeOK, Active, EndStates, add_problem, Wipe
<1>2. /\ OneAtATime'
      /\ \A v \in Uploads \ {u} : ~Active(v) /\ ~Active(v)' /\ AttemptInv(v)'
  BY <1>1, OthersStay
<1>5. AttemptInv(u) /\ count \in Nat /\ Num[u] \in Nat \ {0} /\ DOMAIN at = Uploads
  BY DEF UploadInv, TypeInv, TypeOK, NewAtZero, Cases, PageStates, HandlerStates, EndStates
<1>6. AttemptInv(u)'
  <2>1. CASE at[u] \in {"add", "check"}
    BY <1>5, <2>1
       DEF add_problem, Wipe, Complete, AttemptInv, Counted, Stored, Exactly, Looping, Adding
  <2>2. CASE at[u] \in {"wipeRows", "wipeCount"}
    BY <1>5, <2>2
       DEF add_problem, Wipe, NoRows, AttemptInv, Exactly, Looping, Adding, Cases
  <2>3. CASE at[u] \in {"insert", "delCount"}
    BY <1>5, <2>3 DEF add_problem, Wipe, AttemptInv, Looping, Adding
  <2> QED
    BY <2>1, <2>2, <2>3 DEF add_problem, Wipe
<1>7. PublishedIsComplete'
  <2>1. CASE at[u] = "insert"
    <3>1. problem' = Num[u] /\ UNCHANGED rows
      BY <1>5, <2>1 DEF add_problem, Wipe, AttemptInv, Looping, Adding
    <3>2. Exactly(Num[u])
      BY <1>5, <2>1 DEF AttemptInv, Counted, Stored, Looping, Adding
    <3> QED
      BY <3>1, <3>2 DEF Exactly, PublishedIsComplete
  <2>2. CASE at[u] = "delCount"
    BY <2>2 DEF add_problem, Wipe, UploadInv, PublishedIsComplete
  <2>3. CASE at[u] \notin {"insert", "delCount"}
    BY <1>5, <2>3 DEF add_problem, Wipe, AttemptInv, Looping, Adding, PublishedIsComplete
  <2> QED
    BY <2>1, <2>2, <2>3
<1>8. Clean'
  <2>1. CASE Active(u)'
    BY <2>1 DEF Clean
  <2>2. CASE at[u] = "wipeCount"
    BY <1>5, <2>2 DEF add_problem, Wipe, AttemptInv, Clean, Exactly
  <2>3. CASE at[u] = "delCount"
    BY <1>5, <2>3 DEF add_problem, Wipe, AttemptInv, Clean
  <2> QED
    BY <1>5, <2>1, <2>2, <2>3 DEF add_problem, Wipe, Active, EndStates
<1> QED
  BY <1>2, <1>6, <1>7, <1>8 DEF UploadInv

\* A restart cuts the one attempt short that is under way, if it is in a handler.
LEMMA RestartKeepsInv ==
    ASSUME UploadInv, TypeInv', Restart
    PROVE  UploadInv'
<1>1. PICK u \in Uploads : at[u] \in HandlerStates
  BY DEF Restart
<1>2. Active(u) /\ \A v \in Uploads \ {u} : ~Active(v)
  BY <1>1 DEF UploadInv, OneAtATime, Active, HandlerStates, EndStates
<1>3. at' = [v \in Uploads |-> IF at[v] \in HandlerStates THEN "left" ELSE at[v]]
      /\ UNCHANGED <<count, rows, problem, case>>
  BY DEF Restart
<1>4. \A v \in Uploads : ~Active(v)' /\ (at'[v] = "new" => at[v] = "new")
  BY <1>1, <1>2, <1>3 DEF Active, HandlerStates, EndStates
<1>5. OneAtATime' /\ Clean' /\ PublishedIsComplete'
  BY <1>2, <1>3, <1>4, EndIsClean
     DEF OneAtATime, Clean, Exactly, UploadInv, PublishedIsComplete
<1>6. \A v \in Uploads : AttemptInv(v)'
  BY <1>3, <1>4 DEF UploadInv, AttemptInv, Active, EndStates, Looping, Adding
<1> QED
  BY <1>5, <1>6 DEF UploadInv

\* The invariant of attempts that are made one at a time holds in every state.
LEMMA UploadInvHolds ==
    ASSUME Turns, ~Again
    PROVE  Spec => []UploadInv
<1>1. Init => UploadInv
  <2> SUFFICES ASSUME Init PROVE UploadInv
    OBVIOUS
  <2>1. TypeInv
    BY UploadAssumption DEF Init, TypeInv, TypeOK, NewAtZero, Cases
  <2>2. \A u \in Uploads : at[u] = "new" /\ case[u] = 0
    BY DEF Init
  <2>3. Clean /\ PublishedIsComplete
    BY DEF Init, Clean, Exactly, PublishedIsComplete, Cases
  <2>4. OneAtATime /\ \A u \in Uploads : AttemptInv(u)
    BY <2>2 DEF OneAtATime, AttemptInv, Active, Looping, Adding
  <2> QED
    BY <2>1, <2>3, <2>4 DEF UploadInv
<1>2. UploadInv /\ TypeInv' /\ [Next]_vars => UploadInv'
  <2> SUFFICES ASSUME UploadInv, TypeInv', [Next]_vars PROVE UploadInv'
    OBVIOUS
  <2>1. ASSUME UNCHANGED <<count, rows, problem, at, case>> PROVE UploadInv'
    BY <2>1 DEF UploadInv, OneAtATime, AttemptInv, Active, Clean, Exactly, Counted, Stored,
                PublishedIsComplete
  <2>2. CASE (\E c \in Cases : FlagExpires(c)) \/ UNCHANGED vars
    BY <2>1, <2>2 DEF FlagExpires, vars
  <2> QED
    BY <2>2, LoopKeepsInv, AddKeepsInv, RestartKeepsInv DEF Next
<1> QED
  BY <1>1, <1>2, TypeInvHolds, PTL DEF Spec

\* Attempts one at a time: a published problem has each of its test cases once and no
\* other, whatever was left half way or cut short by a restart before.
THEOREM PublishedIsCompleteHolds ==
    ASSUME Turns, ~Again
    PROVE  Spec => []PublishedIsComplete
<1>1. UploadInv => PublishedIsComplete
  BY DEF UploadInv
<1> QED
  BY <1>1, UploadInvHolds, PTL

\* Attempts one at a time: while no handler runs, a count of 0 means that nothing is
\* left of earlier attempts.
THEOREM NothingHiddenHolds ==
    ASSUME Turns, ~Again
    PROVE  Spec => []NothingHidden
<1>1. UploadInv => NothingHidden
  <2> SUFFICES ASSUME UploadInv, count = 0, problem = 0 PROVE \A c \in Cases : rows[c] = 0
    BY DEF NothingHidden
  <2>1. Exactly(0)
    BY EndIsClean DEF UploadInv, Clean
  <2> QED
    BY <2>1 DEF Exactly, Cases
<1> QED
  BY <1>1, UploadInvHolds, PTL
=============================================================================
