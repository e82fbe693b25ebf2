------------------------------- MODULE MCWeb -------------------------------
(***************************************************************************)
(* Instances of RequestTools, FileCompare and ProblemList for TLC.  The    *)
(* three share no state, so it is enough to take one of them at a time,    *)
(* while the others have not begun.                                        *)
(***************************************************************************)
EXTENDS RequestTools, FileCompare, ProblemList

\* Every text of up to two symbols, and longer ones with a pair or a key of their own.
SomeTexts ==
    BoundedSeq(Symbols, 2) \cup
    {<<"&", "y", "=">>, <<"a", "&", "y", "=", "0">>, <<"a", "+", "&", "+">>, <<"a", "_", "_", "0">>,
     <<"=", "a", "=">>, <<"&", "&", "a">>, <<"a", "&", "#">>, <<"a", "%26", "y", "=", "0">>}

Plain == BoundedSeq({"a", "0"}, 2)

CaseNumbers == {<<"0">>, <<"1">>, <<"1", "0">>}

\* Files of up to two blocks and a half.
Short == BoundedSeq(Bytes, 5)

Init == RequestInit /\ CompareInit /\ ListInit

Next ==
    \/ CompareInit /\ ListInit /\ RequestNext /\ UNCHANGED <<compareVars, listVars>>
    \/ RequestInit /\ ListInit /\ CompareNext /\ UNCHANGED <<requestVars, listVars>>
    \/ RequestInit /\ CompareInit /\ ListNext /\ UNCHANGED <<requestVars, compareVars>>

Spec == Init /\ [][Next]_<<requestVars, compareVars, listVars>>
=============================================================================
