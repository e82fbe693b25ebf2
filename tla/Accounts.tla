------------------------------ MODULE Accounts ------------------------------
(***************************************************************************)
(* What the portal promises about accounts and sessions, whatever its      *)
(* threads do in between: an account is made in one step, by one that may, *)
(* and then stays as it is; a token is given to somebody who has an        *)
(* account, and never passes from one holder to another.                   *)
(***************************************************************************)
CONSTANTS
    People,  \* those who may have an account
    Tokens,  \* what a session is known by
    Nobody   \* the holder of a token that is not in use

VARIABLES
    accounts,  \* pairs of a name and a role
    holder     \* per token: whom it stands for, or Nobody

accountVars == <<accounts, holder>>

HasAccount(n) == \E a \in accounts : a[1] = n

AccountsInit ==
    /\ accounts = {<<"admin", "admin">>, <<"teacher", "teacher">>}
    /\ holder = [t \in Tokens |-> Nobody]

\* An admin makes any account, and who is no student makes those of students.
MakeAccount ==
    \E creator \in accounts, n \in People, role \in {"student", "teacher", "admin"} :
        /\ ~HasAccount(n)
        /\ creator[2] # "student"
        /\ role # "student" => creator[2] = "admin"
        /\ accounts' = accounts \cup {<<n, role>>}
        /\ UNCHANGED holder

\* A session is opened, or opened again, by somebody with an account.
OpenSession ==
    \E t \in Tokens, n \in People :
        /\ HasAccount(n)
        /\ holder[t] \in {n, Nobody}
        /\ holder' = [holder EXCEPT ![t] = n]
        /\ UNCHANGED accounts

EndSession ==
    \E t \in Tokens :
        /\ holder' = [holder EXCEPT ![t] = Nobody]
        /\ UNCHANGED accounts

AccountsNext == MakeAccount \/ OpenSession \/ EndSession

AccountsSpec == AccountsInit /\ [][AccountsNext]_accountVars
=============================================================================
