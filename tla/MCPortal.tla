------------------------------ MODULE MCPortal ------------------------------
(* Instances of Portal for TLC. *)
EXTENDS Portal, TLC

CONSTANTS l1, l2, l3, l4, r1, r2

As(name, password) == [name |-> name, password |-> password]

\* The admin, the teacher twice, and somebody who may be registered meanwhile.
LoginForms == l1 :> As("admin", "admin") @@ l2 :> As("teacher", "teacher")
              @@ l3 :> As("teacher", "teacher") @@ l4 :> As("ann", "ann")

\* The two logins of the teacher are alike.
Twins == Permutations({l2, l3})

\* Accounts whose password is their name, as the pages import them.
RegForms == r1 :> As("ann", "ann") @@ r2 :> As("bob", "bob")
=============================================================================
