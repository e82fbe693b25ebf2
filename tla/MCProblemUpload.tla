-------------------------- MODULE MCProblemUpload --------------------------
(* Instances of ProblemUpload for TLC. *)
EXTENDS ProblemUpload, TLC

CONSTANTS u1, u2, u3, u4

\* Attempts at one problem, by people who count its test cases differently.
OneToThree == u1 :> 1 @@ u2 :> 2 @@ u3 :> 2 @@ u4 :> 3
TwoOfTwo == u1 :> 2 @@ u2 :> 2
=============================================================================
