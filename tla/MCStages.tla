------------------------------ MODULE MCStages ------------------------------
(***************************************************************************)
(* Instances of Stages for TLC: two reviewers.                             *)
(***************************************************************************)
EXTENDS Stages

\* Each reviewer has a rule of its own, and finds it broken or not.
OwnRules == [r \in 1..2 |->
    {{}, {[rule |-> IF r = 1 THEN "spec" ELSE "quality", severity |-> "high"]}}]

\* Both look at the same rule, and weigh it differently.
SharedRule == [r \in 1..2 |->
    {{[rule |-> "secret", severity |-> IF r = 1 THEN "low" ELSE "high"]}}]
=============================================================================
