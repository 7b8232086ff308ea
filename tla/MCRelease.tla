----------------------------- MODULE MCRelease -----------------------------
(* Two tasks for TLC.  "old" is red from the start and a criterion of both; *)
(* "new" is what a is to make pass.                                        *)
EXTENDS Release

Both == [t \in Tasks |-> IF t = "a" THEN {"old", "new"} ELSE {"old"}]
AProves == [t \in Tasks |-> IF t = "a" THEN {"new"} ELSE {}]
\* a makes its own command pass or not; b fixes the old one, does a's work
\* for it or, unnoticed by its own criteria, breaks what a is to make pass.
Effect(fixes, breaks) == [fixes |-> fixes, breaks |-> breaks]
Stray == [t \in Tasks |-> {Effect({}, {}), Effect({"new"}, {})} \cup
            (IF t = "a" THEN {} ELSE {Effect({"old"}, {}), Effect({}, {"new"})})]
Independent == [t \in Tasks |-> {}]
=============================================================================
