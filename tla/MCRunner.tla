------------------------------ MODULE MCRunner ------------------------------
(* Task graphs for TLC.  Dag.order() is by layer, then by name.            *)
EXTENDS Runner

\* b builds on a.
Chain == [t \in Tasks |-> IF t = "b" THEN {"a"} ELSE {}]

\* c builds on a and d on b; c and d overlap.
OverlapCD == {<<"c", "d">>, <<"d", "c">>}
TwoChains == [t \in Tasks |-> CASE t = "c" -> {"a"} [] t = "d" -> {"b"} [] OTHER -> {}]

Independent == [t \in Tasks |-> {}]
NoOverlap == {}

Unlimited == NoBudget

ByName == [t \in Tasks |-> CASE t = "a" -> 1 [] t = "b" -> 2 [] t = "c" -> 3 [] t = "d" -> 4]
=============================================================================
