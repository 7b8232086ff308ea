----------------------------- MODULE TaskGraph ------------------------------
(***************************************************************************)
(* The graph of the tasks (dag.py).  depends is a function from task ids,  *)
(* which are numbers and ordered as their names are, to sets of ids.       *)
(***************************************************************************)
EXTENDS Lists, SequencesExt

\* Every dependency is a task.
DependenciesExist(depends) == \A t \in DOMAIN depends : depends[t] \subseteq DOMAIN depends

\* Layer after layer, each sorted by id; it stops short of a cycle.
Topological(depends) ==
    LET order[rest \in SUBSET DOMAIN depends] ==
            LET layer == {t \in rest : depends[t] \cap rest = {}}
            IN IF layer = {} THEN <<>>
               ELSE Sorted(layer) \o order[rest \ layer]
    IN order[DOMAIN depends]

\* Dag(tasks) raises no TaskDefinitionError.
Loads(depends) ==
    DependenciesExist(depends) /\ Len(Topological(depends)) = Cardinality(DOMAIN depends)

ReadyTasks(depends, verified, remaining) ==
    Picked(Topological(depends), {t \in remaining : depends[t] \subseteq verified})

\* Everything that builds on t, directly or not.
Descendants(depends, t) ==
    LET grow[found \in SUBSET DOMAIN depends] ==
            LET more == {u \in DOMAIN depends : depends[u] \cap (found \cup {t}) # {}}
            IN IF more \subseteq found THEN found ELSE grow[found \cup more]
    IN grow[{}]
=============================================================================
