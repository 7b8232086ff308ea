------------------------------- MODULE DagRun -------------------------------
(***************************************************************************)
(* What a run of a task graph promises, with no word on processes,         *)
(* worktrees or attempts (docs/02, docs/05 "Integration"): tasks are       *)
(* integrated one at a time, each on top of everything it depends on; a    *)
(* task is done only when it is integrated; and what is done, integrated   *)
(* or handed to a human stays so.                                          *)
(***************************************************************************)
CONSTANTS Tasks, DependsOn

VARIABLES done,      \* the tasks with verdict verified
          stalled,   \* the tasks that wait for a human
          merged     \* the tasks whose work is on the integration branch

vars == <<done, stalled, merged>>

TypeOK == done \subseteq Tasks /\ stalled \subseteq Tasks /\ merged \subseteq Tasks

Init == done = {} /\ stalled = {} /\ merged = {}

Open(t) == t \notin done \cup stalled

Merge(t) == /\ Open(t) /\ DependsOn[t] \subseteq done
            /\ merged' = merged \cup {t}
            /\ UNCHANGED <<done, stalled>>

Accept(t) == /\ Open(t) /\ t \in merged
             /\ done' = done \cup {t}
             /\ UNCHANGED <<stalled, merged>>

Stall(t) == /\ Open(t) /\ DependsOn[t] \subseteq done
            /\ stalled' = stalled \cup {t}
            /\ UNCHANGED <<done, merged>>

Next == \E t \in Tasks : Merge(t) \/ Accept(t) \/ Stall(t)

Spec == Init /\ [][Next]_vars

(* Nothing is done, or on the integration branch, before what it needs.    *)
Layered == /\ done \subseteq merged /\ done \cap stalled = {}
           /\ \A t \in merged : DependsOn[t] \subseteq done
=============================================================================
