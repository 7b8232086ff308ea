------------------------------ MODULE Analysis ------------------------------
(***************************************************************************)
(* The gate before a run (analyze.py): what is checked of specs and tasks, *)
(* the record that is kept of it, and what a later run makes of the        *)
(* record.                                                                 *)
(*                                                                         *)
(* files is [specs, tasks]: a sequence of specs [unclear, requirements,    *)
(* hash] in the order of their paths, and a function from ids to tasks     *)
(* [kind, depends, satisfies, acceptance, preconditions, outputs, profile, *)
(* allowed, hash], the profile being the one it will run under.            *)
(***************************************************************************)
EXTENDS Acceptance, TaskGraph, Scopes

CONSTANTS NoHash,     \* a task that was not stamped with its spec's hash
          Programs    \* the commands whose program is found

HarnessFields == {"changed_files", "created_files", "diff_stat"}

DependsOf(tasks) == [t \in DOMAIN tasks |-> tasks[t].depends]

Holders(specs, r) == {s \in DOMAIN specs : r \in specs[s].requirements}
Requirements(specs) == UNION {specs[s].requirements : s \in DOMAIN specs}
SatisfiedBy(tasks) == UNION {ToSet(tasks[t].satisfies) : t \in DOMAIN tasks}

\* Mutant: the commands of the preconditions are forgotten.
CommandsOfCriteria(task) == {<<c.cmd, c.shell>> : c \in ToSet(task.acceptance)}
CommandsOf(task) ==
    {<<c.cmd, c.shell>> : c \in ToSet(task.acceptance)}
    \cup {<<p.cmd, p.shell>> : p \in {q \in ToSet(task.preconditions) : q.kind = "command"}}

\* The spec a task is compared with: the one of the first requirement it
\* names that there is. A requirement in two specs belongs to the last.
SpecOf(specs, task) ==
    LET known == Picked(task.satisfies, Requirements(specs))
    IN IF known = <<>> THEN {} ELSE {Max(Holders(specs, Head(known)))}

Drifted(specs, task) ==
    task.hash # NoHash /\ \E s \in SpecOf(specs, task) : task.hash # specs[s].hash

TaskFailures(files, t, policy) ==
    LET task == files.tasks[t]
    IN UNION {
        {<<"satisfies", t, r>> : r \in ToSet(task.satisfies) \ Requirements(files.specs)},
        {<<"no criterion", t>> : x \in IF task.kind = "implementation" /\ task.acceptance = <<>>
                                       THEN {1} ELSE {}},
        {<<"no program", t, c.cmd>> : c \in {d \in ToSet(task.acceptance) : d.cmd \notin Programs}},
        {<<"denied", t, c[1]>> : c \in {d \in CommandsOf(task) : Denied(Decide(policy, d[1], d[2]))}},
        {<<"output", t, o>> : o \in task.outputs \cap HarnessFields},
        {<<"drift", t>> : x \in IF Drifted(files.specs, task) THEN {1} ELSE {}}}

SpecFailures(files) ==
    UNION {
        {<<"unclear", s>> : s \in {q \in DOMAIN files.specs : files.specs[q].unclear}},
        {<<"twice", r>> : r \in {q \in Requirements(files.specs) : Cardinality(Holders(files.specs, q)) > 1}},
        {<<"uncovered", r>> : r \in Requirements(files.specs) \ SatisfiedBy(files.tasks)}}

Failures(files, policy) ==
    IF ~Loads(DependsOf(files.tasks)) THEN {<<"graph">>}
    ELSE SpecFailures(files) \cup UNION {TaskFailures(files, t, policy) : t \in DOMAIN files.tasks}

\* Of the warnings only this one: the pairs that could run side by side, but
\* for their paths. They are given in the order of the graph.
ParallelConflicts(tasks) ==
    LET depends == DependsOf(tasks)
        order   == Topological(depends)
        places  == {p \in (DOMAIN order) \X (DOMAIN order) : p[1] < p[2]}
    IN {p \in {<<order[q[1]], order[q[2]]>> : q \in places} :
           /\ p[1] \notin Descendants(depends, p[2])
           /\ p[2] \notin Descendants(depends, p[1])
           /\ Conflicts(tasks[p[1]], tasks[p[2]])}

\* analyze.json. The fingerprint stands for the contents it is computed from.
NoRecord   == [kind |-> "none"]
Unreadable == [kind |-> "unreadable"]
RecordOf(files, policy) ==
    [kind |-> "record", ok |-> Failures(files, policy) = {}, fingerprint |-> files]

\* The run may start. A repository without a record does not use the gate.
GateOpen(record, files) ==
    CASE record.kind = "none" -> TRUE
      [] record.kind = "unreadable" -> FALSE
      [] record.kind = "record" -> record.fingerprint = files /\ record.ok
=============================================================================
