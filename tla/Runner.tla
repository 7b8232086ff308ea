------------------------------- MODULE Runner -------------------------------
(***************************************************************************)
(* One run of a task graph: Runner (src/harness/exec/runner.py), the       *)
(* scheduler over it (exec/scheduler.py; with MaxParallel = 1 it is the    *)
(* sequential runner), and the worktrees and the integration branch        *)
(* (exec/workspace.py), with what a killed process leaves for `--resume`.  *)
(*                                                                         *)
(* A tree (of a worktree, or of the integration branch) is the set of the  *)
(* marks the tasks left in it.  The mark <<t, "good">> is work with which  *)
(* the acceptance criteria of t pass; with <<t, "bad">> alone they fail;   *)
(* <<t, "out">> lies outside the allowed paths of t; <<t, "late">> was     *)
(* written by a handoff repair, which is to write nothing.  Every task has *)
(* kind `implementation`, a criterion that must fail before, and declared  *)
(* allowed paths that contain its own marks and those of the tasks it      *)
(* overlaps.  Review and TDD stages are off (options of the kernel).       *)
(***************************************************************************)
EXTENDS Integers, FiniteSets

CONSTANTS
  Tasks,
  DependsOn,         \* Task.depends_on of each task
  Rank,              \* place of each task in Dag.order()
  Overlap,           \* the pairs of tasks for which scheduler.conflicts
  RequiresHandoff,   \* the tasks with outputs.required
  MaxAttempts, MaxParallel, MaxRepairs,   \* of the configuration
  MaxCalls,          \* budget.max_agent_calls, or NoBudget
  PrecheckResults,   \* outcomes of the preconditions and the preflight
  AgentMay,          \* what an agent can do, among AgentChoices
  Faults,            \* what can go wrong, among FaultKinds
  MaxFaults,         \* bound: faults
  MaxResumes         \* bound: `run --resume` invocations

NoBudget == -1
AgentChoices == {"good", "bad", "out", "nothing", "fail", "no_handoff", "touch"}
FaultKinds == {"kill", "raise", "commit", "advance", "purge"}

ASSUME GraphAssumption ==
  /\ IsFiniteSet(Tasks)
  /\ DependsOn \in [Tasks -> SUBSET Tasks] /\ Rank \in [Tasks -> Nat]
  /\ \A t, u \in Tasks : Rank[t] = Rank[u] => t = u
  /\ \A t \in Tasks : \A d \in DependsOn[t] : Rank[d] < Rank[t]
  /\ \A t, u \in Tasks : <<t, u>> \in Overlap => <<u, t>> \in Overlap
ASSUME LimitAssumption ==
  /\ MaxAttempts \in Nat \ {0} /\ MaxParallel \in Nat \ {0} /\ MaxRepairs \in Nat
  /\ MaxCalls \in Nat \cup {NoBudget}
  /\ MaxFaults \in Nat /\ MaxResumes \in Nat
ASSUME ChoiceAssumption ==
  /\ RequiresHandoff \subseteq Tasks /\ AgentMay \subseteq AgentChoices
  /\ PrecheckResults \subseteq {"ok", "blocked", "error", "replan"}
  /\ Faults \subseteq FaultKinds

Marks == Tasks \X {"good", "bad", "out", "late"}
NoTree == {<<>>}     \* no directory (and no tree: <<>> is not a mark)

VARIABLES
  main,       \* the scheduler loop, or how the last process ended
  verified,   \* its local `verified`
  remaining,  \* its local `remaining`
  worker,     \* _run_task of each task, in a thread of its own
  proj,       \* what the journal says: TaskProjection of each task
  base,       \*   ... the `base` of its last task_dispatched
  failed,     \*   ... whether its implementer's call had a runtime_failure
  calls,      \*   ... how many agent_started (counted where there is a budget)
  work,       \* the tree of each task's worktree
  outbox,     \* handoff.json of each call of the attempt: 0, then the repairs
  integ,      \* the tree of the integration branch
  faults, resumes      \* so far (bounded)

control == <<main, verified, remaining>>
journal == <<proj, base, failed, calls>>
disk == <<work, outbox, integ>>
env == <<faults, resumes>>
vars == <<control, worker, journal, disk, env>>

Stalled == {"human_required", "needs_replan", "integration_conflict"}
RESUMABLE == {"executed", "verifying", "repairing"}
States == {"pending", "ready", "precheck", "running", "done"} \cup Stalled \cup RESUMABLE
Verdicts == {"verified", "rejected", "error", "blocked", "budget_exhausted"}
Outcome == [verdict : Verdicts \cup {"null"}, next : Stalled \cup {"null"}]
NoOutcome == [verdict |-> "null", next |-> "null"]
Handoffs == {"none", "old", "new"}   \* "old": left by an earlier call in the same directory

PCs == {"idle", "start", "open", "dispatch", "prepare", "budget", "launch", "agent",
        "exited", "verify", "gate", "merge", "advance", "record", "close",
        "returned", "raised"}
Idle == [pc |-> "idle", attempt |-> 0, resumed |-> FALSE, repair |-> 0,
         handoff |-> "none", spoilt |-> FALSE, outcome |-> NoOutcome]

TypeOK ==
  /\ main \in {"new", "select", "unwind", "dead", "finished"}
  /\ verified \subseteq Tasks /\ remaining \subseteq Tasks
  /\ worker \in [Tasks -> [pc : PCs, attempt : 0..MaxAttempts + 1, resumed : BOOLEAN,
                           repair : 0..MaxRepairs, handoff : Handoffs, spoilt : BOOLEAN,
                           outcome : Outcome]]
  /\ proj \in [Tasks -> [state : States, attempt : 0..MaxAttempts,
                         verdict : Verdicts \cup {"null"}, verdict_attempt : 0..MaxAttempts]]
  /\ base \in [Tasks -> (SUBSET Marks) \cup {NoTree}]
  /\ failed \in [Tasks -> BOOLEAN]
  /\ calls \in Nat
  /\ work \in [Tasks -> (SUBSET Marks) \cup {NoTree}]
  /\ outbox \in [Tasks -> [0..MaxRepairs -> Handoffs]]
  /\ integ \subseteq Marks
  /\ faults \in 0..MaxFaults /\ resumes \in 0..MaxResumes

Empty == [k \in 0..MaxRepairs |-> "none"]

Init ==
  /\ main = "new" /\ verified = {} /\ remaining = {}
  /\ worker = [t \in Tasks |-> Idle]
  /\ proj = [t \in Tasks |-> [state |-> "pending", attempt |-> 0,
                              verdict |-> "null", verdict_attempt |-> 0]]
  /\ base = [t \in Tasks |-> NoTree] /\ failed = [t \in Tasks |-> FALSE] /\ calls = 0
  /\ work = [t \in Tasks |-> NoTree] /\ outbox = [t \in Tasks |-> Empty] /\ integ = {}
  /\ faults = 0 /\ resumes = 0

-----------------------------------------------------------------------------
(* The loop of ParallelRunner.run.                                         *)

Start ==
  /\ main = "new" /\ main' = "select"
  /\ remaining' = Tasks /\ verified' = {}
  /\ UNCHANGED <<worker, journal, disk, env>>

\* _resume_sets.  Mutants: a task that waits for a human counts as verified;
\* it is run again; only what was never started is run.
ResumeVerifiedStalled == {t \in Tasks : proj[t].state \in Stalled \cup {"done"}}
ResumeVerified == {t \in Tasks : proj[t].state = "done"}
ResumeRemainingStalled == {t \in Tasks : proj[t].state # "done"}
ResumeRemainingPending == {t \in Tasks : proj[t].state = "pending"}
ResumeRemaining == {t \in Tasks : proj[t].state \notin Stalled \cup {"done"}}

\* `run --resume` on a run whose process is gone, finished or not.
Resume ==
  /\ main \in {"dead", "finished"} /\ main' = "select"
  /\ resumes < MaxResumes /\ resumes' = resumes + 1
  /\ verified' = ResumeVerified /\ remaining' = ResumeRemaining
  /\ UNCHANGED <<worker, journal, disk, faults>>

Running == {t \in Tasks : worker[t].pc # "idle"}

\* Mutant: overlapping tasks run side by side.
EligibleOverlapping == {t \in remaining :
                          DependsOn[t] \subseteq verified /\ Cardinality(Running) < MaxParallel}

Eligible == {t \in remaining :
               /\ DependsOn[t] \subseteq verified
               /\ Cardinality(Running) < MaxParallel
               /\ \A u \in Running : <<t, u>> \notin Overlap}

\* Mutant: a killed attempt is used up.
ResumePointNextAttempt(t) == [attempt |-> proj[t].attempt + 1, resumed |-> FALSE]

\* docs/10's table: which attempt, and whether from its verification.
ResumePoint(t) ==
  IF proj[t].verdict_attempt = proj[t].attempt
  THEN [attempt |-> proj[t].attempt + 1, resumed |-> FALSE]
  ELSE [attempt |-> proj[t].attempt,
        resumed |-> work[t] # NoTree /\ proj[t].state \in RESUMABLE]

\* _selection scans in topological order: one task here, the next one after.
Submit(t) ==
  /\ main = "select" /\ t \in Eligible
  /\ \A u \in Eligible : Rank[t] <= Rank[u]
  /\ remaining' = remaining \ {t}
  /\ worker' = [worker EXCEPT ![t] =
       [Idle EXCEPT !.pc = IF ResumePoint(t).attempt <= MaxAttempts THEN "start" ELSE "returned",
                    !.attempt = ResumePoint(t).attempt, !.resumed = ResumePoint(t).resumed]]
  /\ UNCHANGED <<main, verified, journal, disk, env>>

Ended == {t \in Tasks : worker[t].pc \in {"returned", "raised"}}

\* What Future.result() says.  Mutant: it is dropped.
NothingSucceeded == {}
Succeeded == {t \in Ended : worker[t].pc = "returned" /\ proj[t].state = "done"}

\* `wait` returned: the results are taken, and an exception is raised again.
Collect ==
  /\ main = "select" /\ Eligible = {} /\ Ended # {}
  /\ main' = IF \E t \in Ended : worker[t].pc = "raised" THEN "unwind" ELSE "select"
  /\ verified' = verified \cup Succeeded
  /\ worker' = [t \in Tasks |-> IF t \in Ended THEN Idle ELSE worker[t]]
  /\ UNCHANGED <<remaining, journal, disk, env>>

\* Mutant: waits for the failed worker itself.
UnwindWaitsForAll ==
  /\ main = "unwind" /\ Running = {} /\ main' = "dead"
  /\ worker' = [t \in Tasks |-> Idle] /\ verified' = {} /\ remaining' = {}
  /\ UNCHANGED <<journal, disk, env>>

\* Leaving the `with ThreadPoolExecutor` block waits for the other workers.
Unwind ==
  /\ main = "unwind" /\ Running = Ended /\ main' = "dead"
  /\ worker' = [t \in Tasks |-> Idle] /\ verified' = {} /\ remaining' = {}
  /\ UNCHANGED <<journal, disk, env>>

Finish ==
  /\ main = "select" /\ Eligible = {} /\ Running = {} /\ main' = "finished"
  /\ verified' = {} /\ remaining' = {}
  /\ UNCHANGED <<worker, journal, disk, env>>

-----------------------------------------------------------------------------
(* _run_task: the attempts of one task.                                    *)

At(t, pc) == worker[t].pc = pc
Goto(t, pc) == worker' = [worker EXCEPT ![t].pc = pc]
Conclude(t, verdict, next) ==
  worker' = [worker EXCEPT ![t].pc = "record",
                           ![t].outcome = [verdict |-> verdict, next |-> next]]
Enter(t, state) == proj' = [proj EXCEPT ![t].state = state]

\* Mutant: one call too many.
OverBudgetLate == MaxCalls # NoBudget /\ calls > MaxCalls

OverBudget == MaxCalls # NoBudget /\ calls >= MaxCalls

\* Mutant: no lock.
LockFreeAlways == TRUE

\* Workspaces._lock is held from the merge until the branch is moved.
LockFree == \A t \in Tasks : ~At(t, "advance")

StartAttempt(t) ==
  /\ At(t, "start")
  /\ \/ OverBudget /\ Conclude(t, "budget_exhausted", "null")
     \/ ~OverBudget /\ Goto(t, "open")
  /\ UNCHANGED <<control, journal, disk, env>>

\* A resumed attempt keeps its worktree and reads the implementer's outbox.
Reuse(t) ==
  /\ At(t, "open") /\ worker[t].resumed
  /\ worker' = [worker EXCEPT ![t].pc = "verify", ![t].handoff = outbox[t][0]]
  /\ UNCHANGED <<control, journal, disk, env>>

Open(t) ==
  /\ At(t, "open") /\ ~worker[t].resumed /\ LockFree
  /\ work' = [work EXCEPT ![t] = integ]
  /\ Goto(t, "dispatch")
  /\ UNCHANGED <<control, journal, outbox, integ, env>>

\* _head: what diffs are taken against.
HeadOf(t) == work[t]

\* The outbox directories are named for the attempt; one that is started
\* over under its own number meets them as they were left.
AttemptOutbox(t) == IF worker[t].attempt > proj[t].attempt THEN Empty ELSE outbox[t]

Dispatch(t) ==
  /\ At(t, "dispatch")
  /\ proj' = [proj EXCEPT ![t].state = "precheck", ![t].attempt = worker[t].attempt]
  /\ base' = [base EXCEPT ![t] = HeadOf(t)]
  /\ outbox' = [outbox EXCEPT ![t] = AttemptOutbox(t)]
  /\ Goto(t, "prepare")
  /\ UNCHANGED <<control, failed, calls, work, integ, env>>

\* _precheck and _baseline: criteria that already pass prove nothing.
Discriminating(t) == <<t, "good">> \notin work[t]

Prepare(t) ==
  /\ At(t, "prepare")
  /\ \E r \in PrecheckResults :
       \/ r = "blocked" /\ Conclude(t, "blocked", "null")
       \/ r = "error" /\ Conclude(t, "error", "null")
       \/ (r = "replan" \/ (r = "ok" /\ ~Discriminating(t))) /\ Conclude(t, "null", "needs_replan")
       \/ r = "ok" /\ Discriminating(t) /\ Goto(t, "budget")
  /\ UNCHANGED <<control, journal, disk, env>>

-----------------------------------------------------------------------------
(* _dispatch: one call of an agent, the implementer's or a repair.         *)

CheckBudget(t) ==
  /\ At(t, "budget")
  /\ \/ OverBudget /\ Conclude(t, "budget_exhausted", "null")
     \/ ~OverBudget /\ Goto(t, "launch")
  /\ UNCHANGED <<control, journal, disk, env>>

\* The call's outbox directory is made, or found with what is in it.
Launch(t) ==
  /\ At(t, "launch")
  /\ Enter(t, "running")
  /\ calls' = IF MaxCalls = NoBudget THEN calls ELSE calls + 1
  /\ failed' = [failed EXCEPT ![t] = IF worker[t].repair = 0 THEN FALSE ELSE @]
  /\ outbox' = [outbox EXCEPT ![t][worker[t].repair] = IF @ = "new" THEN "old" ELSE @]
  /\ Goto(t, "agent")
  /\ UNCHANGED <<control, base, work, integ, env>>

\* The implementer writes its work, a repair at most a stray change; either
\* may leave a handoff.  `spoilt`: the implementer timed out; the repair
\* changed the tree.
Writes(t) == IF worker[t].repair = 0 THEN AgentMay \cap {"good", "bad", "out", "nothing"}
             ELSE {"nothing"} \cup (IF "touch" \in AgentMay THEN {"late"} ELSE {})

\* An agent that strays has done its task too.
Left(t, q) == CASE q = "nothing" -> {} [] q = "out" -> {<<t, "good">>, <<t, "out">>}
                [] OTHER -> {<<t, q>>}

Agent(t) ==
  /\ At(t, "agent")
  /\ \E q \in Writes(t) :
       /\ work' = [work EXCEPT ![t] = @ \cup Left(t, q)]
       /\ \E spoilt \in BOOLEAN :
            /\ IF worker[t].repair = 0 THEN spoilt => "fail" \in AgentMay
                                       ELSE spoilt = (work'[t] # work[t])
            /\ worker' = [worker EXCEPT ![t].pc = "exited", ![t].spoilt = spoilt]
  /\ \/ t \in RequiresHandoff /\ outbox' = [outbox EXCEPT ![t][worker[t].repair] = "new"]
     \/ (t \notin RequiresHandoff \/ "no_handoff" \in AgentMay) /\ UNCHANGED outbox
  /\ UNCHANGED <<control, journal, integ, env>>

Exited(t) ==
  /\ At(t, "exited")
  /\ Enter(t, "executed")
  /\ UNCHANGED <<control, base, calls, disk, env>>

ImplementerFinished(t) ==
  /\ Exited(t) /\ worker[t].repair = 0
  /\ failed' = [failed EXCEPT ![t] = worker[t].spoilt]
  /\ \/ worker[t].spoilt /\ Conclude(t, "error", "null")
     \/ ~worker[t].spoilt
        /\ worker' = [worker EXCEPT ![t].pc = "verify", ![t].handoff = outbox[t][0]]

RepairFinished(t) ==
  /\ Exited(t) /\ worker[t].repair > 0
  /\ \/ worker[t].spoilt /\ Conclude(t, "rejected", "null")
     \/ ~worker[t].spoilt
        /\ worker' = [worker EXCEPT ![t].pc = "gate", ![t].handoff = outbox[t][worker[t].repair]]
  /\ UNCHANGED failed

-----------------------------------------------------------------------------
(* Adjudication: the rest of _attempt, and _terminal.                      *)

Diff(t) == work[t] \ base[t]
Passes(t) == <<t, "good">> \in work[t]
\* Mutant: only other tasks' paths are a violation.
ViolationForeign(t) == \E m \in Diff(t) : m[1] # t /\ <<t, m[1]>> \notin Overlap

Violation(t) == \E m \in Diff(t) : \/ m[2] = "out"
                                   \/ m[1] # t /\ <<t, m[1]>> \notin Overlap

\* judge, with _reclassified: an unmet criterion may turn out to be blocked.
Verify(t) ==
  /\ At(t, "verify")
  /\ Enter(t, "verifying")
  /\ \/ Diff(t) = {} /\ Passes(t) /\ Conclude(t, "null", "needs_replan")
     \/ Violation(t) /\ Conclude(t, "rejected", "null")
     \/ ~Violation(t) /\ ~Passes(t)
        /\ \E v \in {"rejected"} \cup ({"blocked"} \cap PrecheckResults) : Conclude(t, v, "null")
     \/ Diff(t) # {} /\ ~Violation(t) /\ Passes(t) /\ Goto(t, "gate")
  /\ UNCHANGED <<control, base, failed, calls, disk, env>>

GateOpen(t) == t \notin RequiresHandoff \/ worker[t].handoff # "none"

\* Mutant: verified before the merge.
PassGateUnmerged(t) ==
  /\ At(t, "gate") /\ GateOpen(t) /\ Conclude(t, "verified", "null")
  /\ UNCHANGED <<control, journal, disk, env>>

PassGate(t) ==
  /\ At(t, "gate") /\ GateOpen(t) /\ Goto(t, "merge")
  /\ UNCHANGED <<control, journal, disk, env>>

RepairHandoff(t) ==
  /\ At(t, "gate") /\ ~GateOpen(t)
  /\ Enter(t, "repairing")
  /\ LET wave == worker[t].repair + 1 IN
       \/ wave > MaxRepairs /\ Conclude(t, "null", "human_required")
       \/ wave <= MaxRepairs /\ OverBudget /\ Conclude(t, "budget_exhausted", "null")
       \/ wave <= MaxRepairs /\ ~OverBudget
          /\ worker' = [worker EXCEPT ![t].pc = "budget", ![t].repair = wave, ![t].spoilt = FALSE]
  /\ UNCHANGED <<control, base, failed, calls, disk, env>>

\* Two texts may clash where the worktree has not seen an overlapping task.
MayConflict(t) == \E m \in integ \ work[t] : <<t, m[1]>> \in Overlap

\* `git merge` in the worktree.
Merged(t) == work[t] \cup integ

Merge(t) ==
  /\ At(t, "merge") /\ LockFree
  /\ \/ work' = [work EXCEPT ![t] = Merged(t)] /\ Goto(t, "advance")
     \/ MayConflict(t) /\ Conclude(t, "null", "integration_conflict") /\ UNCHANGED work
  /\ UNCHANGED <<control, journal, outbox, integ, env>>

AdvanceIntegration(t) ==
  /\ At(t, "advance")
  /\ integ' = work[t]
  /\ Conclude(t, "verified", "null")
  /\ UNCHANGED <<control, journal, work, outbox, env>>

\* Mutant: a rejected attempt is always tried again.
NextStateNoLimit(outcome, attempt) ==
  CASE outcome.verdict = "null" -> outcome.next
    [] outcome.verdict = "verified" -> "done"
    [] outcome.verdict = "rejected" -> "ready"
    [] OTHER -> "human_required"

NextState(outcome, attempt) ==
  CASE outcome.verdict = "null" -> outcome.next
    [] outcome.verdict = "verified" -> "done"
    [] outcome.verdict = "rejected" -> IF attempt >= MaxAttempts THEN "needs_replan" ELSE "ready"
    [] outcome.verdict = "error" -> IF attempt >= MaxAttempts THEN "human_required" ELSE "ready"
    [] OTHER -> "human_required"

\* verdict_assigned, and on to the next attempt where there is one.
Record(t) ==
  LET w == worker[t]
      next == NextState(w.outcome, w.attempt)
  IN
  /\ At(t, "record")
  /\ proj' = [proj EXCEPT ![t] = [state |-> next, attempt |-> w.attempt,
                                  verdict |-> w.outcome.verdict, verdict_attempt |-> w.attempt]]
  /\ worker' = [worker EXCEPT ![t] =
       IF next = "ready" THEN [Idle EXCEPT !.pc = "start", !.attempt = w.attempt + 1]
       ELSE [Idle EXCEPT !.pc = IF next = "done" THEN "close" ELSE "returned"]]
  /\ UNCHANGED <<control, base, failed, calls, disk, env>>

Close(t) ==
  /\ At(t, "close") /\ LockFree
  /\ work' = [work EXCEPT ![t] = NoTree]
  /\ Goto(t, "returned")
  /\ UNCHANGED <<control, journal, outbox, integ, env>>

-----------------------------------------------------------------------------
(* What can go wrong.                                                      *)

Fault(kind) == kind \in Faults /\ faults < MaxFaults /\ faults' = faults + 1 /\ UNCHANGED resumes

\* An exception leaves _run_task: git worktree add, or an append, failed.
Raise(t) ==
  /\ Fault("raise")
  /\ worker[t].pc \notin {"idle", "agent", "returned", "raised"}
  /\ worker' = [worker EXCEPT ![t] = [Idle EXCEPT !.pc = "raised"]]
  /\ UNCHANGED <<control, journal, disk>>

\* `git add` or `git commit` fails in the worktree.
CommitFails(t) ==
  /\ Fault("commit") /\ At(t, "merge") /\ LockFree
  /\ Conclude(t, "null", "integration_conflict")
  /\ UNCHANGED <<control, journal, disk>>

\* `git branch -f` fails (the branch is checked out): nobody looks.
AdvanceFails(t) ==
  /\ Fault("advance") /\ At(t, "advance")
  /\ Conclude(t, "verified", "null")
  /\ UNCHANGED <<control, journal, disk>>

Kill ==
  /\ Fault("kill") /\ main \in {"select", "unwind"} /\ main' = "dead"
  /\ worker' = [t \in Tasks |-> Idle] /\ verified' = {} /\ remaining' = {}
  /\ UNCHANGED <<journal, disk>>

\* The system's temporary directory is cleaned while nothing runs.
Purge ==
  /\ Fault("purge") /\ main \in {"dead", "finished"}
  /\ work' = [t \in Tasks |-> NoTree] /\ outbox' = [t \in Tasks |-> Empty]
  /\ UNCHANGED <<control, worker, journal, integ>>

WorkerStep(t) ==
  \/ StartAttempt(t) \/ Reuse(t) \/ Open(t) \/ Dispatch(t) \/ Prepare(t)
  \/ CheckBudget(t) \/ Launch(t) \/ Agent(t) \/ ImplementerFinished(t) \/ RepairFinished(t)
  \/ Verify(t) \/ PassGate(t) \/ RepairHandoff(t) \/ Merge(t) \/ AdvanceIntegration(t)
  \/ Record(t) \/ Close(t)

MainStep == (\E t \in Tasks : Submit(t)) \/ Collect \/ Unwind \/ Finish

FaultStep == (\E t \in Tasks : Raise(t) \/ CommitFails(t) \/ AdvanceFails(t)) \/ Kill \/ Purge

\* No process is left and nobody resumes the run.
Over == main \in {"dead", "finished"} /\ UNCHANGED vars

Next == Start \/ Resume \/ MainStep \/ (\E t \in Tasks : WorkerStep(t)) \/ FaultStep \/ Over

Spec == Init /\ [][Next]_vars

\* As long as some thread of the process can go on, one does; an agent that
\* does not end is timed out.
FairSpec == Spec /\ WF_vars(MainStep \/ \E t \in Tasks : WorkerStep(t))

-----------------------------------------------------------------------------
(* Properties.                                                             *)

Done(t) == proj[t].state = "done"
Integrated(t) == <<t, "good">> \in integ

(* docs/05: verified is recorded only after the merge succeeds.  No crash, *)
(* retry or resume makes a task done whose work is not on the branch.      *)
DoneIsIntegrated == \A t \in Tasks : Done(t) => Integrated(t)

(* docs/05: a task branches from the tip, so that the results of the tasks *)
(* it depends on are in its worktree.  The ready set, the resume sets and  *)
(* the reuse of an old worktree must all agree for this.                   *)
BuiltOnDependencies ==
  \A t \in Tasks : base[t] # NoTree => \A d \in DependsOn[t] : <<d, "good">> \in base[t]

(* Evidence decides: nothing whose criteria fail and nothing outside the   *)
(* allowed paths is ever merged into the integration branch.               *)
OnlyProvenWorkIntegrated ==
  \A m \in integ : m[2] \in {"good", "late"} /\ <<m[1], "good">> \in integ

(* docs/05 "If they overlap, serialize": until the run is resumed, a task  *)
(* reaches its merge having seen every overlapping task that is merged, so *)
(* that integration never conflicts.  (A resumed worktree may be older     *)
(* than the merge of a task it overlaps.)                                  *)
OverlapsAreSerial ==
  resumes = 0 =>
    \A t \in Tasks : worker[t].pc \in {"verify", "gate", "merge"} => ~MayConflict(t)

(* docs/06: the cap on the agent calls is hard.                            *)
BudgetIsHard == MaxCalls # NoBudget => calls <= MaxCalls

(* docs/06: a run whose implementer's call had a runtime failure is an     *)
(* error, never verified.                                                  *)
RuntimeFailureIsError ==
  \A t \in Tasks : failed[t] => proj[t].verdict # "verified"

(* docs/10: to resume, "clean up the worktree and outbox and start that    *)
(* attempt over": the handoff that passes the gate is one the accepted     *)
(* call itself left, never that of a call that was killed.                 *)
HandoffIsOwn == \A t \in RequiresHandoff : At(t, "merge") => worker[t].handoff = "new"

(* When the run is over every task is done, or waits for a human, or       *)
(* depends on one that is not done: nothing that could run is left.        *)
NothingReadyLeft ==
  main = "finished" => \A t \in Tasks :
    Done(t) \/ proj[t].state \in Stalled \/ \E d \in DependsOn[t] : ~Done(d)

(* docs/03: verdict_assigned occurs at most once per attempt; docs/10: a   *)
(* crash does not use up an attempt, a new one starts only when the last   *)
(* one was adjudicated.                                                    *)
OneVerdictPerAttempt ==
  [][\A t \in Tasks :
       LET p == proj[t]  q == proj'[t] IN
       /\ q.attempt # p.attempt => q.attempt = p.attempt + 1 /\ p.verdict_attempt = p.attempt
       /\ <<q.verdict, q.verdict_attempt>> # <<p.verdict, p.verdict_attempt>>
            => q.verdict_attempt = q.attempt /\ p.verdict_attempt < q.verdict_attempt]_vars

(* docs/05: integration is always serial.  Merges of several workers, and  *)
(* a branch that is moved without a look at where it was, lose nothing.    *)
IntegrationKeepsWork == [][integ \subseteq integ']_vars

(* docs/10: the run itself terminates normally, or its process dies; in    *)
(* particular no worker waits for the lock for ever.                       *)
RunEnds == (main \in {"select", "unwind"}) ~> (main \in {"dead", "finished"})

(* However its process dies and is resumed, a run of the graph is a DagRun.*)
Abstract == INSTANCE DagRun WITH
  done <- {t \in Tasks : Done(t)},
  stalled <- {t \in Tasks : proj[t].state \in Stalled},
  merged <- {t \in Tasks : Integrated(t)}
ImplementsDagRun == Abstract!Spec
=============================================================================
