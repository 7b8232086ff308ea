----------------------------- MODULE Acceptance -----------------------------
(***************************************************************************)
(* What an attempt is judged on: the acceptance criteria before and after  *)
(* the agent, the diff, the paths and the probes (exec/verify.py, and the  *)
(* stages of exec/runner.py that call it), as functions of what the        *)
(* environment answers.  Stages.tla has the steps these functions are      *)
(* evaluated in and the stages between them; here are all the inputs.      *)
(*                                                                         *)
(* A task is [kind, acceptance, preconditions], a criterion [cmd, expect,  *)
(* shell]: expect is expect_fail_before.                                   *)
(***************************************************************************)
EXTENDS Policy, Lists, SequencesExt

TaskKind == {"implementation", "analysis", "readonly"}

\* One criterion, observed. Whatever was not seen to exit with 0 is red.
Observe(criterion, policy, endings) ==
    LET result == RunCommand(policy, criterion.cmd, criterion.shell, endings)
    IN [cmd |-> criterion.cmd, expect |-> criterion.expect,
        green |-> result.executed /\ result.exit = "zero",
        executed |-> result.executed, denied |-> Denied(result.decision),
        stderr |-> IF result.executed THEN result.stderr ELSE result.decision.verdict]

RunCriteria(task, policy, endings) ==
    [i \in DOMAIN task.acceptance |-> Observe(task.acceptance[i], policy, endings)]

NotDiscriminating(baseline) == \E i \in DOMAIN baseline : baseline[i].expect /\ baseline[i].green

\* Mutant: a failure that was there before is no one's, expected or not.
DifferentialLenient(before, after) ==
    CASE before.green -> IF after.green THEN "ok" ELSE "regression"
      [] OTHER -> IF after.green THEN "proven" ELSE "debt_kept"
Differential(before, after) ==
    CASE before.green                    -> IF after.green THEN "ok" ELSE "regression"
      [] ~before.green /\ before.expect  -> IF after.green THEN "proven" ELSE "unmet"
      [] ~before.green /\ ~before.expect -> IF after.green THEN "debt_closed" ELSE "debt_kept"

Differentials(baseline, post) ==
    [i \in DOMAIN post |-> Differential(baseline[i], post[i])]

Rejecting(differentials) ==
    {i \in DOMAIN differentials : differentials[i] \in {"regression", "unmet"}}

-----------------------------------------------------------------------------
Outcome(verdict, reason) == [verdict |-> verdict, reason |-> reason]
\* No verdict and nowhere to go: the evidence is complete.
Passed  == Outcome("none", "passed")
Replan(reason) == Outcome("replan", reason)
Rejected(reason) == Outcome("rejected", reason)

\* The first rejecting criterion gives the reason.
RejectedBy(differentials) == Rejected(differentials[Min(Rejecting(differentials))])

\* diff is [empty, outside]: whether the agent changed nothing, and whether a
\* path it changed is out of bounds.
JudgeEvidence(task, diff, differentials) ==
    CASE task.kind = "implementation" /\ diff.empty ->
           IF Rejecting(differentials) = {} THEN Replan("no_op_detected")
           ELSE RejectedBy(differentials)
      [] task.kind = "readonly" /\ ~diff.empty -> Rejected("unexpected_diff")
      [] OTHER ->
           CASE diff.outside -> Rejected("path_violation")
             [] ~diff.outside /\ Rejecting(differentials) # {} -> RejectedBy(differentials)
             [] OTHER -> Passed

\* A failed criterion is looked at again: is the environment to blame? Only
\* evidence of the harness makes it so; the agent's hint makes it look.
Reclassified(task, policy, signals, outcome, differentials, post, hint, world) ==
    LET probes  == ProbeAll(task.preconditions, policy, world)
        signal  == \E i \in Rejecting(differentials) : MatchesSignal(post[i].stderr, signals)
        looking == task.preconditions # <<>> \/ hint
        failing == \E i \in DOMAIN probes : ~probes[i].ok
    IN CASE ~(outcome.verdict = "rejected" /\ outcome.reason \in {"regression", "unmet"}) -> outcome
         [] OTHER ->
              CASE signal -> Outcome("blocked", "signal")
                [] ~signal /\ looking /\ failing -> Outcome("blocked", "prerequisite")
                [] OTHER -> outcome

\* What stops the attempt before the agent is called, or Passed. The
\* adapter's preflight is in Stages.
PrecheckOf(task, policy, world) ==
    LET probes == ProbeAll(task.preconditions, policy, world)
    IN CASE \E i \in DOMAIN probes : probes[i].denied -> Replan("policy_denied_at_runtime")
         [] OTHER -> IF \E i \in DOMAIN probes : ~probes[i].ok
                     THEN Outcome("blocked", "prerequisite") ELSE Passed

BaselineOf(baseline) ==
    CASE \E i \in DOMAIN baseline : baseline[i].denied -> Replan("policy_denied_at_runtime")
      [] OTHER -> IF NotDiscriminating(baseline) THEN Replan("ac_not_discriminating") ELSE Passed

\* The environment of an attempt: the worlds at its start, at the post run and
\* at the second look, the agent's failure and claim, and the diff.
AttemptOf(task, policy, signals, env) ==
    LET baseline == RunCriteria(task, policy, env.before.endings)
        post     == RunCriteria(task, policy, env.after.endings)
        differentials == Differentials(baseline, post)
        stop     == IF PrecheckOf(task, policy, env.before) # Passed
                    THEN PrecheckOf(task, policy, env.before) ELSE BaselineOf(baseline)
    IN CASE stop # Passed -> stop
         [] stop = Passed /\ env.failure -> Outcome("error", "runtime_failure")
         [] OTHER -> Reclassified(task, policy, signals,
                                  JudgeEvidence(task, env.diff, differentials),
                                  differentials, post, env.hint, env.later)

-----------------------------------------------------------------------------
\* ac_baseline_executed, one event for one criterion; an old journal has no
\* index, here 0. A TDD attempt records the criteria in two parts.
KeyOf(x) == <<Hash[x.cmd], x.expect>>

\* Each selected criterion is the first one equal to it that is not taken.
CriterionIndexes(all, selected) ==
    LET index[k \in 1..Len(selected)] ==
            Min({i \in DOMAIN all : all[i] = selected[k] /\ \A j \in 1..(k - 1) : index[j] # i})
    IN index

Recorded(all, selected, green, indexed) ==
    LET index == CriterionIndexes(all, selected)
    IN [k \in 1..Len(selected) |->
           [cmd |-> selected[k].cmd, expect |-> selected[k].expect, green |-> green[index[k]],
            index |-> IF indexed THEN index[k] ELSE 0]]

BaselineEvents(all, mode, green, indexed) ==
    IF mode = "standard" THEN Recorded(all, all, green, indexed)
    ELSE LET part(expect) == Picked(all, {c \in ToSet(all) : c.expect = expect})
         IN Recorded(all, part(FALSE), green, indexed) \o Recorded(all, part(TRUE), green, indexed)

ValidIndex(event, all) == event.index \in DOMAIN all /\ KeyOf(event) = KeyOf(all[event.index])

\* How many of seq's elements up to k have the key of the k-th.
Occurrence(seq, k) == Cardinality({j \in 1..k : KeyOf(seq[j]) = KeyOf(seq[k])})

NoBaseline == {}

\* Mutant: of several observations of a criterion, the first.
LatestOfFirst(positions) == Min(positions)
LatestOf(positions) == Max(positions)

\* The set of the restored baseline, or nothing: the last observation under
\* each index. Failing that, and only when there are as many events as
\* criteria, the n-th event of a key for its n-th criterion.
Restored(all, events) ==
    LET under(i) == {k \in DOMAIN events : ValidIndex(events[k], all) /\ events[k].index = i}
        nth(i)   == {k \in DOMAIN events : /\ KeyOf(events[k]) = KeyOf(all[i])
                                           /\ Occurrence(events, k) = Occurrence(all, i)}
    IN CASE \A i \in DOMAIN all : under(i) # {} ->
              {[i \in DOMAIN all |-> events[LatestOf(under(i))].green]}
         [] OTHER ->
              IF Len(events) # Len(all) \/ \E i \in DOMAIN all : nth(i) = {} THEN NoBaseline
              ELSE {[i \in DOMAIN all |-> events[Min(nth(i))].green]}
=============================================================================
