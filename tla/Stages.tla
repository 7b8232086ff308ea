------------------------------- MODULE Stages -------------------------------
(***************************************************************************)
(* The attempts of one task with the two optional stages: test-driven      *)
(* development (exec/tdd.py) around the implementer's call, and review     *)
(* (exec/review.py) after it, as Runner._attempt calls them. Runner.tla    *)
(* has many tasks and no stages, this module one task and all its stages.  *)
(*                                                                         *)
(* A worktree is what the stages tell apart: the tests (none, red: they    *)
(* fail without the code, weak: they pass whatever the code), the code     *)
(* (old, good, bad) and whether anything else was touched. Two more marks  *)
(* say who wrote it and decide nothing.                                    *)
(***************************************************************************)
EXTENDS Naturals, FiniteSets

CONSTANTS MaxAttempts,    \* config.max_attempts
          MaxWaves,       \* config.max_review_waves
          MaxReviewers,   \* the reviewers of the highest tier, in their order
          Reports,        \* Reports[r]: the finding sets reviewer r may file
          CriticalRules,  \* the critical section of the constitution
          Modes,          \* the development modes of the task looked at
          Faults,         \* what may go wrong outside of the code, see Next
          MaxKills        \* bound on the processes that die

Mode     == {"standard", "tdd"}
Severity == {"low", "high"}
Reviewer == 1..MaxReviewers
Wave     == 1..MaxWaves
Rules    == UNION {{f.rule : f \in s} : s \in UNION {Reports[r] : r \in Reviewer}}
Finding  == [rule : Rules, severity : Severity]

ASSUME StagesAssumption ==
    /\ MaxAttempts \in Nat \ {0} /\ MaxWaves \in Nat \ {0}
    /\ MaxReviewers \in Nat /\ MaxKills \in Nat
    /\ Modes \subseteq Mode
    /\ \A r \in Reviewer : Reports[r] \subseteq SUBSET Finding

Tree == [tests : {"none", "red", "weak"}, code : {"old", "good", "bad"},
         stray : BOOLEAN,    \* a path outside of the task's was touched
         torn : BOOLEAN,     \* holds what a call wrote that died with the process
         foreign : BOOLEAN]  \* holds what a reviewer wrote
Nothing == [tests |-> "none", code |-> "nowhere", stray |-> FALSE, torn |-> FALSE, foreign |-> FALSE]

\* What is left in an outbox by a reviewer: findings.json, when it is there
\* and valid.
File   == [there : BOOLEAN, found : SUBSET Finding]
NoFile == [there |-> FALSE, found |-> {}]

States   == {"pending", "precheck", "running", "executed", "verifying", "reviewing",
             "ready", "done", "needs_replan", "human_required", "integration_conflict"}
Closed   == {"done", "needs_replan", "human_required", "integration_conflict"}
Outcomes == {"none", "verified", "rejected", "error", "blocked", "budget_exhausted",
             "replan", "handoff_missing", "conflict"}

VARIABLES
    mode,      \* task.development.mode
    \* on the disk
    tree,      \* the worktree; Nothing when there is none
    files,     \* files[w][r]: the outbox of reviewer r in wave w of this attempt
    \* in the journal
    proj,      \* the projection: attempt, judged (verdict_attempt), state
    ev,        \* the evidence recorded under the number proj.attempt
    spent,     \* the budget of the run is exhausted
    \* in the memory of the process
    pc, n,     \* the place in the code, the attempt
    point,     \* the resume point of the attempt: where it goes on from
    before,    \* the baseline: how the two criteria were before
    gate,      \* the commit of the tests, before the red gate is recorded
    failed,    \* the runtime_failure of the call that has just ended
    tier, wave, turn,  \* how many reviewers, the wave, whose turn it is
    merged,    \* the findings of the wave
    snap,      \* the workspace content before a reviewer's call
    outcome,
    \* bookkeeping of the properties and of the faults
    accepted,  \* the tree that was integrated
    said,      \* said[r]: what reviewer r filed about the tree as it is
    gated,     \* the red gate was passed in this worktree
    kills, purged

disk    == <<tree, files>>
journal == <<proj, ev, spent>>
memory  == <<n, point, before, gate, failed, tier, wave, turn, merged, snap>>
history == <<accepted, said, gated, kills, purged>>
vars    == <<mode, disk, journal, pc, memory, outcome, history>>

Observed == {"none", "green", "red"}
Points   == {"start", "verify", "implement"}
Evidence == [green : Observed, red : Observed, gate : Tree \cup {Nothing},
             finished : BOOLEAN, implemented : BOOLEAN]
NoEvidence == [green |-> "none", red |-> "none", gate |-> Nothing,
               finished |-> FALSE, implemented |-> FALSE]
Word     == [called : BOOLEAN, wrote : BOOLEAN, found : SUBSET Finding]
Unasked  == [called |-> FALSE, wrote |-> FALSE, found |-> {}]
PCs == {"dead", "start", "dispatch", "precheck", "baseline", "author", "authoring",
        "check_author", "red_gate", "record_red", "implement", "implementing",
        "record_implementation", "verify", "tier", "reviewer", "reviewing", "compare",
        "wave_end", "fixer", "fixing", "judge_fix", "tampered", "terminal", "record",
        "returned"}

(***************************************************************************)
(* Worktrees and criteria.                                                 *)
(***************************************************************************)
\* The tip of the integration branch that a worktree is made from.
Base == [tests |-> IF mode = "tdd" THEN "none" ELSE "red", code |-> "old",
         stray |-> FALSE, torn |-> FALSE, foreign |-> FALSE]

Content(t) == <<t.tests, t.code, t.stray>>

\* What an agent may make of a worktree. In standard mode the tests are among
\* the paths it must not touch.
Edits(t) == {u \in Tree : /\ u.torn = t.torn /\ u.foreign = t.foreign
                          /\ mode = "standard" => u.tests = t.tests}

\* The criterion that passes in the base, and the one with expect_fail_before.
GreenPasses(t) == t.code # "bad"
RedPasses(t)   == t.tests = "weak" \/ (t.tests = "red" /\ t.code = "good")
Seen(passes)   == IF passes THEN "green" ELSE "red"

\* verify._outcome: a regression, or unmet. (A criterion that was red before
\* and need not be is nobody's fault.)
Rejects(b, t) == \/ b.green = "green" /\ ~GreenPasses(t)
                 \/ b.red # "none" /\ ~RedPasses(t)

\* verify.judge over the diff to the base; violations says whether there are any.
Judgement(b, t, violations) ==
    CASE Content(t) = Content(Base) -> IF Rejects(b, t) THEN "rejected" ELSE "replan"
      [] Content(t) # Content(Base) /\ (violations \/ Rejects(b, t)) -> "rejected"
      [] OTHER -> "none"

\* Runner._reclassified: whoever fails for his criteria, and not for what he
\* touched, is blocked when the harness sees that his environment fails.
MayBeBlocked(b, t, violations) ==
    "precheck" \in Faults /\ Rejects(b, t) /\ (Content(t) = Content(Base) \/ ~violations)

\* The implementer's phase: against the commit of the red gate neither the
\* tests nor anything out of scope may differ.
PhaseViolation(t) == /\ mode = "tdd"
                     /\ ev.gate # Nothing
                     /\ t.tests # ev.gate.tests \/ t.stray # ev.gate.stray

Blocking(f) == f.severity = "high" \/ f.rule \in CriticalRules

\* One finding per rule, file and line: the first one filed.
Merge(old, new) == old \cup {f \in new : \A g \in old : g.rule # f.rule}

(***************************************************************************)
(* Attempts and the places where they can be taken up again.               *)
(***************************************************************************)
BaselineKnown == ev.green # "none" /\ ev.red # "none"
KnownBaseline == [green |-> ev.green, red |-> ev.red]

ImplementationCompleted == ev.gate # Nothing /\ ev.implemented /\ BaselineKnown
\* Mutant: the two halves of the baseline stand for the red gate.
ResumesWithoutGate == BaselineKnown
ResumesAtImplementation == ev.gate # Nothing /\ BaselineKnown
\* Mutant: a call under way counts as one that ended.
ResumableRunning == {"running", "executed", "verifying", "reviewing", "repairing"}
Resumable == {"executed", "verifying", "reviewing", "repairing"}

\* Mutant: an attempt whose process died counts as used up.
ResumePointNextAttempt ==
    IF proj.attempt < MaxAttempts THEN [n |-> proj.attempt + 1, at |-> "start"]
    ELSE [n |-> MaxAttempts, at |-> "start"]
ResumePoint ==
    CASE proj.attempt = 0 -> [n |-> 1, at |-> "start"]
      [] proj.attempt > 0 /\ proj.judged = proj.attempt -> [n |-> proj.attempt + 1, at |-> "start"]
      [] OTHER ->
           [n |-> proj.attempt,
            at |-> CASE tree = Nothing -> "start"
                     [] tree # Nothing /\ mode = "tdd" ->
                          IF ImplementationCompleted THEN "verify"
                          ELSE IF ResumesAtImplementation THEN "implement" ELSE "start"
                     [] OTHER -> IF proj.state \in Resumable THEN "verify" ELSE "start"]

\* Mutant: the limit is off by one.
NextStateOnceMore(o, k) == IF o \in {"rejected", "error"} /\ k <= MaxAttempts THEN "ready"
                           ELSE "human_required"
NextState(o, k) ==
    CASE o = "verified" -> "done"
      [] o = "rejected" -> IF k >= MaxAttempts THEN "needs_replan" ELSE "ready"
      [] o = "error" -> IF k >= MaxAttempts THEN "human_required" ELSE "ready"
      [] o = "replan" -> "needs_replan"
      [] o = "conflict" -> "integration_conflict"
      [] OTHER -> "human_required"

Silence  == [r \in Reviewer |-> Unasked]
Emptied  == [w \in Wave |-> [r \in Reviewer |-> NoFile]]
NoBaseline == [green |-> "none", red |-> "none"]
\* What was said about a worktree is about its content.
SaidAbout(t) == IF Content(t) = Content(tree) THEN said ELSE Silence

Init ==
    /\ mode \in Modes
    /\ tree = Nothing /\ files = Emptied
    /\ proj = [attempt |-> 0, judged |-> 0, state |-> "pending"]
    /\ ev = NoEvidence /\ spent = FALSE
    /\ pc = "start" /\ n = 1 /\ point = "start" /\ before = NoBaseline /\ gate = Nothing
    /\ failed = FALSE /\ tier = 0 /\ wave = 0 /\ turn = 0 /\ merged = {} /\ snap = Nothing
    /\ outcome = "none"
    /\ accepted = Nothing /\ said = Silence /\ gated = FALSE /\ kills = 0 /\ purged = FALSE

Goto(place) == pc' = place /\ UNCHANGED outcome
Stop(o)     == pc' = "record" /\ outcome' = o
StopOr(o, place) == IF o = "none" THEN Goto(place) ELSE Stop(o)
\* The events of an agent's call, as the projection shows them.
Running  == proj' = [proj EXCEPT !.state = "running"]
Executed == /\ proj' = [proj EXCEPT !.state = "executed"]
            /\ ev' = [ev EXCEPT !.finished = ev.gate # Nothing]
\* Runner._dispatch up to agent_started, behind the hard cap.
Call(place) == IF spent THEN Stop("budget_exhausted") /\ UNCHANGED proj
               ELSE Goto(place) /\ Running
\* The agent has changed the worktree.
Edit(t) == tree' = t /\ said' = SaidAbout(t)

(***************************************************************************)
(* Runner._run_task and _attempt, up to the first call.                    *)
(***************************************************************************)
\* The top of the loop: budget, then the worktree, made anew or taken up.
Start ==
    /\ pc = "start"
    /\ IF spent
       THEN Stop("budget_exhausted") /\ UNCHANGED <<tree, before, said, gated>>
       ELSE CASE point = "start" ->
                   /\ Edit(Base) /\ gated' = FALSE
                   /\ Goto("dispatch") /\ UNCHANGED before
              [] point = "verify" ->
                   /\ before' = KnownBaseline
                   /\ Goto(IF BaselineKnown THEN "verify" ELSE "dispatch")
                   /\ UNCHANGED <<tree, said, gated>>
              [] OTHER ->
                   /\ before' = KnownBaseline
                   /\ Goto("precheck") /\ UNCHANGED <<tree, said, gated>>
    /\ point' = IF point = "implement" THEN point ELSE "start"
    /\ UNCHANGED <<mode, files, journal, n, gate, failed, tier, wave, turn, merged, snap,
                   accepted, kills, purged>>

\* task_dispatched. Evidence and outboxes are looked up by attempt number: a
\* new number starts with none.
Dispatch ==
    /\ pc = "dispatch"
    /\ proj' = [attempt |-> n, judged |-> proj.judged, state |-> "precheck"]
    /\ IF n > proj.attempt THEN ev' = NoEvidence /\ files' = Emptied
       ELSE UNCHANGED <<ev, files>>
    /\ Goto("precheck")
    /\ UNCHANGED <<mode, tree, spent, memory, history>>

\* Preconditions and the adapter's preflight.
Precheck ==
    /\ pc = "precheck"
    /\ \E o \in {"none"} \cup (IF "precheck" \in Faults THEN {"blocked", "error", "replan"} ELSE {}) :
         StopOr(o, IF point = "implement" THEN "implement" ELSE "baseline")
    /\ point' = "start"
    /\ UNCHANGED <<mode, disk, journal, n, before, gate, failed, tier, wave, turn, merged, snap,
                   history>>

\* The criteria before the agent; under TDD only the one that need not fail.
Baseline ==
    /\ pc = "baseline"
    /\ LET green == Seen(GreenPasses(tree))
           red   == Seen(RedPasses(tree))
       IN IF mode = "tdd"
          THEN /\ ev' = [ev EXCEPT !.green = green]
               /\ before' = [green |-> green, red |-> "none"]
               /\ Goto("author")
          ELSE /\ ev' = [ev EXCEPT !.green = green, !.red = red]
               /\ before' = [green |-> green, red |-> red]
               /\ StopOr(IF red = "green" THEN "replan" ELSE "none", "implement")
    /\ UNCHANGED <<mode, disk, proj, spent, n, point, gate, failed, tier, wave, turn, merged, snap,
                   history>>

(***************************************************************************)
(* TddStage.run: the test author, the red gate, the implementer.           *)
(***************************************************************************)
CallAuthor ==
    /\ pc = "author"
    /\ Call("authoring")
    /\ UNCHANGED <<mode, disk, ev, spent, memory, history>>

AuthorEnds ==
    /\ pc = "authoring"
    /\ Executed
    /\ \E t \in Edits(tree), f \in BOOLEAN :
         /\ Edit(t)
         /\ StopOr(IF f THEN "error" ELSE "none", "check_author")
    /\ UNCHANGED <<mode, files, spent, memory, accepted, gated, kills, purged>>

\* The author must have written tests, and nothing but tests.
AuthorOutcome(t) ==
    IF Content(t) = Content(Base) \/ t.code # Base.code \/ t.stray THEN "rejected" ELSE "none"

\* The scope of the author's phase, the commit of the tests, the event.
CheckAuthor ==
    /\ pc = "check_author"
    /\ \E committed \in {TRUE} \cup (IF "commit" \in Faults THEN {FALSE} ELSE {}) :
         LET o == AuthorOutcome(tree)
         IN IF o = "none" /\ committed
            THEN gate' = tree /\ Goto("red_gate")
            ELSE Stop(IF o = "none" THEN "error" ELSE o) /\ UNCHANGED gate
    /\ UNCHANGED <<mode, disk, journal, n, point, before, failed, tier, wave, turn, merged, snap,
                   history>>

\* A command that was not run is red evidence of nothing. The policy may deny
\* it, it may lack an approval, or a process.
RedOutcome(seen, how) ==
    IF seen = "green" \/ how = "denied" THEN "replan"
    ELSE CASE how = "ran" -> "none" [] how = "unapproved" -> "blocked" [] OTHER -> "error"

\* The criterion that must fail is measured now that its tests exist.
RedGate ==
    /\ pc = "red_gate"
    /\ \E how \in {"ran"} \cup (IF "unexecuted" \in Faults THEN {"denied", "unapproved", "failed"} ELSE {}) :
         LET seen == Seen(how = "ran" /\ RedPasses(tree))
         IN /\ ev' = [ev EXCEPT !.red = seen]
            /\ before' = [before EXCEPT !.red = seen]
            /\ outcome' = RedOutcome(seen, how)
    /\ pc' = "record_red"
    /\ UNCHANGED <<mode, disk, proj, spent, n, point, gate, failed, tier, wave, turn, merged, snap,
                   history>>

\* tdd_phase_completed of the red gate. The latest one counts, and what comes
\* after it.
RecordRed ==
    /\ pc = "record_red"
    /\ IF outcome = "none"
       THEN /\ ev' = [ev EXCEPT !.gate = gate, !.finished = FALSE, !.implemented = FALSE]
            /\ gated' = (before.red = "red" /\ Content(gate) = Content(tree))
            /\ Goto("implement")
       ELSE Stop(outcome) /\ UNCHANGED <<ev, gated>>
    /\ gate' = Nothing
    /\ UNCHANGED <<mode, disk, proj, spent, n, point, before, failed, tier, wave, turn, merged, snap,
                   accepted, said, kills, purged>>

\* The one call of the standard mode, the second one of TDD.
CallImplementer ==
    /\ pc = "implement"
    /\ Call("implementing")
    /\ UNCHANGED <<mode, disk, ev, spent, memory, history>>

\* A call that returns has taken up what a dead one left.
ImplementerEnds ==
    /\ pc = "implementing"
    /\ Executed
    /\ \E t \in Edits(tree), f \in BOOLEAN :
         /\ Edit([t EXCEPT !.torn = FALSE])
         /\ failed' = (mode = "tdd" /\ f)
         /\ IF mode = "tdd" THEN Goto("record_implementation")
            ELSE StopOr(IF f THEN "error" ELSE "none", "verify")
    /\ UNCHANGED <<mode, files, spent, n, point, before, gate, tier, wave, turn, merged, snap,
                   accepted, gated, kills, purged>>

RecordImplementation ==
    /\ pc = "record_implementation"
    /\ ev' = IF failed THEN ev ELSE [ev EXCEPT !.implemented = ev.finished]
    /\ failed' = FALSE
    /\ StopOr(IF failed THEN "error" ELSE "none", "verify")
    /\ UNCHANGED <<mode, disk, proj, spent, n, point, before, gate, tier, wave, turn, merged, snap,
                   history>>

\* The criteria again, the diff and its scope, the judgement, a second look at
\* the environment.
Verify ==
    /\ pc = "verify"
    /\ proj' = [proj EXCEPT !.state = "verifying"]
    /\ \/ StopOr(Judgement(before, tree, tree.stray \/ PhaseViolation(tree)), "tier")
       \/ MayBeBlocked(before, tree, tree.stray \/ PhaseViolation(tree)) /\ Stop("blocked")
    /\ UNCHANGED <<mode, disk, ev, spent, memory, history>>

(***************************************************************************)
(* ReviewStage.run: bounded waves of reviewers and fixers.                 *)
(***************************************************************************)
\* The tier is fixed once, from the implementer's diff. Which one it is, is a
\* matter of paths and sizes (Risk).
Tier ==
    /\ pc = "tier"
    /\ \E k \in 0..MaxReviewers :
         /\ tier' = k
         /\ IF k = 0 THEN Goto("tampered") /\ UNCHANGED <<wave, turn, merged>>
            ELSE Goto("reviewer") /\ wave' = 1 /\ turn' = 1 /\ merged' = {}
    /\ UNCHANGED <<mode, disk, journal, n, point, before, gate, failed, snap, history>>

\* The next reviewer: the budget, the content of the workspace, the call.
CallReviewer ==
    /\ pc = "reviewer"
    /\ snap' = tree
    /\ Call("reviewing")
    /\ UNCHANGED <<mode, disk, ev, spent, n, point, before, gate, failed, tier, wave, turn, merged,
                   history>>

\* It writes findings, or none, or leaves what an earlier call has left there;
\* it may write to the workspace as well. Whether it failed is not asked.
ReviewerEnds ==
    /\ pc = "reviewing"
    /\ Executed
    /\ \E t \in Edits(tree), wrote \in BOOLEAN, found \in Reports[turn] :
         /\ wrote \/ found = {}
         /\ tree' = IF Content(t) = Content(tree) THEN t ELSE [t EXCEPT !.foreign = TRUE]
         /\ files' = IF wrote THEN [files EXCEPT ![wave][turn] = [there |-> TRUE, found |-> found]]
                     ELSE files
         /\ said' = [SaidAbout(t) EXCEPT ![turn] = [called |-> TRUE, wrote |-> wrote, found |-> found]]
    /\ Goto("compare")
    /\ UNCHANGED <<mode, spent, memory, accepted, gated, kills, purged>>

\* A changed workspace, then missing findings, end the attempt; otherwise the
\* findings are merged and it is the next reviewer's turn.
\* Mutant: only the fixers are thought to write.
NeverMutated == FALSE
Mutated == Content(tree) # Content(snap)
Compare ==
    /\ pc = "compare"
    /\ LET file == files[wave][turn]
           new  == Merge(merged, file.found)
       IN \/ /\ Mutated
             /\ Stop("rejected") /\ UNCHANGED <<proj, turn, merged>>
          \/ /\ ~Mutated /\ ~file.there
             /\ Stop("error") /\ UNCHANGED <<proj, turn, merged>>
          \/ /\ ~Mutated /\ file.there
             /\ merged' = new
             /\ proj' = IF new = merged THEN proj ELSE [proj EXCEPT !.state = "reviewing"]
             /\ turn' = turn + 1
             /\ Goto(IF turn < tier THEN "reviewer" ELSE "wave_end")
    /\ snap' = Nothing
    /\ UNCHANGED <<mode, disk, ev, spent, n, point, before, gate, failed, tier, wave, history>>

\* The content of the workspace could not be read.
SnapshotFails ==
    /\ "snapshot" \in Faults
    /\ pc \in {"reviewer", "compare"}
    /\ Stop("error")
    /\ UNCHANGED <<mode, disk, journal, memory, history>>

\* No blocking finding: the review is passed. Otherwise a fixer is sent, as
\* long as there is a wave to look at what it does.
\* Mutant: after the last wave the review is over.
WaveEndsAtLimit ==
    /\ pc = "wave_end"
    /\ Goto(IF wave >= MaxWaves \/ merged = {} THEN "tampered" ELSE "fixer")
    /\ UNCHANGED <<mode, disk, journal, memory, history>>
WaveEnds ==
    /\ pc = "wave_end"
    /\ LET blocking == {f \in merged : Blocking(f)}
       IN \/ /\ blocking = {} /\ Goto("tampered") /\ UNCHANGED proj
          \/ /\ blocking # {} /\ wave >= MaxWaves
             /\ Stop("rejected") /\ UNCHANGED proj
          \/ /\ blocking # {} /\ wave < MaxWaves /\ spent
             /\ Stop("budget_exhausted") /\ UNCHANGED proj
          \/ /\ blocking # {} /\ wave < MaxWaves /\ ~spent
             /\ Goto("fixer") /\ proj' = [proj EXCEPT !.state = "reviewing"]
    /\ UNCHANGED <<mode, disk, ev, spent, memory, history>>

CallFixer ==
    /\ pc = "fixer"
    /\ Call("fixing")
    /\ UNCHANGED <<mode, disk, ev, spent, memory, history>>

\* Whether the fixer failed is not asked either: what it left is judged.
FixerEnds ==
    /\ pc = "fixing"
    /\ Executed
    /\ \E t \in Edits(tree) : Edit(t)
    /\ Goto("judge_fix")
    /\ UNCHANGED <<mode, files, spent, memory, accepted, gated, kills, purged>>

\* Mutant: the wave is not counted.
SameWave == wave' = wave /\ turn' = 1 /\ merged' = {}
NextWave == wave' = wave + 1 /\ turn' = 1 /\ merged' = {}
JudgeFix ==
    /\ pc = "judge_fix"
    /\ proj' = [proj EXCEPT !.state = "verifying"]
    /\ \/ StopOr(Judgement(before, tree, tree.stray), "reviewer")
       \/ MayBeBlocked(before, tree, tree.stray) /\ Stop("blocked")
    /\ NextWave
    /\ UNCHANGED <<mode, disk, ev, spent, n, point, before, gate, failed, tier, snap, history>>

\* After the review the scope of the implementer's phase is looked at again.
\* Mutant: the tests are looked at before the review only.
TamperedUnseen == /\ pc = "tampered" /\ Goto("terminal")
                  /\ UNCHANGED <<mode, disk, journal, memory, history>>
Tampered ==
    /\ pc = "tampered"
    /\ StopOr(IF PhaseViolation(tree) THEN "rejected" ELSE "none", "terminal")
    /\ UNCHANGED <<mode, disk, journal, memory, history>>

(***************************************************************************)
(* The terminal stage and the verdict; Runner has both in detail.          *)
(***************************************************************************)
Terminal ==
    /\ pc = "terminal"
    /\ \E o \in {"verified", "handoff_missing", "conflict"} :
         /\ Stop(o)
         /\ accepted' = IF o = "verified" THEN tree ELSE accepted
    /\ UNCHANGED <<mode, disk, journal, memory, said, gated, kills, purged>>

\* What the process holds in memory is gone with the attempt.
Forget(k, at) ==
    /\ n' = k /\ point' = at /\ before' = NoBaseline /\ gate' = Nothing /\ failed' = FALSE
    /\ tier' = 0 /\ wave' = 0 /\ turn' = 0 /\ merged' = {} /\ snap' = Nothing
    /\ outcome' = "none"

\* verdict_assigned; the worktree of what is done is removed.
Record ==
    /\ pc = "record"
    /\ LET next == NextState(outcome, n)
       IN /\ proj' = [attempt |-> n, judged |-> n, state |-> next]
          /\ IF n > proj.attempt THEN ev' = NoEvidence /\ files' = Emptied
             ELSE UNCHANGED <<ev, files>>
          /\ IF next = "done" THEN tree' = Nothing /\ said' = Silence /\ gated' = FALSE
             ELSE UNCHANGED <<tree, said, gated>>
          /\ IF next = "ready" THEN pc' = "start" /\ Forget(n + 1, "start")
             ELSE pc' = "returned" /\ Forget(n, "start")
    /\ UNCHANGED <<mode, spent, accepted, kills, purged>>

(***************************************************************************)
(* The environment.                                                        *)
(***************************************************************************)
\* The process dies, anywhere. A call under way has done some of its work; the
\* agent dies with it.
Kill ==
    /\ pc \notin {"dead", "returned"} /\ kills < MaxKills
    /\ kills' = kills + 1
    /\ pc' = "dead" /\ Forget(1, "start")
    /\ IF pc \in {"authoring", "implementing", "reviewing", "fixing"}
       THEN \E t \in Edits(tree) :
              /\ tree' = IF Content(t) = Content(tree) THEN t ELSE [t EXCEPT !.torn = TRUE]
              /\ said' = SaidAbout(t)
       ELSE UNCHANGED <<tree, said>>
    /\ IF pc = "reviewing"
       THEN files' \in {files} \cup
              {[files EXCEPT ![wave][turn] = [there |-> TRUE, found |-> s]] : s \in Reports[turn]}
       ELSE UNCHANGED files
    /\ UNCHANGED <<mode, journal, accepted, gated, purged>>

\* The temporary directory is cleaned between two processes.
Purge ==
    /\ "purge" \in Faults /\ pc = "dead" /\ tree # Nothing
    /\ tree' = Nothing /\ files' = Emptied /\ said' = Silence /\ gated' = FALSE
    /\ purged' = TRUE
    /\ UNCHANGED <<mode, journal, pc, memory, outcome, accepted, kills>>

\* run --resume.
Resume ==
    /\ pc = "dead"
    /\ pc' = "start"
    /\ n' = ResumePoint.n /\ point' = ResumePoint.at
    /\ UNCHANGED <<mode, disk, journal, before, gate, failed, tier, wave, turn, merged, snap,
                   outcome, history>>

\* Other tasks and the clock use up the budget.
Spend ==
    /\ "budget" \in Faults /\ ~spent /\ pc # "returned"
    /\ spent' = TRUE
    /\ UNCHANGED <<mode, disk, proj, ev, pc, memory, outcome, history>>

\* The task is closed.
Over == pc = "returned" /\ UNCHANGED vars

Step == \/ Start \/ Dispatch \/ Precheck \/ Baseline
        \/ CallAuthor \/ AuthorEnds \/ CheckAuthor \/ RedGate \/ RecordRed
        \/ CallImplementer \/ ImplementerEnds \/ RecordImplementation \/ Verify
        \/ Tier \/ CallReviewer \/ ReviewerEnds \/ Compare \/ SnapshotFails \/ WaveEnds
        \/ CallFixer \/ FixerEnds \/ JudgeFix \/ Tampered \/ Terminal \/ Record

Next == Step \/ Kill \/ Purge \/ Resume \/ Spend \/ Over

Spec == Init /\ [][Next]_vars

\* A process that can go on does; a call ends at its timeout at the latest.
FairSpec == Spec /\ WF_vars(Step)

(***************************************************************************)
(* Properties.                                                             *)
(***************************************************************************)
TypeOK ==
    /\ mode \in Modes
    /\ tree \in Tree \cup {Nothing}
    /\ files \in [Wave -> [Reviewer -> File]]
    /\ proj \in [attempt : 0..MaxAttempts, judged : 0..MaxAttempts, state : States]
    /\ ev \in Evidence /\ spent \in BOOLEAN
    /\ pc \in PCs /\ n \in 1..MaxAttempts /\ point \in Points
    /\ before \in [green : Observed, red : Observed]
    /\ gate \in Tree \cup {Nothing} /\ failed \in BOOLEAN
    /\ tier \in 0..MaxReviewers /\ wave \in 0..MaxWaves /\ turn \in 0..MaxReviewers + 1
    /\ merged \subseteq Finding /\ snap \in Tree \cup {Nothing}
    /\ outcome \in Outcomes
    /\ accepted \in Tree \cup {Nothing}
    /\ said \in [Reviewer -> Word] /\ gated \in BOOLEAN
    /\ kills \in 0..MaxKills /\ purged \in BOOLEAN

\* What is integrated passes both criteria by its code and not by its tests,
\* and touches nothing out of scope, however often it was fixed, killed and
\* taken up again in between (docs/06, the four conditions).
AcceptedIsProven ==
    accepted # Nothing => /\ accepted.tests = "red" /\ accepted.code = "good"
                          /\ ~accepted.stray

\* A task is integrated only when every reviewer of its tier was called on the
\* very worktree that is integrated. In a process that nobody killed each of
\* them also filed its findings then, and no worktree holds a reviewer's change.
AcceptedWasReviewed ==
    [][pc = "terminal" /\ outcome' = "verified" =>
         /\ \A r \in 1..tier : said[r].called
         /\ kills = 0 => /\ \A r \in 1..tier : said[r].wrote
                         /\ ~tree.foreign]_vars

\* A reviewer that blocks is not overruled: nothing is integrated about which a
\* reviewer of the last wave filed a blocking finding.
NoBlockingFindingAccepted ==
    [][pc = "terminal" /\ outcome' = "verified" =>
         \A r \in 1..tier : \A f \in said[r].found : ~Blocking(f)]_vars

\* Under TDD the implementer is called only in a worktree whose tests were seen
\* to fail there (docs/06: if the red gate is not passed, the implementation is
\* not dispatched), as long as no worktree was lost.
ImplementsAfterRed ==
    pc = "implementing" /\ mode = "tdd" /\ ~purged => gated

\* In standard mode what a call left that died with its process is never
\* judged: the attempt starts over from a clean worktree.
TornIsNeverJudged ==
    pc \in {"verify", "judge_fix"} /\ mode = "standard" => ~tree.torn

\* The attempts are those of Attempts.
AbstractAttempts == INSTANCE Attempts
    WITH number <- proj.attempt, judged <- proj.judged, closed <- proj.state \in Closed
ImplementsAttempts == AbstractAttempts!Spec

\* A process that works on the task ends, by itself or by being killed.
AttemptsEnd == pc # "dead" ~> pc \in {"dead", "returned"}
=============================================================================
