# Verification of the harness

This directory specifies the *harness*, the Python program in
`src/harness/` that runs a graph of coding tasks with external agent CLIs,
adjudicates their work by evidence, and integrates what is proven. It holds TLA+
modules translated from the source, TLC configurations that check them on small
instances, and theorems that TLAPS proves for every instance. `PROJECT.json` is
the index: components, runs, mutants, the map from each definition to the lines
it models, findings, hazards and theorems.

To repeat the checks: `tlc -workers 2 -config MCRunner_crash.cfg MCRunner` (and so for
every `.cfg`), `tlapm RunnerProofs.tla` (and so for every `*Proofs.tla`).

## 1. Inventory

One orchestrator process per run owns a directory `.harness/runs/<id>/` with an
append-only `journal.jsonl` and a cache `state.json`; git worktrees and outboxes
live under a scratch directory in the system's temporary directory; the branch
`harness/<id>` integrates the work; agents are child processes.

| Component | State it keeps | Operations | Interacts with |
|---|---|---|---|
| Journal and projection (`store.py`, `events.py`) | `journal.jsonl`, `state.json`, the cached `_last_seq`, the projected `_state`, a lock | append (repair the tail, write, fsync, apply, save), open (snapshot or fold), read | every component appends and reads; `doctor` rewrites the snapshot |
| Task runner (`exec/runner.py`) | the attempt under way (in memory), its events in the journal | run, resume, attempts, preconditions, dispatch, adjudication, handoff gate, verdict | journal, workspaces, adapters, verification |
| Scheduler (`exec/scheduler.py`) | `verified`, `remaining`, the running futures | select, submit, collect, unwind | a thread per running task |
| Workspaces (`exec/workspace.py`) | worktrees, outboxes, the integration branch, a lock | open, existing, integrate, close, checkpoint | git; all workers |
| Task graph (`dag.py`) | tasks, dependencies, layers | load, order, ready | scheduler |
| Verification (`exec/verify.py`) | baseline outcomes, diffs, debts | precheck, baseline, post, check_paths, observe_diff, judge | runner, review, TDD |
| Handoff gate (`exec/handoff.py`) | the handoff artifact | normalise, gate | runner |
| Adapters (`adapters/`) | the child process, its output | execute (timeout, kill), preflight | runner |
| Review (`exec/review.py`) | findings, waves | waves of reviewers, fixers, mutation checks | runner, workspaces |
| TDD (`exec/tdd.py`) | phases, red gate | test phase, red gate, checkpoint, implementation | runner, workspaces |
| Converge and ship (`converge.py`) | `converge.json`, waivers, the user's branch | converge, ship | journal, integration branch |
| Policy and probes (`policy.py`, `probes.py`) | approvals | decide, run | verification, converge |
| Risk, paths (`risk.py`, `paths.py`) | - | glob match, overlap, risk floor | scheduler, verification |
| Specs, analysis (`spec.py`, `analyze.py`) | `analyze.json` | analyze, gate | command line |
| Learning (`learn.py`) | knowledge cards | propose, promote, retire, record uses | journal of several runs |
| Context (`context/`) | - | fit text in a budget, slice, map | runner |
| Command line (`cli.py`), config, redaction, git wrapper, schemas, evaluation | - | parsing, text, subprocesses | all |

What is hard, and what makes each component correct:

* **Journal.** Killed between any two of write, fsync, apply and save; torn lines;
  a full disk; a snapshot trusted by a number alone; a cached number. Correct means:
  numbered from 1 without gaps, the state is the fold of the journal, a committed
  event is never lost, `state.json` never shows an event the journal can lose.
* **Runner and resume.** A process dies between two events, and the table of
  docs/10 decides from what is left. Correct means: one verdict per attempt, a crash uses up
  no attempt, what is done is integrated and stays so, no attempt is verified on what
  an earlier call left behind.
* **Scheduler.** Workers finish, fail and overlap in any order. Correct means:
  nothing runs before what it needs, overlapping tasks are serial, the run ends, and at its
  end nothing that could run is left.
* **Workspaces.** The integration branch is moved with `git branch -f`, blindly.
  Correct means: no merged work is lost and only proven work is merged.
* **Budget.** The count is read from the journal and appended to later.
* **Review, TDD.** Changes of the tree by a reviewer, a fixer that times out, findings of several
  reviewers about one place, a resume between the red gate, its checkpoint and its event. Correct means: what is
  integrated is what was judged and reviewed last, nothing that blocks is overruled, no implementation starts before its
  tests were seen red, and what a dead call left is not judged as if it had ended.
* **Verdicts, policy, baselines.** Each command may be allowed, denied, unapproved, unstartable or fail in its
  environment, before and after the agent; a baseline is restored from the events a kill has left. Correct means: the
  verdict blames the right party, for every combination.
* **Patterns and overlaps.** Verification matches globs, the scheduler compares literal prefixes. Correct
  means: the second never says less than the first.
* **Analysis, learning, context.** Records of older inputs; cards written back from what was read at the start; a
  prompt that does not fit. Correct means: what the gate lets through can be run, a card changes its status by a human
  only, what a task builds on is in its prompt.
* **Converge and ship.** Inputs that change while they are validated, or between the record
  and the merge; a ledger written attempt by attempt, by workers that branched at different times; a
  command that dies between its event and its merge. Correct means: what ships passes or was
  waived, the conditions of the gate hold together when ship passes it, and a gate never makes its own
  record stale.

## 2. Modules

| Module | What it is |
|---|---|
| `EventLog` | abstract: a log that only grows beyond what is committed, numbered without gaps |
| `Journal` | `Journal` and `Store` of `store.py`, one action per effect, and the faults between them |
| `DagRun` | abstract: tasks merged one at a time on top of what they depend on, accepted only when merged, nothing taken back |
| `Runner` | `Runner`, `ParallelRunner`, `Workspaces`: a run of the graph, its crashes and resumes |
| `Attempts` | abstract: the attempts of one task, numbered, each judged once, none after the task is closed |
| `Stages` | the attempts of one task with their TDD and review stages |
| `Release` | the debt ledger, `converge` and `ship`: from the attempts to the user's branch |
| `Policy` | what becomes of a command: rules, approvals, shell; preconditions |
| `Acceptance` | on top of it: criteria before and after, `judge`, reclassification, the baseline in the journal |
| `Lists`, `TaskGraph`, `Scopes` | sorted and filtered lists; the order of the graph; globs, allowed paths, overlaps |
| `Analysis` | on top of the three: the checks of `analyze`, its record and its gate |
| `Context` | handoffs, and what of a prompt is kept when it does not fit |
| `Knowledge` | the cards of `learn.py`, beside runs and a human |
| `MCJournal`, `MCRunner`, `MCStages`, `MCRelease` | the instances for TLC |
| `Decisions` | what `Analysis` (with all below it) and `Context` must answer to one question, and the types of the questions |
| `MCDecisions` | the questions TLC asks, and an instance of `Knowledge` |
| `JournalProofs` | theorems about `Journal` |
| `RunnerProofs`, `GraphProofs` | about `Runner`: types, the integration branch, the numbering of attempts; the graph and `DagRun`, one worker, overlaps, handoffs |
| `StagesProofs`, `ReleaseProofs`, `KnowledgeProofs` | about `Stages`, `Release` and `Knowledge` |
| `DecisionProofs`, `PatternProofs` | about `Decisions`: verdicts, prompts, orders, analyses and baselines; paths and globs |

### Journal

`file` is the sequence of newline-terminated lines, `torn` whether an incomplete one
follows, `synced` how many lines are known to be on the disk. A process has
its place in `Store.append` (`pc`), the cached `_last_seq` (`lastSeq`), the
projected state (`mem`) and the event it appends (`entry`). A projected state *is*
the sequence of the events folded into it: `apply` reads the state and the event and nothing
else. The actions are the effects in the order of the code: `NumberEvent`,
`RepairTail`, `WriteLine`, `SyncFile` (fsync and `_last_seq`), `ApplyEvent`,
`SaveState`. The faults are chosen by `Environment`: `kill` (anywhere; half a line when
writing), `power` (the disk keeps the fsynced lines, any number of others,
and *some* version of `state.json`, which is renamed but never fsynced), `write`
(a full disk), `fsync` (raises after the line is in the file), `save`, and a concurrent `doctor`.

### Runner

A tree, of a worktree or of the integration branch, is a set of marks
`<<task, quality>>`: `good` (the acceptance criteria of the task pass), `bad`, `out` (outside
the allowed paths), `late` (written by a handoff repair). That is all the runner's
decisions tell apart. `worker[t].pc` is the place in `_run_task` and `_attempt`:

    start -> open -> dispatch -> prepare -> budget -> launch -> agent -> exited
          -> verify -> gate -> merge -> advance -> record -> close -> returned
    gate  -> budget            (a handoff repair)
    open  -> verify            (an attempt resumed from its verification)
    record -> start            (the next attempt)

Each point between two actions is a point where the code has an effect another thread, or a
later process, can see: an event appended, a directory made, a branch moved. What a step
only computes is part of the action. `proj`, `base`, `failed` and `calls` are
what the journal says; `work`, `outbox` and `integ` are on the disk; everything else dies
with the process. `main`, `verified` and `remaining` are the loop of `ParallelRunner.run`; with
`MaxParallel = 1` it is the sequential runner.

The faults are `kill` (the process dies anywhere), `raise` (an exception leaves
`_run_task`), `commit` (`git add` or `git commit` fails in the worktree), `advance` (`git branch -f`
fails: the branch is checked out somewhere) and `purge` (the temporary directory is
cleaned between two processes). None of them is code of the harness: in `PROJECT.json` the events of the environment (`Kill`, `Purge`,
`PowerLoss`, the user, the agent) are marked external. `Resume` is `run --resume`, of a run that
died or finished. What is abstracted: every task is of kind `implementation` with a
criterion that must fail before, and declares allowed paths that hold its own marks and those of
the tasks it overlaps; review and TDD are off; agents die with their orchestrator.

### Stages

`Runner` has many tasks and one call per attempt; `Stages` has one task and every call of it. The worktree is what the
stages tell apart: `tests` (none, red without the code, weak), `code` (old, good, bad) and whether anything else was touched
(`stray`); `torn` and `foreign` only remember who wrote it. `files` are the outboxes of the reviewers, `ev` what the
journal knows of the attempt (`proj.attempt`): the baseline, the red gate with its commit, the end of the
implementation phase. The path of `pc`, with the phases of TDD in brackets:

    start -> dispatch -> precheck -> baseline
          -> [author -> authoring -> check_author -> red_gate -> record_red]
          -> implement -> implementing -> [record_implementation] -> verify -> tier
          -> reviewer -> reviewing -> compare -> (reviewer | wave_end)
    wave_end -> fixer -> fixing -> judge_fix -> reviewer        (the next wave)
    wave_end -> tampered -> terminal -> record -> (start | returned)
    start -> verify, start -> precheck -> implement             (taken up again)

`Call` is `Runner._dispatch` up to `agent_started`, behind the budget; `Executed` is its end. `Judgement` is `judge` for two
criteria, one that holds in the base and one that must fail there; `PhaseViolation` is
`TddStage.phase_violations`; `Merge` keeps the first finding per rule. `ResumePoint` is the table of `runner.py:305-332`, which under
TDD asks the evidence and not the state. The faults are a kill at any point (a call has then done some of its work), a purge of the
temporary directory, preconditions that fail before or (`MayBeBlocked`) after the work, failing commits and snapshots, a red gate whose command is denied or
not executed, and a budget that others use up. Which tier a diff has is left open (0 to `MaxReviewers`), and so is whether the handoff gate and
the merge succeed: `Runner` has both.

### Release

A tree (and its commit) is a set of patches, each of which fixes some commands and breaks some; `Red` says
which commands fail in it. Of an attempt only the criteria are left: `Baseline` opens debts,
`Post` closes them *before* the attempt is judged, `Integrate` and `Record` are what `Runner` has in
detail. The ledger `open` is a set of commands because `_debt_id` names a debt for its command.
`ConvergeStart` takes the stamp (`Freshness`) and reads the store, `ConvergeInspect` reads specs, tasks and
the branch, `ConvergeUnion` runs the commands in a checkout of the branch *by name*, `ConvergeWrite` compares the
inputs again and writes the record with the *first* stamp. `ShipStart` compares the record with the inputs and the
debts with the waivers, `ShipWaive` appends the `debt_waived` events the journal lacks, `ShipMerge`
merges the branch by name. Between any two of these steps workers, the other command and the user go on; a
killed command loses what it had in memory. A record that is not ok is no record: ship answers both alike, and
what a converge does after its first failure changes nothing else that is modelled.

`Runner` and `Release` are two views of one attempt: `Runner` knows processes, worktrees and crashes and
nothing of debts, `Release` knows criteria and debts, and its workers do not die.

### The modules that decide

`Policy`, `Acceptance`, `TaskGraph`, `Scopes`, `Analysis` and `Context` have no variables: the code they model is
given data and returns a decision. They are written as functions of the same arguments. `Decisions` states of each kind of question
which questions there are (`AttemptQuestions`, `BaselineQuestions`, ...: what the program can be given, of any size) and
what the answer must satisfy; `MCDecisions` asks every question of a bounded part of them: first what is given for good (a task with its policy; the criteria of a task; a handoff), then what
may happen to it (the endings of its commands before and after; the events a kill has left; sizes and limits), and
the invariants compare the answer with what it should be, said without the procedure: `VerdictIsEarned` has
the conditions of docs/06 and no precedence, `GlobIsSegmentwise` matches segment by segment and knows no regular
expression, `AnalysedIsRunnable` looks at the graph that is run and not at the one that was analysed. A command is a vector
with a text: two vectors can have one text (`test`, `tset`), which is why an approval is bound to the hash.

`Knowledge` has state: `cards` are the files, `runs` the findings in the journals, `memory` what a `learn` under way is
about to write, file by file, and `asked` the last status a human gave. It has nothing to do with a run and goes on beside the questions.

## 3. Runs

| Run | Instance | Distinct states | What it shows |
|---|---|---|---|
| `journal_crash` | 1 process, 4 lines, 4 faults of kill, power, write, save | 6 241 | gapless, fold, snapshot sound and behind the journal, implements `EventLog` |
| `journal_faulty` | the same with failing fsync and a concurrent doctor, 3 faults | 28 144 | a committed event is never lost or altered |
| `runner_sequential` | 2 chained tasks, 2 attempts, a repair, a budget of 4, every agent outcome and precheck result, 2 faults (a branch that cannot be moved among them), 2 resumes | 183 050 | only proven work is merged, the budget holds, a run that ends leaves nothing that could run |
| `runner_crash` | 4 tasks in 2 chains whose ends overlap, one owes a handoff, 2 workers, 2 attempts, a repair, 2 faults of kill, raise and commit, 2 resumes | 1 167 830 | done is integrated, built on its dependencies, overlapping tasks are serial, merges keep what is merged, one verdict per attempt, `DagRun`, the run ends |
| `runner_budget_race`, `runner_timeout_resumed`, `runner_stale_handoff` | 2 tasks, at most 1 fault and 1 resume | (violated) | findings of section 5 |
| `stages` | both modes, 2 attempts, 2 waves, 2 reviewers with rules of their own, every fault, 1 kill | 638 457 | what is integrated is proven, reviewed, tested first and not overruled; `Attempts`; the attempts end |
| `stages_masked_finding` | 1 attempt, 1 wave, 2 reviewers that look at one rule, no fault | (violated) | a finding of section 5 |
| `release_gates` | 2 independent tasks, 2 commands, 2 attempts, 4 kinds of work, 1 kill, an edit of the spec, a commit that clashes | 820 886 | the ledger, the gate's conditions, the tip that is merged, waivers once, what can be released is |
| `decisions` | the questions of `MCDecisions`; 2 rules, 2 tasks, 3 runs, 3 cards, at most 2 findings a run | 1 828 362 | verdicts, restored baselines, globs, overlaps, analysed files, prompts, cards |
| `decisions_unapproved` | the same questions | (violated) | a finding of section 5 |

**Why the bounds are enough.** In the journal every interesting situation is made of the
last line, the one before, a torn one and a snapshot of some earlier time; 4 lines and 4
faults allow a fault in the recovery from a fault, twice. In the runner, 2 attempts
tell "the same attempt again" from "the next" and from "no more", 2 faults and 2 resumes allow
a crash of a resumed run, and 2 workers with a third task waiting are the least at which
readiness, overlap and the limit matter at once. In `release_gates` two tasks are the least at which one closes
the debt of the other, and 2 attempts at which a rejected one had closed it; `old` is red from the start and
nobody's task, `new` is what one task must turn green and the other can break unnoticed. In `stages` 2 waves allow one fixer between two
looks, 2 reviewers one that changes the tree after the other has spoken, and 1 kill is enough for every point at which an attempt can be taken
up again; a second one finds nothing on the disk or in the journal that the first could not have left. In `decisions` two
criteria of different kinds and a repeated one make every row of the tables; patterns of up to 3 segments meet paths of up to 3; graphs of 3 tasks
have cycles, forks and joins; 2 runs make a candidate and a third adds evidence to it. A bound on faults or resumes
only stops the environment, never the code. The theorems of section 4 need none of
these bounds.

**Deadlock** is checked in the runner's runs: the only states without another step are
those in which no process is left (`Over`). In `Stages` the
closed task goes on for ever (`Over`), so that every other state without a step counts. In `Release` there is none: a converge can always be
started. It is off in the journal's, where a process that does not append, or a journal at its bound, may stop, and
in the decisions', where a question that was answered is the end.

**Fairness** (`FairSpec`) is weak fairness of the process, of the scheduler's loop and the workers together: as long as
one of its threads can go on, some thread does. Which one is left open, so that no thread is promised its turn (that
would be fair to more than the scheduling of threads needs). It includes the agent's call, because the adapter
kills it at its timeout (`generic_cli.py`). Nothing is assumed of faults or resumes. `RunEnds` needs it.
In `Stages` it is the same of the one process (`WF` of `Step`), and `AttemptsEnd` says that it ends or is killed, however
reviewers and fixers disagree.
In `Release` it is an assumption on people, not on the code: somebody goes on to run converge, to waive what is open
and to run ship (`WF` of each; nothing of workers, edits, commits or kills). `CanRelease` says that then the gates do not
stand in each other's way: once everything is verified, undrifted and red only where the ledger says so, it ships.

**Mutants.** For each property of each passing run `PROJECT.json` names a plausible bug (a
dropped lock, a stale base, an off-by-one in the budget, verified before the merge, ...) with
which TLC finds the property violated.

## 4. Proofs

All theorems hold for every value of the constants that satisfies the `ASSUME`s: any graph,
overlap relation, number of workers, attempts, repairs, faults and resumes.

**Journal** (`JournalProofs`). `CommittedEventsAreForever` holds of a single writer (`SingleWriter`), whatever the
environment. Of two processes nothing is claimed: `_repair_incomplete_tail` reads, computes and truncates, so that a line
another process commits in between can be cut, and `append` writes behind a tail that another process tore
since; `RepairTail` and `WriteLine` are coarser than that.
`NumberedWithoutGaps`, `StateIsTheFold`, `TrustedSnapshotIsTheFold`, `SnapshotNeverAhead` and
`JournalImplementsEventLog` assume a single writer too, and neither a failing fsync nor a
concurrent doctor (`BenignEnvironment`); without it TLC finds violations: with `fsync`
the same number is written twice, with `power` and `doctor` a snapshot may be ahead of the journal,
with two processes the numbering breaks. The properties are not inductive. `IInv` adds what each
point of `Store.append` knows: the cached number is that of the last line unless the line was just
written, `mem` is the file or lacks exactly the line being applied, and every version of
`state.json` is a prefix of the *synced* lines.

**Runner.** `TypeInv` (`RunnerProofs`) adds to the types that a process that is gone has no worker under way,
that an attempt has a number within the limit and a worktree of its own while it needs one, and that
an attempt to be recorded is conclusive: without it the type of `proj'` in `Record` does not follow.

* `MergedWorkIsKept` rests on `LockInv`: at most one worker is between its merge and the move of the
  branch, and the tip it is about to replace is contained in its tree. That is what makes the blind
  `git branch -f` safe.
* `VerifiedIsMerged` rests on `EvidenceInv`: an attempt that passed the judgement keeps a tree that
  passes, through repairs and the merge, and only the move of the branch
  yields `verified`. It assumes that `advance` faults do not happen: the result of `git branch -f` is ignored (section 5).
* `MergedWorkIsProven` rests on `VettedInv`: worktrees are branched from sound trees, one call of the
  implementer can spoil them, the judgement against a sound base restores soundness. The precheck
  that criteria must fail before is needed: it is why `good` and `bad` work never coexist.
* `OneVerdict` rests on `AttemptInv`: the attempt a worker holds in memory is the one last dispatched,
  without a verdict, or the next one after a verdict, at every point where a process can die.
* `NothingIsForgotten` rests on `PlacedInv` and `SettledInv`: every task is in `remaining`, under way, or
  closed, and a task without a verdict has an attempt left.
* `DependenciesAreInTheBase` and `RunIsADagRun` rest on `GraphInv` (together with `EvidenceInv` and
  `PlacedInv`): a worktree holds no other task's work but from the integration branch. The refinement maps
  the move of the branch to `Merge`, the verdict to `Accept` or `Stall`, and all else to a stutter.
* The end of `GraphProofs` has what holds only within limits, which the theorems name. With one worker (`OneWorker`) nobody calls between the look at
  the budget and the call, so `BudgetKept`; with two TLC overshoots (`runner_budget_race`). `OverlapsSerialized` needs no assumption, as the
  property speaks of a run until it is first resumed: it rests on `SerialInv` (what a worktree holds of others is merged, what is merged
  and it has not seen does not overlap it), which holds as long as `resumes` is 0 and every attempt follows the last verdict (`Unresumed`).
  A resumed worktree may be older than what others have merged.
* `HandoffsAreOwn` is about every kill, purge and resume, and assumes that an agent that returns has written the handoff it owes
  (`AgentsHandOver`). It rests on `HandedInv`: whoever waits to be judged has a new handoff in the outbox of its last call, and the outboxes of
  later calls are empty (`Renewed`, `Handed`), also when it is taken up from its verification. The
  assumption is needed: nothing in the code empties the outbox of an attempt that starts over (section 5, `runner_stale_handoff`).

**Stages** (`StagesProofs`). Everything but the end of the attempts is proved, for any number of attempts, waves, reviewers and kills.
`TypeInv` holds the types with `Numbers` (the attempt in memory is the one under way or the next), `Worktree` and `Places`. `StageInv` adds
to it, one part for each thing the code keeps track of across kills: `Gates` (what the place in the code says of the red gate and the
baseline), `Judgements` (the tree under review is one that passed the judgement), `Gating` (a recorded gate is that of this
worktree), `Tearing` (in standard mode a torn worktree belongs to an attempt that starts over), `Reviews` (whose turn it is has been said), and
`Unkilled` (in a process nobody killed the outboxes to come are empty). `NoBlockerIntegrated` assumes that no two reviewers file under one rule
(`OwnRules`), and needs `Findings` besides: what was said is in the wave's findings. Without it the finding `stages_masked_finding` is a
counterexample. `AttemptsImplemented` maps each step to a step of `Attempts` or a stutter; it follows from `TypeInv`.

**Release** (`ReleaseProofs`). All safety properties. `LedgerIsComplete` and `ShipConditionsHold` hold for any users, tasks and commands:
`RunInv` says what of the work is in each worktree and in the branch (`Merged`), what a baseline has seen (`Seen`) and that a criterion
that is red and nobody's fault is in the ledger or about to be put there (`Ledger`); `GateInv` says what a converge under way knows
(`Validating`) and what a record still proves (`Recorded`). `WaivedOnce` rests on `Waiving`: what a
ship has still to waive is not in the journal. `MergesTheCheckedTip` assumes that every task satisfies a requirement
(`EveryTaskIsRequired`), `NothingBrokenShips` also that no user commits what breaks a command (`UserIsHarmless`): the branch does not move after
a ship has passed the gate (`Frozen`), and the user's head is the one the record names (`HeadIsKnown`). Both assumptions are needed: section 5. The runs make them too, and `NothingBrokenShips`
is a property of such users only.

**Knowledge** (`KnowledgeProofs`). `CardsEarned` holds for every threshold `CandidateAfter`, every finite set of rules and any number of runs,
findings and kills of `learn`, where no human decides while `learn` runs (`NeverOverlapping`, as in the run; TLC refutes it without: section 5).
`KInv` is what makes it inductive: the cards on the disk are sound (each names first findings of its rule, one of a run, and as many
as are asked for, and has the last status a human gave it); and what a `learn` under way has in memory is sound too and
has all these cards, each about the same rule, so that they stay sound after any number of writes.

**Decisions** (`DecisionProofs`, `PatternProofs`). A theorem assumes that the question is of its type and proves the property that TLC
checks for the questions of `MCDecisions`, all of which are of these types.

* `VerdictEarned`: any task, policy, environment and set of signals. It says nothing of a criterion that need not fail first and is
  red before and after: that one stands against nobody, and may pass without ever having been executed (`decisions_unapproved`). The policy's precedence is reduced to `Permitted` first
  (`RulesDecide`, `FirstApprovalDecides`, `ExecutedIffPermitted`), then each stage of `AttemptOf` to what was observed.
* `PromisesKept`: any handoff with its repairs, any sections and limits. The loop that drops the optional layers is shown to keep a layer exactly
  when it fits with all above it (`FitKeeps`); that the required outputs are in the prompt then follows from the gate (`GatePassedHasRequired`).
* `ScopesConservative`: any two tasks whose patterns do not begin with `./`, any path. A pattern that matches a path agrees with it up to
  its first wildcard (`PrefixIsMatched`), so two patterns that match one path have comparable prefixes.
* `GlobSegmentwise`: any pattern and any path, of any number of segments of any length (`GlobQuestions`). The table of docs/05
  is stated by dividing the path among the segments of the pattern, and a segment's characters among those of its pattern, without recursion;
  `matches` recurs over the characters of the text. The text is laid out first (`JoinedIsLaid`: where each segment begins). Then, by
  induction from the end of both texts, what the recursion answers at a place inside a segment is whether the rest of the segment and the
  rest of the path can be divided (`InsideSegment`, `AtSegment`, `AtStarsOfAll`, `MeetingIsDivided`). `WrittenAlike` adds the `./` before
  and the `/` behind. The type of the question leaves out what docs/05 gives no meaning: empty segments, a star beside another in a longer
  segment, `**` directly after `**`, and a first segment that is `.`, which the program takes for the `./` it removes.
* `AnalysedRuns`: any specs and tasks, edited in any way after they were analysed. A graph that loads is ordered layer by
  layer (`TopologicalIsInOrder`); two tasks ready together are neither a descendant of the other (`DescendantsWait`), and so are a pair that
  was looked at for conflicts.
* `BaselineRestored`: any criteria, equal ones among them, in both modes, and an older round cut anywhere. A round is some order of the
  criteria that leaves those of one key as they are (`RoundIsOrderly`); such an order does not change how many of a
  key come before (`OrderKeepsOccurrence`), which is what an old journal without indexes is matched by.

Where the code recurs over data the modules have recursive functions. What such a function is is not a fact for the provers:
each proof first shows that its equation has a solution (`CountExists`, `OrderExists`, `GrowthExists`, `Solvable`, `TextExists`, from the least
number for which it would have none), and then reasons about the equation, by induction over numbers (`UpTo`). `Sorted` and `Picked` stand for
`sorted()` and a comprehension with a condition for the same reason: the library's `SortSeq` and `SelectSeq` take an operator, which
cannot be reasoned about.

**Only model-checked.** Liveness (`RunEnds`, `AttemptsEnd`, `CanRelease`): TLAPS does not reach fairness. Every other property of a
passing run is a theorem.

## 5. Findings

Each is a run whose property quotes what the repository says and which TLC shows to be violated.

* **The budget can be exceeded** (`runner_budget_race`): the check reads the journal and `agent_started` is appended
  later, with no lock over both.
* **A timed-out call can be verified** (`runner_timeout_resumed`): after a kill between `agent_finished` and
  `verdict_assigned`, the resumed attempt does not look at the recorded `runtime_failure`.
* **A handoff of a killed call passes the gate** (`runner_stale_handoff`): docs/10:79 has the worktree *and outbox* cleaned before an
  attempt starts over. `_dispatch` makes the outbox with `exist_ok=True` (`runner.py:851`) and nothing empties it; the attempt
  that starts over keeps its number, so when its agent writes no handoff, the one a killed call left is picked up (`generic_cli.py:122`).
* **A blocking finding is dropped as a duplicate** (`stages_masked_finding`): findings of several reviewers are merged by rule, file and
  line, and the first one is kept whatever its severity. A low one hides a high one, and the task is verified.
* **A criterion that was never executed passes** (`decisions_unapproved`): the baseline and the post look at *denied* commands; one that needs
  an approval and has none is not executed, counts as red before and after, and ends as `debt_kept`. The TDD stage, which asks for the
  approval itself, makes it `blocked`.

Seen while modelling, not kept as runs. Most come up as soon as a constant of the modules is changed as said.

*Journal and runner.* Two `run --resume` of one run number their events alike, and the repair of one can cut the line of the other
(`store.py:99-114`; docs/03 and docs/10 speak of a single writer and a stale lock, there is no lock). A failing fsync lets another worker thread write the same number again. `doctor`
with a power failure can leave `state.json` ahead of the journal; it also deletes the scratch directory of a run that is just starting
(`cli.py:783`). The result of `git branch -f` is ignored, so with `advance` among `Faults` `DoneIsIntegrated`
is violated (a task is verified without being integrated, against docs/05:211). After a kill between `integrate` and `verdict_assigned`
the resumed verification takes what the merge brought in for the task's own diff and can reject work that is integrated
(docs/10:73 calls resuming idempotent). A worktree made anew after a purge is verified empty when the process dies before
`task_dispatched`. A baseline resumed from the journal has no record of the untracked files that were there before
(`runner.py:427`). Stalled tasks are excluded from every resume although docs/10:134-140 send the human back with `run --resume`. Agents outlive
a killed orchestrator, and a killed agent's children can keep its pipes open: `communicate` after the kill has no timeout (`generic_cli.py:162`).

*Stages.* Under TDD the evidence of a red gate outlives its worktree: after a purge the attempt starts over under its number, and a kill
before the new gate lets the resumed attempt go to the implementation in a worktree without tests (`purged` in `ImplementsAfterRed`); the attempt is
then rejected, although docs/10 says that a crash uses up no attempt. A fixer's diff can reach a higher tier, which is not looked at
again (`review.py:157`, docs/06:339). A failure that was there before, inside the task's own paths, does not become a finding (docs/06:228 says it
does).

*Release.* The gate checks the integration branch, ship merges it into a branch the user may have moved *before* converge: with `"break"` in
`UserMay`, `NothingBrokenShips` fails (docs/08:179). The ledger is complete, not exact: a task that proves a debt's command has the outcome
`proven`, which closes nothing, and a worker that branched before a fix reads its baseline after it; ship then asks for a waiver of a command
that passes. It errs on the safe side.

*Decisions.* `./src/**` and `src/**` do not overlap for the scheduler, as only verification drops the `./` (`scheduler.py:69-72`, docs/05:198);
`a/**/**` does not match `a`. A promotion or retirement while `learn` runs is lost (`Overlapping = TRUE` violates `CardsAreEarned`; docs/08:230 leaves
the decision to a human), and `learn` counts runs that have not ended (docs/08:229). The record of an analysis holds a fingerprint taken after
the checks (`analyze.py:189`), which covers neither the configuration nor the policy, and `run` reads the files again after the gate
(`cli.py:317`). Whether a precondition needs a shell is looked at by the analysis and not at run time.

## 6. Not modelled, and the plan

Parsing, formatting, redaction, argument lists of the agent CLIs, the evaluation harness and the text of prompts, reports and the map of the
repository are left out: they keep no state that the components above rely on. So are the configuration (its limits are constants), the git
wrapper (its effects are in the workspace actions), the floors of `risk.py` (a table; the tier it yields is an input of
`Stages`), and how child processes are started and killed. The safe profile (no worktree, no
integration) is left out of `Runner` and `Release`. `Release` also leaves out the path patterns of the orphan check and the
command policy in the union; its user never takes an edit back, so a converge that reads a spec which is changed and
restored while it runs is not looked at; agents' and users' clashes are texts, found by git or not at all. Hazards
without a property are in `PROJECT.json`, each with its reason. What would come next:

1. The composition of `Stages` with `Runner`: several tasks with all their calls. Today each is checked with the other's part abstracted.
2. The safe profile, in which tasks share the user's worktree.
3. `doctor`'s cleaning of workspaces beside a run that starts.
4. Agents that outlive their orchestrator.
