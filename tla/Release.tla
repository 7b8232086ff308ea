------------------------------ MODULE Release ------------------------------
(***************************************************************************)
(* From the attempts of a run to the user's branch: the debt ledger that   *)
(* baselines and posts write (exec/runner.py, exec/verify.py) and the two  *)
(* gates behind it, converge and ship (converge.py).  The tasks are        *)
(* adjudicated by difference, the release absolutely; the ledger and the   *)
(* gates must make up the difference while workers, a converge, a ship     *)
(* and the user's own git and editor run side by side (no lock joins       *)
(* them), and while the two commands may be killed and run again.          *)
(*                                                                         *)
(* A tree is the set of the patches in it, and stands for its commit too:  *)
(* a patch fixes some commands and breaks some.  Of an attempt (the rest   *)
(* is module Runner) only the criteria are looked at.  The run has a       *)
(* worktree profile, so there is an integration branch.                    *)
(***************************************************************************)
EXTENDS Naturals, FiniteSets

CONSTANTS
  Tasks,
  DependsOn,       \* Task.depends_on of each task
  Cmds,            \* the commands of the criteria and of health_commands
  Acceptance,      \* the commands of each task's criteria
  Proves,          \*   ... those with expect_fail_before
  Health,          \* health_commands
  Required,        \* the tasks that satisfy some requirement
  Broken,          \* the commands that are red where the run starts
  AgentMay,        \* what the work of each task's agent can fix and break
  UserMay,         \* what the user does besides, among UserChoices
  MaxAttempts,
  MaxKills         \* bound: converges and ships that are killed

User == "user"
UserChoices == {"commit", "break", "clash", "spec", "config"}

ASSUME TaskAssumption ==
  /\ IsFiniteSet(Tasks) /\ {User, "nobody"} \cap Tasks = {}
  /\ DependsOn \in [Tasks -> SUBSET Tasks] /\ Required \subseteq Tasks
  /\ MaxAttempts \in Nat \ {0} /\ MaxKills \in Nat
ASSUME CommandAssumption ==
  /\ Acceptance \in [Tasks -> SUBSET Cmds] /\ Health \subseteq Cmds
  /\ Proves \in [Tasks -> SUBSET Cmds] /\ \A t \in Tasks : Proves[t] \subseteq Acceptance[t]
  /\ Broken \subseteq Cmds /\ UserMay \subseteq UserChoices
  /\ AgentMay \in [Tasks -> SUBSET [fixes : SUBSET Cmds, breaks : SUBSET Cmds]]

Patches == [by : Tasks \cup {User}, fixes : SUBSET Cmds, breaks : SUBSET Cmds, clashes : BOOLEAN]
Trees == SUBSET Patches

VARIABLES
  proj,      \* TaskProjection of each task
  open,      \* open_debts: a debt is named for its command (_debt_id)
  waiveds,   \* how many debt_waived events the journal has for each
  worker,    \* the attempt of each task, with the classifications it read
  work,      \* the tree of its worktree
  integ,     \* the tree of the integration branch
  head,      \* the tree of the user's branch
  edits,     \* the inputs the user has changed: "spec", "config"
  waivers,   \* waivers.yaml
  record,    \* converge.json
  conv,      \* a converge
  shipping,  \* a ship
  shipped,   \* the tree the last ship left on the user's branch
  kills      \* so far (bounded)

journal == <<proj, open, waiveds>>
run == <<worker, work, integ>>
user == <<head, edits, waivers>>
gates == <<record, conv, shipping, shipped, kills>>
vars == <<journal, run, user, gates>>

\* Mutant: the stamp leaves out the specs and the configuration.
FreshnessNoInputs == [integration |-> integ, head |-> head, inputs |-> {},
                      proj |-> proj, open |-> open]

Freshness == [integration |-> integ, head |-> head, inputs |-> edits,
              proj |-> proj, open |-> open]

Inputs == SUBSET {"spec", "config"}
Projections == [Tasks -> [state : {"pending", "running", "ready", "verified", "stalled"},
                          attempt : 0..MaxAttempts]]
Stamps == [integration : Trees, head : Trees, inputs : Inputs,
           proj : Projections, open : SUBSET Cmds]

NoTree == {[by |-> "nobody", fixes |-> {}, breaks |-> {}, clashes |-> FALSE]}
NoStamp == <<>>
NoRecord == [ok |-> FALSE, stamp |-> NoStamp]      \* none, or a failed one
NoConverge == [pc |-> "idle", stamp |-> NoStamp]
FailedConverge == [pc |-> "write", stamp |-> NoStamp]
NoShip == [pc |-> "idle", tip |-> {}, waived |-> {}]

TypeOK ==
  /\ proj \in Projections /\ open \subseteq Cmds /\ waiveds \in [Cmds -> Nat]
  /\ worker \in [Tasks -> [pc : {"open", "baseline", "agent", "post", "judge", "record",
                                 "ended"},
                           before : SUBSET Cmds, after : SUBSET Cmds]]
  /\ work \in [Tasks -> Trees] /\ integ \in Trees /\ head \in Trees
  /\ edits \in Inputs /\ waivers \subseteq Cmds
  /\ record = NoRecord \/ record \in [ok : {TRUE}, stamp : Stamps]
  /\ conv = NoConverge \/ conv = FailedConverge
       \/ conv \in [pc : {"inspect", "union", "write"}, stamp : Stamps]
  /\ shipping \in [pc : {"idle", "waive", "merge"}, tip : Trees, waived : SUBSET Cmds]
  /\ shipped = NoTree \/ shipped \in Trees
  /\ kills \in 0..MaxKills

Init ==
  /\ proj = [t \in Tasks |-> [state |-> "pending", attempt |-> 0]]
  /\ open = {} /\ waiveds = [c \in Cmds |-> 0]
  /\ worker = [t \in Tasks |-> [pc |-> "open", before |-> {}, after |-> {}]]
  /\ work = [t \in Tasks |-> {}] /\ integ = {} /\ head = {}
  /\ edits = {} /\ waivers = {}
  /\ record = NoRecord /\ conv = NoConverge /\ shipping = NoShip /\ shipped = NoTree
  /\ kills = 0

Red(c, tree) == \/ c \in Broken /\ \A p \in tree : c \notin p.fixes
                \/ \E p \in tree : c \in p.breaks
RedIn(cmds, tree) == {c \in cmds : Red(c, tree)}

\* What converge runs.
Checks == Health \cup UNION {Acceptance[t] : t \in Tasks}

-----------------------------------------------------------------------------
(* An attempt of a task.                                                   *)

Goto(t, pc) == worker' = [worker EXCEPT ![t].pc = pc]

\* The attempt is over: what is left of its worktree is not read again.
Leave(t, pc) == /\ worker' = [worker EXCEPT ![t] = [pc |-> pc, before |-> {}, after |-> {}]]
                /\ work' = [work EXCEPT ![t] = {}]
Stall(t) == /\ proj' = [proj EXCEPT ![t].state = "stalled"]
            /\ Leave(t, "ended")

Open(t) ==
  /\ worker[t].pc = "open"
  /\ \A d \in DependsOn[t] : proj[d].state = "verified"
  /\ work' = [work EXCEPT ![t] = integ]
  /\ proj' = [proj EXCEPT ![t] = [state |-> "running", attempt |-> @.attempt + 1]]
  /\ Goto(t, "baseline")
  /\ UNCHANGED <<open, waiveds, integ, user, gates>>

\* Mutant: a retry does not open its debts again.
PreExistingOnce(t, before) == IF proj[t].attempt > 1 THEN {} ELSE before \ Proves[t]

\* Baseline.pre_existing: a red that is not this task's to turn green.
PreExisting(t, before) == before \ Proves[t]

\* run_baseline and what _baseline makes of it.
Baseline(t) ==
  LET before == RedIn(Acceptance[t], work[t]) IN
  /\ worker[t].pc = "baseline"
  /\ \/ ~(Proves[t] \subseteq before) /\ Stall(t) /\ UNCHANGED open
     \/ /\ Proves[t] \subseteq before
        /\ open' = open \cup PreExisting(t, before)
        /\ worker' = [worker EXCEPT ![t] = [pc |-> "agent", before |-> before, after |-> {}]]
        /\ UNCHANGED <<proj, work>>
  /\ UNCHANGED <<waiveds, integ, user, gates>>

Agent(t) ==
  /\ worker[t].pc = "agent"
  /\ \E q \in AgentMay[t] :
       work' = [work EXCEPT ![t] = @ \cup
                  {[by |-> t, fixes |-> q.fixes, breaks |-> q.breaks, clashes |-> FALSE]}]
  /\ Goto(t, "post")
  /\ UNCHANGED <<journal, integ, user, gates>>

\* The rows of _outcome.
Closes(t, after) == (worker[t].before \ Proves[t]) \ after
Regression(t) == worker[t].after \ worker[t].before
Unmet(t) == worker[t].after \cap Proves[t]

\* run_post: a debt is closed before the attempt is adjudicated.
Post(t) ==
  LET after == RedIn(Acceptance[t], work[t]) IN
  /\ worker[t].pc = "post"
  /\ open' = open \ Closes(t, after)
  /\ worker' = [worker EXCEPT ![t] = [pc |-> "judge", before |-> @.before, after |-> after]]
  /\ UNCHANGED <<proj, waiveds, work, integ, user, gates>>

\* judge, the handoff and the review let it pass: integrate, and later the
\* verdict.  Nothing is verified again on the way.
Integrate(t) ==
  /\ worker[t].pc = "judge" /\ Regression(t) = {} /\ Unmet(t) = {}
  /\ integ' = integ \cup work[t]
  /\ Leave(t, "record")
  /\ UNCHANGED <<journal, user, gates>>

Record(t) ==
  /\ worker[t].pc = "record"
  /\ proj' = [proj EXCEPT ![t].state = "verified"]
  /\ Goto(t, "ended")
  /\ UNCHANGED <<open, waiveds, work, integ, user, gates>>

\* Mutant: one attempt too many.
MayRetryOnceMore(t) == proj[t].attempt <= MaxAttempts
MayRetry(t) == proj[t].attempt < MaxAttempts

\* An attempt may be rejected for more than its criteria, and a task be
\* handed to a human at any time.
Reject(t) ==
  /\ worker[t].pc = "judge"
  /\ \/ /\ MayRetry(t) /\ Leave(t, "open")
        /\ proj' = [proj EXCEPT ![t].state = "ready"]
     \/ Stall(t)
  /\ UNCHANGED <<open, waiveds, integ, user, gates>>

Run(t) == \/ Open(t) \/ Baseline(t) \/ Agent(t) \/ Post(t)
          \/ Integrate(t) \/ Record(t) \/ Reject(t)

-----------------------------------------------------------------------------
(* The user: one commit of their own, edits of the inputs (never taken     *)
(* back), entries of waivers.yaml.                                         *)

UserCommits ==
  /\ \A p \in head : p.by # User
  /\ \E q \in UserMay \cap {"commit", "break", "clash"} :
       \E breaks \in IF q = "break" THEN SUBSET Checks ELSE {{}} :
         head' = head \cup {[by |-> User, fixes |-> {}, breaks |-> breaks,
                             clashes |-> q = "clash"]}
  /\ UNCHANGED <<journal, run, edits, waivers, gates>>

UserEdits == /\ \E i \in (UserMay \cap {"spec", "config"}) \ edits : edits' = edits \cup {i}
             /\ UNCHANGED <<journal, run, head, waivers, gates>>

Waive == /\ \E c \in open \ waivers : waivers' = waivers \cup {c}
         /\ UNCHANGED <<journal, run, head, edits, gates>>

-----------------------------------------------------------------------------
(* converge                                                                *)

\* The store, and with it the ledger and the verdicts, is read once, here.
\* What a converge does after its first failure changes nothing modelled.
ConvergeStart ==
  /\ conv.pc = "idle"
  /\ conv' = [pc |-> "inspect", stamp |-> Freshness]
  /\ UNCHANGED <<journal, run, user, record, shipping, shipped, kills>>

VerifiedIn(stamp) == {t \in Tasks : stamp.proj[t].state = "verified"}

\* Mutant: one verified task is enough.
CoveredPartly(stamp) == Required \cap VerifiedIn(stamp) # {}

\* _coverage: every task that satisfies something is verified.
Covered(stamp) == Required \subseteq VerifiedIn(stamp)
Drift == "spec" \in edits
\* _orphans: work of a task that is not verified explains nothing.
Orphans(stamp) == {p \in integ \ head : p.by \notin VerifiedIn(stamp)}

ConvergeInspect ==
  /\ conv.pc = "inspect"
  /\ conv' = IF Covered(conv.stamp) /\ ~Drift /\ Orphans(conv.stamp) = {}
             THEN [conv EXCEPT !.pc = "union"] ELSE FailedConverge
  /\ UNCHANGED <<journal, run, user, record, shipping, shipped, kills>>

\* Mutants: a red with a debt fails converge as well; no red does.
UnownedRedAll(stamp) == RedIn(Checks, integ)
UnownedRedNone(stamp) == {}

\* _union, in a checkout of the branch as it is by then.
UnownedRed(stamp) == RedIn(Checks, integ) \ stamp.open

ConvergeUnion ==
  /\ conv.pc = "union"
  /\ conv' = IF UnownedRed(conv.stamp) = {}
             THEN [conv EXCEPT !.pc = "write"] ELSE FailedConverge
  /\ UNCHANGED <<journal, run, user, record, shipping, shipped, kills>>

\* The inputs are compared once more; the record keeps the first stamp.
ConvergeWrite ==
  /\ conv.pc = "write"
  /\ record' = IF conv.stamp = Freshness THEN [ok |-> TRUE, stamp |-> conv.stamp] ELSE NoRecord
  /\ conv' = NoConverge
  /\ UNCHANGED <<journal, run, user, shipping, shipped, kills>>

-----------------------------------------------------------------------------
(* ship                                                                    *)

\* Mutant: a stale record will do.
ConvergedStale == record.ok

Converged == record.ok /\ record.stamp = Freshness

\* Mutant: debts do not block.
NothingRemains == {}
Remaining == open \ waivers

\* A ship that is refused writes its report and ends.
ShipStart ==
  /\ shipping.pc = "idle" /\ Converged /\ Remaining = {}
  /\ shipping' = [pc |-> "waive", tip |-> integ, waived |-> open \cap waivers]
  /\ UNCHANGED <<journal, run, user, record, conv, shipped, kills>>

\* Mutant: a second ship records its waivers again.
AlreadyNone == {}
Already == {c \in Cmds : waiveds[c] > 0}

ShipWaive ==
  /\ shipping.pc = "waive"
  /\ waiveds' = [c \in Cmds |-> waiveds[c] + (IF c \in shipping.waived \ Already THEN 1 ELSE 0)]
  /\ shipping' = [shipping EXCEPT !.pc = "merge"]
  /\ UNCHANGED <<proj, open, run, user, record, conv, shipped, kills>>

\* `git merge` of the branch, whose tip was read in ShipStart; on a conflict
\* it is aborted.
ShipMerge ==
  /\ shipping.pc = "merge" /\ shipping' = NoShip
  /\ IF \E p \in head : p.clashes
     THEN UNCHANGED <<head, shipped>>
     ELSE head' = head \cup integ /\ shipped' = head'
  /\ UNCHANGED <<journal, run, edits, waivers, record, conv, kills>>

\* A command is killed; what it wrote stays.
Kill ==
  /\ kills < MaxKills /\ kills' = kills + 1
  /\ \/ conv.pc # "idle" /\ conv' = NoConverge /\ UNCHANGED shipping
     \/ shipping.pc # "idle" /\ shipping' = NoShip /\ UNCHANGED conv
  /\ UNCHANGED <<journal, run, user, record, shipped>>

Converge == ConvergeStart \/ ConvergeInspect \/ ConvergeUnion \/ ConvergeWrite
Ship == ShipStart \/ ShipWaive \/ ShipMerge

Next == \/ \E t \in Tasks : Run(t)
        \/ UserCommits \/ UserEdits \/ Waive
        \/ Converge \/ Ship \/ Kill

Spec == Init /\ [][Next]_vars

\* Someone goes on to converge, to waive what is open and to ship.
FairSpec == Spec /\ WF_vars(Converge) /\ WF_vars(Waive) /\ WF_vars(Ship)

-----------------------------------------------------------------------------
(* Properties.                                                             *)

AllVerified == \A t \in Tasks : worker[t].pc = "ended" /\ proj[t].state = "verified"

\* A debt may be closed by an attempt that is then rejected, or by another
\* task's (runner.py _post closes it before judge): by the time every task
\* is verified the ledger again has each command that was red at the start,
\* that nobody fixed and nobody broke.
LedgerIsComplete ==
  AllVerified => \A c \in UNION {Acceptance[t] : t \in Tasks} :
                   Red(c, integ) /\ (\A p \in integ : c \notin p.breaks) => c \in open

\* Of a user who commits nothing that breaks a command (no "break" in UserMay):
\* what ship leaves on the user's branch passes every criterion of every task
\* and the health commands, or a human's waiver for it is in the journal,
\* although tasks are merged without being verified again and the ledger is
\* written attempt by attempt. A commit on the user's own branch that breaks a
\* command is shipped without a waiver, against docs/08 ("There is no path by
\* which a broken state ships without a waiver"): converge.py gates the
\* integration branch alone.
NothingBrokenShips ==
  shipped # NoTree => \A c \in Checks : Red(c, shipped) => waiveds[c] > 0

\* The four conditions of the ship gate (docs/08) hold together at the moment
\* a ship passes it, although converge read each of them at another moment and
\* workers and the user's editor went on in between.
ShipConditionsHold ==
  [][shipping.pc = "idle" /\ shipping'.pc = "waive" =>
       /\ \A t \in Required : proj[t].state = "verified" /\ \E p \in integ : p.by = t
       /\ ~Drift
       /\ RedIn(Checks, integ) \subseteq open /\ open \subseteq waivers]_vars

\* ship checks the tip it read first and merges the branch later, by name
\* (converge.py ship): no worker moves the branch in between.
MergesTheCheckedTip == [][shipped' # shipped => integ = shipping.tip]_vars

\* A ship that died or met a conflict is run again without a second
\* debt_waived for the same debt.
WaivedOnce == \A c \in Cmds : waiveds[c] <= 1

\* Work that is verified, without drift or conflict, and red only where the
\* ledger says so is shipped in the end: what the gates themselves write, and
\* edits, commits and kills on the way, do not keep a fresh record stale.
Releasable == /\ AllVerified /\ ~Drift /\ \A p \in head : ~p.clashes
              /\ RedIn(Checks, integ) \subseteq open
CanRelease == <>[]Releasable => <>(shipped # NoTree)
=============================================================================
