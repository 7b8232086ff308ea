--------------------------- MODULE DecisionProofs ---------------------------
(***************************************************************************)
(* What TLAPS proves of the decisions: for every policy, task, environment *)
(* and journal, what TLC asks of a bounded set of questions. First the     *)
(* verdict and the prompt; then what rests on sorted lists: the order of a *)
(* task graph, what the gate lets through after an analysis, and the       *)
(* baseline a resumed attempt is judged on. Patterns are in PatternProofs. *)
(***************************************************************************)
EXTENDS Decisions, SequenceTheorems, FiniteSetTheorems, WellFoundedInduction, TLAPS

-----------------------------------------------------------------------------
(* The least and the greatest of numbers.                                  *)

LEMMA BelowIsWellFounded ==
  \E R : IsWellFoundedOn(R, Nat) /\ \A x, y \in Nat : <<y, x>> \in R <=> y < x
<1>1. \A x, y \in Nat : <<y, x>> \in OpToRel(<, Nat) <=> y < x
  BY DEF OpToRel
<1> QED  BY <1>1, NatLessThanWellFounded

LEMMA LeastNumber ==
  ASSUME NEW S \in SUBSET Nat, S # {}
  PROVE  \E x \in S : \A y \in S : x <= y
<1>1. PICK R : IsWellFoundedOn(R, Nat) /\ \A x, y \in Nat : <<y, x>> \in R <=> y < x
  BY BelowIsWellFounded
<1>2. PICK x \in S : \A y \in S : ~(<<y, x>> \in R)
  BY <1>1, WFMin
<1>3. ASSUME NEW y \in S PROVE x <= y
  <2>1. ~(<<y, x>> \in R) /\ (<<y, x>> \in R <=> y < x)
    BY <1>1, <1>2
  <2> QED  BY <2>1
<1> QED  BY <1>3

LEMMA MinIsLeast ==
  ASSUME NEW S \in SUBSET Nat, S # {}
  PROVE  Min(S) \in S /\ \A y \in S : Min(S) <= y
  BY LeastNumber DEF Min

(* The greatest of numbers that have a bound.                              *)
LEMMA MaxIsGreatest ==
  ASSUME NEW n \in Nat, NEW S \in SUBSET (0..n), S # {}
  PROVE  Max(S) \in S /\ \A x \in S : x <= Max(S)
<1> DEFINE bounds == {b \in Nat : \A x \in S : x <= b}
<1>1. bounds \in SUBSET Nat /\ n \in bounds
  OBVIOUS
<1>2. PICK b \in bounds : \A c \in bounds : b <= c
  BY <1>1, LeastNumber
<1>3. b \in S
  <2> SUFFICES ASSUME b \notin S PROVE FALSE
    OBVIOUS
  <2>0. b \in Nat /\ \A x \in S : x \in Nat /\ x <= b /\ x # b
    OBVIOUS
  <2>1. b # 0 /\ \A x \in S : x \in Nat /\ x <= b - 1
    <3>1. PICK y \in S : TRUE
      OBVIOUS
    <3>2. y \in Nat /\ y <= b /\ y # b
      BY <2>0
    <3> QED  BY <2>0, <3>2
  <2>2. b - 1 \in bounds
    BY <2>0, <2>1
  <2> QED  BY <1>2, <2>0, <2>2
<1>4. \A x \in S : b >= x
  OBVIOUS
<1> QED  BY <1>3, <1>4 DEF Max

(* What holds of 0, and of a number when of the one before, holds of all.  *)
LEMMA UpTo ==
  ASSUME NEW n \in Nat, NEW S, 0 \in S, \A k \in 1..n : k - 1 \in S => k \in S
  PROVE  \A k \in 0..n : k \in S
<1> DEFINE bad == {k \in 0..n : k \notin S}
<1> SUFFICES ASSUME bad # {} PROVE FALSE
  OBVIOUS
<1>1. bad \in SUBSET Nat
  OBVIOUS
<1>2. PICK k \in bad : \A j \in bad : k <= j
  <2> HIDE DEF bad
  <2> QED  BY <1>1, LeastNumber
<1>3. k \in 1..n /\ k - 1 \in 0..n
  OBVIOUS
<1>4. k - 1 \in S
  BY <1>2, <1>3
<1> QED  BY <1>3, <1>4

-----------------------------------------------------------------------------
(* What the policy says is what it is meant to say.                        *)

LEMMA PolicyParts ==
  ASSUME NEW policy \in CommandPolicies
  PROVE  /\ policy.default \in PolicyVerdict
         /\ Len(policy.rules) \in Nat /\ DOMAIN policy.rules = 1..Len(policy.rules)
         /\ \A i \in DOMAIN policy.rules : policy.rules[i].verdict \in PolicyVerdict
         /\ Len(policy.approvals) \in Nat /\ DOMAIN policy.approvals = 1..Len(policy.approvals)
<1> DEFINE Rules == [match : SUBSET Texts, verdict : PolicyVerdict]
           Approvals == [cmd : Commands, hash : Hashes, approver : STRING]
<1>1. policy.default \in PolicyVerdict /\ policy.rules \in Seq(Rules) /\ policy.approvals \in Seq(Approvals)
  BY DEF CommandPolicies
<1>2. \A r \in Rules : r.verdict \in PolicyVerdict
  OBVIOUS
<1> HIDE DEF Rules, Approvals
<1> QED  BY <1>1, <1>2, ElementOfSeq, LenProperties

LEMMA RulesDecide ==
  ASSUME NEW policy \in CommandPolicies, NEW c, NEW v
  PROVE  Says(policy, c, v) <=> Ruled(policy, c) = v
<1> DEFINE M == Matching(policy, c)
           first == FirstMatch(policy, c)
<1>1. M \in SUBSET Nat /\ \A i : i \in M <=> i \in DOMAIN policy.rules /\ Text[c] \in policy.rules[i].match
  BY PolicyParts DEF Matching
<1>2. \A i \in DOMAIN policy.rules : \A j \in 1..(i - 1) : j \in DOMAIN policy.rules
  BY PolicyParts
<1>3. CASE M = {}
  <2>1. first = {}
    BY <1>1, <1>3 DEF FirstMatch
  <2>2. Ruled(policy, c) = policy.default
    BY <1>3 DEF Ruled
  <2> QED  BY <2>1, <2>2 DEF Says
<1>4. CASE M # {}
  <2> DEFINE m == Min(M)
  <2>1. m \in M /\ \A i \in M : m <= i
    BY <1>1, <1>4, MinIsLeast
  <2> HIDE DEF m
  <2>2. first = {m}
    <3>1. ASSUME NEW i \in first PROVE i = m
      <4>1. i \in M /\ m \in DOMAIN policy.rules /\ Text[c] \in policy.rules[m].match
        BY <3>1, <1>1, <2>1 DEF FirstMatch
      <4>2. m <= i /\ i \in Nat /\ m \in Nat /\ m >= 1
        BY <4>1, <2>1, <1>1, PolicyParts
      <4> QED  BY <4>1, <4>2, <3>1 DEF FirstMatch
    <3>2. m \in first
      <4>1. m \in DOMAIN policy.rules /\ Text[c] \in policy.rules[m].match /\ m \in Nat
        BY <2>1, <1>1
      <4>2. ASSUME NEW j \in 1..(m - 1), Text[c] \in policy.rules[j].match PROVE FALSE
        <5>1. j \in M
          BY <4>1, <4>2, <1>1, <1>2
        <5> QED  BY <5>1, <2>1, <4>1
      <4> QED  BY <4>1, <4>2 DEF FirstMatch
    <3> QED  BY <3>1, <3>2
  <2>3. Ruled(policy, c) = policy.rules[m].verdict
    BY <1>4 DEF Ruled, m
  <2> QED  BY <2>2, <2>3 DEF Says
<1> QED  BY <1>3, <1>4

LEMMA FirstApprovalDecides ==
  ASSUME NEW policy \in CommandPolicies, NEW c
  PROVE  Approver(policy, c) # NoApprover <=> Signed(policy, c)
<1> DEFINE own(i) == policy.approvals[i].cmd = c /\ policy.approvals[i].hash = Hash[c]
           found == {i \in 1..Len(policy.approvals) :
                       policy.approvals[i].hash = Hash[c] /\ policy.approvals[i].cmd = c}
<1>1. found \in SUBSET Nat /\ \A i : i \in found <=> i \in DOMAIN policy.approvals /\ own(i)
  BY PolicyParts
<1>2. \A i \in DOMAIN policy.approvals : i \in Nat /\ \A j \in 1..(i - 1) : j \in DOMAIN policy.approvals
  BY PolicyParts
<1>3. Signed(policy, c) <=> \E i \in DOMAIN policy.approvals :
         own(i) /\ policy.approvals[i].approver # NoApprover /\ \A j \in 1..(i - 1) : ~own(j)
  BY DEF Signed
<1>4. Approver(policy, c) = IF found = {} THEN NoApprover ELSE policy.approvals[Min(found)].approver
  BY DEF Approver
<1> HIDE DEF found, own
<1>5. CASE found = {}
  BY <1>1, <1>3, <1>4, <1>5
<1>6. CASE found # {}
  <2> DEFINE m == Min(found)
  <2>1. m \in found /\ \A i \in found : m <= i
    BY <1>1, <1>6, MinIsLeast
  <2>2. Approver(policy, c) = policy.approvals[m].approver
    BY <1>4, <1>6
  <2> HIDE DEF m
  <2>3. m \in DOMAIN policy.approvals /\ own(m) /\ m \in Nat /\ m \in 1..Len(policy.approvals)
    BY <2>1, <1>1, <1>2, PolicyParts
  <2>4. \A j \in 1..(m - 1) : ~own(j)
    <3> SUFFICES ASSUME NEW j \in 1..(m - 1), own(j) PROVE FALSE
      OBVIOUS
    <3>1. j \in found
      BY <1>1, <1>2, <2>3
    <3> QED  BY <3>1, <2>1, <2>3
  <2>5. ASSUME NEW i \in DOMAIN policy.approvals, own(i), \A j \in 1..(i - 1) : ~own(j) PROVE i = m
    <3>1. i \in found /\ i \in Nat /\ m <= i
      BY <2>5, <1>1, <1>2, <2>1
    <3>2. m \notin 1..(i - 1)
      BY <2>3, <2>5
    <3> QED  BY <3>1, <3>2, <2>3
  <2> QED  BY <1>3, <2>2, <2>3, <2>4, <2>5
<1> QED  BY <1>5, <1>6

(* The decision of the code, with its order of rules, its strengths and    *)
(* its approvals, lets a command run exactly when it is permitted.         *)
LEMMA ExecutedIffPermitted ==
  ASSUME NEW policy \in CommandPolicies, NEW c, NEW shell \in BOOLEAN
  PROVE  MayExecute(Decide(policy, c, shell)) <=> Permitted(policy, c, shell)
<1> DEFINE ruled == Ruled(policy, c)
<1>0. Says(policy, c, "deny") <=> ruled = "deny"
  BY RulesDecide
<1>1. Says(policy, c, "allow") <=> ruled = "allow"
  BY RulesDecide
<1>5. ruled \in PolicyVerdict
  <2>1. Matching(policy, c) # {} => Min(Matching(policy, c)) \in DOMAIN policy.rules
    BY PolicyParts, MinIsLeast DEF Matching
  <2> QED  BY <2>1, PolicyParts DEF Ruled
<1>3. Decide(policy, c, shell).verdict =
        IF shell /\ ruled = "allow" THEN "require_approval" ELSE ruled
  BY <1>5 DEF Decide, Strength, PolicyVerdict
<1>4. Decide(policy, c, shell).approver =
        IF Decide(policy, c, shell).verdict = "require_approval" THEN Approver(policy, c) ELSE NoApprover
  BY DEF Decide
<1> HIDE DEF ruled
<1> QED  BY <1>0, <1>1, <1>3, <1>4, <1>5, FirstApprovalDecides
        DEF Permitted, MayExecute, PolicyVerdict

-----------------------------------------------------------------------------
(* What is observed of a criterion and of a precondition.                  *)

Green(policy, c, world) == Permitted(policy, c.cmd, c.shell) /\ world.endings[c.cmd] = "zero"
Broken(task, policy, env) ==
    {c \in ToSet(task.acceptance) :
        ~Green(policy, c, env.after) /\ (c.expect \/ Green(policy, c, env.before))}
Missing(task, policy, world) == {p \in ToSet(task.preconditions) : ~Holds(p, policy, world)}

LEMMA CriterionIsObserved ==
  ASSUME NEW policy \in CommandPolicies, NEW c \in Criteria, NEW world \in Worlds
  PROVE  LET seen == Observe(c, policy, world.endings)
         IN /\ seen.expect = c.expect /\ seen.green \in BOOLEAN
            /\ seen.green <=> Green(policy, c, world)
            /\ seen.stderr = IF Permitted(policy, c.cmd, c.shell) THEN world.endings[c.cmd]
                             ELSE Decide(policy, c.cmd, c.shell).verdict
<1> DEFINE ok == MayExecute(Decide(policy, c.cmd, c.shell))
           result == RunCommand(policy, c.cmd, c.shell, world.endings)
           seen == Observe(c, policy, world.endings)
<1>1. c.shell \in BOOLEAN /\ c.cmd \in Commands /\ world.endings[c.cmd] \in Endings
  BY DEF Criteria, Worlds
<1>2. ok <=> Permitted(policy, c.cmd, c.shell)
  BY <1>1, ExecutedIffPermitted
<1>3. /\ seen.expect = c.expect
      /\ seen.green = (result.executed /\ result.exit = "zero")
      /\ seen.stderr = IF result.executed THEN result.stderr ELSE result.decision.verdict
  BY DEF Observe
<1>4. CASE ok
  <2>1. /\ result.executed = TRUE /\ result.exit = ExitOf(world.endings[c.cmd])
        /\ result.stderr = world.endings[c.cmd]
    BY <1>4 DEF RunCommand
  <2>2. ExitOf(world.endings[c.cmd]) = "zero" <=> world.endings[c.cmd] = "zero"
    BY <1>1 DEF ExitOf, Endings
  <2> QED  BY <1>2, <1>3, <1>4, <2>1, <2>2 DEF Green
<1>5. CASE ~ok
  <2>1. result.executed = FALSE /\ result.decision = Decide(policy, c.cmd, c.shell)
    BY <1>5 DEF RunCommand
  <2> QED  BY <1>2, <1>3, <1>5, <2>1 DEF Green
<1> QED  BY <1>4, <1>5

LEMMA PreconditionIsProbed ==
  ASSUME NEW policy \in CommandPolicies, NEW p \in Preconditions, NEW world \in Worlds
  PROVE  Probe(p, policy, world).ok <=> Holds(p, policy, world)
<1>1. CASE p.kind = "command"
  <2> DEFINE ok == MayExecute(Decide(policy, p.cmd, FALSE))
             result == RunCommand(policy, p.cmd, FALSE, world.endings)
  <2>1. p.cmd \in Commands /\ world.endings[p.cmd] \in Endings
    BY <1>1 DEF Preconditions, Worlds
  <2>2. ok <=> Permitted(policy, p.cmd, FALSE)
    BY ExecutedIffPermitted
  <2>3. Probe(p, policy, world).ok = (result.executed /\ result.exit = "zero")
    BY <1>1 DEF Probe
  <2>4. ok => result.executed = TRUE /\ result.exit = ExitOf(world.endings[p.cmd])
    BY DEF RunCommand
  <2>5. ~ok => result.executed = FALSE
    BY DEF RunCommand
  <2>6. ExitOf(world.endings[p.cmd]) = "zero" <=> world.endings[p.cmd] = "zero"
    BY <2>1 DEF ExitOf, Endings
  <2> QED  BY <1>1, <2>2, <2>3, <2>4, <2>5, <2>6 DEF Holds
<1>2. CASE p.kind = "fact"
  BY <1>2 DEF Probe, Holds
<1> QED  BY <1>1, <1>2 DEF Preconditions

-----------------------------------------------------------------------------
(* What the evidence is, part by part.                                     *)

LEMMA TaskParts ==
  ASSUME NEW task \in JudgedTasks
  PROVE  /\ task.kind \in TaskKind
         /\ \A i \in DOMAIN task.acceptance : task.acceptance[i] \in Criteria
         /\ \A i \in DOMAIN task.preconditions : task.preconditions[i] \in Preconditions
         /\ task.preconditions = <<>> => DOMAIN task.preconditions = {}
<1>1. task.kind \in TaskKind /\ task.acceptance \in Seq(Criteria) /\ task.preconditions \in Seq(Preconditions)
  BY DEF JudgedTasks
<1> QED  BY <1>1, ElementOfSeq, LenProperties, EmptySeq

LEMMA FailuresAreBroken ==
  ASSUME NEW policy \in CommandPolicies, NEW task \in JudgedTasks, NEW env \in Environments
  PROVE  LET baseline == RunCriteria(task, policy, env.before.endings)
             post == RunCriteria(task, policy, env.after.endings)
             differentials == Differentials(baseline, post)
             criterion == task.acceptance
         IN /\ Rejecting(differentials) = {i \in DOMAIN criterion : criterion[i] \in Broken(task, policy, env)}
            /\ Rejecting(differentials) = {} => Broken(task, policy, env) = {}
            /\ \A i \in Rejecting(differentials) : differentials[i] \in {"regression", "unmet"}
            /\ \A i \in DOMAIN criterion :
                 post[i].stderr = IF Permitted(policy, criterion[i].cmd, criterion[i].shell)
                                  THEN env.after.endings[criterion[i].cmd]
                                  ELSE Decide(policy, criterion[i].cmd, criterion[i].shell).verdict
            /\ NotDiscriminating(baseline) <=>
                 \E i \in DOMAIN criterion : criterion[i].expect /\ Green(policy, criterion[i], env.before)
<1> DEFINE baseline == RunCriteria(task, policy, env.before.endings)
           post == RunCriteria(task, policy, env.after.endings)
           differentials == Differentials(baseline, post)
           criterion == task.acceptance
<1>1. env.before \in Worlds /\ env.after \in Worlds
  BY DEF Environments
<1>2. \A i \in DOMAIN criterion : criterion[i] \in Criteria /\ criterion[i].expect \in BOOLEAN
  BY TaskParts DEF Criteria
<1>3. /\ DOMAIN baseline = DOMAIN criterion /\ DOMAIN post = DOMAIN criterion
      /\ DOMAIN differentials = DOMAIN criterion
      /\ \A i \in DOMAIN criterion : /\ baseline[i] = Observe(criterion[i], policy, env.before.endings)
                                     /\ post[i] = Observe(criterion[i], policy, env.after.endings)
                                     /\ differentials[i] = Differential(baseline[i], post[i])
  BY DEF RunCriteria, Differentials
<1>4. \A i \in DOMAIN criterion :
        /\ baseline[i].expect = criterion[i].expect
        /\ baseline[i].green \in BOOLEAN /\ post[i].green \in BOOLEAN
        /\ baseline[i].green <=> Green(policy, criterion[i], env.before)
        /\ post[i].green <=> Green(policy, criterion[i], env.after)
        /\ post[i].stderr = IF Permitted(policy, criterion[i].cmd, criterion[i].shell)
                            THEN env.after.endings[criterion[i].cmd]
                            ELSE Decide(policy, criterion[i].cmd, criterion[i].shell).verdict
  BY <1>1, <1>2, <1>3, CriterionIsObserved
<1> HIDE DEF baseline, post, differentials
<1>5. ASSUME NEW i \in DOMAIN criterion
      PROVE  differentials[i] \in {"regression", "unmet"} <=> criterion[i] \in Broken(task, policy, env)
  <2>1. differentials[i] = CASE baseline[i].green -> IF post[i].green THEN "ok" ELSE "regression"
           [] ~baseline[i].green /\ baseline[i].expect -> IF post[i].green THEN "proven" ELSE "unmet"
           [] ~baseline[i].green /\ ~baseline[i].expect -> IF post[i].green THEN "debt_closed" ELSE "debt_kept"
    BY <1>3 DEF Differential
  <2>2. criterion[i] \in Broken(task, policy, env)
          <=> ~post[i].green /\ (criterion[i].expect \/ baseline[i].green)
    BY <1>4 DEF Broken, ToSet
  <2> QED  BY <1>2, <1>4, <2>1, <2>2
<1>6. Rejecting(differentials) = {i \in DOMAIN criterion : differentials[i] \in {"regression", "unmet"}}
  BY <1>3 DEF Rejecting
<1>7. Broken(task, policy, env) # {} => \E i \in DOMAIN criterion : criterion[i] \in Broken(task, policy, env)
  BY DEF Broken, ToSet
<1>8. NotDiscriminating(baseline) <=>
        \E i \in DOMAIN criterion : criterion[i].expect /\ Green(policy, criterion[i], env.before)
  BY <1>3, <1>4 DEF NotDiscriminating
<1> QED  BY <1>4, <1>5, <1>6, <1>7, <1>8 DEF baseline, post, differentials

LEMMA FailingProbesAreMissing ==
  ASSUME NEW policy \in CommandPolicies, NEW task \in JudgedTasks, NEW world \in Worlds
  PROVE  LET probes == ProbeAll(task.preconditions, policy, world)
         IN (\E i \in DOMAIN probes : ~probes[i].ok) <=> Missing(task, policy, world) # {}
<1> DEFINE p == task.preconditions
           probes == ProbeAll(p, policy, world)
<1>1. DOMAIN probes = DOMAIN p /\ \A i \in DOMAIN p : probes[i] = Probe(p[i], policy, world)
  BY DEF ProbeAll
<1>2. \A i \in DOMAIN p : probes[i].ok <=> Holds(p[i], policy, world)
  BY <1>1, TaskParts, PreconditionIsProbed
<1>3. Missing(task, policy, world) # {} <=> \E i \in DOMAIN p : ~Holds(p[i], policy, world)
  BY DEF Missing, ToSet
<1> HIDE DEF probes
<1> QED  BY <1>1, <1>2, <1>3 DEF probes

(* What the evidence and the second look at the environment make of an     *)
(* attempt that got as far.                                                *)
LEMMA EvidenceIsJudged ==
  ASSUME NEW task, task.kind \in TaskKind, NEW diff \in [empty : BOOLEAN, outside : BOOLEAN], NEW differentials
  PROVE  LET judged == JudgeEvidence(task, diff, differentials)
         IN /\ judged.verdict \in {"none", "replan", "rejected"}
            /\ judged.verdict = "none" =>
                 /\ judged = Passed /\ Rejecting(differentials) = {} /\ ~diff.outside
                 /\ task.kind = "implementation" => ~diff.empty
                 /\ task.kind = "readonly" => diff.empty
            /\ judged.verdict = "rejected" =>
                 \/ Rejecting(differentials) # {} \/ diff.outside
                 \/ task.kind = "readonly" /\ ~diff.empty
<1>1. diff.empty \in BOOLEAN /\ diff.outside \in BOOLEAN
  OBVIOUS
<1>2. /\ \A r : Replan(r).verdict = "replan" /\ Rejected(r).verdict = "rejected"
      /\ RejectedBy(differentials).verdict = "rejected" /\ Passed.verdict = "none"
  BY DEF Replan, Rejected, RejectedBy, Passed, Outcome
<1>3. CASE task.kind = "implementation" /\ diff.empty
  BY <1>2, <1>3 DEF JudgeEvidence
<1>4. CASE task.kind = "readonly" /\ ~diff.empty
  BY <1>2, <1>4 DEF JudgeEvidence
<1>5. CASE ~(task.kind = "implementation" /\ diff.empty) /\ ~(task.kind = "readonly" /\ ~diff.empty)
  <2>1. JudgeEvidence(task, diff, differentials) =
          CASE diff.outside -> Rejected("path_violation")
            [] ~diff.outside /\ Rejecting(differentials) # {} -> RejectedBy(differentials)
            [] OTHER -> Passed
    BY <1>5 DEF JudgeEvidence
  <2> QED  BY <1>1, <1>2, <1>5, <2>1
<1> QED  BY <1>3, <1>4, <1>5

LEMMA SecondLook ==
  ASSUME NEW task, NEW policy, NEW signals, NEW outcome, NEW differentials, NEW post, NEW world, NEW hint \in BOOLEAN,
         NEW other \in BOOLEAN
  PROVE  LET probes == ProbeAll(task.preconditions, policy, world)
             failing == \E i \in DOMAIN probes : ~probes[i].ok
             signal == \E i \in Rejecting(differentials) : post[i].stderr \in signals
             judged == Reclassified(task, policy, signals, outcome, differentials, post, hint, world)
             told == Reclassified(task, policy, signals, outcome, differentials, post, other, world)
         IN /\ judged = outcome \/ (judged.verdict = "blocked" /\ outcome.verdict = "rejected" /\ (signal \/ failing))
            /\ judged # told => "blocked" \in {judged.verdict, told.verdict} /\ failing
<1> DEFINE probes == ProbeAll(task.preconditions, policy, world)
           failing == \E i \in DOMAIN probes : ~probes[i].ok
           signal == \E i \in Rejecting(differentials) : post[i].stderr \in signals
           judgedAs(h) == Reclassified(task, policy, signals, outcome, differentials, post, h, world)
           open == outcome.verdict = "rejected" /\ outcome.reason \in {"regression", "unmet"}
<1>1. ASSUME NEW h \in BOOLEAN
      PROVE  judgedAs(h) = IF ~open THEN outcome
                           ELSE IF signal THEN Outcome("blocked", "signal")
                           ELSE IF (task.preconditions # <<>> \/ h) /\ failing THEN Outcome("blocked", "prerequisite")
                           ELSE outcome
  BY DEF Reclassified, MatchesSignal
<1>2. \A r : Outcome("blocked", r).verdict = "blocked"
  BY DEF Outcome
<1> HIDE DEF judgedAs, failing, signal
<1>3. judgedAs(hint) = outcome
      \/ (judgedAs(hint).verdict = "blocked" /\ outcome.verdict = "rejected" /\ (signal \/ failing))
  BY <1>1, <1>2
<1>4. judgedAs(hint) # judgedAs(other)
        => "blocked" \in {judgedAs(hint).verdict, judgedAs(other).verdict} /\ failing
  BY <1>1, <1>2
<1> QED  BY <1>3, <1>4 DEF judgedAs, failing, signal

LEMMA OutcomesDiffer ==
  /\ \A v, r : Outcome(v, r).verdict = v
  /\ Passed.verdict = "none" /\ \A r : Replan(r).verdict = "replan"
  BY DEF Outcome, Passed, Replan

(* An attempt that is not stopped before the agent has its preconditions,  *)
(* and criteria that can tell.                                             *)
LEMMA StopsAreEarned ==
  ASSUME NEW policy \in CommandPolicies, NEW task \in JudgedTasks, NEW env \in Environments
  PROVE  LET pre == PrecheckOf(task, policy, env.before)
             base == BaselineOf(RunCriteria(task, policy, env.before.endings))
         IN /\ pre.verdict \in {"none", "replan", "blocked"} /\ base.verdict \in {"none", "replan"}
            /\ pre.verdict = "none" => pre = Passed /\ Missing(task, policy, env.before) = {}
            /\ pre.verdict = "blocked" => Missing(task, policy, env.before) # {}
            /\ base.verdict = "none" =>
                 base = Passed /\ \A c \in ToSet(task.acceptance) : c.expect => ~Green(policy, c, env.before)
<1> DEFINE pre == PrecheckOf(task, policy, env.before)
           baseline == RunCriteria(task, policy, env.before.endings)
           base == BaselineOf(baseline)
           probes == ProbeAll(task.preconditions, policy, env.before)
           failing == \E i \in DOMAIN probes : ~probes[i].ok
<1>1. env.before \in Worlds
  BY DEF Environments
<1>2. failing <=> Missing(task, policy, env.before) # {}
  BY <1>1, FailingProbesAreMissing
<1>3. pre = IF \E i \in DOMAIN probes : probes[i].denied THEN Replan("policy_denied_at_runtime")
            ELSE IF failing THEN Outcome("blocked", "prerequisite") ELSE Passed
  BY DEF PrecheckOf
<1>4. base = IF \E i \in DOMAIN baseline : baseline[i].denied THEN Replan("policy_denied_at_runtime")
             ELSE IF NotDiscriminating(baseline) THEN Replan("ac_not_discriminating") ELSE Passed
  BY DEF BaselineOf
<1>5. ~NotDiscriminating(baseline) => \A c \in ToSet(task.acceptance) : c.expect => ~Green(policy, c, env.before)
  BY FailuresAreBroken DEF ToSet
<1> HIDE DEF pre, base, baseline, failing
<1>6. /\ pre.verdict \in {"none", "replan", "blocked"} /\ base.verdict \in {"none", "replan"}
      /\ pre.verdict = "none" => pre = Passed /\ ~failing
      /\ pre.verdict = "blocked" => failing
      /\ base.verdict = "none" => base = Passed /\ ~NotDiscriminating(baseline)
  BY <1>3, <1>4, OutcomesDiffer
<1> QED  BY <1>2, <1>5, <1>6 DEF pre, base, baseline, failing

(* What the property says of one attempt, and of it had the agent hinted.  *)
Earned(task, policy, env, signals, hint) ==
    LET judged == AttemptOf(task, policy, signals, env)
        told   == AttemptOf(task, policy, signals, [env EXCEPT !.hint = hint])
        broken == Broken(task, policy, env)
    IN /\ judged = Passed =>
            /\ broken = {} /\ Missing(task, policy, env.before) = {} /\ ~env.failure /\ ~env.diff.outside
            /\ \A c \in ToSet(task.acceptance) : c.expect => ~Green(policy, c, env.before)
            /\ task.kind = "implementation" => ~env.diff.empty
            /\ task.kind = "readonly" => env.diff.empty
       /\ judged.verdict = "rejected" =>
            broken # {} \/ env.diff.outside \/ (task.kind = "readonly" /\ ~env.diff.empty)
       /\ judged.verdict = "blocked" =>
            \/ Missing(task, policy, env.before) # {} \/ Missing(task, policy, env.later) # {}
            \/ \E c \in broken : (IF Permitted(policy, c.cmd, c.shell) THEN env.after.endings[c.cmd]
                                  ELSE Decide(policy, c.cmd, c.shell).verdict) \in signals
       /\ judged # told =>
            "blocked" \in {judged.verdict, told.verdict} /\ Missing(task, policy, env.later) # {}

LEMMA AttemptIsEarned ==
  ASSUME NEW policy \in CommandPolicies, NEW task \in JudgedTasks, NEW env \in Environments, NEW signals,
         NEW hint \in BOOLEAN
  PROVE  Earned(task, policy, env, signals, hint)
<1> DEFINE baseline == RunCriteria(task, policy, env.before.endings)
           post == RunCriteria(task, policy, env.after.endings)
           differentials == Differentials(baseline, post)
           rejecting == Rejecting(differentials)
           pre == PrecheckOf(task, policy, env.before)
           base == BaselineOf(baseline)
           evidence == JudgeEvidence(task, env.diff, differentials)
           probes == ProbeAll(task.preconditions, policy, env.later)
           failing == \E i \in DOMAIN probes : ~probes[i].ok
           signal == \E i \in rejecting : post[i].stderr \in signals
           second(h) == Reclassified(task, policy, signals, evidence, differentials, post, h, env.later)
           earlier == IF pre # Passed THEN pre ELSE base
           env2 == [env EXCEPT !.hint = hint]
           judged == AttemptOf(task, policy, signals, env)
           told == AttemptOf(task, policy, signals, env2)
           broken == Broken(task, policy, env)
           earned ==
             /\ judged = Passed =>
                  /\ broken = {} /\ Missing(task, policy, env.before) = {} /\ ~env.failure /\ ~env.diff.outside
                  /\ \A c \in ToSet(task.acceptance) : c.expect => ~Green(policy, c, env.before)
                  /\ task.kind = "implementation" => ~env.diff.empty
                  /\ task.kind = "readonly" => env.diff.empty
             /\ judged.verdict = "rejected" =>
                  broken # {} \/ env.diff.outside \/ (task.kind = "readonly" /\ ~env.diff.empty)
             /\ judged.verdict = "blocked" =>
                  \/ Missing(task, policy, env.before) # {} \/ Missing(task, policy, env.later) # {}
                  \/ \E c \in broken : (IF Permitted(policy, c.cmd, c.shell) THEN env.after.endings[c.cmd]
                                        ELSE Decide(policy, c.cmd, c.shell).verdict) \in signals
             /\ judged # told =>
                  "blocked" \in {judged.verdict, told.verdict} /\ Missing(task, policy, env.later) # {}
<1>1. /\ env.before \in Worlds /\ env.after \in Worlds /\ env.later \in Worlds
      /\ env.failure \in BOOLEAN /\ env.hint \in BOOLEAN /\ env.diff \in [empty : BOOLEAN, outside : BOOLEAN]
  BY DEF Environments
<1>2. /\ env2.before = env.before /\ env2.after = env.after /\ env2.later = env.later
      /\ env2.failure = env.failure /\ env2.hint = hint /\ env2.diff = env.diff
  BY DEF Environments
<1>3. judged = IF earlier # Passed THEN earlier
               ELSE IF env.failure THEN Outcome("error", "runtime_failure") ELSE second(env.hint)
  BY DEF AttemptOf
<1>4. told = IF earlier # Passed THEN earlier
             ELSE IF env.failure THEN Outcome("error", "runtime_failure") ELSE second(hint)
  BY <1>2 DEF AttemptOf
<1>5. /\ pre.verdict \in {"none", "replan", "blocked"} /\ base.verdict \in {"none", "replan"}
      /\ pre.verdict = "none" => pre = Passed /\ Missing(task, policy, env.before) = {}
      /\ pre.verdict = "blocked" => Missing(task, policy, env.before) # {}
      /\ base.verdict = "none" =>
           base = Passed /\ \A c \in ToSet(task.acceptance) : c.expect => ~Green(policy, c, env.before)
  BY StopsAreEarned
<1>6. /\ evidence.verdict \in {"none", "replan", "rejected"}
      /\ evidence.verdict = "none" =>
           /\ evidence = Passed /\ rejecting = {} /\ ~env.diff.outside
           /\ task.kind = "implementation" => ~env.diff.empty
           /\ task.kind = "readonly" => env.diff.empty
      /\ evidence.verdict = "rejected" =>
           rejecting # {} \/ env.diff.outside \/ (task.kind = "readonly" /\ ~env.diff.empty)
  BY <1>1, TaskParts, EvidenceIsJudged
<1>7. /\ second(env.hint) = evidence
         \/ (second(env.hint).verdict = "blocked" /\ evidence.verdict = "rejected" /\ (signal \/ failing))
      /\ second(env.hint) # second(hint) => "blocked" \in {second(env.hint).verdict, second(hint).verdict} /\ failing
  BY <1>1, SecondLook
<1>8. failing <=> Missing(task, policy, env.later) # {}
  BY <1>1, FailingProbesAreMissing
<1>9. /\ rejecting = {i \in DOMAIN task.acceptance : task.acceptance[i] \in broken}
      /\ rejecting = {} => broken = {}
      /\ \A i \in DOMAIN task.acceptance :
           post[i].stderr = IF Permitted(policy, task.acceptance[i].cmd, task.acceptance[i].shell)
                            THEN env.after.endings[task.acceptance[i].cmd]
                            ELSE Decide(policy, task.acceptance[i].cmd, task.acceptance[i].shell).verdict
  BY FailuresAreBroken
<1>10. signal => \E c \in broken : (IF Permitted(policy, c.cmd, c.shell) THEN env.after.endings[c.cmd]
                                    ELSE Decide(policy, c.cmd, c.shell).verdict) \in signals
  BY <1>9
<1> HIDE DEF judged, told, pre, base, evidence, second, broken, rejecting, failing, signal
<1>11. Passed.verdict = "none" /\ Outcome("error", "runtime_failure").verdict = "error"
  BY OutcomesDiffer
<1>12. ASSUME earlier # Passed PROVE earned
  <2>1. judged = earlier /\ told = earlier
    BY <1>3, <1>4, <1>12
  <2>2. earlier.verdict \in {"replan", "blocked"}
        /\ (earlier.verdict = "blocked" => Missing(task, policy, env.before) # {})
    BY <1>5, <1>12
  <2> QED  BY <2>1, <2>2, <1>11
<1>13. ASSUME earlier = Passed, env.failure PROVE earned
  <2>1. judged.verdict = "error" /\ told = judged
    BY <1>3, <1>4, <1>11, <1>13
  <2> QED  BY <2>1, <1>11
<1>14. ASSUME earlier = Passed, ~env.failure PROVE earned
  <2>1. judged = second(env.hint) /\ told = second(hint) /\ pre = Passed /\ base = Passed
    BY <1>3, <1>4, <1>14
  <2>2. judged = Passed => evidence = Passed
    BY <2>1, <1>7, <1>11
  <2>3. judged.verdict = "rejected" => evidence = judged
    BY <2>1, <1>7
  <2>4. judged.verdict = "blocked" => signal \/ failing
    BY <2>1, <1>6, <1>7
  <2>5. judged # told => "blocked" \in {judged.verdict, told.verdict} /\ failing
    BY <2>1, <1>7
  <2>6. judged = Passed =>
          /\ broken = {} /\ Missing(task, policy, env.before) = {} /\ ~env.failure /\ ~env.diff.outside
          /\ \A c \in ToSet(task.acceptance) : c.expect => ~Green(policy, c, env.before)
          /\ task.kind = "implementation" => ~env.diff.empty
          /\ task.kind = "readonly" => env.diff.empty
    BY <2>1, <2>2, <1>5, <1>6, <1>9, <1>11, <1>14
  <2>7. judged.verdict = "rejected" =>
          broken # {} \/ env.diff.outside \/ (task.kind = "readonly" /\ ~env.diff.empty)
    BY <2>3, <1>6, <1>9
  <2> QED  BY <2>4, <2>5, <2>6, <2>7, <1>8, <1>10
<1>15. earned
  BY <1>12, <1>13, <1>14
<1> QED  BY <1>15 DEF Earned, judged, told, broken

(* For every policy, task, environment and set of signals, and whatever    *)
(* the order in which the code looks at the preconditions, the baseline,   *)
(* the diff, the criteria and, a second time, at the environment: an       *)
(* attempt passes only if what was green before stays green and what was   *)
(* to fail first went from red to green, in commands that were executed;   *)
(* it is rejected only for what it did, and blocked only on what the       *)
(* harness saw. A criterion that need not fail first and is red before and *)
(* after stands against nobody: it may never have been executed.           *)
THEOREM VerdictEarned ==
  ASSUME question \in AttemptQuestions
  PROVE  VerdictIsEarned
<1> DEFINE task == question.task
           policy == question.policy
           env == question.env
           signals == question.signals
           hint == ~env.hint
<1>1. task \in JudgedTasks /\ policy \in CommandPolicies /\ env \in Environments /\ hint \in BOOLEAN
  BY DEF AttemptQuestions
<1>2. [env EXCEPT !.hint = ~@] = [env EXCEPT !.hint = hint]
  OBVIOUS
<1>3. \A c \in ToSet(task.acceptance) :
        ~(c \in Broken(task, policy, env)) /\ c.expect /\ ~Green(policy, c, env.before) => Green(policy, c, env.after)
  BY DEF Broken
<1> DEFINE judged == AttemptOf(task, policy, signals, env)
           told == AttemptOf(task, policy, signals, [env EXCEPT !.hint = hint])
           broken == Broken(task, policy, env)
<1>0. Earned(task, policy, env, signals, hint)
  BY <1>1, AttemptIsEarned
<1>4. /\ judged = Passed =>
           /\ broken = {} /\ Missing(task, policy, env.before) = {} /\ ~env.failure /\ ~env.diff.outside
           /\ \A c \in ToSet(task.acceptance) : c.expect => ~Green(policy, c, env.before)
           /\ task.kind = "implementation" => ~env.diff.empty
           /\ task.kind = "readonly" => env.diff.empty
      /\ judged.verdict = "rejected" =>
           broken # {} \/ env.diff.outside \/ (task.kind = "readonly" /\ ~env.diff.empty)
      /\ judged.verdict = "blocked" =>
           \/ Missing(task, policy, env.before) # {} \/ Missing(task, policy, env.later) # {}
           \/ \E c \in broken : (IF Permitted(policy, c.cmd, c.shell) THEN env.after.endings[c.cmd]
                                 ELSE Decide(policy, c.cmd, c.shell).verdict) \in signals
      /\ judged # told =>
           "blocked" \in {judged.verdict, told.verdict} /\ Missing(task, policy, env.later) # {}
  BY <1>0 DEF Earned
<1>5. judged = Passed => \A c \in ToSet(task.acceptance) :
        c.expect => ~Green(policy, c, env.before) /\ Green(policy, c, env.after)
  BY <1>3, <1>4
<1> HIDE DEF judged, told
<1> QED  BY <1>2, <1>4, <1>5 DEF VerdictIsEarned, Broken, Green, Missing, judged, told

-----------------------------------------------------------------------------
(* What a set of sections costs.                                           *)

Sections == [layer : Layers, tokens : Nat, fields : SUBSET Fields]

Share(sections, indexes, n) == IF n \in indexes THEN sections[n].tokens ELSE 0
Counts(total, sections, indexes, m) ==
  total = [n \in 0..m |-> IF n = 0 THEN 0 ELSE total[n - 1] + Share(sections, indexes, n)]

LEMMA SharesAreNumbers ==
  ASSUME NEW sections \in Seq(Sections), NEW indexes, NEW n \in 1..Len(sections)
  PROVE  Share(sections, indexes, n) \in Nat
<1>1. sections[n] \in Sections
  BY ElementOfSeq
<1> QED  BY <1>1 DEF Share, Sections

LEMMA CountExists ==
  ASSUME NEW sections \in Seq(Sections), NEW indexes
  PROVE  \E total : Counts(total, sections, indexes, Len(sections))
<1> DEFINE len == Len(sections)
           good == {m \in 0..len : \E total : Counts(total, sections, indexes, m)}
<1>0. len \in Nat
  BY LenProperties
<1>1. 0 \in good
  <2> DEFINE total == [n \in 0..0 |-> 0]
  <2>1. Counts(total, sections, indexes, 0)
    BY DEF Counts
  <2> QED  BY <2>1, <1>0
<1>2. ASSUME NEW m \in 1..len, m - 1 \in good PROVE m \in good
  <2>1. PICK f : Counts(f, sections, indexes, m - 1)
    BY <1>0, <1>2
  <2> DEFINE total == [n \in 0..m |-> IF n = m THEN f[m - 1] + Share(sections, indexes, m) ELSE f[n]]
  <2>2. \A n \in 0..(m - 1) : f[n] = IF n = 0 THEN 0 ELSE f[n - 1] + Share(sections, indexes, n)
    BY <2>1 DEF Counts
  <2>3. m \in Nat /\ m # 0
    BY <1>0
  <2>4. ASSUME NEW n \in 0..m
        PROVE  total[n] = IF n = 0 THEN 0 ELSE total[n - 1] + Share(sections, indexes, n)
    <3>1. CASE n = m
      <4>1. total[n] = f[m - 1] + Share(sections, indexes, m) /\ total[m - 1] = f[m - 1]
        BY <2>3, <3>1
      <4> QED  BY <2>3, <3>1, <4>1
    <3>2. CASE n # m
      <4>1. n \in 0..(m - 1) /\ total[n] = f[n] /\ (n # 0 => total[n - 1] = f[n - 1])
        BY <2>3, <3>2
      <4> QED  BY <2>2, <4>1
    <3> QED  BY <3>1, <3>2
  <2>5. Counts(total, sections, indexes, m)
    <3>1. total = [n \in 0..m |-> total[n]]
      OBVIOUS
    <3> HIDE DEF total
    <3> QED  BY <2>4, <3>1 DEF Counts
  <2> QED  BY <2>5
<1>3. \A m \in 0..len : m \in good
  <2> HIDE DEF good
  <2> QED  BY <1>0, <1>1, <1>2, UpTo
<1> QED  BY <1>0, <1>3

(* The sum the code builds, section by section.                            *)
LEMMA CostIsCounted ==
  ASSUME NEW sections \in Seq(Sections), NEW indexes
  PROVE  \E total : /\ total \in [0..Len(sections) -> Nat] /\ total[0] = 0
                    /\ \A n \in 1..Len(sections) : total[n] = total[n - 1] + Share(sections, indexes, n)
                    /\ Cost(sections, indexes) = total[Len(sections)]
<1> DEFINE len == Len(sections)
           total == CHOOSE f : Counts(f, sections, indexes, len)
<1>0. len \in Nat
  BY LenProperties
<1>1. Cost(sections, indexes) = total[len]
  BY DEF Cost, Counts, Share
<1>2. Counts(total, sections, indexes, len)
  BY CountExists
<1> HIDE DEF total
<1>3. total[0] = 0 /\ \A n \in 1..len : total[n] = total[n - 1] + Share(sections, indexes, n)
  BY <1>0, <1>2 DEF Counts
<1> DEFINE good == {m \in 0..len : total[m] \in Nat}
<1>4. \A m \in 0..len : m \in good
  <2>1. 0 \in good
    BY <1>0, <1>3
  <2>2. ASSUME NEW m \in 1..len, m - 1 \in good PROVE m \in good
    BY <1>0, <1>3, <2>2, SharesAreNumbers
  <2> HIDE DEF good
  <2> QED  BY <1>0, <2>1, <2>2, UpTo
<1>5. total \in [0..len -> Nat]
  BY <1>2, <1>4 DEF Counts
<1> QED  BY <1>1, <1>3, <1>5

LEMMA CostAdds ==
  ASSUME NEW sections \in Seq(Sections), NEW A, NEW B, A \cap B = {}
  PROVE  /\ Cost(sections, A) \in Nat /\ Cost(sections, B) \in Nat
         /\ Cost(sections, A \cup B) = Cost(sections, A) + Cost(sections, B)
<1> DEFINE len == Len(sections)
<1>0. len \in Nat
  BY LenProperties
<1>1. PICK f : /\ f \in [0..len -> Nat] /\ f[0] = 0
               /\ \A n \in 1..len : f[n] = f[n - 1] + Share(sections, A, n)
               /\ Cost(sections, A) = f[len]
  BY CostIsCounted
<1>2. PICK g : /\ g \in [0..len -> Nat] /\ g[0] = 0
               /\ \A n \in 1..len : g[n] = g[n - 1] + Share(sections, B, n)
               /\ Cost(sections, B) = g[len]
  BY CostIsCounted
<1>3. PICK h : /\ h \in [0..len -> Nat] /\ h[0] = 0
               /\ \A n \in 1..len : h[n] = h[n - 1] + Share(sections, A \cup B, n)
               /\ Cost(sections, A \cup B) = h[len]
  BY CostIsCounted
<1> DEFINE good == {m \in 0..len : h[m] = f[m] + g[m]}
<1>4. ASSUME NEW m \in 1..len, m - 1 \in good PROVE m \in good
  <2>1. /\ f[m] = f[m - 1] + Share(sections, A, m) /\ g[m] = g[m - 1] + Share(sections, B, m)
        /\ h[m] = h[m - 1] + Share(sections, A \cup B, m) /\ h[m - 1] = f[m - 1] + g[m - 1]
    BY <1>0, <1>1, <1>2, <1>3, <1>4
  <2>2. Share(sections, A \cup B, m) = Share(sections, A, m) + Share(sections, B, m)
    <3>1. m \in A \cup B => sections[m].tokens \in Nat
      BY SharesAreNumbers DEF Share
    <3> QED  BY <3>1 DEF Share
  <2>3. /\ f[m - 1] \in Nat /\ g[m - 1] \in Nat /\ Share(sections, A, m) \in Nat
        /\ Share(sections, B, m) \in Nat
    BY <1>0, <1>1, <1>2, SharesAreNumbers
  <2>4. h[m] = f[m] + g[m]
    BY <2>1, <2>2, <2>3
  <2> QED  BY <2>4
<1>5. \A m \in 0..len : m \in good
  <2>1. 0 \in good
    BY <1>0, <1>1, <1>2, <1>3
  <2> HIDE DEF good
  <2> QED  BY <1>0, <1>4, <2>1, UpTo
<1> QED  BY <1>0, <1>1, <1>2, <1>3, <1>5

LEMMA CostGrows ==
  ASSUME NEW sections \in Seq(Sections), NEW B, NEW A \in SUBSET B
  PROVE  Cost(sections, A) <= Cost(sections, B)
<1> DEFINE rest == B \ A
<1>1. A \cap rest = {} /\ B = A \cup rest
  OBVIOUS
<1> HIDE DEF rest
<1>2. /\ Cost(sections, A) \in Nat /\ Cost(sections, rest) \in Nat
      /\ Cost(sections, A \cup rest) = Cost(sections, A) + Cost(sections, rest)
  BY <1>1, CostAdds
<1>3. Cost(sections, B) = Cost(sections, A) + Cost(sections, rest)
  BY <1>1, <1>2, Zenon
<1> QED  BY <1>2, <1>3

-----------------------------------------------------------------------------
(* What is kept.                                                           *)

InLayers(sections, limits, layers) ==
  {i \in DOMAIN sections \ Oversized(sections, limits) : sections[i].layer \in layers}
Leading(sections, limits, n) == InLayers(sections, limits, {OptionalOrder[k] : k \in 1..n})

LEMMA LayerPlaces ==
  /\ Place("L5") = 1 /\ Place("L6") = 2 /\ Place("L7") = 3
  /\ \A l \in Layers : \/ l \in {"L5", "L6", "L7"} /\ l \notin FixedLayers /\ Place(l) \in 1..3
                          /\ \A n \in 0..3 : l \in {OptionalOrder[k] : k \in 1..n} <=> Place(l) <= n
                       \/ l \in FixedLayers /\ \A n \in 0..3 : l \notin {OptionalOrder[k] : k \in 1..n}
<1>1. /\ OptionalOrder[1] = "L5" /\ OptionalOrder[2] = "L6" /\ OptionalOrder[3] = "L7"
      /\ DOMAIN OptionalOrder = {1, 2, 3} /\ 1..3 = {1, 2, 3} /\ 0..3 = {0, 1, 2, 3}
  BY DEF OptionalOrder
<1>2. Place("L5") = 1 /\ Place("L6") = 2 /\ Place("L7") = 3
  BY <1>1 DEF Place
<1>3. Layers = {"L0", "L1", "L2", "L3", "L4", "L8", "L5", "L6", "L7"}
  BY <1>1 DEF Layers, FixedLayers, ToSet
<1>4. \A n \in 0..3 : \A l : l \in {OptionalOrder[k] : k \in 1..n} <=>
         \/ l = "L5" /\ 1 <= n
         \/ l = "L6" /\ 2 <= n
         \/ l = "L7" /\ 3 <= n
  <2> SUFFICES ASSUME NEW n \in 0..3, NEW l
               PROVE  l \in {OptionalOrder[k] : k \in 1..n} <=>
                        (l = "L5" /\ 1 <= n) \/ (l = "L6" /\ 2 <= n) \/ (l = "L7" /\ 3 <= n)
    OBVIOUS
  <2>1. n = 0 \/ n = 1 \/ n = 2 \/ n = 3
    OBVIOUS
  <2>2. 1..0 = {} /\ 1..1 = {1} /\ 1..2 = {1, 2}
    OBVIOUS
  <2> QED  BY <1>1, <2>1, <2>2
<1>5. ASSUME NEW l \in Layers
      PROVE  \/ l \in {"L5", "L6", "L7"} /\ l \notin FixedLayers /\ Place(l) \in 1..3
                /\ \A n \in 0..3 : l \in {OptionalOrder[k] : k \in 1..n} <=> Place(l) <= n
             \/ l \in FixedLayers /\ \A n \in 0..3 : l \notin {OptionalOrder[k] : k \in 1..n}
  BY <1>2, <1>3, <1>4 DEF FixedLayers
<1> QED  BY <1>2, <1>5

LEMMA LayersOfSections ==
  ASSUME NEW sections \in Seq(Sections), NEW limits \in [budget : Nat, reserve : Nat, slice : Nat]
  PROVE  \A i \in DOMAIN sections :
           /\ sections[i].layer \in Layers /\ sections[i].tokens \in Nat
           /\ i \in DOMAIN sections \ Oversized(sections, limits) <=> Whole(sections, limits, i)
<1>1. ASSUME NEW i \in DOMAIN sections PROVE sections[i].layer \in Layers /\ sections[i].tokens \in Nat
  <2>1. sections[i] \in Sections
    BY ElementOfSeq, LenProperties
  <2> QED  BY <2>1 DEF Sections
<1>2. ASSUME NEW i \in DOMAIN sections
      PROVE  i \in DOMAIN sections \ Oversized(sections, limits) <=> Whole(sections, limits, i)
  <2>1. sections[i].layer \in CappedLayers <=> ~(sections[i].layer \in {"L0", "L1", "L4", "L8"})
    <3>1. Layers = {"L0", "L1", "L2", "L3", "L4", "L8", "L5", "L6", "L7"}
      <4>1. ToSet(OptionalOrder) = {"L5", "L6", "L7"}
        BY DEF OptionalOrder, ToSet
      <4> QED  BY <4>1 DEF Layers, FixedLayers
    <3> QED  BY <1>1, <3>1 DEF CappedLayers
  <2>2. sections[i].tokens > limits.slice <=> ~(sections[i].tokens <= limits.slice)
    BY <1>1
  <2> QED  BY <2>1, <2>2 DEF Oversized, Whole
<1> QED  BY <1>1, <1>2

(* The greatest number of optional layers that fit is that of the last one *)
(* whose layers, with those before it, fit.                                *)
LEMMA FitKeeps ==
  ASSUME NEW sections \in Seq(Sections), NEW limits \in [budget : Nat, reserve : Nat, slice : Nat],
         NEW i \in DOMAIN sections
  PROVE  LET kept == Fit(sections, limits)
             l == sections[i].layer
         IN IF l \in FixedLayers THEN i \in kept <=> Whole(sections, limits, i)
            ELSE i \in kept <=> /\ Whole(sections, limits, i)
                                /\ Cost(sections, UpToLayer(sections, limits, l))
                                     <= limits.budget - limits.reserve
<1> DEFINE kept == Fit(sections, limits)
           l == sections[i].layer
           p == Place(l)
           upTo == UpToLayer(sections, limits, l)
           reserved == InLayers(sections, limits, FixedLayers)
           remaining == limits.budget - limits.reserve - Cost(sections, reserved)
           leading(n) == Leading(sections, limits, n)
           fitting == {0} \cup {n \in 1..3 : Cost(sections, leading(n)) <= remaining}
           most == Max(fitting)
<1>1. kept = reserved \cup leading(most)
  BY DEF Fit, InLayers, Leading
<1>2. \A j \in DOMAIN sections :
        /\ sections[j].layer \in Layers
        /\ j \in DOMAIN sections \ Oversized(sections, limits) <=> Whole(sections, limits, j)
  BY LayersOfSections
<1>3. most \in fitting /\ \A n \in fitting : n <= most
  <2>1. fitting \in SUBSET (0..3) /\ 0 \in fitting
    OBVIOUS
  <2> HIDE DEF fitting
  <2> QED  BY <2>1, MaxIsGreatest
<1>4. most \in 0..3
  BY <1>3
<1>5. \A j : j \in reserved <=>
         j \in DOMAIN sections /\ Whole(sections, limits, j) /\ sections[j].layer \in FixedLayers
  BY <1>2 DEF InLayers
<1>6. ASSUME NEW n \in 0..3, NEW j
      PROVE  j \in leading(n) <=> /\ j \in DOMAIN sections /\ Whole(sections, limits, j)
                                  /\ sections[j].layer \notin FixedLayers /\ Place(sections[j].layer) <= n
  <2>1. j \in leading(n) <=> j \in DOMAIN sections /\ Whole(sections, limits, j)
                             /\ sections[j].layer \in {OptionalOrder[k] : k \in 1..n}
    BY <1>2 DEF Leading, InLayers
  <2> HIDE DEF leading
  <2> QED  BY <1>2, <2>1, LayerPlaces
<1> HIDE DEF kept, reserved, leading, most, fitting, remaining
<1>7. CASE l \in FixedLayers
  <2>1. i \notin leading(most)
    BY <1>4, <1>6, <1>7
  <2>2. i \in reserved <=> Whole(sections, limits, i)
    BY <1>5, <1>7
  <2>3. i \in kept <=> Whole(sections, limits, i)
    BY <1>1, <2>1, <2>2
  <2> QED  BY <1>7, <2>3 DEF kept
<1>8. CASE l \notin FixedLayers
  <2>1. p \in 1..3
    BY <1>2, <1>8, LayerPlaces
  <2>2. i \in kept <=> Whole(sections, limits, i) /\ p <= most
    BY <1>1, <1>4, <1>5, <1>6, <1>8
  <2>3. upTo = reserved \cup leading(p)
    <3>1. \A j : j \in upTo <=> j \in reserved \/ j \in leading(p)
      BY <1>5, <1>6, <2>1 DEF UpToLayer
    <3> QED  BY <3>1 DEF UpToLayer
  <2>4. reserved \cap leading(p) = {}
    BY <1>5, <1>6, <2>1
  <2>5. /\ Cost(sections, reserved) \in Nat /\ Cost(sections, leading(p)) \in Nat
        /\ Cost(sections, reserved \cup leading(p)) = Cost(sections, reserved) + Cost(sections, leading(p))
    BY <2>4, CostAdds
  <2>6. Cost(sections, upTo) = Cost(sections, reserved) + Cost(sections, leading(p))
    BY <2>3, <2>5, Zenon
  <2>7. limits.budget \in Nat /\ limits.reserve \in Nat
    OBVIOUS
  <2>8. Cost(sections, leading(p)) <= remaining <=> Cost(sections, upTo) <= limits.budget - limits.reserve
    BY <2>5, <2>6, <2>7 DEF remaining
  <2>9. Cost(sections, leading(p)) <= remaining => p <= most
    BY <1>3, <2>1 DEF fitting
  <2>10. ASSUME p <= most PROVE Cost(sections, leading(p)) <= remaining
    <3>1. most \in 1..3 /\ Cost(sections, leading(most)) <= remaining
      BY <1>3, <1>4, <2>1, <2>10 DEF fitting
    <3>2. leading(p) \in SUBSET leading(most)
      <4>1. \A j \in leading(p) : j \in leading(most)
        <5> SUFFICES ASSUME NEW j \in leading(p) PROVE j \in leading(most)
          OBVIOUS
        <5>1. sections[j].layer \in Layers /\ sections[j].layer \notin FixedLayers
              /\ Place(sections[j].layer) <= p
          BY <1>2, <1>6, <2>1
        <5>2. Place(sections[j].layer) \in 1..3
          BY <5>1, LayerPlaces
        <5>3. Place(sections[j].layer) <= most
          BY <1>4, <2>1, <2>10, <5>1, <5>2
        <5> QED  BY <1>4, <1>6, <2>1, <5>3
      <4> QED  BY <4>1
    <3>3. Cost(sections, leading(p)) <= Cost(sections, leading(most))
      BY <3>2, CostGrows
    <3>4. Cost(sections, leading(most)) \in Nat /\ remaining \in Int
      <4>1. leading(most) \cap {} = {}
        OBVIOUS
      <4>2. Cost(sections, leading(most)) \in Nat
        BY <4>1, CostAdds
      <4> QED  BY <4>2, <2>5, <2>7 DEF remaining
    <3> QED  BY <3>1, <3>3, <3>4, <2>5
  <2>11. i \in kept <=> Whole(sections, limits, i) /\ Cost(sections, upTo) <= limits.budget - limits.reserve
    BY <2>2, <2>8, <2>9, <2>10
  <2> QED  BY <1>8, <2>11 DEF kept
<1> QED  BY <1>7, <1>8

-----------------------------------------------------------------------------
(* What a prompt is built from.                                            *)

LEMMA JoinedElements ==
  ASSUME NEW S, NEW s \in Seq(S), NEW t \in Seq(S)
  PROVE  s \o t \in Seq(S) /\ ToSet(s) \cup ToSet(t) \subseteq ToSet(s \o t)
<1>1. /\ s \o t \in Seq(S) /\ Len(s \o t) = Len(s) + Len(t)
      /\ \A i \in 1..(Len(s) + Len(t)) : (s \o t)[i] = IF i <= Len(s) THEN s[i] ELSE t[i - Len(s)]
  BY ConcatProperties
<1>2. /\ Len(s) \in Nat /\ DOMAIN s = 1..Len(s) /\ Len(t) \in Nat /\ DOMAIN t = 1..Len(t)
      /\ DOMAIN (s \o t) = 1..Len(s \o t)
  BY <1>1, LenProperties
<1>3. ASSUME NEW i \in DOMAIN s PROVE s[i] \in ToSet(s \o t)
  <2>1. i \in DOMAIN (s \o t) /\ (s \o t)[i] = s[i]
    BY <1>1, <1>2
  <2> QED  BY <2>1 DEF ToSet
<1>4. ASSUME NEW i \in DOMAIN t PROVE t[i] \in ToSet(s \o t)
  <2>1. Len(s) + i \in DOMAIN (s \o t) /\ (s \o t)[Len(s) + i] = t[i]
    BY <1>1, <1>2
  <2> QED  BY <2>1 DEF ToSet
<1> QED  BY <1>1, <1>3, <1>4 DEF ToSet

LEMMA OneUpstream ==
  ASSUME NEW s
  PROVE  FlattenSeq(<<s>>) = s
<1> DEFINE seqs == <<s>>
           Flattens(f) == f = [i \in 1..Len(seqs) |-> IF i = 1 THEN seqs[i] ELSE f[i - 1] \o seqs[i]]
           flatten == CHOOSE f : Flattens(f)
<1>1. Len(seqs) = 1 /\ seqs[1] = s
  OBVIOUS
<1>2. Flattens([i \in 1..1 |-> s])
  BY <1>1
<1>3. Flattens(flatten)
  <2> HIDE DEF Flattens
  <2> QED  BY <1>2
<1>4. FlattenSeq(seqs) = flatten[Len(seqs)]
  BY <1>1 DEF FlattenSeq
<1> HIDE DEF flatten
<1>5. flatten[1] = s
  BY <1>1, <1>3
<1> QED  BY <1>1, <1>4, <1>5

Outputs == [harness : SUBSET Fields, agent : SUBSET Fields]

(* Whatever the agent handed over is shown.                                *)
LEMMA UpstreamIsShown ==
  ASSUME NEW output \in Outputs, NEW tokens \in Nat
  PROVE  /\ UpstreamSections(output, tokens) \in Seq(Sections)
         /\ output.agent # {} => Section("L4", tokens, output.agent) \in ToSet(UpstreamSections(output, tokens))
<1> DEFINE part(fields) == IF fields = {} THEN <<>> ELSE <<Section("L4", tokens, fields)>>
<1>1. ASSUME NEW fields \in SUBSET Fields
      PROVE  /\ part(fields) \in Seq(Sections)
             /\ fields # {} => Section("L4", tokens, fields) \in ToSet(part(fields))
  <2>1. Section("L4", tokens, fields) \in Sections
    BY DEF Section, Sections, Layers, FixedLayers
  <2> DEFINE shown == Section("L4", tokens, fields)
  <2> HIDE DEF shown
  <2>2. <<shown>> \in Seq(Sections) /\ shown \in ToSet(<<shown>>)
    <3>1. shown \in Sections
      BY <2>1 DEF shown
    <3> QED  BY <3>1 DEF ToSet
  <2>3. <<>> \in Seq(Sections)
    OBVIOUS
  <2> QED  BY <2>2, <2>3 DEF shown
<1>2. UpstreamSections(output, tokens) = part(output.harness) \o part(output.agent)
  BY DEF UpstreamSections
<1>3. output.harness \in SUBSET Fields /\ output.agent \in SUBSET Fields
  BY DEF Outputs
<1> HIDE DEF part
<1>4. /\ part(output.harness) \in Seq(Sections) /\ part(output.agent) \in Seq(Sections)
      /\ output.agent # {} => Section("L4", tokens, output.agent) \in ToSet(part(output.agent))
  BY <1>1, <1>3
<1> QED  BY <1>2, <1>4, JoinedElements

LEMMA SourcesAreSections ==
  ASSUME NEW sizes \in Sizes, NEW output \in Outputs
  PROVE  LET sections == SectionsOf(sizes, <<output>>)
         IN  /\ sections \in Seq(Sections)
             /\ output.agent # {} => Section("L4", sizes.L4, output.agent) \in ToSet(sections)
<1> DEFINE found(layer) == [i \in DOMAIN sizes[layer] |-> Section(layer, sizes[layer][i], {})]
           handed == UpstreamSections(output, sizes.L4)
           S == Seq(Sections)
<1>1. ASSUME NEW layer \in Layers, sizes[layer] \in Seq(Nat) PROVE found(layer) \in S
  <2>1. DOMAIN sizes[layer] = 1..Len(sizes[layer]) /\ Len(sizes[layer]) \in Nat
    BY <1>1, LenProperties
  <2>2. \A i \in DOMAIN sizes[layer] : Section(layer, sizes[layer][i], {}) \in Sections
    BY <1>1, ElementOfSeq, LenProperties DEF Section, Sections
  <2>3. found(layer) \in [1..Len(sizes[layer]) -> Sections]
    BY <2>1, <2>2
  <2> HIDE DEF found
  <2> QED  BY <2>1, <2>3
<1>2. /\ {"L0", "L1", "L2", "L3", "L5", "L6", "L7", "L8"} \subseteq Layers
      /\ \A layer \in {"L0", "L1", "L2", "L3", "L5", "L6", "L7", "L8"} : sizes[layer] \in Seq(Nat)
      /\ sizes.L4 \in Nat
  <2>1. ToSet(OptionalOrder) = {"L5", "L6", "L7"}
    BY DEF OptionalOrder, ToSet
  <2> QED  BY <2>1 DEF Layers, FixedLayers, Sizes
<1>3. handed \in S /\ (output.agent # {} => Section("L4", sizes.L4, output.agent) \in ToSet(handed))
  BY <1>2, UpstreamIsShown
<1>4. FlattenSeq([i \in DOMAIN <<output>> |-> UpstreamSections(<<output>>[i], sizes.L4)]) = handed
  <2>1. [i \in DOMAIN <<output>> |-> UpstreamSections(<<output>>[i], sizes.L4)] = <<handed>>
    OBVIOUS
  <2> QED  BY <2>1, OneUpstream
<1>5. \A layer \in {"L0", "L1", "L2", "L3", "L5", "L6", "L7", "L8"} : found(layer) \in S
  BY <1>1, <1>2
<1>6. SectionsOf(sizes, <<output>>) =
        found("L0") \o found("L1") \o found("L2") \o found("L3") \o handed
        \o found("L5") \o found("L6") \o found("L7") \o found("L8")
  BY <1>4 DEF SectionsOf
<1> HIDE DEF found, handed
<1> DEFINE before == found("L0") \o found("L1") \o found("L2") \o found("L3")
<1>7. before \in S
  BY <1>5, ConcatProperties
<1> HIDE DEF before
<1> DEFINE s4 == before \o handed
           s5 == s4 \o found("L5")
           s6 == s5 \o found("L6")
           s7 == s6 \o found("L7")
           s8 == s7 \o found("L8")
<1>8. s4 \in S /\ ToSet(handed) \subseteq ToSet(s4)
  BY <1>3, <1>7, JoinedElements
<1> HIDE DEF s4
<1>9. s5 \in S /\ ToSet(s4) \subseteq ToSet(s5)
  BY <1>5, <1>8, JoinedElements
<1> HIDE DEF s5
<1>10. s6 \in S /\ ToSet(s5) \subseteq ToSet(s6)
  BY <1>5, <1>9, JoinedElements
<1> HIDE DEF s6
<1>11. s7 \in S /\ ToSet(s6) \subseteq ToSet(s7)
  BY <1>5, <1>10, JoinedElements
<1> HIDE DEF s7
<1>12. s8 \in S /\ ToSet(s7) \subseteq ToSet(s8)
  BY <1>5, <1>11, JoinedElements
<1>13. SectionsOf(sizes, <<output>>) = s8
  BY <1>6 DEF before, s4, s5, s6, s7
<1> HIDE DEF s8
<1> QED  BY <1>3, <1>8, <1>9, <1>10, <1>11, <1>12, <1>13

(* What is handed over when the gate has passed has what was required.     *)
LEMMA GatePassedHasRequired ==
  ASSUME NEW raws \in Seq(Handoffs), NEW task \in [required : SUBSET Fields, optional : SUBSET Fields]
  PROVE  LET handed == HandoffRecord(task, raws, {"changed_files"})
         IN  /\ handed.output \in Outputs
             /\ handed.verified => task.required \subseteq handed.output.agent
<1> DEFINE passing == {i \in DOMAIN raws : GatePasses(task, Normalize(raws[i]))}
           handed == HandoffRecord(task, raws, {"changed_files"})
           artifact == Normalize(IF passing = {} THEN Last(raws) ELSE raws[Min(passing)])
<1>1. /\ handed.verified <=> passing # {}
      /\ handed.output = [harness |-> {"changed_files"},
                          agent |-> (task.required \cup task.optional) \cap artifact.fields]
  BY DEF HandoffRecord, MergeOutput
<1>2. handed.output \in Outputs
  <2> DEFINE agent == (task.required \cup task.optional) \cap artifact.fields
  <2>1. agent \in SUBSET Fields
    <3> HIDE DEF artifact
    <3> QED  OBVIOUS
  <2>2. handed.output = [harness |-> {"changed_files"}, agent |-> agent]
    BY <1>1
  <2>3. {"changed_files"} \in SUBSET Fields
    BY DEF Fields, HarnessFields
  <2> HIDE DEF agent, handed
  <2> QED  BY <2>1, <2>2, <2>3 DEF Outputs
<1>3. ASSUME passing # {} PROVE task.required \subseteq artifact.fields
  <2>1. passing \in SUBSET Nat
    BY LenProperties
  <2>2. Min(passing) \in passing
    BY <1>3, <2>1, LeastNumber DEF Min
  <2> QED  BY <1>3, <2>2 DEF GatePasses
<1> HIDE DEF handed, artifact, passing
<1>4. handed.verified => task.required \subseteq handed.output.agent
  BY <1>1, <1>3
<1> QED  BY <1>2, <1>4 DEF handed

(* For every set of sources, every handoff with its repairs, every set of  *)
(* fields and every budget: what was required of the task before is in the *)
(* prompt, what is reserved is never dropped for its layer, and the        *)
(* optional layers fall out from the lowest and only for want of room.     *)
THEOREM PromisesKept ==
  ASSUME question \in PromptQuestions
  PROVE  PromptKeepsPromises
<1> DEFINE task == question.task
           handed == HandoffRecord(task, question.raws, {"changed_files"})
           sizes == question.sizes
           limits == question.limits
           built == Build(sizes, <<handed.output>>, limits)
           section == built.sections
<1>1. /\ question.raws \in Seq(Handoffs) /\ task \in [required : SUBSET Fields, optional : SUBSET Fields]
      /\ sizes \in Sizes /\ limits \in [budget : Nat, reserve : Nat, slice : Nat]
  BY DEF PromptQuestions
<1>2. handed.output \in Outputs /\ (handed.verified => task.required \subseteq handed.output.agent)
  BY <1>1, GatePassedHasRequired
<1> HIDE DEF handed
<1>3. built.sections = SectionsOf(sizes, <<handed.output>>) /\ built.kept = Fit(section, limits)
  BY DEF Build
<1>4. /\ section \in Seq(Sections)
      /\ handed.output.agent # {} => Section("L4", sizes.L4, handed.output.agent) \in ToSet(section)
  BY <1>1, <1>2, <1>3, SourcesAreSections
<1> HIDE DEF built
<1>5. ASSUME NEW i \in DOMAIN section
      PROVE  IF section[i].layer \in FixedLayers THEN i \in built.kept <=> Whole(section, limits, i)
             ELSE i \in built.kept <=>
                    /\ Whole(section, limits, i)
                    /\ Cost(section, UpToLayer(section, limits, section[i].layer)) <= limits.budget - limits.reserve
  BY <1>1, <1>3, <1>4, FitKeeps
<1>6. ASSUME handed.verified, NEW o \in task.required
      PROVE  \E i \in built.kept : o \in section[i].fields
  <2>1. o \in handed.output.agent
    BY <1>2, <1>6
  <2>2. PICK i \in DOMAIN section : section[i] = Section("L4", sizes.L4, handed.output.agent)
    BY <1>4, <2>1 DEF ToSet
  <2>3. section[i].layer = "L4" /\ section[i].fields = handed.output.agent
    BY <2>2 DEF Section
  <2>4. i \in built.kept
    BY <1>5, <2>3 DEF Whole, FixedLayers
  <2> QED  BY <2>1, <2>3, <2>4
<1>7. \A i \in DOMAIN section :
        section[i].layer \in FixedLayers => (i \in built.kept <=> Whole(section, limits, i))
  BY <1>5
<1>8. \A i \in DOMAIN section : section[i].layer \notin FixedLayers =>
        (i \in built.kept <=> /\ Whole(section, limits, i)
                              /\ Cost(section, UpToLayer(section, limits, section[i].layer))
                                   <= limits.budget - limits.reserve)
  BY <1>5
<1>9. handed.verified => \A o \in task.required : \E i \in built.kept : o \in section[i].fields
  BY <1>6
<1> QED  BY <1>7, <1>8, <1>9 DEF PromptKeepsPromises, built, handed

-----------------------------------------------------------------------------
(* Sorted lists.                                                           *)

Ascending(s, n) == \A i, j \in 1..n : i < j => s[i] < s[j]

LEMMA CanBeSorted ==
  ASSUME NEW S \in SUBSET Nat, IsFiniteSet(S)
  PROVE  \E s \in [1..Cardinality(S) -> S] : Ascending(s, Cardinality(S))
<1> DEFINE N == Cardinality(S)
           good == {n \in 0..N : \A T \in SUBSET S : Cardinality(T) = n =>
                                   \E s \in [1..n -> T] : Ascending(s, n)}
<1>0. N \in Nat
  BY FS_CardinalityType
<1>1. 0 \in good
  <2>1. ASSUME NEW T PROVE \E s \in [1..0 -> T] : Ascending(s, 0)
    <3> DEFINE s == [i \in 1..0 |-> 0]
    <3>1. s \in [1..0 -> T] /\ Ascending(s, 0)
      BY DEF Ascending
    <3> QED  BY <3>1
  <2> QED  BY <1>0, <2>1
<1>2. ASSUME NEW n \in 1..N, n - 1 \in good PROVE n \in good
  <2> SUFFICES ASSUME NEW T \in SUBSET S, Cardinality(T) = n
               PROVE  \E s \in [1..n -> T] : Ascending(s, n)
    BY <1>0
  <2>0. n \in Nat /\ n >= 1 /\ n - 1 \in Nat
    BY <1>0
  <2>1. IsFiniteSet(T) /\ T \in SUBSET Nat
    BY FS_Subset
  <2>2. T # {}
    BY <2>0, FS_EmptySet
  <2> DEFINE x == Min(T)
  <2>3. x \in T /\ \A y \in T : x <= y
    BY <2>1, <2>2, MinIsLeast
  <2> HIDE DEF x
  <2>4. Cardinality(T \ {x}) = n - 1 /\ T \ {x} \in SUBSET S
    BY <2>1, <2>3, FS_RemoveElement
  <2>5. PICK r \in [1..(n - 1) -> T \ {x}] : Ascending(r, n - 1)
    BY <1>2, <2>4
  <2> DEFINE s == [i \in 1..n |-> IF i = 1 THEN x ELSE r[i - 1]]
  <2>6. \A i \in 1..n : i # 1 => i - 1 \in 1..(n - 1) /\ r[i - 1] \in T \ {x}
    BY <2>0, <2>5
  <2>7. s \in [1..n -> T]
    BY <2>3, <2>6
  <2>8. ASSUME NEW i \in 1..n, NEW j \in 1..n, i < j PROVE s[i] < s[j]
    <3>1. j # 1 /\ j - 1 \in 1..(n - 1) /\ r[j - 1] \in T \ {x} /\ s[j] = r[j - 1]
      BY <2>0, <2>6, <2>8
    <3>2. CASE i = 1
      <4>1. s[i] = x /\ x <= r[j - 1] /\ x # r[j - 1] /\ x \in Nat /\ r[j - 1] \in Nat
        BY <2>1, <2>3, <3>1, <3>2
      <4> HIDE DEF s
      <4> QED  BY <3>1, <4>1
    <3>3. CASE i # 1
      <4>1. i - 1 \in 1..(n - 1) /\ s[i] = r[i - 1] /\ i - 1 < j - 1
        BY <2>0, <2>6, <2>8, <3>3
      <4> HIDE DEF s
      <4> QED  BY <2>5, <3>1, <4>1 DEF Ascending
    <3> QED  BY <3>2, <3>3
  <2> HIDE DEF s
  <2> QED  BY <2>7, <2>8 DEF Ascending
<1>3. \A n \in 0..N : n \in good
  <2> HIDE DEF good
  <2> QED  BY <1>0, <1>1, <1>2, UpTo
<1>4. N \in 0..N /\ S \in SUBSET S /\ Cardinality(S) = N
  BY <1>0
<1> QED  BY <1>3, <1>4

(* A sorted list has every number of the set at one place.                 *)
LEMMA SortedIsBijective ==
  ASSUME NEW S \in SUBSET Nat, IsFiniteSet(S)
  PROVE  LET n == Cardinality(S)
         IN  /\ n \in Nat /\ Sorted(S) \in [1..n -> S] /\ DOMAIN Sorted(S) = 1..n
             /\ \A i, j \in 1..n : i < j => Sorted(S)[i] < Sorted(S)[j]
             /\ \A i, j \in 1..n : Sorted(S)[i] = Sorted(S)[j] => i = j
             /\ \A x \in S : \E i \in 1..n : Sorted(S)[i] = x
<1> DEFINE n == Cardinality(S)
           s == Sorted(S)
<1>0. n \in Nat
  BY FS_CardinalityType
<1>1. s \in [1..n -> S] /\ \A i, j \in DOMAIN s : i < j => s[i] < s[j]
  <2>1. \E r \in [1..n -> S] : \A i, j \in DOMAIN r : i < j => r[i] < r[j]
    BY CanBeSorted DEF Ascending
  <2> QED  BY <2>1 DEF Sorted
<1> HIDE DEF s
<1>2. DOMAIN s = 1..n /\ \A i \in 1..n : s[i] \in Nat
  BY <1>1
<1>3. ASSUME NEW i \in 1..n, NEW j \in 1..n, s[i] = s[j] PROVE i = j
  <2>1. ~(i < j) /\ ~(j < i)
    BY <1>1, <1>2, <1>3
  <2> QED  BY <1>0, <2>1
<1>4. \A x \in S : \E i \in 1..n : s[i] = x
  <2>1. IsFiniteSet(1..n) /\ Cardinality(1..n) = n
    BY <1>0, FS_Interval
  <2>2. s \in Injection(1..n, S)
    BY <1>1, <1>3 DEF Injection, IsInjective
  <2>3. s \in Surjection(1..n, S)
    BY <2>1, <2>2, FS_Injection
  <2> QED  BY <2>3 DEF Surjection
<1> QED  BY <1>0, <1>1, <1>2, <1>3, <1>4 DEF s

Places(s, T) == {i \in DOMAIN s : s[i] \in T}

(* What is picked of a list are its elements in T, in their order.         *)
LEMMA PickedInOrder ==
  ASSUME NEW S, NEW s \in Seq(S), NEW T
  PROVE  LET n == Cardinality(Places(s, T))
             at == Sorted(Places(s, T))
         IN  /\ n \in Nat /\ at \in [1..n -> Places(s, T)] /\ Picked(s, T) \in Seq(S)
             /\ Len(Picked(s, T)) = n /\ DOMAIN Picked(s, T) = 1..n
             /\ \A k \in 1..n : at[k] \in 1..Len(s) /\ s[at[k]] \in T /\ Picked(s, T)[k] = s[at[k]]
             /\ \A i, j \in 1..n : i < j => at[i] < at[j]
             /\ \A i, j \in 1..n : at[i] = at[j] => i = j
             /\ \A x \in 1..Len(s) : s[x] \in T => \E k \in 1..n : at[k] = x
<1> DEFINE P == Places(s, T)
           n == Cardinality(P)
           at == Sorted(P)
<1>0. Len(s) \in Nat /\ DOMAIN s = 1..Len(s)
  BY LenProperties
<1>1. P \in SUBSET (1..Len(s)) /\ \A x \in 1..Len(s) : s[x] \in T <=> x \in P
  BY <1>0 DEF Places
<1>2. IsFiniteSet(P) /\ P \in SUBSET Nat
  <2>1. IsFiniteSet(1..Len(s)) /\ P \in SUBSET Nat
    BY <1>0, <1>1, FS_Interval
  <2>2. IsFiniteSet(P)
    BY <1>1, <2>1, FS_Subset
  <2> QED  BY <2>1, <2>2
<1>3. Picked(s, T) = [k \in DOMAIN at |-> s[at[k]]]
  BY DEF Picked, Places
<1> HIDE DEF P
<1>4. /\ n \in Nat /\ at \in [1..n -> P] /\ DOMAIN at = 1..n
      /\ \A i, j \in 1..n : i < j => at[i] < at[j]
      /\ \A i, j \in 1..n : at[i] = at[j] => i = j
      /\ \A x \in P : \E i \in 1..n : at[i] = x
  BY <1>2, SortedIsBijective
<1> HIDE DEF n, at
<1>5. \A k \in 1..n : at[k] \in 1..Len(s) /\ s[at[k]] \in T
  BY <1>1, <1>4
<1>6. Picked(s, T) \in [1..n -> S]
  BY <1>3, <1>4, <1>5, ElementOfSeq
<1>7. Picked(s, T) \in Seq(S) /\ Len(Picked(s, T)) = n /\ DOMAIN Picked(s, T) = 1..n
  BY <1>4, <1>6, SeqDef, LenProperties
<1>8. \A k \in 1..n : Picked(s, T)[k] = s[at[k]]
  BY <1>3, <1>4
<1> QED  BY <1>1, <1>4, <1>5, <1>7, <1>8 DEF n, at, P

-----------------------------------------------------------------------------
(* The order of the graph. Extended is the recursion of Topological.       *)

Layer(depends, rest) == {t \in rest : depends[t] \cap rest = {}}
Extended(order, depends, rest) ==
  IF Layer(depends, rest) = {} THEN <<>>
  ELSE Sorted(Layer(depends, rest)) \o order[rest \ Layer(depends, rest)]
Small(depends, n) == {rest \in SUBSET DOMAIN depends : Cardinality(rest) <= n}
Orders(order, depends, family) == order = [rest \in family |-> Extended(order, depends, rest)]

LEMMA LayersShrink ==
  ASSUME NEW depends, IsFiniteSet(DOMAIN depends), NEW n \in Nat, NEW rest \in Small(depends, n),
         Layer(depends, rest) # {}
  PROVE  n # 0 /\ rest \ Layer(depends, rest) \in Small(depends, n - 1)
<1> DEFINE layer == Layer(depends, rest)
<1>1. layer \in SUBSET rest
  BY DEF Layer
<1> HIDE DEF layer
<1>2. IsFiniteSet(rest) /\ Cardinality(rest) \in Nat /\ Cardinality(rest) <= n
  BY FS_Subset, FS_CardinalityType DEF Small
<1>3. PICK t : t \in layer
  BY DEF layer
<1>4. Cardinality(rest \ {t}) = Cardinality(rest) - 1 /\ IsFiniteSet(rest \ {t})
  BY <1>1, <1>2, <1>3, FS_RemoveElement
<1>5. rest \ layer \in SUBSET (rest \ {t})
  BY <1>3
<1>6. Cardinality(rest \ layer) <= Cardinality(rest \ {t}) /\ Cardinality(rest \ {t}) \in Nat
  BY <1>4, <1>5, FS_Subset, FS_CardinalityType
<1>7. Cardinality(rest \ layer) \in Nat
  BY <1>4, <1>5, FS_Subset, FS_CardinalityType
<1>8. rest \in SUBSET DOMAIN depends
  BY DEF Small
<1> QED  BY <1>2, <1>4, <1>6, <1>7, <1>8 DEF Small, layer

LEMMA OrderExists ==
  ASSUME NEW depends, IsFiniteSet(DOMAIN depends)
  PROVE  \E order : Orders(order, depends, SUBSET DOMAIN depends)
<1> DEFINE N == Cardinality(DOMAIN depends)
           good == {n \in 0..N : \E order : Orders(order, depends, Small(depends, n))}
<1>0. N \in Nat
  BY FS_CardinalityType
<1>1. 0 \in good
  <2> DEFINE order == [rest \in Small(depends, 0) |-> <<>>]
  <2>1. \A rest \in Small(depends, 0) : Extended(order, depends, rest) = <<>>
    BY LayersShrink DEF Extended
  <2>2. Orders(order, depends, Small(depends, 0))
    BY <2>1 DEF Orders
  <2> HIDE DEF order
  <2> QED  BY <1>0, <2>2
<1>2. ASSUME NEW n \in 1..N, n - 1 \in good PROVE n \in good
  <2>0. n \in Nat /\ n - 1 \in Nat
    BY <1>0
  <2>1. PICK f : Orders(f, depends, Small(depends, n - 1))
    BY <1>2
  <2> DEFINE order == [rest \in Small(depends, n) |-> Extended(f, depends, rest)]
  <2>2. Small(depends, n - 1) \subseteq Small(depends, n)
    <3> SUFFICES ASSUME NEW rest \in Small(depends, n - 1) PROVE Cardinality(rest) <= n
      BY DEF Small
    <3>1. Cardinality(rest) \in Nat /\ Cardinality(rest) <= n - 1
      BY FS_Subset, FS_CardinalityType DEF Small
    <3> QED  BY <2>0, <3>1
  <2>3. \A rest \in Small(depends, n - 1) : f[rest] = Extended(f, depends, rest)
    BY <2>1 DEF Orders
  <2>4. \A rest \in Small(depends, n - 1) : order[rest] = f[rest]
    BY <2>2, <2>3
  <2>5. ASSUME NEW rest \in Small(depends, n)
        PROVE  Extended(order, depends, rest) = Extended(f, depends, rest)
    <3>1. CASE Layer(depends, rest) = {}
      BY <3>1 DEF Extended
    <3>2. CASE Layer(depends, rest) # {}
      <4>1. rest \ Layer(depends, rest) \in Small(depends, n - 1)
        BY <2>0, <3>2, LayersShrink
      <4>2. order[rest \ Layer(depends, rest)] = f[rest \ Layer(depends, rest)]
        BY <2>4, <4>1
      <4> HIDE DEF order
      <4> QED  BY <4>2 DEF Extended
    <3> QED  BY <3>1, <3>2
  <2>6. Orders(order, depends, Small(depends, n))
    BY <2>5 DEF Orders
  <2> HIDE DEF order
  <2> QED  BY <2>6
<1>3. \A n \in 0..N : n \in good
  <2> HIDE DEF good
  <2> QED  BY <1>0, <1>1, <1>2, UpTo
<1>4. Small(depends, N) = SUBSET DOMAIN depends
  <2>1. \A rest \in SUBSET DOMAIN depends : Cardinality(rest) <= N
    BY FS_Subset
  <2> HIDE DEF N
  <2> QED  BY <2>1 DEF Small
<1>5. N \in good
  BY <1>0, <1>3
<1>6. \E order : Orders(order, depends, Small(depends, N))
  BY <1>5
<1> QED  BY <1>4, <1>6

(* A list of rest without repetition, each after all of rest it builds on. *)
InOrder(s, depends, rest) ==
  /\ s \in Seq(rest)
  /\ \A i, j \in 1..Len(s) : s[i] = s[j] => i = j
  /\ \A i \in 1..Len(s) : depends[s[i]] \cap rest \subseteq {s[j] : j \in 1..(i - 1)}

LEMMA LayerThenRest ==
  ASSUME NEW depends, NEW rest \in SUBSET DOMAIN depends, rest \in SUBSET Nat, IsFiniteSet(rest),
         NEW s, InOrder(s, depends, rest \ Layer(depends, rest))
  PROVE  InOrder(Sorted(Layer(depends, rest)) \o s, depends, rest)
<1> DEFINE layer == Layer(depends, rest)
           a == Sorted(layer)
           n == Cardinality(layer)
           both == a \o s
<1>1. layer \in SUBSET rest /\ \A t \in layer : depends[t] \cap rest = {}
  BY DEF Layer
<1>2. layer \in SUBSET Nat /\ IsFiniteSet(layer)
  BY <1>1, FS_Subset
<1> HIDE DEF layer
<1>3. /\ n \in Nat /\ a \in [1..n -> layer]
      /\ \A i, j \in 1..n : a[i] = a[j] => i = j
      /\ \A x \in layer : \E i \in 1..n : a[i] = x
  BY <1>2, SortedIsBijective
<1> HIDE DEF a, n
<1>4. a \in Seq(rest) /\ Len(a) = n /\ DOMAIN a = 1..n
  <2>1. a \in [1..n -> rest]
    BY <1>1, <1>3
  <2> QED  BY <1>3, <2>1, SeqDef, LenProperties
<1>5. /\ s \in Seq(rest \ layer) /\ s \in Seq(rest) /\ Len(s) \in Nat
      /\ \A i, j \in 1..Len(s) : s[i] = s[j] => i = j
      /\ \A i \in 1..Len(s) : depends[s[i]] \cap (rest \ layer) \subseteq {s[j] : j \in 1..(i - 1)}
      /\ \A i \in 1..Len(s) : s[i] \in rest \ layer
  <2>1. s \in Seq(rest \ layer)
    BY DEF InOrder, layer
  <2>2. s \in Seq(rest) /\ Len(s) \in Nat /\ \A i \in 1..Len(s) : s[i] \in rest \ layer
    BY <2>1, SeqDef, ElementOfSeq, LenProperties
  <2> QED  BY <2>1, <2>2 DEF InOrder, layer
<1>6. /\ both \in Seq(rest) /\ Len(both) = n + Len(s)
      /\ \A i \in 1..(n + Len(s)) : both[i] = IF i <= n THEN a[i] ELSE s[i - n]
  <2>1. /\ a \o s \in Seq(rest) /\ Len(a \o s) = Len(a) + Len(s)
        /\ \A i \in 1..(Len(a) + Len(s)) : (a \o s)[i] = IF i <= Len(a) THEN a[i] ELSE s[i - Len(a)]
    <3>1. a \in Seq(rest) /\ s \in Seq(rest)
      BY <1>4, <1>5
    <3> QED  BY <3>1, ConcatProperties
  <2> QED  BY <1>4, <2>1
<1> HIDE DEF both
<1>7. \A i \in 1..(n + Len(s)) :
        \/ i \in 1..n /\ both[i] = a[i] /\ both[i] \in layer
        \/ i \notin 1..n /\ i - n \in 1..Len(s) /\ both[i] = s[i - n] /\ both[i] \in rest \ layer
  BY <1>3, <1>5, <1>6
<1>8. ASSUME NEW i \in 1..(n + Len(s)), NEW j \in 1..(n + Len(s)), both[i] = both[j] PROVE i = j
  <2>1. CASE i \in 1..n
    BY <1>3, <1>7, <1>8, <2>1
  <2>2. CASE i \notin 1..n
    <3>1. i - n = j - n
      BY <1>5, <1>7, <1>8, <2>2
    <3> QED  BY <1>3, <1>5, <3>1
  <2> QED  BY <2>1, <2>2
<1>9. ASSUME NEW i \in 1..(n + Len(s)), NEW d \in depends[both[i]] \cap rest
      PROVE  \E j \in 1..(i - 1) : both[j] = d
  <2>1. i \notin 1..n /\ i - n \in 1..Len(s) /\ both[i] = s[i - n] /\ i > n
    BY <1>1, <1>3, <1>7, <1>9
  <2>2. CASE d \in layer
    <3>1. PICK j \in 1..n : a[j] = d
      BY <1>3, <2>2
    <3>2. j \in 1..(i - 1) /\ j \in 1..(n + Len(s)) /\ both[j] = a[j]
      BY <1>3, <1>5, <1>6, <2>1
    <3> QED  BY <3>1, <3>2
  <2>3. CASE d \notin layer
    <3>1. d \in {s[j] : j \in 1..(i - n - 1)}
      BY <1>5, <1>9, <2>1, <2>3
    <3>2. PICK j \in 1..(i - n - 1) : s[j] = d
      BY <3>1
    <3>3. j + n \in 1..(i - 1) /\ j + n \in 1..(n + Len(s)) /\ ~(j + n <= n) /\ j + n - n = j
      <4>1. j \in Nat /\ i \in Nat /\ n \in Nat /\ Len(s) \in Nat /\ j >= 1 /\ j <= i - n - 1 /\ i <= n + Len(s)
        BY <1>3, <1>5, <2>1
      <4> QED  BY <4>1
    <3>4. both[j + n] = s[j]
      <4> DEFINE k == j + n
      <4>1. k \in 1..(n + Len(s)) /\ ~(k <= n) /\ k - n = j
        BY <1>3, <1>5, <3>3
      <4> HIDE DEF k
      <4>2. both[k] = s[k - n]
        BY <1>6, <4>1
      <4>3. both[k] = s[j]
        BY <4>1, <4>2
      <4> QED  BY <4>3 DEF k
    <3> QED  BY <3>2, <3>3, <3>4
  <2> QED  BY <2>2, <2>3
<1>10. \A i \in 1..(n + Len(s)) : depends[both[i]] \cap rest \subseteq {both[j] : j \in 1..(i - 1)}
  BY <1>9
<1>11. InOrder(both, depends, rest)
  BY <1>6, <1>8, <1>10 DEF InOrder
<1> QED  BY <1>11 DEF both, a, layer

LEMMA TopologicalIsInOrder ==
  ASSUME NEW depends, DOMAIN depends \in SUBSET Nat, IsFiniteSet(DOMAIN depends)
  PROVE  InOrder(Topological(depends), depends, DOMAIN depends)
<1> DEFINE D == DOMAIN depends
           N == Cardinality(D)
           order == CHOOSE f : Orders(f, depends, SUBSET D)
           good == {n \in 0..N : \A rest \in Small(depends, n) : InOrder(order[rest], depends, rest)}
<1>0. N \in Nat /\ \A rest \in SUBSET D : IsFiniteSet(rest) /\ Cardinality(rest) \in Nat /\ rest \in SUBSET Nat
  BY FS_CardinalityType, FS_Subset
<1>1. Topological(depends) = order[D]
  BY Zenon DEF Topological, Orders, Extended, Layer
<1>2. Orders(order, depends, SUBSET D)
  BY OrderExists
<1> HIDE DEF order
<1>3. \A rest \in SUBSET D : order[rest] = Extended(order, depends, rest)
  BY <1>2 DEF Orders
<1>4. ASSUME NEW rest \in SUBSET D, Layer(depends, rest) = {} PROVE InOrder(order[rest], depends, rest)
  <2>1. order[rest] = <<>>
    BY <1>3, <1>4 DEF Extended
  <2>2. InOrder(<<>>, depends, rest)
    BY DEF InOrder
  <2> QED  BY <2>1, <2>2
<1>5. ASSUME NEW rest \in SUBSET D, Layer(depends, rest) # {},
             InOrder(order[rest \ Layer(depends, rest)], depends, rest \ Layer(depends, rest))
      PROVE  InOrder(order[rest], depends, rest)
  <2>1. order[rest] = Sorted(Layer(depends, rest)) \o order[rest \ Layer(depends, rest)]
    BY <1>3, <1>5 DEF Extended
  <2> QED  BY <1>0, <1>5, <2>1, LayerThenRest
<1>6. 0 \in good
  <2>1. ASSUME NEW rest \in Small(depends, 0) PROVE InOrder(order[rest], depends, rest)
    <3>1. Layer(depends, rest) = {}
      BY LayersShrink
    <3> QED  BY <1>4, <3>1 DEF Small
  <2> QED  BY <1>0, <2>1
<1>7. ASSUME NEW n \in 1..N, n - 1 \in good PROVE n \in good
  <2>1. ASSUME NEW rest \in Small(depends, n) PROVE InOrder(order[rest], depends, rest)
    <3>0. rest \in SUBSET D /\ n \in Nat
      BY <1>0 DEF Small
    <3>1. CASE Layer(depends, rest) = {}
      BY <1>4, <3>0, <3>1
    <3>2. CASE Layer(depends, rest) # {}
      <4>1. rest \ Layer(depends, rest) \in Small(depends, n - 1)
        BY <3>0, <3>2, LayersShrink
      <4>2. InOrder(order[rest \ Layer(depends, rest)], depends, rest \ Layer(depends, rest))
        BY <1>7, <4>1
      <4> QED  BY <1>5, <3>0, <3>2, <4>2
    <3> QED  BY <3>1, <3>2
  <2> QED  BY <2>1
<1>8. \A n \in 0..N : n \in good
  <2> HIDE DEF good
  <2> QED  BY <1>0, <1>6, <1>7, UpTo
<1>9. D \in Small(depends, N)
  BY <1>0 DEF Small
<1> QED  BY <1>0, <1>1, <1>8, <1>9

-----------------------------------------------------------------------------
(* What is analysed.                                                       *)

(* What loads is ordered: every task once, after all it builds on.         *)
LEMMA LoadedIsOrdered ==
  ASSUME NEW depends, DOMAIN depends \in SUBSET Nat, IsFiniteSet(DOMAIN depends), Loads(depends)
  PROVE  LET order == Topological(depends)
         IN  /\ order \in Seq(DOMAIN depends) /\ Len(order) = Cardinality(DOMAIN depends)
             /\ DOMAIN order = 1..Len(order) /\ Len(order) \in Nat
             /\ ToSet(order) = DOMAIN depends
             /\ \A i, j \in DOMAIN order : order[i] = order[j] => i = j
             /\ \A i \in DOMAIN order : depends[order[i]] \subseteq {order[j] : j \in 1..(i - 1)}
<1> DEFINE D == DOMAIN depends
           order == Topological(depends)
<1>1. InOrder(order, depends, D) /\ Len(order) = Cardinality(D) /\ \A t \in D : depends[t] \subseteq D
  BY TopologicalIsInOrder DEF Loads, DependenciesExist
<1> HIDE DEF order
<1>2. order \in Seq(D)
  BY <1>1 DEF InOrder
<1>3. /\ Len(order) \in Nat /\ DOMAIN order = 1..Len(order)
      /\ order \in [1..Len(order) -> D] /\ \A i \in 1..Len(order) : order[i] \in D
  BY <1>2, LenProperties, ElementOfSeq
<1>4. \A i, j \in 1..Len(order) : order[i] = order[j] => i = j
  BY <1>1 DEF InOrder
<1>5. ToSet(order) = D
  <2> DEFINE n == Len(order)
  <2>0. n \in Nat
    BY <1>3
  <2> HIDE DEF n
  <2>1. IsFiniteSet(1..n) /\ Cardinality(1..n) = n
    BY <2>0, FS_Interval
  <2> USE DEF n
  <2>2. order \in Injection(1..Len(order), D)
    BY <1>3, <1>4 DEF Injection, IsInjective
  <2>3. order \in Surjection(1..Len(order), D)
    BY <1>1, <2>1, <2>2, FS_Injection
  <2> QED  BY <1>3, <2>3 DEF Surjection, ToSet
<1>6. ASSUME NEW i \in DOMAIN order PROVE depends[order[i]] \subseteq {order[j] : j \in 1..(i - 1)}
  <2>1. order[i] \in D /\ depends[order[i]] \subseteq D
    BY <1>1, <1>3
  <2>2. depends[order[i]] \cap D \subseteq {order[j] : j \in 1..(i - 1)}
    BY <1>1, <1>3 DEF InOrder
  <2> QED  BY <2>1, <2>2
<1> QED  BY <1>1, <1>2, <1>3, <1>4, <1>5, <1>6 DEF order

-----------------------------------------------------------------------------
(* What builds on a task. Grown is the recursion of Descendants.           *)

Building(depends, t, found) == {u \in DOMAIN depends : depends[u] \cap (found \cup {t}) # {}}
Grown(grow, depends, t, found) ==
  IF Building(depends, t, found) \subseteq found THEN found
  ELSE grow[found \cup Building(depends, t, found)]
Large(depends, n) == {found \in SUBSET DOMAIN depends : Cardinality(DOMAIN depends \ found) <= n}
Grows(grow, depends, t, family) == grow = [found \in family |-> Grown(grow, depends, t, found)]

LEMMA FoundGrows ==
  ASSUME NEW depends, IsFiniteSet(DOMAIN depends), NEW t, NEW n \in Nat, NEW found \in Large(depends, n),
         ~(Building(depends, t, found) \subseteq found)
  PROVE  n # 0 /\ found \cup Building(depends, t, found) \in Large(depends, n - 1)
<1> DEFINE D == DOMAIN depends
           more == Building(depends, t, found)
           rest == D \ found
           next == D \ (found \cup more)
<1>1. more \in SUBSET D /\ found \in SUBSET D
  BY DEF Building, Large
<1>2. PICK u : u \in more /\ u \notin found
  OBVIOUS
<1> HIDE DEF more
<1>3. rest \in SUBSET D /\ u \in rest /\ next \in SUBSET (rest \ {u})
  BY <1>1, <1>2
<1>4. IsFiniteSet(rest) /\ Cardinality(rest) \in Nat /\ Cardinality(rest) <= n
  BY <1>3, FS_Subset, FS_CardinalityType DEF Large
<1> HIDE DEF rest, next
<1>5. IsFiniteSet(rest \ {u}) /\ Cardinality(rest \ {u}) = Cardinality(rest) - 1
  BY <1>3, <1>4, FS_RemoveElement
<1>6. IsFiniteSet(next) /\ Cardinality(next) \in Nat /\ Cardinality(next) <= Cardinality(rest \ {u})
  BY <1>3, <1>5, FS_Subset, FS_CardinalityType
<1>7. Cardinality(next) <= n - 1 /\ n # 0
  BY <1>4, <1>5, <1>6
<1> QED  BY <1>1, <1>7 DEF Large, next, more

LEMMA GrowthExists ==
  ASSUME NEW depends, IsFiniteSet(DOMAIN depends), NEW t
  PROVE  \E grow : Grows(grow, depends, t, SUBSET DOMAIN depends)
<1> DEFINE N == Cardinality(DOMAIN depends)
           good == {n \in 0..N : \E grow : Grows(grow, depends, t, Large(depends, n))}
<1>0. N \in Nat
  BY FS_CardinalityType
<1>1. 0 \in good
  <2> DEFINE grow == [found \in Large(depends, 0) |-> found]
  <2>1. \A found \in Large(depends, 0) : Grown(grow, depends, t, found) = found
    BY FoundGrows DEF Grown
  <2>2. Grows(grow, depends, t, Large(depends, 0))
    BY <2>1 DEF Grows
  <2> HIDE DEF grow
  <2> QED  BY <1>0, <2>2
<1>2. ASSUME NEW n \in 1..N, n - 1 \in good PROVE n \in good
  <2>0. n \in Nat /\ n - 1 \in Nat
    BY <1>0
  <2>1. PICK f : Grows(f, depends, t, Large(depends, n - 1))
    BY <1>2
  <2> DEFINE grow == [found \in Large(depends, n) |-> Grown(f, depends, t, found)]
  <2>2. Large(depends, n - 1) \subseteq Large(depends, n)
    <3> SUFFICES ASSUME NEW found \in Large(depends, n - 1) PROVE Cardinality(DOMAIN depends \ found) <= n
      BY DEF Large
    <3> DEFINE rest == DOMAIN depends \ found
    <3>1. rest \in SUBSET DOMAIN depends /\ Cardinality(rest) <= n - 1
      BY DEF Large
    <3> HIDE DEF rest
    <3>2. Cardinality(rest) \in Nat
      BY <3>1, FS_Subset, FS_CardinalityType
    <3>3. Cardinality(rest) <= n
      BY <2>0, <3>1, <3>2
    <3> QED  BY <3>3 DEF rest
  <2>3. \A found \in Large(depends, n - 1) : f[found] = Grown(f, depends, t, found)
    BY <2>1 DEF Grows
  <2>4. \A found \in Large(depends, n - 1) : grow[found] = f[found]
    BY <2>2, <2>3
  <2>5. ASSUME NEW found \in Large(depends, n)
        PROVE  Grown(grow, depends, t, found) = Grown(f, depends, t, found)
    <3> DEFINE more == Building(depends, t, found)
    <3>1. CASE more \subseteq found
      BY <3>1 DEF Grown
    <3>2. CASE ~(more \subseteq found)
      <4>1. found \cup more \in Large(depends, n - 1)
        BY <2>0, <3>2, FoundGrows
      <4>2. grow[found \cup more] = f[found \cup more]
        BY <2>4, <4>1
      <4> HIDE DEF grow
      <4> QED  BY <4>2 DEF Grown
    <3> QED  BY <3>1, <3>2
  <2>6. Grows(grow, depends, t, Large(depends, n))
    BY <2>5 DEF Grows
  <2> HIDE DEF grow
  <2> QED  BY <2>6
<1>3. N \in good
  <2>1. \A n \in 0..N : n \in good
    <3> HIDE DEF good
    <3> QED  BY <1>0, <1>1, <1>2, UpTo
  <2> QED  BY <1>0, <2>1
<1>4. Large(depends, N) = SUBSET DOMAIN depends
  <2>1. \A found \in SUBSET DOMAIN depends : DOMAIN depends \ found \in SUBSET DOMAIN depends
    OBVIOUS
  <2>2. \A found \in SUBSET DOMAIN depends : Cardinality(DOMAIN depends \ found) <= N
    BY <2>1, FS_Subset
  <2> HIDE DEF N
  <2> QED  BY <2>2 DEF Large
<1>5. \E grow : Grows(grow, depends, t, Large(depends, N))
  BY <1>3
<1> QED  BY <1>4, <1>5

(* What waits, once a closed set of tasks is verified, for a task of which *)
(* nothing is verified.                                                    *)
Waiting(depends, v) == {d \in DOMAIN depends : d \notin v /\ ~(depends[d] \subseteq v)}

LEMMA DescendantsWait ==
  ASSUME NEW depends, IsFiniteSet(DOMAIN depends), NEW v \in SUBSET DOMAIN depends,
         \A d \in v : depends[d] \subseteq v, NEW t, t \notin v
  PROVE  Descendants(depends, t) \subseteq Waiting(depends, v)
<1> DEFINE D == DOMAIN depends
           N == Cardinality(D)
           grow == CHOOSE f : Grows(f, depends, t, SUBSET D)
           W == Waiting(depends, v)
           good == {n \in 0..N : \A found \in Large(depends, n) : found \subseteq W => grow[found] \subseteq W}
<1>0. N \in Nat
  BY FS_CardinalityType
<1>1. Descendants(depends, t) = grow[{}]
  BY Zenon DEF Descendants, Grows, Grown, Building
<1>2. Grows(grow, depends, t, SUBSET D)
  BY GrowthExists
<1> HIDE DEF grow
<1>3. \A found \in SUBSET D : grow[found] = Grown(grow, depends, t, found)
  BY <1>2 DEF Grows
<1>4. ASSUME NEW found \in SUBSET D, found \subseteq W PROVE Building(depends, t, found) \subseteq W
  <2> SUFFICES ASSUME NEW d \in Building(depends, t, found) PROVE d \in W
    OBVIOUS
  <2>1. d \in D
    BY DEF Building
  <2>2. PICK e \in depends[d] : e \in found \/ e = t
    BY DEF Building
  <2>3. e \notin v
    BY <1>4, <2>2 DEF Waiting
  <2> QED  BY <2>1, <2>2, <2>3 DEF Waiting
<1>5. ASSUME NEW found \in SUBSET D, found \subseteq W, Building(depends, t, found) \subseteq found
      PROVE  grow[found] \subseteq W
  BY <1>3, <1>5 DEF Grown
<1>6. ASSUME NEW found \in SUBSET D, ~(Building(depends, t, found) \subseteq found)
      PROVE  grow[found] = grow[found \cup Building(depends, t, found)]
  BY <1>3, <1>6 DEF Grown
<1>7. 0 \in good
  <2>1. ASSUME NEW found \in Large(depends, 0), found \subseteq W PROVE grow[found] \subseteq W
    <3>1. Building(depends, t, found) \subseteq found /\ found \in SUBSET D
      BY FoundGrows DEF Large
    <3> QED  BY <1>5, <2>1, <3>1
  <2> QED  BY <1>0, <2>1
<1>8. ASSUME NEW n \in 1..N, n - 1 \in good PROVE n \in good
  <2>1. ASSUME NEW found \in Large(depends, n), found \subseteq W PROVE grow[found] \subseteq W
    <3>0. found \in SUBSET D /\ n \in Nat
      BY <1>0 DEF Large
    <3>1. CASE Building(depends, t, found) \subseteq found
      BY <1>5, <2>1, <3>0, <3>1
    <3>2. CASE ~(Building(depends, t, found) \subseteq found)
      <4>1. found \cup Building(depends, t, found) \in Large(depends, n - 1)
        BY <3>0, <3>2, FoundGrows
      <4>2. found \cup Building(depends, t, found) \subseteq W
        BY <1>4, <2>1, <3>0
      <4>3. grow[found \cup Building(depends, t, found)] \subseteq W
        BY <1>8, <4>1, <4>2
      <4> QED  BY <1>6, <3>0, <3>2, <4>3
    <3> QED  BY <3>1, <3>2
  <2> QED  BY <2>1
<1>9. N \in good
  <2>1. \A n \in 0..N : n \in good
    <3> HIDE DEF good
    <3> QED  BY <1>0, <1>7, <1>8, UpTo
  <2> QED  BY <1>0, <2>1
<1>10. {} \in Large(depends, N)
  <2>1. D \ {} = D /\ N <= N
    BY <1>0
  <2> QED  BY <2>1 DEF Large
<1> QED  BY <1>1, <1>9, <1>10

-----------------------------------------------------------------------------
LEMMA ConflictsAreMutual ==
  ASSUME NEW lhs, NEW rhs
  PROVE  Conflicts(lhs, rhs) <=> Conflicts(rhs, lhs)
<1>1. \A p, q : PairOverlaps(p, q) <=> PairOverlaps(q, p)
  BY DEF PairOverlaps
<1>2. ScopesOverlap(lhs.allowed, rhs.allowed) <=> ScopesOverlap(rhs.allowed, lhs.allowed)
  BY <1>1 DEF ScopesOverlap
<1> QED  BY <1>2 DEF Conflicts

(* When no pair was warned about, tasks that are ever ready together do    *)
(* not keep one another waiting.                                           *)
LEMMA ReadyTasksFit ==
  ASSUME NEW tasks, DOMAIN tasks \in SUBSET Nat, IsFiniteSet(DOMAIN tasks), Loads(DependsOf(tasks)),
         ParallelConflicts(tasks) = {},
         NEW v \in SUBSET DOMAIN tasks, \A t \in v : DependsOf(tasks)[t] \subseteq v,
         NEW i \in DOMAIN ReadyTasks(DependsOf(tasks), v, DOMAIN tasks \ v),
         NEW j \in DOMAIN ReadyTasks(DependsOf(tasks), v, DOMAIN tasks \ v), i # j
  PROVE  LET ready == ReadyTasks(DependsOf(tasks), v, DOMAIN tasks \ v)
         IN  ~Conflicts(tasks[ready[i]], tasks[ready[j]])
<1> DEFINE depends == DependsOf(tasks)
           D == DOMAIN tasks
           order == Topological(depends)
           free == {t \in D \ v : depends[t] \subseteq v}
           at == Sorted(Places(order, free))
           ready == ReadyTasks(depends, v, D \ v)
<1>1. DOMAIN depends = D
  BY DEF DependsOf
<1>2. /\ order \in Seq(D) /\ DOMAIN order = 1..Len(order) /\ Len(order) \in Nat
      /\ \A p, q \in DOMAIN order : order[p] = order[q] => p = q
  BY <1>1, LoadedIsOrdered
<1>3. ready = Picked(order, free)
  BY DEF ReadyTasks
<1> HIDE DEF order, free, depends, ready
<1>4. /\ DOMAIN ready = 1..Cardinality(Places(order, free))
      /\ \A k \in DOMAIN ready : at[k] \in DOMAIN order /\ order[at[k]] \in free /\ ready[k] = order[at[k]]
      /\ \A k, l \in DOMAIN ready : at[k] = at[l] => k = l
  <2> DEFINE n == Cardinality(Places(order, free))
  <2>1. /\ DOMAIN Picked(order, free) = 1..n
        /\ \A k \in 1..n : /\ at[k] \in 1..Len(order) /\ order[at[k]] \in free
                          /\ Picked(order, free)[k] = order[at[k]]
        /\ \A k, l \in 1..n : at[k] = at[l] => k = l
    BY <1>2, PickedInOrder
  <2> HIDE DEF at, n
  <2> QED  BY <1>2, <1>3, <2>1 DEF n
<1>5. i \in DOMAIN ready /\ j \in DOMAIN ready
  BY DEF ready, depends
<1> HIDE DEF at
<1>6. /\ at[i] \in DOMAIN order /\ at[j] \in DOMAIN order /\ at[i] # at[j]
      /\ order[at[i]] \in free /\ order[at[j]] \in free
      /\ ready[i] = order[at[i]] /\ ready[j] = order[at[j]]
  BY <1>4, <1>5
<1>7. ASSUME NEW p \in DOMAIN order, NEW q \in DOMAIN order, p < q, order[p] \in free, order[q] \in free
      PROVE  ~Conflicts(tasks[order[p]], tasks[order[q]])
  <2>1. ASSUME NEW t \in free, NEW u \in free PROVE u \notin Descendants(depends, t)
    <3>1. t \notin v /\ u \in D /\ u \notin Waiting(depends, v)
      BY DEF free, Waiting
    <3>2. \A d \in v : depends[d] \subseteq v
      BY DEF depends
    <3> QED  BY <1>1, <3>1, <3>2, DescendantsWait
  <2>2. order[p] \notin Descendants(depends, order[q]) /\ order[q] \notin Descendants(depends, order[p])
    BY <1>7, <2>1
  <2> DEFINE places == {r \in (DOMAIN order) \X (DOMAIN order) : r[1] < r[2]}
             pairs == {<<order[r[1]], order[r[2]]>> : r \in places}
  <2>3. <<p, q>> \in places
    BY <1>7
  <2>4. <<order[p], order[q]>> \in pairs
    BY <2>3
  <2>5. {c \in pairs : /\ c[1] \notin Descendants(depends, c[2])
                       /\ c[2] \notin Descendants(depends, c[1])
                       /\ Conflicts(tasks[c[1]], tasks[c[2]])} = {}
    BY DEF ParallelConflicts, depends, order
  <2> HIDE DEF pairs
  <2> QED  BY <2>2, <2>4, <2>5
<1>8. at[i] < at[j] \/ at[j] < at[i]
  BY <1>2, <1>6
<1>9. ~Conflicts(tasks[ready[i]], tasks[ready[j]])
  BY <1>6, <1>7, <1>8, ConflictsAreMutual
<1> QED  BY <1>9 DEF ready, depends

LEMMA ShellIsNeverDenied ==
  ASSUME NEW policy \in CommandPolicies, NEW c, NEW shell, NEW other
  PROVE  Denied(Decide(policy, c, shell)) <=> Denied(Decide(policy, c, other))
<1> DEFINE ruled == Ruled(policy, c)
<1>1. ruled \in PolicyVerdict
  <2>1. Matching(policy, c) \in SUBSET DOMAIN policy.rules /\ DOMAIN policy.rules \in SUBSET Nat
    BY PolicyParts DEF Matching
  <2>2. Matching(policy, c) # {} => Min(Matching(policy, c)) \in DOMAIN policy.rules
    BY <2>1, MinIsLeast
  <2> QED  BY <2>2, PolicyParts DEF Ruled
<1>2. \A s : Decide(policy, c, s).verdict =
        IF s /\ Strength[ruled] < Strength["require_approval"] THEN "require_approval" ELSE ruled
  BY DEF Decide
<1> HIDE DEF ruled
<1>3. ruled = "deny" => ~(Strength[ruled] < Strength["require_approval"])
  BY DEF Strength
<1>4. \A s : Decide(policy, c, s).verdict = "deny" <=> ruled = "deny"
  BY <1>2, <1>3
<1> QED  BY <1>4 DEF Denied

(* What the gate has checked of a task.                                    *)
LEMMA CheckedTask ==
  ASSUME NEW files \in Analysed, NEW policy \in CommandPolicies, NEW t \in DOMAIN files.tasks,
         TaskFailures(files, t, policy) = {}
  PROVE  LET task == files.tasks[t]
         IN  /\ \A c \in ToSet(task.acceptance) : ~Observe(c, policy, Smooth.endings).denied
             /\ \A p \in ToSet(task.preconditions) : ~Probe(p, policy, Smooth).denied
             /\ task.kind = "implementation" => task.acceptance # <<>>
<1> DEFINE task == files.tasks[t]
           denied == {<<"denied", t, c[1]>> : c \in {d \in CommandsOf(task) : Denied(Decide(policy, d[1], d[2]))}}
           uncriterioned == {<<"no criterion", t>> : x \in IF task.kind = "implementation" /\ task.acceptance = <<>>
                                                          THEN {1} ELSE {}}
<1>1. task \in TaskFiles
  BY DEF Analysed
<1>2. denied = {} /\ uncriterioned = {}
  BY DEF TaskFailures
<1>3. \A d \in CommandsOf(task) : ~Denied(Decide(policy, d[1], d[2]))
  <2> SUFFICES ASSUME NEW d \in CommandsOf(task), Denied(Decide(policy, d[1], d[2])) PROVE FALSE
    OBVIOUS
  <2>1. <<"denied", t, d[1]>> \in denied
    OBVIOUS
  <2> QED  BY <1>2, <2>1
<1>4. ~(task.kind = "implementation" /\ task.acceptance = <<>>)
  <2> SUFFICES ASSUME task.kind = "implementation" /\ task.acceptance = <<>> PROVE FALSE
    OBVIOUS
  <2>1. <<"no criterion", t>> \in uncriterioned
    OBVIOUS
  <2> QED  BY <1>2, <2>1
<1> HIDE DEF denied, uncriterioned
<1>5. ASSUME NEW c \in ToSet(task.acceptance) PROVE ~Observe(c, policy, Smooth.endings).denied
  <2>1. <<c.cmd, c.shell>> \in CommandsOf(task)
    BY DEF CommandsOf
  <2>2. ~Denied(Decide(policy, c.cmd, c.shell))
    BY <1>3, <2>1
  <2>3. RunCommand(policy, c.cmd, c.shell, Smooth.endings).decision = Decide(policy, c.cmd, c.shell)
    BY DEF RunCommand
  <2> QED  BY <2>2, <2>3 DEF Observe
<1>6. ASSUME NEW p \in ToSet(task.preconditions) PROVE ~Probe(p, policy, Smooth).denied
  <2>1. CASE p.kind = "command"
    <3>1. <<p.cmd, p.shell>> \in CommandsOf(task)
      BY <2>1 DEF CommandsOf
    <3>2. ~Denied(Decide(policy, p.cmd, FALSE))
      BY <1>3, <3>1, ShellIsNeverDenied
    <3>3. RunCommand(policy, p.cmd, FALSE, Smooth.endings).decision = Decide(policy, p.cmd, FALSE)
      BY DEF RunCommand
    <3> QED  BY <2>1, <3>2, <3>3 DEF Probe
  <2>2. CASE p.kind # "command"
    <3>1. p.kind = "fact"
      <4>1. task.preconditions \in Seq(Preconditions)
        BY <1>1 DEF TaskFiles
      <4>2. p \in Preconditions
        BY <4>1, ElementOfSeq, LenProperties DEF ToSet
      <4> QED  BY <2>2, <4>2 DEF Preconditions
    <3> QED  BY <3>1 DEF Probe
  <2> QED  BY <2>1, <2>2
<1> QED  BY <1>4, <1>5, <1>6

(* What the gate has checked of the specs.                                 *)
LEMMA CheckedSpecs ==
  ASSUME NEW files \in Analysed, SpecFailures(files) = {}, NEW r \in Requirements(files.specs)
  PROVE  /\ \E t \in DOMAIN files.tasks : r \in ToSet(files.tasks[t].satisfies)
         /\ Cardinality(Holders(files.specs, r)) = 1
<1> DEFINE specs == files.specs
           twice == {<<"twice", q>> : q \in {p \in Requirements(specs) : Cardinality(Holders(specs, p)) > 1}}
           uncovered == {<<"uncovered", q>> : q \in Requirements(specs) \ SatisfiedBy(files.tasks)}
<1>1. twice = {} /\ uncovered = {}
  BY DEF SpecFailures
<1>2. r \in SatisfiedBy(files.tasks)
  <2> SUFFICES ASSUME r \notin SatisfiedBy(files.tasks) PROVE FALSE
    OBVIOUS
  <2>1. <<"uncovered", r>> \in uncovered
    OBVIOUS
  <2> QED  BY <1>1, <2>1
<1>3. ~(Cardinality(Holders(specs, r)) > 1)
  <2> SUFFICES ASSUME Cardinality(Holders(specs, r)) > 1 PROVE FALSE
    OBVIOUS
  <2>1. <<"twice", r>> \in twice
    OBVIOUS
  <2> QED  BY <1>1, <2>1
<1> HIDE DEF twice, uncovered
<1>4. IsFiniteSet(DOMAIN specs)
  <2>1. specs \in Seq(SpecFiles)
    BY DEF Analysed
  <2>2. DOMAIN specs = 1..Len(specs) /\ Len(specs) \in Nat
    BY <2>1, LenProperties
  <2> QED  BY <2>2, FS_Interval
<1>5. Holders(specs, r) \in SUBSET DOMAIN specs /\ Holders(specs, r) # {}
  BY DEF Holders, Requirements
<1>6. Cardinality(Holders(specs, r)) \in Nat /\ Cardinality(Holders(specs, r)) # 0
  BY <1>4, <1>5, FS_Subset, FS_CardinalityType, FS_EmptySet
<1>7. Cardinality(Holders(specs, r)) = 1
  BY <1>3, <1>6
<1> QED  BY <1>2, <1>7 DEF SatisfiedBy

(* For every graph, every policy and every set of specs: what the gate of  *)
(* `run` lets through after an analysis (analyze.py:187-266) is a graph    *)
(* that can be run to its end, with commands nobody denies, requirements   *)
(* that are claimed and, without a warning, tasks that do not conflict.    *)
THEOREM AnalysedRuns ==
  ASSUME question \in AnalysisQuestions
  PROVE  AnalysedIsRunnable
<1> DEFINE files == question.edited
           policy == question.policy
           tasks == files.tasks
           specs == files.specs
           depends == DependsOf(tasks)
           order == Topological(depends)
           closed == {v \in SUBSET DOMAIN tasks : \A t \in v : depends[t] \subseteq v}
<1> SUFFICES ASSUME GateOpen(RecordOf(question.files, policy), files)
             PROVE  AnalysedIsRunnable
  BY DEF AnalysedIsRunnable
<1>1. Failures(files, policy) = {}
  BY DEF GateOpen, RecordOf
<1>2. files \in Analysed /\ policy \in CommandPolicies
  BY DEF AnalysisQuestions
<1>3. DOMAIN tasks \in SUBSET Nat /\ IsFiniteSet(DOMAIN tasks) /\ DOMAIN depends = DOMAIN tasks
  BY <1>2 DEF Analysed, DependsOf
<1>4. Loads(depends)
  BY <1>1 DEF Failures
<1>5. SpecFailures(files) = {} /\ \A t \in DOMAIN tasks : TaskFailures(files, t, policy) = {}
  BY <1>1, <1>4 DEF Failures
<1>6. /\ ToSet(order) = DOMAIN tasks /\ Len(order) = Cardinality(DOMAIN tasks)
      /\ \A i \in DOMAIN order : depends[order[i]] \subseteq {order[j] : j \in 1..(i - 1)}
  BY <1>3, <1>4, LoadedIsOrdered
<1>7. \A t \in DOMAIN tasks :
        /\ \A c \in ToSet(tasks[t].acceptance) : ~Observe(c, policy, Smooth.endings).denied
        /\ \A p \in ToSet(tasks[t].preconditions) : ~Probe(p, policy, Smooth).denied
        /\ tasks[t].kind = "implementation" => tasks[t].acceptance # <<>>
  BY <1>2, <1>5, CheckedTask
<1>8. \A r \in Requirements(specs) :
        (\E t \in DOMAIN tasks : r \in ToSet(tasks[t].satisfies)) /\ Cardinality(Holders(specs, r)) = 1
  BY <1>2, <1>5, CheckedSpecs
<1>9. ParallelConflicts(tasks) = {} =>
        \A v \in closed :
          LET ready == ReadyTasks(depends, v, DOMAIN tasks \ v)
          IN \A i, j \in DOMAIN ready : i # j => ~Conflicts(tasks[ready[i]], tasks[ready[j]])
  BY <1>3, <1>4, ReadyTasksFit
<1> HIDE DEF order, closed
<1> QED  BY <1>6, <1>7, <1>8, <1>9, Zenon DEF AnalysedIsRunnable, order, closed

-----------------------------------------------------------------------------
(* The events of a round.                                                  *)

(* The event that is recorded for the i-th criterion.                      *)
Event(all, green, indexed, i) ==
  [cmd |-> all[i].cmd, expect |-> all[i].expect, green |-> green[i], index |-> IF indexed THEN i ELSE 0]

Untaken(index, all, selected, k) ==
  {i \in DOMAIN all : all[i] = selected[k] /\ \A j \in 1..(k - 1) : index[j] # i}
Indexes(index, all, selected) == index = [k \in 1..Len(selected) |-> Min(Untaken(index, all, selected, k))]

(* selected is what is at the n ascending places of all, and everything    *)
(* equal to it.                                                            *)
Selects(at, n, all, selected) ==
  /\ at \in [1..n -> 1..Len(all)] /\ Len(selected) = n
  /\ \A k \in 1..n : selected[k] = all[at[k]]
  /\ \A j, k \in 1..n : j < k => at[j] < at[k]
  /\ \A k \in 1..n : \A i \in 1..Len(all) : all[i] = all[at[k]] => \E j \in 1..n : at[j] = i

(* When everything equal to what is selected is selected, in its order,    *)
(* the indexes are the places it was selected from.                        *)
LEMMA IndexesArePlaces ==
  ASSUME NEW all \in Seq(Criteria), NEW n \in Nat, NEW at, NEW selected, Selects(at, n, all, selected)
  PROVE  CriterionIndexes(all, selected) = at
<1> DEFINE index == CHOOSE f : Indexes(f, all, selected)
<1>0. /\ Len(all) \in Nat /\ DOMAIN all = 1..Len(all)
      /\ at \in [1..n -> 1..Len(all)] /\ Len(selected) = n
      /\ \A k \in 1..n : selected[k] = all[at[k]]
      /\ \A j, k \in 1..n : j < k => at[j] < at[k]
      /\ \A k \in 1..n : \A i \in 1..Len(all) : all[i] = all[at[k]] => \E j \in 1..n : at[j] = i
  BY LenProperties DEF Selects
<1>1. CriterionIndexes(all, selected) = index
  BY Zenon DEF CriterionIndexes, Indexes, Untaken
<1>2. ASSUME NEW k \in 1..n, NEW f, \A j \in 1..(k - 1) : f[j] = at[j]
      PROVE  Min(Untaken(f, all, selected, k)) = at[k]
  <2> DEFINE rest == Untaken(f, all, selected, k)
  <2>1. at[k] \in rest
    <3>1. at[k] \in DOMAIN all /\ all[at[k]] = selected[k]
      BY <1>0
    <3>2. ASSUME NEW j \in 1..(k - 1) PROVE f[j] # at[k]
      <4>1. j \in 1..n /\ j < k
        OBVIOUS
      <4>2. at[j] < at[k] /\ f[j] = at[j] /\ at[j] \in Nat
        BY <1>0, <1>2, <4>1
      <4> QED  BY <1>0, <4>2
    <3> QED  BY <3>1, <3>2 DEF Untaken
  <2>2. ASSUME NEW i \in rest PROVE at[k] <= i
    <3>1. i \in DOMAIN all /\ all[i] = all[at[k]] /\ i \in Nat /\ at[k] \in Nat
      BY <1>0 DEF Untaken
    <3>2. PICK j \in 1..n : at[j] = i
      BY <1>0, <3>1
    <3>3. ~(j < k)
      <4> SUFFICES ASSUME j < k PROVE FALSE
        OBVIOUS
      <4>1. j \in 1..(k - 1)
        OBVIOUS
      <4> QED  BY <1>2, <3>2, <4>1 DEF Untaken
    <3>4. j = k \/ k < j
      BY <3>3
    <3> QED  BY <1>0, <3>1, <3>2, <3>4
  <2>3. rest \in SUBSET Nat
    BY <1>0 DEF Untaken
  <2> HIDE DEF rest
  <2>4. Min(rest) \in rest /\ Min(rest) <= at[k]
    BY <2>1, <2>3, MinIsLeast
  <2>5. at[k] <= Min(rest)
    BY <2>2, <2>4
  <2> QED  BY <1>0, <2>3, <2>4, <2>5 DEF rest
<1>3. Indexes(at, all, selected)
  <2>1. \A k \in 1..n : Min(Untaken(at, all, selected, k)) = at[k]
    BY <1>2
  <2> QED  BY <1>0, <2>1 DEF Indexes
<1>4. Indexes(index, all, selected)
  BY <1>3
<1> HIDE DEF index
<1>5. \A k \in 1..n : index[k] = Min(Untaken(index, all, selected, k))
  BY <1>0, <1>4 DEF Indexes
<1> DEFINE good == {m \in 0..n : \A j \in 1..m : index[j] = at[j]}
<1>6. ASSUME NEW m \in 1..n, m - 1 \in good PROVE m \in good
  <2>1. \A j \in 1..(m - 1) : index[j] = at[j]
    BY <1>6
  <2>2. index[m] = at[m]
    BY <1>2, <1>5, <2>1
  <2> QED  BY <2>1, <2>2
<1>7. \A m \in 0..n : m \in good
  <2>1. 0 \in good
    OBVIOUS
  <2> HIDE DEF good
  <2> QED  BY <1>6, <2>1, UpTo
<1>8. \A j \in 1..n : index[j] = at[j]
  BY <1>7
<1>9. index = [j \in 1..n |-> at[j]] /\ at = [j \in 1..n |-> at[j]]
  BY <1>0, <1>4, <1>8 DEF Indexes
<1> QED  BY <1>1, <1>9

Events == [cmd : Commands, expect : BOOLEAN, green : BOOLEAN, index : Nat]

(* What is recorded of a part of the criteria.                             *)
LEMMA PartIsRecorded ==
  ASSUME NEW all \in Seq(Criteria), NEW n \in Nat, NEW at, NEW selected, Selects(at, n, all, selected),
         NEW green \in Seq(BOOLEAN), Len(green) = Len(all), NEW indexed \in BOOLEAN
  PROVE  LET events == Recorded(all, selected, green, indexed)
         IN  /\ events \in Seq(Events) /\ Len(events) = n
             /\ \A k \in 1..n : events[k] = Event(all, green, indexed, at[k])
<1>0. /\ Len(all) \in Nat /\ DOMAIN all = 1..Len(all)
      /\ at \in [1..n -> 1..Len(all)] /\ Len(selected) = n
      /\ \A k \in 1..n : selected[k] = all[at[k]]
  BY LenProperties DEF Selects
<1> DEFINE events == Recorded(all, selected, green, indexed)
<1>1. CriterionIndexes(all, selected) = at
  BY IndexesArePlaces
<1>2. events = [k \in 1..n |->
          [cmd |-> selected[k].cmd, expect |-> selected[k].expect, green |-> green[at[k]],
           index |-> IF indexed THEN at[k] ELSE 0]]
  BY <1>0, <1>1 DEF Recorded
<1> HIDE DEF events
<1>3. \A k \in 1..n : events[k] = Event(all, green, indexed, at[k])
  BY <1>0, <1>2 DEF Event
<1>4. \A i \in 1..Len(all) : Event(all, green, indexed, i) \in Events
  <2>1. \A i \in 1..Len(all) : all[i] \in Criteria
    BY ElementOfSeq
  <2>2. \A i \in 1..Len(all) : green[i] \in BOOLEAN
    BY ElementOfSeq
  <2>3. \A i \in 1..Len(all) : i \in Nat
    BY <1>0
  <2> QED  BY <2>1, <2>2, <2>3 DEF Event, Events, Criteria
<1>5. \A k \in 1..n : events[k] \in Events
  BY <1>0, <1>3, <1>4
<1>6. events \in [1..n -> Events]
  BY <1>2, <1>5
<1>7. events \in Seq(Events) /\ Len(events) = n
  <2>1. DOMAIN events = 1..n
    BY <1>6
  <2>2. events \in Seq(Events)
    BY <1>6, SeqDef
  <2> QED  BY <2>1, <2>2, LenProperties
<1> QED  BY <1>3, <1>7 DEF events

(* Some order of the criteria that leaves those of one key as they are.    *)
Orderly(pi, all) ==
  /\ pi \in [1..Len(all) -> 1..Len(all)]
  /\ \A i \in 1..Len(all) : \E k \in 1..Len(all) : pi[k] = i
  /\ \A j, k \in 1..Len(all) : j < k /\ KeyOf(all[pi[j]]) = KeyOf(all[pi[k]]) => pi[j] < pi[k]

(* The places of the criteria that are expected to fail first, or not.     *)
PlacesOf(all, expect) == {i \in 1..Len(all) : all[i].expect = expect}
AtOf(all, expect) == Sorted(PlacesOf(all, expect))
PartOf(all, expect) == Picked(all, {c \in ToSet(all) : c.expect = expect})
SizeOf(all, expect) == Cardinality(PlacesOf(all, expect))

LEMMA PartIsSelected ==
  ASSUME NEW all \in Seq(Criteria), NEW expect \in BOOLEAN
  PROVE  /\ SizeOf(all, expect) \in Nat
         /\ Selects(AtOf(all, expect), SizeOf(all, expect), all, PartOf(all, expect))
         /\ \A k \in 1..SizeOf(all, expect) : all[AtOf(all, expect)[k]].expect = expect
         /\ \A i \in 1..Len(all) : all[i].expect = expect =>
               \E k \in 1..SizeOf(all, expect) : AtOf(all, expect)[k] = i
<1> DEFINE T == {c \in ToSet(all) : c.expect = expect}
           n == SizeOf(all, expect)
           at == AtOf(all, expect)
<1>0. Len(all) \in Nat /\ DOMAIN all = 1..Len(all)
  BY LenProperties
<1>1. Places(all, T) = PlacesOf(all, expect)
  BY <1>0 DEF Places, PlacesOf, ToSet
<1>2. \A i \in 1..Len(all) : all[i] \in T <=> all[i].expect = expect
  BY <1>0 DEF ToSet
<1> HIDE DEF T
<1>3. /\ n \in Nat /\ at \in [1..n -> Places(all, T)] /\ Len(Picked(all, T)) = n
      /\ \A k \in 1..n : at[k] \in 1..Len(all) /\ all[at[k]] \in T /\ Picked(all, T)[k] = all[at[k]]
      /\ \A i, j \in 1..n : i < j => at[i] < at[j]
      /\ \A x \in 1..Len(all) : all[x] \in T => \E k \in 1..n : at[k] = x
  BY <1>1, PickedInOrder DEF SizeOf, AtOf
<1>4. PartOf(all, expect) = Picked(all, T)
  BY DEF PartOf, T
<1> HIDE DEF n, at
<1>5. \A k \in 1..n : all[at[k]].expect = expect
  BY <1>2, <1>3
<1>6. \A i \in 1..Len(all) : all[i].expect = expect => \E k \in 1..n : at[k] = i
  BY <1>2, <1>3
<1>7. at \in [1..n -> 1..Len(all)]
  BY <1>3
<1>8. \A k \in 1..n : \A i \in 1..Len(all) : all[i] = all[at[k]] => \E j \in 1..n : at[j] = i
  BY <1>5, <1>6
<1>9. Selects(at, n, all, PartOf(all, expect))
  BY <1>3, <1>4, <1>7, <1>8 DEF Selects
<1> QED  BY <1>3, <1>5, <1>6, <1>9 DEF n, at

LEMMA CriteriaExpect ==
  ASSUME NEW all \in Seq(Criteria)
  PROVE  \A i \in 1..Len(all) : all[i] \in Criteria /\ all[i].expect \in BOOLEAN
<1>1. \A i \in 1..Len(all) : all[i] \in Criteria
  BY ElementOfSeq
<1> QED  BY <1>1 DEF Criteria

(* Each criterion is in one part.                                          *)
LEMMA PartsAreWhole ==
  ASSUME NEW all \in Seq(Criteria)
  PROVE  SizeOf(all, FALSE) + SizeOf(all, TRUE) = Len(all)
<1> DEFINE len == Len(all)
           P == PlacesOf(all, FALSE)
           Q == PlacesOf(all, TRUE)
<1>0. len \in Nat
  BY LenProperties
<1>1. \A i \in 1..len : all[i].expect \in BOOLEAN
  BY CriteriaExpect
<1>2. P \cup Q = 1..len /\ P \cap Q = {} /\ P \in SUBSET (1..len) /\ Q \in SUBSET (1..len)
  BY <1>1 DEF PlacesOf
<1> HIDE DEF len, P, Q
<1>3. IsFiniteSet(1..len) /\ Cardinality(1..len) = len
  BY <1>0, FS_Interval
<1>4. IsFiniteSet(P) /\ IsFiniteSet(Q)
  BY <1>2, <1>3, FS_Subset
<1>5. Cardinality(P \cup Q) = Cardinality(P) + Cardinality(Q) - Cardinality(P \cap Q)
  BY <1>4, FS_Union
<1>6. Cardinality(P \cap Q) = 0
  BY <1>2, FS_EmptySet
<1>7. Cardinality(P) \in Nat /\ Cardinality(Q) \in Nat
  BY <1>4, FS_CardinalityType
<1>8. len = Cardinality(P) + Cardinality(Q)
  <2>1. len = Cardinality(P) + Cardinality(Q) - 0
    BY <1>2, <1>3, <1>5, <1>6
  <2> QED  BY <1>7, <2>1
<1> QED  BY <1>8 DEF SizeOf, P, Q, len

JoinedAt(a, b, m, n) == [k \in 1..(m + n) |-> IF k <= m THEN a[k] ELSE b[k - m]]

(* One part after the other is an orderly round.                           *)
LEMMA JoinedIsOrderly ==
  ASSUME NEW all \in Seq(Criteria), NEW m \in Nat, NEW n \in Nat, m + n = Len(all), NEW a, NEW b,
         NEW s, NEW t, Selects(a, m, all, s), Selects(b, n, all, t),
         \A k \in 1..m : all[a[k]].expect = FALSE, \A k \in 1..n : all[b[k]].expect = TRUE,
         \A i \in 1..Len(all) : all[i].expect = FALSE => \E k \in 1..m : a[k] = i,
         \A i \in 1..Len(all) : all[i].expect = TRUE => \E k \in 1..n : b[k] = i
  PROVE  Orderly(JoinedAt(a, b, m, n), all)
<1> DEFINE pi == JoinedAt(a, b, m, n)
           len == m + n
<1>0. /\ a \in [1..m -> 1..len] /\ b \in [1..n -> 1..len]
      /\ \A j, k \in 1..m : j < k => a[j] < a[k]
      /\ \A j, k \in 1..n : j < k => b[j] < b[k]
  BY DEF Selects
<1>1. \A i \in 1..len : all[i].expect \in BOOLEAN
  BY CriteriaExpect
<1>2. ASSUME NEW k \in 1..len, k <= m PROVE k \in 1..m /\ pi[k] = a[k] /\ pi[k] \in 1..len
  <2>1. k \in 1..m /\ pi[k] = a[k]
    BY <1>2 DEF JoinedAt
  <2> QED  BY <1>0, <2>1
<1>3. ASSUME NEW k \in 1..len, ~(k <= m) PROVE k - m \in 1..n /\ pi[k] = b[k - m] /\ pi[k] \in 1..len
  <2>1. k - m \in 1..n /\ pi[k] = b[k - m]
    BY <1>3 DEF JoinedAt
  <2> QED  BY <1>0, <2>1
<1>4. pi \in [1..len -> 1..len]
  <2>1. \A k \in 1..len : pi[k] \in 1..len
    BY <1>2, <1>3
  <2>2. pi = [k \in 1..len |-> pi[k]]
    BY DEF JoinedAt
  <2> HIDE DEF pi
  <2> QED  BY <2>1, <2>2
<1>5. ASSUME NEW k \in 1..m PROVE k \in 1..len /\ pi[k] = a[k]
  BY DEF JoinedAt
<1>6. ASSUME NEW k \in 1..n PROVE m + k \in 1..len /\ pi[m + k] = b[k]
  <2>1. m + k \in 1..len /\ ~(m + k <= m) /\ m + k - m = k
    OBVIOUS
  <2> QED  BY <2>1 DEF JoinedAt
<1>7. \A i \in 1..len : \E k \in 1..len : pi[k] = i
  <2> SUFFICES ASSUME NEW i \in 1..len PROVE \E k \in 1..len : pi[k] = i
    OBVIOUS
  <2> HIDE DEF pi
  <2>1. CASE all[i].expect = FALSE
    <3>1. PICK k \in 1..m : a[k] = i
      BY <2>1
    <3> QED  BY <1>5, <3>1
  <2>2. CASE all[i].expect = TRUE
    <3>1. PICK k \in 1..n : b[k] = i
      BY <2>2
    <3> QED  BY <1>6, <3>1
  <2> QED  BY <1>1, <2>1, <2>2
<1>8. ASSUME NEW j \in 1..len, NEW k \in 1..len, j < k, KeyOf(all[pi[j]]) = KeyOf(all[pi[k]])
      PROVE  pi[j] < pi[k]
  <2> HIDE DEF pi
  <2>1. all[pi[j]].expect = all[pi[k]].expect
    BY <1>8 DEF KeyOf
  <2>2. CASE j <= m /\ k <= m
    <3>1. j \in 1..m /\ k \in 1..m /\ pi[j] = a[j] /\ pi[k] = a[k]
      BY <1>2, <2>2
    <3> QED  BY <1>0, <1>8, <3>1
  <2>3. CASE j <= m /\ ~(k <= m)
    <3>1. j \in 1..m /\ k - m \in 1..n /\ pi[j] = a[j] /\ pi[k] = b[k - m]
      BY <1>2, <1>3, <2>3
    <3>2. all[pi[j]].expect = FALSE /\ all[pi[k]].expect = TRUE
      BY <3>1
    <3> QED  BY <2>1, <3>2
  <2>4. CASE ~(j <= m) /\ ~(k <= m)
    <3> DEFINE x == j - m
               y == k - m
    <3>1. x \in 1..n /\ y \in 1..n /\ pi[j] = b[x] /\ pi[k] = b[y]
      BY <1>3, <2>4
    <3>2. x < y
      BY <1>8
    <3> HIDE DEF x, y
    <3> QED  BY <1>0, <3>1, <3>2
  <2> QED  BY <1>8, <2>2, <2>3, <2>4
<1> HIDE DEF pi
<1> QED  BY <1>4, <1>7, <1>8 DEF Orderly, pi

(* What a round leaves in the journal, in an order that neither the        *)
(* results nor the format of the journal change.                           *)
LEMMA RoundIsOrderly ==
  ASSUME NEW all \in Seq(Criteria), NEW mode \in {"standard", "tdd"}
  PROVE  \E pi : /\ Orderly(pi, all)
                 /\ \A green \in Seq(BOOLEAN), indexed \in BOOLEAN : Len(green) = Len(all) =>
                      LET events == BaselineEvents(all, mode, green, indexed)
                      IN  /\ events \in Seq(Events) /\ Len(events) = Len(all)
                          /\ \A k \in 1..Len(all) : events[k] = Event(all, green, indexed, pi[k])
<1>0. Len(all) \in Nat
  BY LenProperties
<1>1. CASE mode = "standard"
  <2> DEFINE pi == [k \in 1..Len(all) |-> k]
  <2>1. Orderly(pi, all) /\ Selects(pi, Len(all), all, all)
    BY <1>0 DEF Orderly, Selects
  <2> HIDE DEF pi
  <2>2. ASSUME NEW green \in Seq(BOOLEAN), NEW indexed \in BOOLEAN, Len(green) = Len(all)
        PROVE  LET events == BaselineEvents(all, mode, green, indexed)
               IN  /\ events \in Seq(Events) /\ Len(events) = Len(all)
                   /\ \A k \in 1..Len(all) : events[k] = Event(all, green, indexed, pi[k])
    <3>1. BaselineEvents(all, mode, green, indexed) = Recorded(all, all, green, indexed)
      BY <1>1 DEF BaselineEvents
    <3> QED  BY <1>0, <2>1, <2>2, <3>1, PartIsRecorded
  <2> QED  BY <2>1, <2>2
<1>2. CASE mode = "tdd"
  <2> DEFINE m == SizeOf(all, FALSE)
             n == SizeOf(all, TRUE)
             a == AtOf(all, FALSE)
             b == AtOf(all, TRUE)
             s == PartOf(all, FALSE)
             t == PartOf(all, TRUE)
             pi == JoinedAt(a, b, m, n)
  <2>1. /\ m \in Nat /\ Selects(a, m, all, s) /\ \A k \in 1..m : all[a[k]].expect = FALSE
        /\ \A i \in 1..Len(all) : all[i].expect = FALSE => \E k \in 1..m : a[k] = i
    BY PartIsSelected
  <2>2. /\ n \in Nat /\ Selects(b, n, all, t) /\ \A k \in 1..n : all[b[k]].expect = TRUE
        /\ \A i \in 1..Len(all) : all[i].expect = TRUE => \E k \in 1..n : b[k] = i
    BY PartIsSelected
  <2>3. m + n = Len(all)
    BY PartsAreWhole
  <2>4. ASSUME NEW green, NEW indexed
        PROVE  BaselineEvents(all, mode, green, indexed) =
                 Recorded(all, s, green, indexed) \o Recorded(all, t, green, indexed)
    BY <1>2 DEF BaselineEvents, PartOf
  <2> HIDE DEF m, n, a, b, s, t
  <2>5. Orderly(pi, all)
    BY <2>1, <2>2, <2>3, JoinedIsOrderly
  <2>6. ASSUME NEW green \in Seq(BOOLEAN), NEW indexed \in BOOLEAN, Len(green) = Len(all)
        PROVE  LET events == BaselineEvents(all, mode, green, indexed)
               IN  /\ events \in Seq(Events) /\ Len(events) = Len(all)
                   /\ \A k \in 1..Len(all) : events[k] = Event(all, green, indexed, pi[k])
    <3> DEFINE F == Recorded(all, s, green, indexed)
               R == Recorded(all, t, green, indexed)
    <3>1. F \in Seq(Events) /\ Len(F) = m /\ \A k \in 1..m : F[k] = Event(all, green, indexed, a[k])
      BY <2>1, <2>6, PartIsRecorded
    <3>2. R \in Seq(Events) /\ Len(R) = n /\ \A k \in 1..n : R[k] = Event(all, green, indexed, b[k])
      BY <2>2, <2>6, PartIsRecorded
    <3>3. BaselineEvents(all, mode, green, indexed) = F \o R
      BY <2>4
    <3> HIDE DEF F, R
    <3>4. /\ F \o R \in Seq(Events) /\ Len(F \o R) = Len(F) + Len(R)
          /\ \A k \in 1..(Len(F) + Len(R)) : (F \o R)[k] = IF k <= Len(F) THEN F[k] ELSE R[k - Len(F)]
      BY <3>1, <3>2, ConcatProperties
    <3>5. ASSUME NEW k \in 1..Len(all) PROVE (F \o R)[k] = Event(all, green, indexed, pi[k])
      <4>1. k \in 1..(m + n) /\ (F \o R)[k] = IF k <= m THEN F[k] ELSE R[k - m]
        BY <2>3, <3>1, <3>2, <3>4
      <4>2. pi[k] = IF k <= m THEN a[k] ELSE b[k - m]
        BY <4>1 DEF JoinedAt
      <4> HIDE DEF pi
      <4>3. CASE k <= m
        <5>1. k \in 1..m
          BY <2>1, <4>3
        <5> QED  BY <3>1, <4>1, <4>2, <4>3, <5>1
      <4>4. CASE ~(k <= m)
        <5> DEFINE x == k - m
        <5>1. x \in 1..n
          BY <2>1, <2>2, <4>1, <4>4
        <5>2. (F \o R)[k] = R[x] /\ pi[k] = b[x]
          BY <4>1, <4>2, <4>4
        <5> HIDE DEF x
        <5> QED  BY <3>2, <5>1, <5>2
      <4> QED  BY <4>3, <4>4
    <3> HIDE DEF pi
    <3>6. Len(F \o R) = Len(all)
      BY <2>3, <3>1, <3>2, <3>4
    <3> QED  BY <3>3, <3>4, <3>5, <3>6
  <2> HIDE DEF pi
  <2> QED  BY <2>5, <2>6
<1> QED  BY <1>1, <1>2

-----------------------------------------------------------------------------
(* How many of a key come before.                                          *)

(* The places up to k of elements with the key of the k-th.                *)
SameKey(seq, k) == {j \in 1..k : KeyOf(seq[j]) = KeyOf(seq[k])}

LEMMA SameKeyIsFinite ==
  ASSUME NEW seq, NEW k \in Nat
  PROVE  IsFiniteSet(SameKey(seq, k)) /\ Cardinality(SameKey(seq, k)) = Occurrence(seq, k)
<1>1. IsFiniteSet(1..k) /\ SameKey(seq, k) \in SUBSET (1..k)
  BY FS_Interval DEF SameKey
<1>2. IsFiniteSet(SameKey(seq, k))
  BY <1>1, FS_Subset
<1> QED  BY <1>2 DEF SameKey, Occurrence

(* Two places with the same key are told apart by how many come before.    *)
LEMMA OccurrenceGrows ==
  ASSUME NEW seq, NEW i \in Nat, NEW j \in Nat, i > 0, i < j, KeyOf(seq[i]) = KeyOf(seq[j])
  PROVE  Occurrence(seq, i) # Occurrence(seq, j)
<1>1. SameKey(seq, i) \in SUBSET SameKey(seq, j) /\ j \in SameKey(seq, j) /\ j \notin SameKey(seq, i)
  BY DEF SameKey
<1>2. SameKey(seq, i) # SameKey(seq, j)
  BY <1>1
<1>3. IsFiniteSet(SameKey(seq, j))
  BY SameKeyIsFinite
<1>4. Cardinality(SameKey(seq, j)) = Cardinality(SameKey(seq, i)) => SameKey(seq, j) = SameKey(seq, i)
  BY <1>1, <1>3, FS_Subset
<1> QED  BY <1>2, <1>4, SameKeyIsFinite

LEMMA OccurrenceDistinguishes ==
  ASSUME NEW seq, NEW n \in Nat, NEW i \in 1..n, NEW j \in 1..n,
         KeyOf(seq[i]) = KeyOf(seq[j]), Occurrence(seq, i) = Occurrence(seq, j)
  PROVE  i = j
<1>1. i \in Nat /\ j \in Nat /\ i > 0 /\ j > 0
  OBVIOUS
<1>2. ~(i < j) /\ ~(j < i)
  BY <1>1, OccurrenceGrows
<1> QED  BY <1>1, <1>2

(* An orderly round does not change how many of a key come before.         *)
LEMMA OrderKeepsOccurrence ==
  ASSUME NEW all, NEW n \in Nat, n = Len(all), NEW pi, Orderly(pi, all), NEW seq,
         \A k \in 1..n : KeyOf(seq[k]) = KeyOf(all[pi[k]]), NEW k \in 1..n
  PROVE  Occurrence(seq, k) = Occurrence(all, pi[k])
<1> DEFINE X == SameKey(seq, k)
           Y == SameKey(all, pi[k])
           f == [j \in X |-> pi[j]]
<1>0. /\ pi \in [1..n -> 1..n] /\ \A i \in 1..n : \E j \in 1..n : pi[j] = i
      /\ \A i, j \in 1..n : i < j /\ KeyOf(all[pi[i]]) = KeyOf(all[pi[j]]) => pi[i] < pi[j]
  BY DEF Orderly
<1>20. ASSUME NEW i \in 1..n, NEW j \in 1..n, KeyOf(all[pi[i]]) = KeyOf(all[pi[j]]), i < j
      PROVE  pi[i] < pi[j]
  BY <1>0, <1>20
<1>1. pi[k] \in 1..n /\ k \in Nat /\ pi[k] \in Nat
  BY <1>0
<1>2. \A j : j \in X <=> j \in 1..k /\ KeyOf(all[pi[j]]) = KeyOf(all[pi[k]])
  <2>1. \A j \in 1..k : j \in 1..n
    OBVIOUS
  <2> QED  BY <2>1 DEF SameKey
<1>3. \A i : i \in Y <=> i \in 1..pi[k] /\ KeyOf(all[i]) = KeyOf(all[pi[k]])
  BY DEF SameKey
<1> HIDE DEF X, Y
<1>4. ASSUME NEW j \in X PROVE j \in 1..n /\ pi[j] \in 1..n /\ pi[j] \in Y /\ f[j] = pi[j]
  <2>1. j \in 1..n /\ KeyOf(all[pi[j]]) = KeyOf(all[pi[k]]) /\ (j = k \/ j < k)
    BY <1>2
  <2>2. pi[j] \in 1..n
    BY <1>0, <2>1
  <2>20. pi[j] <= pi[k]
    <3>1. CASE j = k
      BY <1>1, <3>1
    <3>2. CASE j < k
      <4>1. pi[j] < pi[k]
        BY <1>20, <2>1, <3>2
      <4> QED  BY <1>1, <2>2, <4>1
    <3> QED  BY <2>1, <3>1, <3>2
  <2>3. pi[j] \in 1..pi[k]
    BY <1>1, <2>2, <2>20
  <2> QED  BY <1>3, <2>1, <2>2, <2>3
<1>5. ASSUME NEW i \in X, NEW j \in X, f[i] = f[j] PROVE i = j
  <2>1. i \in 1..n /\ j \in 1..n /\ pi[i] = pi[j] /\ pi[i] \in Nat
    BY <1>4, <1>5
  <2>2. KeyOf(all[pi[i]]) = KeyOf(all[pi[j]])
    BY <2>1
  <2>3. ~(i < j)
    <3> SUFFICES ASSUME i < j PROVE FALSE
      OBVIOUS
    <3>1. pi[i] < pi[j]
      BY <1>20, <2>1, <2>2
    <3> QED  BY <2>1, <3>1
  <2>4. ~(j < i)
    <3> SUFFICES ASSUME j < i PROVE FALSE
      OBVIOUS
    <3>1. pi[j] < pi[i]
      BY <1>20, <2>1, <2>2
    <3> QED  BY <2>1, <3>1
  <2> QED  BY <2>1, <2>3, <2>4
<1>6. ASSUME NEW i \in Y PROVE \E j \in X : f[j] = i
  <2>1. i \in 1..pi[k] /\ i \in 1..n /\ KeyOf(all[i]) = KeyOf(all[pi[k]])
    BY <1>1, <1>3
  <2>2. PICK j \in 1..n : pi[j] = i
    BY <1>0, <2>1
  <2>3. ~(k < j)
    <3> SUFFICES ASSUME k < j PROVE FALSE
      OBVIOUS
    <3>1. pi[k] < pi[j]
      BY <1>0, <2>1, <2>2
    <3> QED  BY <1>1, <2>1, <2>2, <3>1
  <2>4. j \in 1..k
    BY <1>1, <2>3
  <2>5. j \in X
    BY <1>2, <2>1, <2>2, <2>4
  <2> QED  BY <1>4, <2>2, <2>5
<1>7. f \in [X -> Y]
  BY <1>4
<1> HIDE DEF f
<1>8. f \in Bijection(X, Y)
  BY <1>5, <1>6, <1>7 DEF Bijection, Injection, IsInjective, Surjection
<1>9. Cardinality(Y) = Cardinality(X)
  <2>1. IsFiniteSet(X)
    BY <1>1, SameKeyIsFinite DEF X
  <2>2. ExistsBijection(X, Y)
    BY <1>8 DEF ExistsBijection
  <2> QED  BY <2>1, <2>2, FS_Bijection
<1> QED  BY <1>1, <1>9, SameKeyIsFinite DEF X, Y

(* The restored baseline.                                                  *)
Under(all, events, i) == {k \in DOMAIN events : ValidIndex(events[k], all) /\ events[k].index = i}
Nth(all, events, i) ==
  {k \in DOMAIN events : KeyOf(events[k]) = KeyOf(all[i]) /\ Occurrence(events, k) = Occurrence(all, i)}
LEMMA RestoredCases ==
  ASSUME NEW all, NEW events
  PROVE  /\ (\A i \in DOMAIN all : Under(all, events, i) # {}) =>
               Restored(all, events) = {[i \in DOMAIN all |-> events[Max(Under(all, events, i))].green]}
         /\ ~(\A i \in DOMAIN all : Under(all, events, i) # {}) =>
               Restored(all, events) =
                 IF Len(events) # Len(all) \/ \E i \in DOMAIN all : Nth(all, events, i) = {} THEN NoBaseline
                 ELSE {[i \in DOMAIN all |-> events[Min(Nth(all, events, i))].green]}
BY Zenon DEF Restored, Under, Nth, LatestOf

-----------------------------------------------------------------------------
(* What is restored.                                                       *)

(* The first n events of a round.                                          *)
RoundOf(events, n, all, green, indexed, pi) ==
  /\ events \in Seq(Events) /\ Len(events) = n
  /\ \A k \in 1..n : pi[k] \in 1..Len(all) /\ events[k] = Event(all, green, indexed, pi[k])

(* A complete round and what an older one left before it.                  *)
AfterOlder(events, all, green, pi) ==
  \E older, round, was : \E m \in Nat :
    /\ RoundOf(older, m, all, was, TRUE, pi) /\ RoundOf(round, Len(all), all, green, TRUE, pi)
    /\ events = older \o round

LEMMA ConcatEvents ==
  ASSUME NEW a \in Seq(Events), NEW b \in Seq(Events)
  PROVE  /\ a \o b \in Seq(Events) /\ Len(a \o b) = Len(a) + Len(b)
         /\ DOMAIN (a \o b) = 1..(Len(a) + Len(b))
         /\ \A k \in 1..(Len(a) + Len(b)) : (a \o b)[k] = IF k <= Len(a) THEN a[k] ELSE b[k - Len(a)]
<1>1. /\ a \o b \in Seq(Events) /\ Len(a \o b) = Len(a) + Len(b)
      /\ \A k \in 1..(Len(a) + Len(b)) : (a \o b)[k] = IF k <= Len(a) THEN a[k] ELSE b[k - Len(a)]
  BY ConcatProperties
<1>2. DOMAIN (a \o b) = 1..Len(a \o b)
  BY <1>1, LenProperties
<1> QED  BY <1>1, <1>2

(* A complete round restores what it saw under its indexes, whatever older *)
(* events are before it.                                                   *)
LEMMA IndexedIsRestored ==
  ASSUME NEW all \in Seq(Criteria), NEW green \in Seq(BOOLEAN), Len(green) = Len(all),
         NEW pi, Orderly(pi, all), NEW events, AfterOlder(events, all, green, pi)
  PROVE  Restored(all, events) = {green}
<1> DEFINE len == Len(all)
<1>0. len \in Nat /\ DOMAIN all = 1..len /\ DOMAIN green = 1..len
  BY LenProperties
<1>20. PICK older, round, was : \E m \in Nat :
         /\ RoundOf(older, m, all, was, TRUE, pi) /\ RoundOf(round, Len(all), all, green, TRUE, pi)
         /\ events = older \o round
  BY DEF AfterOlder
<1>21. PICK m \in Nat : /\ RoundOf(older, m, all, was, TRUE, pi)
                       /\ RoundOf(round, Len(all), all, green, TRUE, pi) /\ events = older \o round
  BY <1>20
<1>1. /\ events \in Seq(Events) /\ Len(events) = m + len /\ DOMAIN events = 1..(m + len)
      /\ \A k \in 1..(m + len) : events[k] = IF k <= m THEN older[k] ELSE round[k - m]
  <2>1. older \in Seq(Events) /\ Len(older) = m /\ round \in Seq(Events) /\ Len(round) = len
    BY <1>21 DEF RoundOf
  <2> HIDE DEF len
  <2> QED  BY <1>21, <2>1, ConcatEvents
<1>2. /\ pi \in [1..len -> 1..len] /\ \A i \in 1..len : \E k \in 1..len : pi[k] = i
  BY DEF Orderly
<1>3. ASSUME NEW k \in 1..len PROVE round[k] = Event(all, green, TRUE, pi[k])
  BY <1>21 DEF RoundOf
<1> HIDE DEF len
<1>4. ASSUME NEW i \in 1..len
      PROVE  Under(all, events, i) # {} /\ events[Max(Under(all, events, i))].green = green[i]
  <2> DEFINE U == Under(all, events, i)
  <2>1. PICK k \in 1..len : pi[k] = i
    BY <1>2
  <2> DEFINE last == m + k
  <2>2. last \in 1..(m + len) /\ ~(last <= m) /\ last - m = k /\ last > m
    BY <1>0
  <2> HIDE DEF last
  <2>3. events[last] = Event(all, green, TRUE, i)
    <3>1. events[last] = round[last - m]
      BY <1>1, <2>2
    <3> QED  BY <1>3, <2>1, <2>2, <3>1
  <2>4. last \in U
    BY <1>0, <1>1, <2>2, <2>3 DEF Under, ValidIndex, Event, KeyOf
  <2>5. U \in SUBSET (0..(m + len))
    BY <1>0, <1>1 DEF Under
  <2> DEFINE x == Max(U)
  <2>6. x \in U /\ last <= x
    <3>1. m + len \in Nat
      BY <1>0
    <3> HIDE DEF U
    <3> QED  BY <2>4, <2>5, <3>1, MaxIsGreatest
  <2>7. x \in 1..(m + len) /\ events[x].index = i
    BY <1>1, <2>6 DEF Under
  <2> HIDE DEF x, U
  <2> DEFINE y == x - m
  <2>8. y \in 1..len /\ ~(x <= m)
    BY <1>0, <2>2, <2>6, <2>7
  <2>9. events[x] = round[y]
    BY <1>1, <2>7, <2>8
  <2> HIDE DEF y
  <2>10. events[x] = Event(all, green, TRUE, pi[y])
    BY <1>3, <2>8, <2>9
  <2>11. pi[y] = i /\ events[x].green = green[pi[y]]
    BY <2>7, <2>10 DEF Event
  <2> QED  BY <2>4, <2>11 DEF x, U
<1>5. Restored(all, events) = {[i \in DOMAIN all |-> events[Max(Under(all, events, i))].green]}
  BY <1>0, <1>4, RestoredCases
<1>6. [i \in DOMAIN all |-> events[Max(Under(all, events, i))].green] = [i \in DOMAIN all |-> green[i]]
  BY <1>0, <1>4
<1>7. green = [i \in DOMAIN all |-> green[i]]
  <2>1. green \in [1..len -> BOOLEAN]
    BY <1>0, SeqDef DEF len
  <2> QED  BY <1>0, <2>1
<1> QED  BY <1>5, <1>6, <1>7

(* So does one that says of no event which criterion it is, when there is  *)
(* nothing before it.                                                      *)
LEMMA UnindexedIsRestored ==
  ASSUME NEW all \in Seq(Criteria), NEW green \in Seq(BOOLEAN), Len(green) = Len(all),
         NEW pi, Orderly(pi, all), NEW round, RoundOf(round, Len(all), all, green, FALSE, pi)
  PROVE  Restored(all, round) = {green}
<1> DEFINE len == Len(all)
<1>0. len \in Nat /\ DOMAIN all = 1..len /\ DOMAIN green = 1..len /\ DOMAIN round = 1..len
  BY LenProperties DEF RoundOf
<1>1. /\ pi \in [1..len -> 1..len] /\ \A i \in 1..len : \E k \in 1..len : pi[k] = i
  BY DEF Orderly
<1>2. ASSUME NEW k \in 1..len
      PROVE  round[k].index = 0 /\ round[k].green = green[pi[k]] /\ KeyOf(round[k]) = KeyOf(all[pi[k]])
  <2>1. round[k] = Event(all, green, FALSE, pi[k])
    BY DEF RoundOf
  <2> QED  BY <2>1 DEF Event, KeyOf
<1>3. ASSUME NEW k \in 1..len PROVE Occurrence(round, k) = Occurrence(all, pi[k])
  <2>1. \A j \in 1..len : KeyOf(round[j]) = KeyOf(all[pi[j]])
    BY <1>2
  <2> QED  BY <1>0, <2>1, OrderKeepsOccurrence
<1> DEFINE same == [i \in DOMAIN all |-> green[i]]
<1>4. green = same
  <2>1. green \in [1..len -> BOOLEAN]
    BY <1>0, SeqDef
  <2> QED  BY <1>0, <2>1
<1>5. Len(round) = Len(all)
  BY DEF RoundOf
<1> HIDE DEF len
<1>6. ASSUME NEW i \in 1..len
      PROVE  Nth(all, round, i) # {} /\ round[Min(Nth(all, round, i))].green = green[i]
  <2> DEFINE N == Nth(all, round, i)
  <2>1. PICK k \in 1..len : pi[k] = i
    BY <1>1
  <2>2. k \in N
    BY <1>0, <1>2, <1>3, <2>1 DEF Nth
  <2>3. N \in SUBSET Nat
    BY <1>0 DEF Nth
  <2> DEFINE x == Min(N)
  <2>4. x \in N
    <3> HIDE DEF N
    <3> QED  BY <2>2, <2>3, MinIsLeast
  <2>5. x \in 1..len /\ KeyOf(round[x]) = KeyOf(all[i]) /\ Occurrence(round, x) = Occurrence(all, i)
    BY <1>0, <2>4 DEF Nth
  <2> HIDE DEF x, N
  <2>6. pi[x] \in 1..len /\ KeyOf(all[pi[x]]) = KeyOf(all[i]) /\ Occurrence(all, pi[x]) = Occurrence(all, i)
    BY <1>1, <1>2, <1>3, <2>5
  <2>7. pi[x] = i
    BY <1>0, <2>6, OccurrenceDistinguishes
  <2>8. round[x].green = green[i]
    BY <1>2, <2>5, <2>7
  <2> QED  BY <2>2, <2>8 DEF x, N
<1>7. CASE len = 0
  <2>1. DOMAIN all = {} /\ \A i \in DOMAIN all : Under(all, round, i) # {}
    BY <1>0, <1>7
  <2>2. Restored(all, round) = {[i \in DOMAIN all |-> round[Max(Under(all, round, i))].green]}
    BY <2>1, RestoredCases
  <2>3. [i \in DOMAIN all |-> round[Max(Under(all, round, i))].green] = same
    BY <2>1
  <2> QED  BY <1>4, <2>2, <2>3
<1>8. CASE len # 0
  <2>1. 1 \in DOMAIN all /\ Under(all, round, 1) = {}
    <3>1. 1 \in 1..len
      BY <1>0, <1>8
    <3>2. \A k \in 1..len : round[k].index # 1
      BY <1>2
    <3> QED  BY <1>0, <3>1, <3>2 DEF Under
  <2>2. Restored(all, round) = {[i \in DOMAIN all |-> round[Min(Nth(all, round, i))].green]}
    <3>1. ~(\A i \in DOMAIN all : Under(all, round, i) # {})
      BY <2>1
    <3>2. ~(Len(round) # Len(all) \/ \E i \in DOMAIN all : Nth(all, round, i) = {})
      BY <1>0, <1>5, <1>6
    <3> QED  BY <3>1, <3>2, RestoredCases
  <2>3. [i \in DOMAIN all |-> round[Min(Nth(all, round, i))].green] = same
    BY <1>0, <1>6
  <2> QED  BY <1>4, <2>2, <2>3
<1> QED  BY <1>7, <1>8

(* A criterion that no event has the key of leaves nothing to restore.     *)
LEMMA UnmeasuredIsNotRestored ==
  ASSUME NEW all, NEW events, NEW i \in DOMAIN all,
         \A k \in DOMAIN events : KeyOf(events[k]) # KeyOf(all[i])
  PROVE  Restored(all, events) = NoBaseline
<1>1. Under(all, events, i) = {}
  BY DEF Under, ValidIndex
<1>2. Nth(all, events, i) = {}
  BY DEF Nth
<1>3. ~(\A j \in DOMAIN all : Under(all, events, j) # {}) /\ \E j \in DOMAIN all : Nth(all, events, j) = {}
  BY <1>1, <1>2
<1> QED  BY <1>3, RestoredCases

(* Neither do more events without an index than there are criteria.        *)
LEMMA TooManyIsNotRestored ==
  ASSUME NEW all \in Seq(Criteria), Len(all) > 0, NEW events, Len(events) # Len(all),
         \A k \in DOMAIN events : events[k].index = 0
  PROVE  Restored(all, events) = NoBaseline
<1>1. Len(all) \in Nat /\ DOMAIN all = 1..Len(all)
  BY LenProperties
<1>2. 1 \in DOMAIN all
  BY <1>1
<1>3. Under(all, events, 1) = {}
  BY DEF Under
<1> QED  BY <1>2, <1>3, RestoredCases

(* The first events of a round are events of it.                           *)
LEMMA FirstEvents ==
  ASSUME NEW all \in Seq(Criteria), NEW mode \in {"standard", "tdd"}, NEW green \in Seq(BOOLEAN),
         Len(green) = Len(all), NEW indexed \in BOOLEAN, NEW n \in 0..Len(all), NEW pi, Orderly(pi, all),
         RoundOf(BaselineEvents(all, mode, green, indexed), Len(all), all, green, indexed, pi)
  PROVE  RoundOf(SubSeq(BaselineEvents(all, mode, green, indexed), 1, n), n, all, green, indexed, pi)
<1> DEFINE events == BaselineEvents(all, mode, green, indexed)
<1>0. /\ Len(all) \in Nat /\ n \in Nat /\ n <= Len(all) /\ pi \in [1..Len(all) -> 1..Len(all)]
      /\ events \in Seq(Events) /\ Len(events) = Len(all)
      /\ \A k \in 1..Len(all) : events[k] = Event(all, green, indexed, pi[k])
  BY LenProperties DEF Orderly, RoundOf
<1> HIDE DEF events
<1>1. \A k \in 1..n : k \in 1..Len(all)
  BY <1>0
<1>2. \A k \in 1..n : events[k] \in Events
  BY <1>0, <1>1, ElementOfSeq
<1>3. /\ SubSeq(events, 1, n) \in Seq(Events)
      /\ Len(SubSeq(events, 1, n)) = IF 1 <= n THEN n - 1 + 1 ELSE 0
      /\ \A k \in 1..(n - 1 + 1) : SubSeq(events, 1, n)[k] = events[1 + k - 1]
  BY <1>0, <1>2, SubSeqProperties
<1>4. Len(SubSeq(events, 1, n)) = n
  BY <1>0, <1>3
<1>5. \A k \in 1..n : SubSeq(events, 1, n)[k] = events[k]
  BY <1>0, <1>3
<1>6. \A k \in 1..n : pi[k] \in 1..Len(all) /\ SubSeq(events, 1, n)[k] = Event(all, green, indexed, pi[k])
  BY <1>0, <1>1, <1>5
<1> QED  BY <1>3, <1>4, <1>6 DEF events, RoundOf

LEMMA RoundIsComplete ==
  ASSUME NEW all \in Seq(Criteria), NEW mode \in {"standard", "tdd"}
  PROVE  \E pi : /\ Orderly(pi, all)
                 /\ \A green \in Seq(BOOLEAN), i \in BOOLEAN : Len(green) = Len(all) =>
                      RoundOf(BaselineEvents(all, mode, green, i), Len(all), all, green, i, pi)
<1>1. PICK pi : /\ Orderly(pi, all)
                /\ \A green \in Seq(BOOLEAN), i \in BOOLEAN : Len(green) = Len(all) =>
                      LET events == BaselineEvents(all, mode, green, i)
                      IN  /\ events \in Seq(Events) /\ Len(events) = Len(all)
                          /\ \A k \in 1..Len(all) : events[k] = Event(all, green, i, pi[k])
  BY RoundIsOrderly
<1>2. \A k \in 1..Len(all) : pi[k] \in 1..Len(all)
  BY <1>1 DEF Orderly
<1> QED  BY <1>1, <1>2 DEF RoundOf

(* Whatever the criteria, equal ones among them, whatever the mode and     *)
(* wherever the rounds were cut: what is restored of a complete last round *)
(* is that round, or nothing if the journal is old and not unambiguous;    *)
(* and nothing is restored when a criterion was never measured.            *)
THEOREM BaselineRestored ==
  ASSUME question \in BaselineQuestions
  PROVE  BaselineIsRestored
<1> DEFINE all == question.all
           mode == question.mode
           indexed == question.indexed
           m == question.m
           n == question.n
           round(green, k) == SubSeq(BaselineEvents(all, mode, green, indexed), 1, k)
           older == round(question.first, m)
           newer == round(question.last, n)
           first == question.first
           last == question.last
<1>1. /\ all \in Seq(Criteria) /\ mode \in {"standard", "tdd"} /\ indexed \in BOOLEAN
      /\ first \in Seq(BOOLEAN) /\ last \in Seq(BOOLEAN) /\ m \in Nat /\ n \in Nat
      /\ Len(first) = Len(all) /\ Len(last) = Len(all) /\ m <= Len(all) /\ n <= Len(all)
  BY DEF BaselineQuestions
<1>2. BaselineIsRestored <=>
        (/\ n = Len(all) => \/ Restored(all, older \o newer) = {last}
                            \/ ~indexed /\ m > 0 /\ Restored(all, older \o newer) = NoBaseline
         /\ (\E i \in DOMAIN all :
               /\ \A j \in DOMAIN all : KeyOf(all[j]) = KeyOf(all[i]) => j = i
               /\ \A e \in ToSet(older \o newer) : KeyOf(e) # KeyOf(all[i]))
              => Restored(all, older \o newer) = NoBaseline)
  <2>1. question.kind = "baseline"
    BY DEF BaselineQuestions
  <2> QED  BY <2>1 DEF BaselineIsRestored
<1> HIDE DEF all, mode, indexed, m, n, first, last
<1>3. Len(all) \in Nat /\ DOMAIN all = 1..Len(all) /\ m \in 0..Len(all) /\ n \in 0..Len(all)
  BY <1>1, LenProperties
<1>4. PICK pi : /\ Orderly(pi, all)
                /\ \A green \in Seq(BOOLEAN), i \in BOOLEAN : Len(green) = Len(all) =>
                     RoundOf(BaselineEvents(all, mode, green, i), Len(all), all, green, i, pi)
  BY <1>1, RoundIsComplete
<1>5. RoundOf(older, m, all, first, indexed, pi)
  <2>1. RoundOf(BaselineEvents(all, mode, first, indexed), Len(all), all, first, indexed, pi)
    BY <1>1, <1>4
  <2> QED  BY <1>1, <1>3, <1>4, <2>1, FirstEvents DEF first
<1>6. RoundOf(newer, n, all, last, indexed, pi)
  <2>1. RoundOf(BaselineEvents(all, mode, last, indexed), Len(all), all, last, indexed, pi)
    BY <1>1, <1>4
  <2> QED  BY <1>1, <1>3, <1>4, <2>1, FirstEvents DEF last
<1> HIDE DEF older, newer
<1>7. /\ Len(older \o newer) = m + n /\ DOMAIN (older \o newer) = 1..(m + n)
      /\ \A k \in 1..(m + n) : (older \o newer)[k] = IF k <= m THEN older[k] ELSE newer[k - m]
  <2>1. older \in Seq(Events) /\ Len(older) = m /\ newer \in Seq(Events) /\ Len(newer) = n
    BY <1>5, <1>6 DEF RoundOf
  <2> QED  BY <2>1, ConcatEvents
<1>8. ASSUME n = Len(all), indexed
      PROVE  Restored(all, older \o newer) = {last}
  <2>1. indexed = TRUE
    BY <1>1, <1>8
  <2>2. RoundOf(newer, Len(all), all, last, TRUE, pi) /\ RoundOf(older, m, all, first, TRUE, pi)
    BY <1>5, <1>6, <1>8, <2>1
  <2> DEFINE events == older \o newer
  <2>3. AfterOlder(events, all, last, pi)
    BY <1>1, <2>2 DEF AfterOlder
  <2> HIDE DEF events
  <2>4. Restored(all, events) = {last}
    BY <1>1, <1>4, <2>3, IndexedIsRestored
  <2> QED  BY <2>4 DEF events
<1>9. ASSUME n = Len(all), ~indexed, m = 0
      PROVE  Restored(all, older \o newer) = {last}
  <2>1. indexed = FALSE
    BY <1>1, <1>9
  <2>2. RoundOf(newer, Len(all), all, last, FALSE, pi)
    BY <1>6, <1>9, <2>1
  <2>3. older \o newer = newer
    <3>1. older \in Seq(Events) /\ Len(older) = 0 /\ newer \in Seq(Events)
      BY <1>5, <1>6, <1>9 DEF RoundOf
    <3>2. older = <<>>
      BY <3>1, EmptySeq
    <3> QED  BY <3>1, <3>2, ConcatEmptySeq
  <2> QED  BY <1>1, <1>4, <2>2, <2>3, UnindexedIsRestored
<1>10. ASSUME n = Len(all), ~indexed, m # 0
       PROVE  m > 0 /\ Restored(all, older \o newer) = NoBaseline
  <2>1. m > 0 /\ Len(all) > 0 /\ Len(older \o newer) # Len(all)
    BY <1>1, <1>3, <1>7, <1>10
  <2>2. ASSUME NEW k \in DOMAIN (older \o newer) PROVE (older \o newer)[k].index = 0
    <3>3. k \in 1..(m + n) /\ (older \o newer)[k] = IF k <= m THEN older[k] ELSE newer[k - m]
      BY <1>7
    <3>4. CASE k <= m
      <4>1. k \in 1..m
        BY <1>1, <3>3, <3>4
      <4>2. (older \o newer)[k] = Event(all, first, indexed, pi[k])
        BY <1>5, <3>3, <3>4, <4>1 DEF RoundOf
      <4> QED  BY <1>10, <4>2 DEF Event
    <3>5. CASE ~(k <= m)
      <4> DEFINE x == k - m
      <4>1. x \in 1..n /\ (older \o newer)[k] = newer[x]
        BY <1>1, <3>3, <3>5
      <4> HIDE DEF x
      <4>2. (older \o newer)[k] = Event(all, last, indexed, pi[x])
        BY <1>6, <4>1 DEF RoundOf
      <4> QED  BY <1>10, <4>2 DEF Event
    <3> QED  BY <3>4, <3>5
  <2> QED  BY <1>1, <2>1, <2>2, TooManyIsNotRestored
<1>11. ASSUME NEW i \in DOMAIN all, \A e \in ToSet(older \o newer) : KeyOf(e) # KeyOf(all[i])
       PROVE  Restored(all, older \o newer) = NoBaseline
  <2>1. \A k \in DOMAIN (older \o newer) : KeyOf((older \o newer)[k]) # KeyOf(all[i])
    BY <1>11 DEF ToSet
  <2> QED  BY <2>1, UnmeasuredIsNotRestored
<1>12. n = Len(all) => \/ Restored(all, older \o newer) = {last}
                       \/ ~indexed /\ m > 0 /\ Restored(all, older \o newer) = NoBaseline
  BY <1>8, <1>9, <1>10
<1> QED  BY <1>2, <1>11, <1>12
=============================================================================
