------------------------------- MODULE Policy -------------------------------
(***************************************************************************)
(* The command policy (policy.py), which every command the harness runs    *)
(* goes through, and the probes (probes.py), the observations the harness  *)
(* makes of the environment itself.                                        *)
(*                                                                         *)
(* A command is a name for an argument vector.  Text[c] is the line it is  *)
(* joined to, on which the rules match: two vectors may have one text.     *)
(* Hash[c] is the key of its approval.  A policy is a record of the        *)
(* default verdict, the rules and the approvals.                           *)
(***************************************************************************)
EXTENDS Naturals, Sequences, FiniteSetsExt

CONSTANTS Text, Hash

PolicyVerdict == {"allow", "require_approval", "deny"}
Strength == [allow |-> 0, require_approval |-> 1, deny |-> 2]

NoApprover == "none"

\* The rules that match; a rule's match is the set of texts its pattern finds.
Matching(policy, c) == {i \in 1..Len(policy.rules) : Text[c] \in policy.rules[i].match}

\* The first match decides, else the default.
Ruled(policy, c) ==
    IF Matching(policy, c) = {} THEN policy.default
    ELSE policy.rules[Min(Matching(policy, c))].verdict

\* The first approval of this hash and of this very vector.
Approver(policy, c) ==
    LET found == {i \in 1..Len(policy.approvals) :
                     policy.approvals[i].hash = Hash[c] /\ policy.approvals[i].cmd = c}
    IN IF found = {} THEN NoApprover ELSE policy.approvals[Min(found)].approver

\* Declaring a shell raises the verdict, it never lowers it.
Decide(policy, c, shell) ==
    LET ruled   == Ruled(policy, c)
        verdict == IF shell /\ Strength[ruled] < Strength["require_approval"]
                   THEN "require_approval" ELSE ruled
    IN [verdict  |-> verdict,
        approver |-> IF verdict = "require_approval" THEN Approver(policy, c) ELSE NoApprover]

MayExecute(decision) ==
    \/ decision.verdict = "allow"
    \/ decision.verdict = "require_approval" /\ decision.approver # NoApprover

Denied(decision) == decision.verdict = "deny"

-----------------------------------------------------------------------------
\* What comes of a command that is started; "refused" stands for a failure
\* whose stderr names a missing service, the others say nothing of the kind.
Endings == {"zero", "nonzero", "refused", "timeout", "unstartable"}

ExitOf(ending) ==
    CASE ending = "zero" -> "zero"
      [] ending \in {"nonzero", "refused"} -> "nonzero"
      [] OTHER -> "none"

\* endings[c] is what the environment makes of c. A command that may not be
\* executed leaves no exit code and no output.
RunCommand(policy, c, shell, endings) ==
    LET decision == Decide(policy, c, shell)
    IN IF MayExecute(decision)
       THEN [decision |-> decision, executed |-> TRUE, exit |-> ExitOf(endings[c]),
             stderr |-> endings[c], timed_out |-> endings[c] = "timeout"]
       ELSE [decision |-> decision, executed |-> FALSE, exit |-> "none",
             stderr |-> "", timed_out |-> FALSE]

\* A precondition is a fact (a variable or a file that is there or not), a
\* command, whose shell declaration is not looked at, or of an unknown kind.
\* world is [endings, facts].
Probe(p, policy, world) ==
    CASE p.kind = "command" ->
           LET result == RunCommand(policy, p.cmd, FALSE, world.endings)
           IN [ok |-> result.executed /\ result.exit = "zero", denied |-> Denied(result.decision)]
      [] p.kind = "fact" -> [ok |-> p.name \in world.facts, denied |-> FALSE]
      [] OTHER -> [ok |-> FALSE, denied |-> FALSE]

ProbeAll(preconditions, policy, world) ==
    [i \in DOMAIN preconditions |-> Probe(preconditions[i], policy, world)]

\* config.blocked_signals, as the set of the texts its patterns find.
MatchesSignal(stderr, signals) == stderr \in signals
=============================================================================
