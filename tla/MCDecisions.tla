---------------------------- MODULE MCDecisions -----------------------------
(***************************************************************************)
(* The modules that decide without a state of their own, asked every       *)
(* question of a bounded set: what an attempt is judged to be, what a      *)
(* journal's baseline restores to, whether analysed files may be run,      *)
(* which tasks may overlap.  Beside them the one that keeps state but has  *)
(* nothing to do with a run, Knowledge, which goes on while nothing is     *)
(* asked.                                                                  *)
(***************************************************************************)
EXTENDS Decisions, Knowledge

Init == KInit /\ question = NoQuestion

\* Everything is asked in the first state, or about what was chosen there.
Asking == question = NoQuestion /\ runs = <<>> /\ memory = <<>> /\ UNCHANGED kvars
About(kind) == question.kind = kind /\ UNCHANGED kvars

\* Sequences over S of the lengths given.
SequencesOver(S, lengths) == UNION {[1..n -> S] : n \in lengths}

-----------------------------------------------------------------------------
\* The commands: test and tset are different vectors with the same text.
MCText == [test |-> "run the tests", tset |-> "run the tests", lint |-> "lint"]
MCHash == [test |-> 1, tset |-> 2, lint |-> 3]
MCPrograms == {"test", "tset", "lint"}

Rule(match, verdict) == [match |-> match, verdict |-> verdict]
Approved(c, by) == [cmd |-> c, hash |-> MCHash[c], approver |-> by]
Open     == [default |-> "allow", rules |-> <<>>, approvals |-> <<>>]
Policies == {
    Open,
    \* nothing is approved but the vector that only looks like the tests: the
    \* first approval of the tests does not say whose it is
    [default |-> "require_approval", rules |-> <<Rule({"lint"}, "allow")>>,
     approvals |-> <<Approved("tset", "human"), Approved("test", NoApprover), Approved("test", "human")>>],
    [default |-> "require_approval", rules |-> <<Rule({"lint"}, "allow")>>,
     approvals |-> <<Approved("test", "human")>>],
    \* the first rule counts
    [default |-> "allow", rules |-> <<Rule({"lint"}, "deny"), Rule({"lint"}, "allow")>>,
     approvals |-> <<Approved("lint", "human")>>]}

Criterion(c, expect, shell) == [cmd |-> c, expect |-> expect, shell |-> shell]
Proof      == Criterion("test", TRUE, FALSE)
Guard      == Criterion("lint", FALSE, FALSE)
ShellGuard == Criterion("lint", FALSE, TRUE)

Fact(name) == [kind |-> "fact", name |-> name, shell |-> FALSE]
Command(c) == [kind |-> "command", cmd |-> c, shell |-> TRUE]

World(test, lint, facts) ==
    [endings |-> [test |-> test, tset |-> "zero", lint |-> lint], facts |-> facts]

AskTask ==
    /\ Asking
    /\ \E kind \in TaskKind, policy \in Policies,
          acceptance \in {<<>>, <<Proof>>, <<Guard, Proof>>, <<ShellGuard>>},
          preconditions \in {<<>>, <<Fact("db")>>, <<Command("lint")>>} :
         question' = [kind |-> "task", policy |-> policy,
                      task |-> [kind |-> kind, acceptance |-> acceptance, preconditions |-> preconditions]]

AskAttempt ==
    /\ About("task")
    /\ \E t0, t1 \in {"zero", "nonzero", "refused"}, l0, l1 \in {"zero", "timeout", "refused"},
          f0 \in {{"db"}}, f1 \in {{}, {"db"}},
          empty, outside, failure, hint \in BOOLEAN, signals \in {{}, {"refused", "require_approval"}} :
         /\ empty => ~outside
         /\ failure => ~hint /\ f1 = {"db"} /\ signals = {}
         /\ question' =
              [kind |-> "attempt", policy |-> question.policy, signals |-> signals, task |-> question.task,
               env |-> [before |-> World(t0, l0, f0), after |-> World(t1, l1, f1),
                        later |-> World(t1, l1, f1), failure |-> failure, hint |-> hint,
                        diff |-> [empty |-> empty, outside |-> outside]]]

-----------------------------------------------------------------------------
\* A baseline is recorded, perhaps once more after a kill at any point of it.
AskCriteria ==
    /\ Asking
    /\ \E all \in SequencesOver({Proof, Guard, ShellGuard}, 1..3), mode \in {"standard", "tdd"} :
         question' = [kind |-> "criteria", all |-> all, mode |-> mode]

AskBaseline ==
    /\ About("criteria")
    /\ LET all == question.all
       IN \E first, last \in [DOMAIN all -> BOOLEAN], m, n \in 0..Len(all), indexed \in BOOLEAN :
            question' = [kind |-> "baseline", all |-> all, mode |-> question.mode, indexed |-> indexed,
                         first |-> first, last |-> last, m |-> m, n |-> n]

-----------------------------------------------------------------------------
\* Patterns and paths.
Segments == {<<"a">>, <<"*">>, <<"?">>, <<"*", "*">>, <<"a", "*">>, <<"a", "b">>}

AskGlob ==
    /\ Asking
    /\ \E pattern \in SequencesOver(Segments, 1..3),
          path \in SequencesOver({<<"a">>, <<"b">>, <<"a", "b">>}, 1..3) :
         /\ \A i \in 1..(Len(pattern) - 1) : ~(pattern[i] = DoubleStar /\ pattern[i + 1] = DoubleStar)
         /\ question' = [kind |-> "glob", pattern |-> pattern, path |-> path]

\* Two tasks and what they declare.
Patterns == SequencesOver({"a", "b", "/", "*"}, 1..3)
            \cup {<<"a", "/", "*", "*">>, <<"*", "*", "/", "a">>, <<"a", "b", "*", "*">>, <<"a", "*", "/", "b">>}
Paths == {Joined(p) : p \in SequencesOver({<<"a">>, <<"b">>, <<"a", "b">>}, 1..2)}

AskPair ==
    /\ Asking
    /\ \E lhs, rhs \in {{}} \cup {{p} : p \in Patterns} \cup {{<<"b">>, <<"a", "/", "*", "*">>}},
          profile \in {"worktree", "safe"} :
         question' = [kind |-> "pair", lhs |-> [profile |-> profile, allowed |-> lhs],
                      rhs |-> [profile |-> "worktree", allowed |-> rhs], paths |-> Paths]

-----------------------------------------------------------------------------
\* Task files: a graph of three tasks with paths, or a task with a contract.
Node(depends, allowed) ==
    [kind |-> "analysis", depends |-> depends, satisfies |-> <<>>, acceptance |-> <<>>,
     preconditions |-> <<>>, outputs |-> {}, profile |-> "worktree", allowed |-> allowed, hash |-> "none"]
GraphFiles(depends, allowed) ==
    [specs |-> <<>>, tasks |-> [t \in DOMAIN depends |-> Node(depends[t], allowed[t])]]

Spec(requirements, unclear, hash) == [requirements |-> requirements, unclear |-> unclear, hash |-> hash]

AskGraph ==
    /\ Asking
    /\ \E depends \in [1..3 -> SUBSET (1..3)], extra \in {{}, {4}},
          allowed \in [1..3 -> {{<<"a">>}, {<<"b">>}, {}}] :
         LET files == GraphFiles([depends EXCEPT ![3] = @ \cup extra], allowed)
         IN \E edited \in {files, [files EXCEPT !.tasks[1].depends = {3}]} :
              question' = [kind |-> "analysis", files |-> files, edited |-> edited, policy |-> Open]

AskContract ==
    /\ About("task")
    /\ \E satisfies \in {<<>>, <<"R1">>, <<"R2", "R1">>}, hash \in {"none", "h1", "h2"},
          outputs \in {{}, {"api"}, {"changed_files"}}, unclear \in BOOLEAN,
          requirements \in [1..2 -> SUBSET {"R1", "R2"}], other \in {<<>>, <<"R1">>} :
         LET given == question.task
             task  == [kind |-> given.kind, depends |-> {}, satisfies |-> satisfies,
                       acceptance |-> given.acceptance, preconditions |-> given.preconditions, outputs |-> outputs, profile |-> "safe",
                       allowed |-> {}, hash |-> hash]
             files == [specs |-> <<Spec(requirements[1], unclear, "h1"), Spec(requirements[2], FALSE, "h2")>>,
                       tasks |-> (1 :> task) @@ (2 :> [Node({1}, {}) EXCEPT !.satisfies = other])]
         IN question' = [kind |-> "analysis", files |-> files, edited |-> files, policy |-> question.policy]

-----------------------------------------------------------------------------
\* A task that hands over, the repairs of its handoff, and the prompt of one
\* that builds on it.
Raw(kind, fields) == [kind |-> kind, fields |-> fields]

AskHandoff ==
    /\ Asking
    /\ \E required \in {{}, {"api"}, {"api", "db"}}, optional \in {{}, {"note"}},
          raws \in SequencesOver({Raw("absent", {}), Raw("unreadable", {"api"}), Raw("valid", {"api", "note"}),
                                  Raw("valid", {"api", "db"})}, 1..2) :
         question' = [kind |-> "handoff", raws |-> raws, task |-> [required |-> required, optional |-> optional]]

AskPrompt ==
    /\ About("handoff")
    /\ \E l0 \in {<<>>, <<2>>}, l2 \in {<<1>>, <<3>>}, l4 \in {1, 3}, l5 \in {<<>>, <<2>>},
          l6 \in {<<>>, <<1, 2>>, <<3>>}, l7 \in {<<>>, <<1>>, <<1, 3>>},
          budget \in {0, 6, 11, 20}, reserve \in {0, 3}, slice \in {1, 2} :
         question' = [kind |-> "prompt", raws |-> question.raws, task |-> question.task,
                      sizes |-> [L0 |-> l0, L1 |-> <<1, 1>>, L2 |-> l2, L3 |-> <<1>>, L4 |-> l4, L5 |-> l5,
                                 L6 |-> l6, L7 |-> l7, L8 |-> <<1>>],
                      limits |-> [budget |-> budget, reserve |-> reserve, slice |-> slice]]

-----------------------------------------------------------------------------
Next ==
    \/ AskTask \/ AskAttempt \/ AskContract
    \/ AskCriteria \/ AskBaseline
    \/ AskHandoff \/ AskPrompt
    \/ AskGlob \/ AskPair \/ AskGraph
    \/ question = NoQuestion /\ KNext /\ UNCHANGED question

DecisionsSpec == Init /\ [][Next]_<<question, kvars>>
=============================================================================
