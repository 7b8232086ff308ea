----------------------------- MODULE Decisions ------------------------------
(***************************************************************************)
(* What the modules that decide without a state of their own must answer.  *)
(* They are asked one question at a time: what an attempt is judged to be, *)
(* what a journal's baseline restores to, whether analysed files may be    *)
(* run, which tasks may overlap, what a prompt holds.                      *)
(***************************************************************************)
EXTENDS Analysis, Context

VARIABLE question

NoQuestion == [kind |-> "none"]

-----------------------------------------------------------------------------
\* The questions about an attempt. A command is what Text and Hash know of.
Commands == DOMAIN Text
Texts    == {Text[c] : c \in Commands}
Hashes   == {Hash[c] : c \in Commands}
CommandPolicies ==
    [default : PolicyVerdict, rules : Seq([match : SUBSET Texts, verdict : PolicyVerdict]),
     approvals : Seq([cmd : Commands, hash : Hashes, approver : STRING])]
Criteria == [cmd : Commands, expect : BOOLEAN, shell : BOOLEAN]
Preconditions ==
    [kind : {"fact"}, name : STRING, shell : BOOLEAN] \cup [kind : {"command"}, cmd : Commands, shell : BOOLEAN]
JudgedTasks  == [kind : TaskKind, acceptance : Seq(Criteria), preconditions : Seq(Preconditions)]
Worlds       == [endings : [Commands -> Endings], facts : SUBSET STRING]
Environments == [before : Worlds, after : Worlds, later : Worlds, failure : BOOLEAN, hint : BOOLEAN,
                 diff : [empty : BOOLEAN, outside : BOOLEAN]]
AttemptQuestions ==
    [kind : {"attempt"}, policy : CommandPolicies, signals : SUBSET STRING, task : JudgedTasks,
     env : Environments]

\* The first approval on file for this very vector says who gave it.
Signed(policy, c) ==
    LET own(i) == policy.approvals[i].cmd = c /\ policy.approvals[i].hash = Hash[c]
    IN \E i \in DOMAIN policy.approvals :
          own(i) /\ policy.approvals[i].approver # NoApprover /\ \A j \in 1..(i - 1) : ~own(j)

\* The first rule that matches says it, or else the default.
FirstMatch(policy, c) ==
    {i \in DOMAIN policy.rules : /\ Text[c] \in policy.rules[i].match
                                /\ \A j \in 1..(i - 1) : Text[c] \notin policy.rules[j].match}
Says(policy, c, verdict) ==
    IF FirstMatch(policy, c) = {} THEN policy.default = verdict
    ELSE \A i \in FirstMatch(policy, c) : policy.rules[i].verdict = verdict

\* A command runs when it is not denied and either allowed outright or approved
\* by a human as this very vector.
Permitted(policy, c, shell) ==
    ~Says(policy, c, "deny") /\ ((Says(policy, c, "allow") /\ ~shell) \/ Signed(policy, c))

Holds(p, policy, world) ==
    \/ p.kind = "fact" /\ p.name \in world.facts
    \/ p.kind = "command" /\ Permitted(policy, p.cmd, FALSE) /\ world.endings[p.cmd] = "zero"

\* The conditions of docs/06 without its procedure. Evidence is complete only
\* when the harness saw each criterion that was green stay green and each that
\* was to fail first go from red to green, in commands the policy let run, with
\* the diff the kind asks for, in bounds. (Of a criterion that need not fail
\* first and was not green before, nothing is asked: it may pass as a debt that
\* is kept, without having been executed at all; AcceptanceIsObserved is about
\* that one.) An attempt is rejected for what it did, never for a failure that
\* was there before; it is blocked only on what the harness saw of the
\* environment itself; and what the agent says of it can only make the harness
\* look.
VerdictIsEarned ==
    question.kind = "attempt" =>
        LET task == question.task
            env  == question.env
            criteria == ToSet(task.acceptance)
            green(c, world) == Permitted(question.policy, c.cmd, c.shell) /\ world.endings[c.cmd] = "zero"
            broken == {c \in criteria : ~green(c, env.after) /\ (c.expect \/ green(c, env.before))}
            missing(world) == {p \in ToSet(task.preconditions) : ~Holds(p, question.policy, world)}
        IN \A judged \in {AttemptOf(task, question.policy, question.signals, env)},
              told \in {AttemptOf(task, question.policy, question.signals, [env EXCEPT !.hint = ~@])} :
           /\ judged = Passed =>
                /\ broken = {} /\ missing(env.before) = {} /\ ~env.failure /\ ~env.diff.outside
                /\ \A c \in criteria : c.expect => ~green(c, env.before) /\ green(c, env.after)
                /\ task.kind = "implementation" => ~env.diff.empty
                /\ task.kind = "readonly" => env.diff.empty
           /\ judged.verdict = "rejected" =>
                broken # {} \/ env.diff.outside \/ (task.kind = "readonly" /\ ~env.diff.empty)
           /\ judged.verdict = "blocked" =>
                \/ missing(env.before) # {} \/ missing(env.later) # {}
                \/ \E c \in broken :
                      (IF Permitted(question.policy, c.cmd, c.shell) THEN env.after.endings[c.cmd]
                       ELSE Decide(question.policy, c.cmd, c.shell).verdict) \in question.signals
           /\ judged # told => "blocked" \in {judged.verdict, told.verdict} /\ missing(env.later) # {}

\* docs/06:103, "[3] post: every AC is executed again", and :62, "Unapproved in
\* unattended execution is verdict `blocked`": what passes was executed.
AcceptanceIsObserved ==
    /\ question.kind = "attempt"
    /\ AttemptOf(question.task, question.policy, question.signals, question.env) = Passed
    => \A c \in ToSet(question.task.acceptance) : Permitted(question.policy, c.cmd, c.shell)

-----------------------------------------------------------------------------
\* The questions about a journal: the first m events of a round that was cut
\* short and the first n of the last one.
BaselineQuestions ==
    {q \in [kind : {"baseline"}, all : Seq(Criteria), mode : {"standard", "tdd"}, indexed : BOOLEAN,
            first : Seq(BOOLEAN), last : Seq(BOOLEAN), m : Nat, n : Nat] :
        /\ Len(q.first) = Len(q.all) /\ Len(q.last) = Len(q.all)
        /\ q.m <= Len(q.all) /\ q.n <= Len(q.all)}

\* A resumed attempt is judged on the baseline it measured: if the last round
\* is complete, on that round and no older one, criterion by criterion, in
\* whatever order TDD measured them and although two criteria may be equal (an
\* old journal without indexes may restore nothing); and a criterion never
\* measured is not made up from others. exec/runner.py:666-717.
BaselineIsRestored ==
    question.kind = "baseline" =>
        LET q == question
            round(green, n) == SubSeq(BaselineEvents(q.all, q.mode, green, q.indexed), 1, n)
            events   == round(q.first, q.m) \o round(q.last, q.n)
            restored == Restored(q.all, events)
            alone(i) == \A j \in DOMAIN q.all : KeyOf(q.all[j]) = KeyOf(q.all[i]) => j = i
        IN /\ q.n = Len(q.all) =>
                \/ restored = {q.last}
                \/ ~q.indexed /\ q.m > 0 /\ restored = NoBaseline
           /\ (\E i \in DOMAIN q.all : alone(i) /\ \A e \in ToSet(events) : KeyOf(e) # KeyOf(q.all[i]))
                => restored = NoBaseline

-----------------------------------------------------------------------------
\* Patterns and paths, segment by segment.
Joined(segments) ==
    LET text[n \in 1..Len(segments)] ==
            IF n = 1 THEN segments[1] ELSE text[n - 1] \o <<"/">> \o segments[n]
    IN text[Len(segments)]
DoubleStar == <<"*", "*">>

\* The questions about a glob. A path and a pattern are lists of segments; a
\* star beside another is a segment of its own, and no two of these follow each
\* other. A "." at the beginning is what normalisation drops.
Segment == {s \in Seq(STRING) : s # <<>> /\ \A i \in 1..Len(s) : s[i] # "/"}
Steady(s) == \A i \in 1..(Len(s) - 1) : ~(s[i] = "*" /\ s[i + 1] = "*")
Whereabouts == {path \in Seq(Segment) : path # <<>> /\ path[1] # <<".">>}
Globs ==
    {pattern \in Whereabouts :
        /\ \A i \in 1..Len(pattern) : pattern[i] = DoubleStar \/ Steady(pattern[i])
        /\ \A i \in 1..(Len(pattern) - 1) : ~(pattern[i] = DoubleStar /\ pattern[i + 1] = DoubleStar)}
GlobQuestions == [kind : {"glob"}, pattern : Globs, path : Whereabouts]

\* The ways to divide a list that ends before end into n parts, some of them
\* empty: where each part begins.
Divisions(n, end) == {at \in [1..(n + 1) -> 1..end] : at[1] = 1 /\ at[n + 1] = end}

SegmentMatches(pattern, text) ==
    \E at \in Divisions(Len(pattern), Len(text) + 1) :
        \A i \in 1..Len(pattern) :
            IF pattern[i] = "*" THEN at[i] <= at[i + 1]
            ELSE at[i + 1] = at[i] + 1 /\ pattern[i] \in {"?", text[at[i]]}

\* The table of docs/05: `**` is zero or more segments, so that "src/api/**"
\* covers src/api itself, `*` and `?` stay within a segment. The translation to
\* a regular expression (paths.py:25-50), which knows no segments, agrees, also
\* with a leading "./" or a trailing "/" on either side.
GlobIsSegmentwise ==
    question.kind = "glob" =>
        LET pattern == question.pattern
            path    == question.path
            matches == \E at \in Divisions(Len(pattern), Len(path) + 1) :
                          \A i \in 1..Len(pattern) :
                             IF pattern[i] = DoubleStar THEN at[i] <= at[i + 1]
                             ELSE at[i + 1] = at[i] + 1 /\ SegmentMatches(pattern[i], path[at[i]])
        IN \A p \in {Joined(path), <<".", "/">> \o Joined(path) \o <<"/">>},
              q \in {Joined(pattern), <<".", "/">> \o Joined(pattern) \o <<"/">>} :
                MatchesGlob(p, q) <=> matches

\* The questions about two tasks: what they declare and the paths they may
\* change. A pattern does not begin with "./".
Relative  == {p \in Seq(STRING) : ~(Len(p) >= 2 /\ p[1] = "." /\ p[2] = "/")}
Scoped    == [profile : {"worktree", "safe"}, allowed : SUBSET Relative]
PairQuestions == [kind : {"pair"}, lhs : Scoped, rhs : Scoped, paths : SUBSET Seq(STRING)]

\* Two tasks that are run side by side have worktrees of their own, and no
\* change is in bounds for both: the literal prefixes the scheduler compares
\* never say less than the patterns verification matches. (A leading "./" is
\* left out because only the latter drops it.)
ScopesAreConservative ==
    question.kind = "pair" /\ ~Conflicts(question.lhs, question.rhs) =>
        /\ ~SharesWorktree(question.lhs) /\ ~SharesWorktree(question.rhs)
        /\ \A path \in question.paths :
             ~(PathViolations({path}, question.lhs.allowed, {}) = {}
               /\ PathViolations({path}, question.rhs.allowed, {}) = {})

-----------------------------------------------------------------------------
\* The questions about an analysis: the files it saw, those of the run, and
\* the policy. A task is named by a number.
SpecFiles == [unclear : BOOLEAN, requirements : SUBSET STRING, hash : STRING]
TaskFiles ==
    [kind : TaskKind, depends : SUBSET Nat, satisfies : Seq(STRING), acceptance : Seq(Criteria),
     preconditions : Seq(Preconditions), outputs : SUBSET STRING, profile : {"worktree", "safe"},
     allowed : SUBSET Seq(STRING), hash : STRING \cup {NoHash}]
Analysed ==
    [specs : Seq(SpecFiles),
     tasks : UNION {[ids -> TaskFiles] : ids \in {S \in SUBSET Nat : IsFiniteSet(S)}}]
AnalysisQuestions ==
    [kind : {"analysis"}, files : Analysed, edited : Analysed, policy : CommandPolicies]

Smooth == [endings |-> [c \in Commands |-> "zero"], facts |-> {}]

\* docs/08: what the gate of `run` lets through after an analysis can be run.
\* The graph is ordered, every task once and after all it builds on; no command
\* of it is denied when it is reached; every requirement is claimed by a task
\* and belongs to one spec; no implementation goes without a criterion; and
\* when no pair was warned about, no two tasks that are ever ready together
\* keep one another waiting.
AnalysedIsRunnable ==
    question.kind = "analysis" /\ GateOpen(RecordOf(question.files, question.policy), question.edited) =>
        LET specs   == question.edited.specs
            tasks   == question.edited.tasks
            depends == DependsOf(tasks)
            order   == Topological(depends)
            closed  == {v \in SUBSET DOMAIN tasks : \A t \in v : depends[t] \subseteq v}
        IN /\ ToSet(order) = DOMAIN tasks /\ Len(order) = Cardinality(DOMAIN tasks)
           /\ \A i \in DOMAIN order : depends[order[i]] \subseteq {order[j] : j \in 1..(i - 1)}
           /\ \A t \in DOMAIN tasks :
                /\ \A c \in ToSet(tasks[t].acceptance) : ~Observe(c, question.policy, Smooth.endings).denied
                /\ \A p \in ToSet(tasks[t].preconditions) : ~Probe(p, question.policy, Smooth).denied
                /\ tasks[t].kind = "implementation" => tasks[t].acceptance # <<>>
           /\ \A r \in Requirements(specs) :
                (\E t \in DOMAIN tasks : r \in ToSet(tasks[t].satisfies)) /\ Cardinality(Holders(specs, r)) = 1
           /\ ParallelConflicts(tasks) = {} =>
                \A v \in closed :
                  LET ready == ReadyTasks(depends, v, DOMAIN tasks \ v)
                  IN \A i, j \in DOMAIN ready : i # j => ~Conflicts(tasks[ready[i]], tasks[ready[j]])

-----------------------------------------------------------------------------
\* The questions about a prompt.
Layers  == FixedLayers \cup ToSet(OptionalOrder)
Sizes   == [L0 : Seq(Nat), L1 : Seq(Nat), L2 : Seq(Nat), L3 : Seq(Nat), L4 : Nat,
            L5 : Seq(Nat), L6 : Seq(Nat), L7 : Seq(Nat), L8 : Seq(Nat)]
Fields   == STRING \cup HarnessFields
Handoffs == [kind : {"absent", "unreadable", "valid"}, fields : SUBSET Fields]
PromptQuestions ==
    [kind : {"prompt"}, raws : Seq(Handoffs), task : [required : SUBSET Fields, optional : SUBSET Fields],
     sizes : Sizes, limits : [budget : Nat, reserve : Nat, slice : Nat]]

\* A section that is not too long for its layer, and an optional layer's place.
Whole(section, limits, i) ==
    section[i].layer \in {"L0", "L1", "L4", "L8"} \/ section[i].tokens <= limits.slice
Place(l) == CHOOSE n \in 1..3 : OptionalOrder[n] = l
UpToLayer(section, limits, l) ==
    {i \in DOMAIN section :
        /\ Whole(section, limits, i)
        /\ section[i].layer \in FixedLayers \/ Place(section[i].layer) <= Place(l)}

\* docs/07: the required outputs of what a task builds on are in its prompt,
\* whatever the budget, as no handoff gate lets a task be done without them;
\* nothing else that is reserved falls out either; what is optional is left
\* out by the layer, from the lowest, and only when it does not fit.
PromptKeepsPromises ==
    question.kind = "prompt" =>
        LET task      == question.task
            limits    == question.limits
            handed    == HandoffRecord(task, question.raws, {"changed_files"})
            built     == Build(question.sizes, <<handed.output>>, limits)
            section   == built.sections
        IN /\ handed.verified =>
                \A o \in task.required : \E i \in built.kept : o \in section[i].fields
           /\ \A i \in DOMAIN section :
                section[i].layer \in FixedLayers => (i \in built.kept <=> Whole(section, limits, i))
           /\ \A i \in DOMAIN section : section[i].layer \notin FixedLayers =>
                (i \in built.kept <=>
                    /\ Whole(section, limits, i)
                    /\ Cost(section, UpToLayer(section, limits, section[i].layer)) <= limits.budget - limits.reserve)

=============================================================================
