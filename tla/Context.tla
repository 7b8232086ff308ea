------------------------------ MODULE Context -------------------------------
(***************************************************************************)
(* What an attempt's prompt is made of (context/builder.py, budget.py),    *)
(* and the way of a handoff (exec/handoff.py) from the outbox of the task  *)
(* that wrote it into the prompts of those that build on it.               *)
(*                                                                         *)
(* A section is [layer, tokens, fields]: fields are those of a handoff it  *)
(* shows.  Where a section's text comes from is left out, but for L4: a    *)
(* task's sources give the sizes of the others, layer by layer, the ones   *)
(* that were not found left out.                                           *)
(***************************************************************************)
EXTENDS Integers, Sequences, FiniteSetsExt, SequencesExt

FixedLayers == {"L0", "L1", "L2", "L3", "L4", "L8"}
OptionalOrder == <<"L5", "L6", "L7">>
\* Mutant: no layer is exempt.
CappedLayersAll == FixedLayers \cup ToSet(OptionalOrder)
CappedLayers == {"L2", "L3", "L5", "L6", "L7"}

-----------------------------------------------------------------------------
\* raw is [kind, fields]: absent, unreadable (no text, no JSON, or not as the
\* schema has it) or valid. An artifact is the set of its fields, or none.
NoArtifact == [valid |-> FALSE, fields |-> {}]
Normalize(raw) ==
    IF raw.kind = "valid" THEN [valid |-> TRUE, fields |-> raw.fields] ELSE NoArtifact

GatePasses(task, artifact) == task.required \subseteq artifact.fields

\* verification.json of a task, its diff's fields apart from its handoff's.
MergeOutput(task, computed, artifact) ==
    [harness |-> computed, agent |-> (task.required \cup task.optional) \cap artifact.fields]

\* The first handoff of the attempt and those of its repairs: each is judged
\* by itself, and the first that passes is the one that is recorded.
HandoffRecord(task, raws, computed) ==
    LET passing == {i \in DOMAIN raws : GatePasses(task, Normalize(raws[i]))}
    IN [verified |-> passing # {},
        output   |-> MergeOutput(task, computed,
                        Normalize(IF passing = {} THEN Last(raws) ELSE raws[Min(passing)]))]

-----------------------------------------------------------------------------
Section(layer, tokens, fields) == [layer |-> layer, tokens |-> tokens, fields |-> fields]

\* An output has a section for either part that is not empty.
UpstreamSections(output, tokens) ==
    LET part(fields) == IF fields = {} THEN <<>> ELSE <<Section("L4", tokens, fields)>>
    IN part(output.harness) \o part(output.agent)

\* upstream: the outputs of the tasks it depends on; sizes[layer]: how much
\* each source has found; a field takes sizes.L4.
SectionsOf(sizes, upstream) ==
    LET found(layer) == [i \in DOMAIN sizes[layer] |-> Section(layer, sizes[layer][i], {})]
    IN found("L0") \o found("L1") \o found("L2") \o found("L3")
       \o FlattenSeq([i \in DOMAIN upstream |-> UpstreamSections(upstream[i], sizes.L4)])
       \o found("L5") \o found("L6") \o found("L7") \o found("L8")

Cost(sections, indexes) ==
    LET total[n \in 0..Len(sections)] ==
          IF n = 0 THEN 0 ELSE total[n - 1] + (IF n \in indexes THEN sections[n].tokens ELSE 0)
    IN total[Len(sections)]

Oversized(sections, limits) ==
    {i \in DOMAIN sections :
        sections[i].layer \in CappedLayers /\ sections[i].tokens > limits.slice}

\* The indexes that are kept: what is reserved, and as many of the optional
\* layers, the higher first, as fit into what is left.
Fit(sections, limits) ==
    LET in(layers) == {i \in DOMAIN sections \ Oversized(sections, limits) : sections[i].layer \in layers}
        reserved   == in(FixedLayers)
        remaining  == limits.budget - limits.reserve - Cost(sections, reserved)
        leading(n) == in({OptionalOrder[k] : k \in 1..n})
    IN reserved \cup leading(Max({0} \cup {n \in 1..3 : Cost(sections, leading(n)) <= remaining}))

\* The sections and what the prompt holds of them; the manifest has the rest,
\* with the reason why it was dropped.
Build(sizes, upstream, limits) ==
    LET sections == SectionsOf(sizes, upstream)
    IN [sections |-> sections, kept |-> Fit(sections, limits)]
=============================================================================
