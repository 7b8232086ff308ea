---------------------------- MODULE StagesProofs ----------------------------
(***************************************************************************)
(* Stages proved: for every number of attempts, waves and reviewers, every *)
(* set of findings and every mix of kills and faults.                      *)
(*                                                                         *)
(* The inductive invariant is a conjunction of parts, each about one thing *)
(* the code keeps track of across kills: the numbers of the attempts, the  *)
(* worktree, the place in the review, the red gate, the judgement, what a  *)
(* dead call left, and what the reviewers said.                            *)
(***************************************************************************)
EXTENDS Stages, TLAPS

Live      == PCs \ {"dead", "start", "record", "returned"}
InAttempt == Live \ {"dispatch"}
Calls     == {"authoring", "implementing", "reviewing", "fixing"}
Authoring == {"author", "authoring", "check_author", "red_gate", "record_red"}
Reviewing == {"reviewer", "reviewing", "compare"}
Fixing    == {"fixer", "fixing", "judge_fix"}
Judging   == {"implement", "implementing", "record_implementation", "verify", "tier", "wave_end",
              "tampered", "terminal"} \cup Reviewing \cup Fixing

\* The attempt is the one under way, or the next one, of which nothing is
\* recorded.
UnderWay == n = proj.attempt /\ proj.judged < proj.attempt
NotBegun == n = proj.attempt + 1 /\ proj.judged = proj.attempt

Numbers ==
    /\ proj.judged <= proj.attempt
    /\ pc # "returned" => proj.state \notin Closed
    /\ proj.judged = proj.attempt /\ proj.state \notin Closed => proj.attempt < MaxAttempts
    /\ pc \in {"start", "dispatch", "record"} => UnderWay \/ NotBegun
    /\ pc \in InAttempt => UnderWay
    /\ pc = "start" /\ point # "start" => UnderWay
    /\ pc = "record" /\ NotBegun => outcome = "budget_exhausted"

Worktree ==
    /\ pc \in Live => tree # Nothing
    /\ pc = "start" /\ point # "start" => tree # Nothing
    /\ mode = "standard" /\ tree # Nothing => tree.tests = "red"

Places ==
    /\ pc \in Reviewing => wave \in Wave /\ turn \in 1..tier
    /\ pc \in {"wave_end"} \cup Fixing => wave \in Wave /\ tier > 0
    /\ pc \in Fixing => wave < MaxWaves
    /\ pc \in {"reviewing", "compare"} => snap # Nothing

Gates ==
    /\ pc \in Authoring \cup {"record_implementation"} => mode = "tdd"
    /\ pc \in Authoring => ev.green # "none"
    /\ pc \in {"red_gate", "record_red"} =>
         gate # Nothing /\ gate = tree /\ tree.code = "old" /\ tree.tests # "none"
    /\ pc = "record_red" => ev.red # "none" /\ before.red # "none"
    /\ pc = "record_red" /\ outcome = "none" => before.red = "red" /\ tree.tests = "red"
    /\ ev.gate # Nothing => ev.gate.tests = "red" /\ BaselineKnown
    /\ pc \in Judging => before.red # "none" /\ (mode = "tdd" => ev.gate # Nothing)
    /\ pc \in {"start", "precheck"} /\ point # "start" /\ mode = "tdd" => ev.gate # Nothing
    /\ pc \in {"start", "precheck"} /\ point = "implement" => mode = "tdd"
    /\ pc = "dispatch" => point = "start"
    /\ pc = "precheck" /\ point # "start" => point = "implement" /\ before.red # "none"

Judged(t) == ~t.stray /\ RedPasses(t)
Judgements ==
    /\ pc \in {"tier", "reviewer", "wave_end", "fixer", "tampered", "terminal"} => Judged(tree)
    /\ pc \in {"reviewing", "compare"} => Judged(snap)
    /\ pc = "terminal" /\ mode = "tdd" => tree.tests = ev.gate.tests
    /\ AcceptedIsProven

Gating ==
    /\ mode = "tdd" /\ ~purged /\ ev.gate # Nothing /\ proj.judged < proj.attempt
         => gated /\ tree # Nothing
    /\ pc = "start" /\ point = "start" /\ mode = "tdd" /\ ~purged /\ UnderWay => ev.gate = Nothing

Tearing ==
    /\ pc \in Calls => proj.state = "running"
    /\ mode = "standard" /\ tree.torn =>
         /\ pc \in {"dead", "start", "record", "returned"}
         /\ pc # "returned" => proj.state = "running" /\ proj.judged < proj.attempt
         /\ pc = "start" => point = "start"
         /\ pc = "record" => outcome = "budget_exhausted"

Reviews ==
    /\ pc = "reviewing" => Content(tree) = Content(snap)
    /\ pc \in {"reviewer", "reviewing"} => \A r \in 1..(turn - 1) : said[r].called
    /\ pc = "compare" /\ ~Mutated => \A r \in 1..turn : said[r].called
    /\ pc \in {"wave_end", "tampered", "terminal"} => \A r \in 1..tier : said[r].called

\* What holds as long as no process was killed.
Unread(w) == \A r \in Reviewer : files[w][r] = NoFile
Unkilled == kills = 0 =>
    /\ pc # "dead" /\ point = "start"
    /\ pc \in {"start", "dispatch"} => NotBegun
    /\ pc \in Live /\ ~(pc = "compare" /\ Mutated) => ~tree.foreign
    /\ pc \in InAttempt \ (Reviewing \cup Fixing \cup {"wave_end", "tampered", "terminal"}) =>
         \A w \in Wave : Unread(w)
    /\ pc \in Reviewing \cup Fixing \cup {"wave_end"} => \A w \in (wave + 1)..MaxWaves : Unread(w)
    /\ pc \in {"reviewer", "reviewing"} => \A r \in turn..MaxReviewers : files[wave][r] = NoFile
    /\ pc = "compare" => \A r \in (turn + 1)..MaxReviewers : files[wave][r] = NoFile
    /\ pc \in {"reviewer", "reviewing"} => \A r \in 1..(turn - 1) : said[r].wrote
    /\ pc = "compare" /\ ~Mutated =>
         /\ \A r \in 1..(turn - 1) : said[r].wrote
         /\ files[wave][turn].there => said[turn].wrote
    /\ pc \in {"wave_end", "tampered", "terminal"} => \A r \in 1..tier : said[r].wrote

\* What holds where the reviewers have rules of their own.
OwnRules == \A r, s \in Reviewer : r # s =>
              \A f \in UNION Reports[r], g \in UNION Reports[s] : f.rule # g.rule
Findings ==
    /\ \A w \in Wave, r \in Reviewer : files[w][r].found \subseteq UNION Reports[r]
    /\ pc \in Reviewing => \A f \in merged : \E r \in 1..(turn - 1) : f \in UNION Reports[r]
    /\ pc \in {"reviewer", "reviewing"} => \A r \in 1..(turn - 1) : said[r].found \subseteq merged
    /\ pc = "compare" /\ ~Mutated =>
         /\ \A r \in 1..(turn - 1) : said[r].found \subseteq merged
         /\ said[turn].found \subseteq files[wave][turn].found
    /\ pc = "wave_end" => \A r \in 1..tier : said[r].found \subseteq merged
    /\ pc \in {"tampered", "terminal"} => \A r \in 1..tier : \A f \in said[r].found : ~Blocking(f)

USE DEF PCs, Live, InAttempt, Calls, Authoring, Reviewing, Fixing, Judging

-----------------------------------------------------------------------------
(* Worktrees.                                                              *)

LEMMA NothingIsNoTree == Nothing \notin Tree
  BY DEF Nothing, Tree

LEMMA BaseIsATree ==
  /\ Base \in Tree /\ ~Base.stray /\ ~Base.torn /\ ~Base.foreign /\ Base.code = "old"
  /\ mode = "tdd" => Base.tests = "none"
  /\ mode = "standard" => Base.tests = "red"
  BY DEF Base, Tree

\* What an agent makes of a worktree, whatever is marked in it.
Marked(t) == {t, [t EXCEPT !.torn = FALSE], [t EXCEPT !.torn = TRUE], [t EXCEPT !.foreign = TRUE]}
LEMMA Working ==
  ASSUME NEW t \in Tree, NEW u \in Edits(t), NEW v \in Marked(u)
  PROVE  /\ v \in Tree /\ v.tests = u.tests /\ v.code = u.code /\ v.stray = u.stray
         /\ mode = "standard" => v.tests = t.tests
<1>1. u \in Tree /\ (mode = "standard" => u.tests = t.tests)
  BY DEF Edits
<1> QED  BY <1>1 DEF Marked, Tree

\* The steps in which an agent writes.
LEMMA Agents ==
  ASSUME TypeOK, tree # Nothing,
         AuthorEnds \/ ImplementerEnds \/ ReviewerEnds \/ FixerEnds \/ (Kill /\ pc \in Calls)
  PROVE  \E t \in Edits(tree) : tree' \in Marked(t)
  BY DEF AuthorEnds, ImplementerEnds, ReviewerEnds, FixerEnds, Kill, Edit, Marked
LEMMA Written ==
  ASSUME TypeOK, tree # Nothing,
         AuthorEnds \/ ImplementerEnds \/ ReviewerEnds \/ FixerEnds \/ (Kill /\ pc \in Calls)
  PROVE  tree' \in Tree /\ (mode = "standard" => tree'.tests = tree.tests)
  BY Agents, Working DEF TypeOK

\* No call that returns leaves more of a dead one than it found, and none but a
\* reviewer's leaves what a reviewer wrote.
LEMMA Returned ==
  ASSUME TypeOK, tree # Nothing, AuthorEnds \/ ImplementerEnds \/ ReviewerEnds \/ FixerEnds
  PROVE  /\ tree'.torn => tree.torn /\ ~ImplementerEnds
         /\ tree'.foreign => tree.foreign \/ (ReviewerEnds /\ Content(tree') # Content(tree))
<1>1. PICK t \in Edits(tree) :
        \/ tree' = t /\ ~ImplementerEnds
        \/ tree' = [t EXCEPT !.torn = FALSE]
        \/ tree' = [t EXCEPT !.foreign = TRUE] /\ ~ImplementerEnds
           /\ ReviewerEnds /\ Content(t) # Content(tree)
  BY DEF AuthorEnds, ImplementerEnds, ReviewerEnds, FixerEnds, Edit
<1>2. t \in Tree /\ t.torn = tree.torn /\ t.foreign = tree.foreign
  BY DEF Edits
<1>3. Content(tree') = Content(t)
  BY <1>1, Working DEF Marked, Content, TypeOK
<1> QED  BY <1>1, <1>2, <1>3 DEF Tree

\* A reviewer's call, as the next step sees it.
LEMMA Reviewed ==
  ASSUME TypeOK, tree # Nothing, Places, Reviews, ReviewerEnds, Content(tree') = Content(snap)
  PROVE  \E wrote \in BOOLEAN, found \in Reports[turn] :
           /\ said' = [said EXCEPT ![turn] = [called |-> TRUE, wrote |-> wrote, found |-> found]]
           /\ files' = IF wrote THEN [files EXCEPT ![wave][turn] = [there |-> TRUE, found |-> found]]
                       ELSE files
           /\ wrote \/ found = {}
<1>1. PICK t \in Edits(tree), wrote \in BOOLEAN, found \in Reports[turn] :
        /\ wrote \/ found = {}
        /\ tree' \in Marked(t)
        /\ files' = IF wrote THEN [files EXCEPT ![wave][turn] = [there |-> TRUE, found |-> found]]
                    ELSE files
        /\ said' = [SaidAbout(t) EXCEPT ![turn] = [called |-> TRUE, wrote |-> wrote, found |-> found]]
  BY DEF ReviewerEnds, Marked
<1>2. Content(tree') = Content(t)
  BY <1>1, Working DEF Content, TypeOK
<1>3. Content(tree) = Content(snap)
  BY DEF Reviews, ReviewerEnds
<1>4. SaidAbout(t) = said
  BY <1>2, <1>3 DEF SaidAbout
<1> QED  BY <1>1, <1>4

-----------------------------------------------------------------------------
(* The control of an attempt: its numbers, its worktree, its place in the   *)
(* review. Types depend on it and it on them.                              *)
TypeInv == TypeOK /\ Numbers /\ Worktree /\ Places

LEMMA NumbersKept == ASSUME TypeOK, Numbers, Worktree, [Next]_vars PROVE Numbers'
<1>1. CASE Start
  BY <1>1 DEF Start, Goto, Stop, Numbers, UnderWay, NotBegun, Closed, disk, journal, memory, history
<1>2. CASE Dispatch
  BY <1>2 DEF Dispatch, TypeOK, Numbers, UnderWay, NotBegun, Closed, disk, journal, memory, history
<1>3. CASE Precheck
  BY <1>3 DEF Precheck, TypeOK, Numbers, UnderWay, NotBegun, Closed, disk, journal, memory, history
<1>4. CASE Baseline
  BY <1>4 DEF Baseline, TypeOK, Numbers, UnderWay, NotBegun, Closed, disk, journal, memory, history
<1>5. CASE CallAuthor
  BY <1>5
     DEF CallAuthor, Call, Running, TypeOK, Numbers, UnderWay, NotBegun, Closed, disk, journal, memory,
         history
<1>6. CASE AuthorEnds
  BY <1>6
     DEF AuthorEnds, Executed, Stop, TypeOK, Numbers, UnderWay, NotBegun, Closed, disk, journal,
         memory, history
<1>7. CASE CheckAuthor
  BY <1>7 DEF CheckAuthor, TypeOK, Numbers, UnderWay, NotBegun, Closed, disk, journal, memory, history
<1>8. CASE RedGate
  BY <1>8 DEF RedGate, Numbers, UnderWay, NotBegun, Closed, disk, journal, memory, history
<1>9. CASE RecordRed
  BY <1>9 DEF RecordRed, TypeOK, Numbers, UnderWay, NotBegun, Closed, disk, journal, memory, history
<1>10. CASE CallImplementer
  BY <1>10
     DEF CallImplementer, Call, Running, TypeOK, Numbers, UnderWay, NotBegun, Closed, disk, journal,
         memory, history
<1>11. CASE ImplementerEnds
  BY <1>11
     DEF ImplementerEnds, Executed, Stop, TypeOK, Numbers, UnderWay, NotBegun, Closed, disk, journal,
         memory, history
<1>12. CASE RecordImplementation
  BY <1>12
     DEF RecordImplementation, TypeOK, Numbers, UnderWay, NotBegun, Closed, disk, journal, memory,
         history
<1>13. CASE Verify
  BY <1>13 DEF Verify, TypeOK, Numbers, UnderWay, NotBegun, Closed, disk, journal, memory, history
<1>14. CASE Tier
  BY <1>14 DEF Tier, TypeOK, Numbers, UnderWay, NotBegun, Closed, disk, journal, memory, history
<1>15. CASE CallReviewer
  BY <1>15
     DEF CallReviewer, Call, Running, TypeOK, Numbers, UnderWay, NotBegun, Closed, disk, journal,
         memory, history
<1>16. CASE ReviewerEnds
  BY <1>16
     DEF ReviewerEnds, Executed, TypeOK, Numbers, UnderWay, NotBegun, Closed, disk, journal, memory,
         history
<1>17. CASE Compare
  BY <1>17 DEF Compare, TypeOK, Numbers, UnderWay, NotBegun, Closed, disk, journal, memory, history
<1>18. CASE SnapshotFails
  BY <1>18
     DEF SnapshotFails, TypeOK, Numbers, UnderWay, NotBegun, Closed, disk, journal, memory, history
<1>19. CASE WaveEnds
  BY <1>19 DEF WaveEnds, TypeOK, Numbers, UnderWay, NotBegun, Closed, disk, journal, memory, history
<1>20. CASE CallFixer
  BY <1>20
     DEF CallFixer, Call, Running, TypeOK, Numbers, UnderWay, NotBegun, Closed, disk, journal, memory,
         history
<1>21. CASE FixerEnds
  BY <1>21
     DEF FixerEnds, Executed, TypeOK, Numbers, UnderWay, NotBegun, Closed, disk, journal, memory,
         history
<1>22. CASE JudgeFix
  BY <1>22
     DEF JudgeFix, NextWave, TypeOK, Numbers, UnderWay, NotBegun, Closed, disk, journal, memory,
         history
<1>23. CASE Tampered
  BY <1>23 DEF Tampered, TypeOK, Numbers, UnderWay, NotBegun, Closed, disk, journal, memory, history
<1>24. CASE Terminal
  BY <1>24 DEF Terminal, TypeOK, Numbers, UnderWay, NotBegun, Closed, disk, journal, memory, history
<1>25. CASE Record
  BY <1>25, StagesAssumption
     DEF Record, Forget, NextState, TypeOK, Numbers, UnderWay, NotBegun, Closed, disk, journal, memory,
         history
<1>26. CASE Kill
  BY <1>26 DEF Kill, Numbers, UnderWay, NotBegun, Closed, disk, journal, memory, history
<1>27. CASE Purge
  BY <1>27 DEF Purge, Numbers, NotBegun, Closed, disk, journal, memory, history
<1>28. CASE Resume
  BY <1>28
     DEF Resume, ResumePoint, TypeOK, Numbers, UnderWay, NotBegun, Closed, disk, journal, memory,
         history
<1>29. CASE Spend
  BY <1>29 DEF Spend, Numbers, UnderWay, NotBegun, Closed, disk, journal, memory, history
<1>30. CASE Over
  BY <1>30 DEF Over, vars, Numbers, UnderWay, NotBegun, Closed, disk, journal, memory, history
<1>31. CASE UNCHANGED vars
  BY <1>31 DEF vars, journal, memory, TypeOK, Numbers, UnderWay, NotBegun, Closed
<1> QED
  BY <1>1, <1>2, <1>3, <1>4, <1>5, <1>6, <1>7, <1>8, <1>9, <1>10, <1>11, <1>12, <1>13, <1>14, <1>15,
     <1>16, <1>17, <1>18, <1>19, <1>20, <1>21, <1>22, <1>23, <1>24, <1>25, <1>26, <1>27, <1>28, <1>29,
     <1>30, <1>31 DEF Next, Step

LEMMA WorktreeKept == ASSUME TypeOK, Worktree, [Next]_vars PROVE Worktree'
<1>1. CASE Start
  BY <1>1, NothingIsNoTree, BaseIsATree
     DEF Start, Stop, TypeOK, Worktree, disk, journal, memory, history, Edit
<1>2. CASE Dispatch
  BY <1>2 DEF Dispatch, Worktree, disk, journal, memory, history
<1>3. CASE Precheck
  BY <1>3 DEF Precheck, TypeOK, Worktree, disk, journal, memory, history
<1>4. CASE Baseline
  BY <1>4 DEF Baseline, TypeOK, Worktree, disk, journal, memory, history
<1>5. CASE CallAuthor
  BY <1>5 DEF CallAuthor, Running, TypeOK, Worktree, disk, journal, memory, history
<1>6. CASE AuthorEnds
  BY <1>6, NothingIsNoTree, Written
     DEF AuthorEnds, Goto, Stop, TypeOK, Worktree, disk, journal, memory, history
<1>7. CASE CheckAuthor
  BY <1>7 DEF CheckAuthor, Worktree, disk, journal, memory, history
<1>8. CASE RedGate
  BY <1>8 DEF RedGate, Worktree, disk, journal, memory, history
<1>9. CASE RecordRed
  BY <1>9 DEF RecordRed, Worktree, disk, journal, memory, history
<1>10. CASE CallImplementer
  BY <1>10 DEF CallImplementer, Running, TypeOK, Worktree, disk, journal, memory, history
<1>11. CASE ImplementerEnds
  BY <1>11, NothingIsNoTree, Written
     DEF ImplementerEnds, Executed, StopOr, Goto, Stop, TypeOK, Worktree, disk, journal, memory,
         history
<1>12. CASE RecordImplementation
  BY <1>12 DEF RecordImplementation, TypeOK, Worktree, disk, journal, memory, history
<1>13. CASE Verify
  BY <1>13 DEF Verify, TypeOK, Worktree, disk, journal, memory, history
<1>14. CASE Tier
  BY <1>14 DEF Tier, Worktree, disk, journal, memory, history
<1>15. CASE CallReviewer
  BY <1>15 DEF CallReviewer, Running, TypeOK, Worktree, disk, journal, memory, history
<1>16. CASE ReviewerEnds
  BY <1>16, NothingIsNoTree, Written
     DEF ReviewerEnds, Executed, Goto, TypeOK, Worktree, disk, journal, memory, history
<1>17. CASE Compare
  BY <1>17 DEF Compare, Worktree, disk, journal, memory, history
<1>18. CASE SnapshotFails
  BY <1>18 DEF SnapshotFails, Worktree, disk, journal, memory, history
<1>19. CASE WaveEnds
  BY <1>19 DEF WaveEnds, Worktree, disk, journal, memory, history
<1>20. CASE CallFixer
  BY <1>20 DEF CallFixer, Running, TypeOK, Worktree, disk, journal, memory, history
<1>21. CASE FixerEnds
  BY <1>21, NothingIsNoTree, Written DEF FixerEnds, TypeOK, Worktree, disk, journal, memory, history
<1>22. CASE JudgeFix
  BY <1>22 DEF JudgeFix, NextWave, TypeOK, Worktree, disk, journal, memory, history
<1>23. CASE Tampered
  BY <1>23 DEF Tampered, TypeOK, Worktree, disk, journal, memory, history
<1>24. CASE Terminal
  BY <1>24 DEF Terminal, Worktree, disk, journal, memory, history
<1>25. CASE Record
  BY <1>25 DEF Record, Forget, Worktree, disk, journal, memory, history
<1>26. CASE Kill
  BY <1>26, NothingIsNoTree, Written DEF Kill, Forget, TypeOK, Worktree, disk, journal, memory, history
<1>27. CASE Purge
  BY <1>27 DEF Purge, Worktree, journal, memory, history
<1>28. CASE Resume
  BY <1>28 DEF Resume, ResumePoint, Worktree, disk, journal, memory, history
<1>29. CASE Spend
  BY <1>29 DEF Spend, Worktree, disk, journal, memory, history
<1>30. CASE Over
  BY <1>30 DEF Over, vars, Worktree, disk, journal, memory, history
<1>31. CASE UNCHANGED vars
  BY <1>31 DEF vars, disk, memory, TypeOK, Worktree
<1> QED
  BY <1>1, <1>2, <1>3, <1>4, <1>5, <1>6, <1>7, <1>8, <1>9, <1>10, <1>11, <1>12, <1>13, <1>14, <1>15,
     <1>16, <1>17, <1>18, <1>19, <1>20, <1>21, <1>22, <1>23, <1>24, <1>25, <1>26, <1>27, <1>28, <1>29,
     <1>30, <1>31 DEF Next, Step

LEMMA PlacesKept == ASSUME TypeOK, Worktree, Places, [Next]_vars PROVE Places'
<1>1. CASE Start
  BY <1>1 DEF Start, Goto, Stop, TypeOK, Worktree, Places, Wave, disk, journal, memory, history
<1>2. CASE Dispatch
  BY <1>2 DEF Dispatch, Goto, Worktree, Places, Wave, disk, journal, memory, history
<1>3. CASE Precheck
  BY <1>3
     DEF Precheck, StopOr, Goto, Stop, TypeOK, Worktree, Places, Wave, disk, journal, memory, history
<1>4. CASE Baseline
  BY <1>4
     DEF Baseline, StopOr, Goto, Stop, TypeOK, Worktree, Places, Wave, disk, journal, memory, history
<1>5. CASE CallAuthor
  BY <1>5
     DEF CallAuthor, Call, Goto, Stop, Running, TypeOK, Worktree, Places, Wave, disk, journal, memory,
         history
<1>6. CASE AuthorEnds
  BY <1>6
     DEF AuthorEnds, StopOr, Goto, Stop, TypeOK, Worktree, Places, Wave, disk, journal, memory, history
<1>7. CASE CheckAuthor
  BY <1>7 DEF CheckAuthor, Goto, Stop, TypeOK, Worktree, Places, Wave, disk, journal, memory, history
<1>8. CASE RedGate
  BY <1>8 DEF RedGate, Places, Wave, disk, journal, memory, history
<1>9. CASE RecordRed
  BY <1>9 DEF RecordRed, Goto, Stop, TypeOK, Worktree, Places, Wave, disk, journal, memory, history
<1>10. CASE CallImplementer
  BY <1>10
     DEF CallImplementer, Call, Goto, Stop, Running, TypeOK, Worktree, Places, Wave, disk, journal,
         memory, history
<1>11. CASE ImplementerEnds
  BY <1>11
     DEF ImplementerEnds, StopOr, Goto, Stop, TypeOK, Worktree, Places, Wave, disk, journal, memory,
         history
<1>12. CASE RecordImplementation
  BY <1>12
     DEF RecordImplementation, StopOr, Goto, Stop, TypeOK, Worktree, Places, Wave, disk, journal,
         memory, history
<1>13. CASE Verify
  BY <1>13
     DEF Verify, StopOr, Goto, Stop, TypeOK, Worktree, Places, Wave, disk, journal, memory, history
<1>14. CASE Tier
  BY <1>14, StagesAssumption DEF Tier, Goto, Worktree, Places, Wave, disk, journal, memory, history
<1>15. CASE CallReviewer
  BY <1>15
     DEF CallReviewer, Call, Goto, Stop, Running, TypeOK, Worktree, Places, Wave, disk, journal,
         memory, history
<1>16. CASE ReviewerEnds
  BY <1>16 DEF ReviewerEnds, Goto, TypeOK, Worktree, Places, Wave, disk, journal, memory, history
<1>17. CASE Compare
  BY <1>17 DEF Compare, Stop, Goto, TypeOK, Worktree, Places, Wave, disk, journal, memory, history
<1>18. CASE SnapshotFails
  BY <1>18 DEF SnapshotFails, Stop, Worktree, Places, Wave, disk, journal, memory, history
<1>19. CASE WaveEnds
  BY <1>19 DEF WaveEnds, Goto, Stop, TypeOK, Worktree, Places, Wave, disk, journal, memory, history
<1>20. CASE CallFixer
  BY <1>20
     DEF CallFixer, Call, Goto, Stop, Running, TypeOK, Worktree, Places, Wave, disk, journal, memory,
         history
<1>21. CASE FixerEnds
  BY <1>21 DEF FixerEnds, Goto, TypeOK, Worktree, Places, Wave, disk, journal, memory, history
<1>22. CASE JudgeFix
  BY <1>22, StagesAssumption
     DEF JudgeFix, StopOr, Goto, Stop, NextWave, TypeOK, Worktree, Places, Wave, disk, journal, memory,
         history
<1>23. CASE Tampered
  BY <1>23
     DEF Tampered, StopOr, Goto, Stop, TypeOK, Worktree, Places, Wave, disk, journal, memory, history
<1>24. CASE Terminal
  BY <1>24 DEF Terminal, Stop, Worktree, Places, Wave, disk, journal, memory, history
<1>25. CASE Record
  BY <1>25 DEF Record, TypeOK, Worktree, Places, Wave, disk, journal, memory, history
<1>26. CASE Kill
  BY <1>26 DEF Kill, Worktree, Places, Wave, disk, journal, memory, history
<1>27. CASE Purge
  BY <1>27 DEF Purge, Places, Wave, disk, journal, memory, history
<1>28. CASE Resume
  BY <1>28 DEF Resume, Worktree, Places, Wave, disk, journal, memory, history
<1>29. CASE Spend
  BY <1>29 DEF Spend, Places, Wave, disk, journal, memory, history
<1>30. CASE Over
  BY <1>30 DEF Over, vars, Worktree, Places, Wave, disk, journal, memory, history
<1>31. CASE UNCHANGED vars
  BY <1>31 DEF vars, memory, TypeOK, Worktree, Places, Wave
<1> QED
  BY <1>1, <1>2, <1>3, <1>4, <1>5, <1>6, <1>7, <1>8, <1>9, <1>10, <1>11, <1>12, <1>13, <1>14, <1>15,
     <1>16, <1>17, <1>18, <1>19, <1>20, <1>21, <1>22, <1>23, <1>24, <1>25, <1>26, <1>27, <1>28, <1>29,
     <1>30, <1>31 DEF Next, Step

(* The type of the variables, part by part.                                *)
ControlTypes ==
    /\ mode \in Modes /\ spent \in BOOLEAN
    /\ proj \in [attempt : 0..MaxAttempts, judged : 0..MaxAttempts, state : States]
    /\ pc \in PCs /\ n \in 1..MaxAttempts /\ point \in Points /\ failed \in BOOLEAN
    /\ tier \in 0..MaxReviewers /\ wave \in 0..MaxWaves /\ turn \in 0..MaxReviewers + 1
    /\ outcome \in Outcomes /\ gated \in BOOLEAN /\ kills \in 0..MaxKills /\ purged \in BOOLEAN
EvidenceTypes == ev \in Evidence /\ before \in [green : Observed, red : Observed]
TreeTypes ==
    /\ tree \in Tree \cup {Nothing} /\ gate \in Tree \cup {Nothing}
    /\ snap \in Tree \cup {Nothing} /\ accepted \in Tree \cup {Nothing}
ReviewTypes ==
    /\ files \in [Wave -> [Reviewer -> File]] /\ said \in [Reviewer -> Word]
    /\ merged \subseteq Finding
LEMMA Initially ==
  /\ NoEvidence \in Evidence /\ Silence \in [Reviewer -> Word]
  /\ Emptied \in [Wave -> [Reviewer -> File]]
  /\ NoBaseline \in [green : Observed, red : Observed]
  BY DEF NoEvidence, Evidence, Silence, Word, Unasked, Emptied, File, NoFile, NoBaseline, Observed
LEMMA Types == TypeOK <=> ControlTypes /\ EvidenceTypes /\ TreeTypes /\ ReviewTypes
  BY DEF TypeOK, ControlTypes, EvidenceTypes, TreeTypes, ReviewTypes

LEMMA ControlTyped ==
  ASSUME ControlTypes, Numbers, Worktree, Places, [Next]_vars
  PROVE ControlTypes'
<1>1. CASE Start
  BY <1>1, StagesAssumption
     DEF Start, Goto, Stop, ControlTypes, Numbers, Places, NotBegun, UnderWay, Closed, States, Points,
         Outcomes, Wave, disk, journal, memory, history
<1>2. CASE Dispatch
  BY <1>2
     DEF Dispatch, Goto, ControlTypes, Places, NotBegun, UnderWay, Closed, States, Points, Outcomes,
         Wave, disk, journal, memory, history
<1>3. CASE Precheck
  BY <1>3
     DEF Precheck, StopOr, Goto, Stop, ControlTypes, Numbers, Places, NotBegun, UnderWay, Closed,
         States, Points, Outcomes, Wave, disk, journal, memory, history
<1>4. CASE Baseline
  BY <1>4
     DEF Baseline, StopOr, Goto, Stop, ControlTypes, Numbers, Places, NotBegun, UnderWay, Closed,
         States, Points, Outcomes, Wave, disk, journal, memory, history
<1>5. CASE CallAuthor
  BY <1>5
     DEF CallAuthor, Call, Goto, Stop, Running, ControlTypes, Numbers, Places, NotBegun, UnderWay,
         Closed, States, Points, Outcomes, Wave, disk, journal, memory, history
<1>6. CASE AuthorEnds
  BY <1>6
     DEF AuthorEnds, Executed, StopOr, Goto, Stop, ControlTypes, Numbers, Places, NotBegun, UnderWay,
         Closed, States, Points, Outcomes, Wave, disk, journal, memory, history
<1>7. CASE CheckAuthor
  BY <1>7
     DEF CheckAuthor, Goto, Stop, ControlTypes, Numbers, Places, NotBegun, UnderWay, Closed, States,
         Points, Outcomes, Wave, disk, journal, memory, history, AuthorOutcome
<1>8. CASE RedGate
  BY <1>8
     DEF RedGate, ControlTypes, NotBegun, UnderWay, Closed, States, Points, Outcomes, Wave, disk,
         journal, memory, history, RedOutcome
<1>9. CASE RecordRed
  <2>1. gated' \in BOOLEAN
    BY <1>9, Zenon DEF RecordRed, ControlTypes
  <2>2. pc' \in PCs /\ outcome' \in Outcomes
    BY <1>9 DEF RecordRed, Goto, Stop, ControlTypes, Outcomes
  <2>3. UNCHANGED <<mode, spent, proj, n, point, failed, tier, wave, turn, kills, purged>>
    BY <1>9 DEF RecordRed
  <2> QED  BY <2>1, <2>2, <2>3 DEF ControlTypes
<1>10. CASE CallImplementer
  BY <1>10
     DEF CallImplementer, Call, Goto, Stop, Running, ControlTypes, Numbers, Places, NotBegun, UnderWay,
         Closed, States, Points, Outcomes, Wave, disk, journal, memory, history
<1>11. CASE ImplementerEnds
  BY <1>11
     DEF ImplementerEnds, Executed, StopOr, Goto, Stop, ControlTypes, Numbers, Places, NotBegun,
         UnderWay, Closed, States, Points, Outcomes, Wave, disk, journal, memory, history
<1>12. CASE RecordImplementation
  BY <1>12 DEF RecordImplementation, StopOr, Goto, Stop, ControlTypes, disk, history, Outcomes
<1>13. CASE Verify
  BY <1>13
     DEF Verify, StopOr, Goto, Stop, ControlTypes, Numbers, Places, NotBegun, UnderWay, Closed, States,
         Points, Outcomes, Wave, disk, journal, memory, history, Judgement
<1>14. CASE Tier
  BY <1>14, StagesAssumption
     DEF Tier, Goto, ControlTypes, Places, NotBegun, UnderWay, Closed, States, Points, Outcomes, Wave,
         disk, journal, memory, history
<1>15. CASE CallReviewer
  BY <1>15
     DEF CallReviewer, Call, Goto, Stop, Running, ControlTypes, Numbers, Places, NotBegun, UnderWay,
         Closed, States, Points, Outcomes, Wave, disk, journal, memory, history
<1>16. CASE ReviewerEnds
  BY <1>16
     DEF ReviewerEnds, Executed, Goto, ControlTypes, Numbers, Places, NotBegun, UnderWay, Closed,
         States, Points, Outcomes, Wave, disk, journal, memory, history
<1>17. CASE Compare
  BY <1>17, StagesAssumption
     DEF Compare, Stop, Goto, ControlTypes, Numbers, Places, NotBegun, UnderWay, Closed, States,
         Points, Outcomes, Wave, disk, journal, memory, history
<1>18. CASE SnapshotFails
  BY <1>18
     DEF SnapshotFails, Stop, ControlTypes, Places, NotBegun, UnderWay, Closed, States, Points,
         Outcomes, Wave, disk, journal, memory, history
<1>19. CASE WaveEnds
  BY <1>19
     DEF WaveEnds, Goto, Stop, ControlTypes, Numbers, Places, NotBegun, UnderWay, Closed, States,
         Points, Outcomes, Wave, disk, journal, memory, history
<1>20. CASE CallFixer
  BY <1>20
     DEF CallFixer, Call, Goto, Stop, Running, ControlTypes, Numbers, Places, NotBegun, UnderWay,
         Closed, States, Points, Outcomes, Wave, disk, journal, memory, history
<1>21. CASE FixerEnds
  BY <1>21
     DEF FixerEnds, Executed, Goto, ControlTypes, Numbers, Places, NotBegun, UnderWay, Closed, States,
         Points, Outcomes, Wave, disk, journal, memory, history
<1>22. CASE JudgeFix
  BY <1>22, StagesAssumption
     DEF JudgeFix, StopOr, Goto, Stop, NextWave, ControlTypes, Numbers, Places, NotBegun, UnderWay,
         Closed, States, Points, Outcomes, Wave, disk, journal, memory, history, Judgement
<1>23. CASE Tampered
  BY <1>23
     DEF Tampered, StopOr, Goto, Stop, ControlTypes, Numbers, Places, NotBegun, UnderWay, Closed,
         States, Points, Outcomes, Wave, disk, journal, memory, history
<1>24. CASE Terminal
  BY <1>24
     DEF Terminal, Stop, ControlTypes, Places, NotBegun, UnderWay, Closed, States, Points, Outcomes,
         Wave, disk, journal, memory, history
<1>25. CASE Record
  <2> DEFINE next == NextState(outcome, n)
  <2>1. /\ proj' = [attempt |-> n, judged |-> n, state |-> next]
        /\ IF next = "ready" THEN pc' = "start" /\ n' = n + 1 ELSE pc' = "returned" /\ n' = n
        /\ point' = "start" /\ failed' = FALSE /\ tier' = 0 /\ wave' = 0 /\ turn' = 0
        /\ outcome' = "none" /\ UNCHANGED <<mode, spent, kills, purged>>
    BY <1>25 DEF Record, Forget
  <2>2. next \in States /\ (next = "ready" => n < MaxAttempts)
    BY StagesAssumption DEF NextState, States, ControlTypes
  <2>3. gated' \in BOOLEAN
    BY <1>25, Zenon DEF Record, ControlTypes
  <2> HIDE DEF next
  <2>4. proj' \in [attempt : 0..MaxAttempts, judged : 0..MaxAttempts, state : States]
    BY <2>1, <2>2 DEF ControlTypes
  <2>5. n' \in 1..MaxAttempts /\ pc' \in PCs
    BY <2>1, <2>2, StagesAssumption DEF ControlTypes
  <2>6. 0 \in 0..MaxReviewers /\ 0 \in 0..MaxWaves /\ 0 \in 0..MaxReviewers + 1
    BY StagesAssumption
  <2> QED  BY <2>1, <2>3, <2>4, <2>5, <2>6 DEF ControlTypes, Points, Outcomes
<1>26. CASE Kill
  <2>1. kills' \in 0..MaxKills
    BY <1>26, StagesAssumption DEF Kill, ControlTypes
  <2>2. /\ n' = 1 /\ point' = "start" /\ failed' = FALSE /\ tier' = 0 /\ wave' = 0 /\ turn' = 0
        /\ outcome' = "none" /\ pc' = "dead" /\ UNCHANGED <<mode, spent, proj, gated, purged>>
    BY <1>26 DEF Kill, Forget, journal
  <2>3. 1 \in 1..MaxAttempts /\ 0 \in 0..MaxReviewers /\ 0 \in 0..MaxWaves /\ 0 \in 0..MaxReviewers + 1
    BY StagesAssumption
  <2> QED  BY <2>1, <2>2, <2>3 DEF ControlTypes, Points, Outcomes
<1>27. CASE Purge
  BY <1>27, StagesAssumption
     DEF Purge, ControlTypes, Numbers, Places, NotBegun, UnderWay, Closed, States, Points, Outcomes,
         Wave, disk, journal, memory, history
<1>28. CASE Resume
  BY <1>28, StagesAssumption
     DEF Resume, ResumePoint, ControlTypes, Numbers, Places, NotBegun, UnderWay, Closed, States,
         Points, Outcomes, Wave, disk, journal, memory, history
<1>29. CASE Spend
  BY <1>29
     DEF Spend, ControlTypes, NotBegun, UnderWay, Closed, States, Points, Outcomes, Wave, disk,
         journal, memory, history
<1>30. CASE Over
  BY <1>30
     DEF Over, vars, ControlTypes, Places, NotBegun, UnderWay, Closed, States, Points, Outcomes, Wave,
         disk, journal, memory, history
<1>31. CASE UNCHANGED vars
  BY <1>31
     DEF vars, journal, memory, history, ControlTypes, Numbers, Places, NotBegun, UnderWay, Closed,
         States, Points, Outcomes, Wave
<1> QED
  BY <1>1, <1>2, <1>3, <1>4, <1>5, <1>6, <1>7, <1>8, <1>9, <1>10, <1>11, <1>12, <1>13, <1>14, <1>15,
     <1>16, <1>17, <1>18, <1>19, <1>20, <1>21, <1>22, <1>23, <1>24, <1>25, <1>26, <1>27, <1>28, <1>29,
     <1>30, <1>31 DEF Next, Step

LEMMA EvidenceTyped == ASSUME EvidenceTypes, TreeTypes, [Next]_vars PROVE EvidenceTypes'
<1>1. CASE Start
  BY <1>1
     DEF Start, EvidenceTypes, Observed, Evidence, NoEvidence, NoBaseline, disk, journal, memory,
         history, KnownBaseline
<1>2. CASE Dispatch
  BY <1>2, Initially
     DEF Dispatch, Goto, EvidenceTypes, TreeTypes, Observed, Evidence, NoEvidence, NoBaseline, disk,
         journal, memory, history
<1>3. CASE Precheck
  BY <1>3
     DEF Precheck, EvidenceTypes, TreeTypes, Observed, Evidence, NoEvidence, NoBaseline, disk, journal,
         memory, history
<1>4. CASE Baseline
  <2> DEFINE g == Seen(GreenPasses(tree))
             r == Seen(RedPasses(tree))
  <2>1. g \in Observed /\ r \in Observed /\ "none" \in Observed
    BY DEF Seen, Observed
  <2>2. \/ ev' = [ev EXCEPT !.green = g] /\ before' = [green |-> g, red |-> "none"]
        \/ ev' = [ev EXCEPT !.green = g, !.red = r] /\ before' = [green |-> g, red |-> r]
    BY <1>4 DEF Baseline
  <2> HIDE DEF g, r
  <2>3. /\ [ev EXCEPT !.green = g] \in Evidence
        /\ [ev EXCEPT !.green = g, !.red = r] \in Evidence
    BY <2>1 DEF EvidenceTypes, Evidence
  <2>4. ev' \in Evidence
    BY <2>2, <2>3
  <2>5. before' \in [green : Observed, red : Observed]
    BY <2>1, <2>2
  <2> QED  BY <2>4, <2>5 DEF EvidenceTypes
<1>5. CASE CallAuthor
  BY <1>5
     DEF CallAuthor, EvidenceTypes, TreeTypes, Observed, Evidence, NoEvidence, NoBaseline, disk,
         journal, memory, history
<1>6. CASE AuthorEnds
  BY <1>6
     DEF AuthorEnds, Executed, StopOr, Goto, Stop, EvidenceTypes, TreeTypes, Observed, Evidence,
         NoEvidence, NoBaseline, disk, journal, memory, history
<1>7. CASE CheckAuthor
  BY <1>7
     DEF CheckAuthor, EvidenceTypes, Observed, Evidence, NoEvidence, NoBaseline, disk, journal, memory,
         history
<1>8. CASE RedGate
  BY <1>8
     DEF RedGate, EvidenceTypes, Observed, Evidence, NoEvidence, NoBaseline, disk, journal, memory,
         history, Seen
<1>9. CASE RecordRed
  BY <1>9
     DEF RecordRed, Goto, Stop, EvidenceTypes, TreeTypes, Observed, Evidence, NoEvidence, NoBaseline,
         disk, journal, memory, history
<1>10. CASE CallImplementer
  BY <1>10
     DEF CallImplementer, EvidenceTypes, TreeTypes, Observed, Evidence, NoEvidence, NoBaseline, disk,
         journal, memory, history
<1>11. CASE ImplementerEnds
  BY <1>11
     DEF ImplementerEnds, Executed, StopOr, Goto, Stop, EvidenceTypes, TreeTypes, Observed, Evidence,
         NoEvidence, NoBaseline, disk, journal, memory, history
<1>12. CASE RecordImplementation
  BY <1>12
     DEF RecordImplementation, EvidenceTypes, TreeTypes, Observed, Evidence, NoEvidence, NoBaseline,
         disk, journal, memory, history
<1>13. CASE Verify
  BY <1>13
     DEF Verify, EvidenceTypes, TreeTypes, Observed, Evidence, NoEvidence, NoBaseline, disk, journal,
         memory, history
<1>14. CASE Tier
  BY <1>14 DEF Tier, EvidenceTypes, Evidence, NoEvidence, NoBaseline, disk, journal, memory, history
<1>15. CASE CallReviewer
  BY <1>15
     DEF CallReviewer, EvidenceTypes, TreeTypes, Observed, Evidence, NoEvidence, NoBaseline, disk,
         journal, memory, history
<1>16. CASE ReviewerEnds
  BY <1>16
     DEF ReviewerEnds, Executed, Goto, EvidenceTypes, TreeTypes, Observed, Evidence, NoEvidence,
         NoBaseline, disk, journal, memory, history
<1>17. CASE Compare
  BY <1>17
     DEF Compare, EvidenceTypes, Observed, Evidence, NoEvidence, NoBaseline, disk, journal, memory,
         history
<1>18. CASE SnapshotFails
  BY <1>18
     DEF SnapshotFails, EvidenceTypes, Evidence, NoEvidence, NoBaseline, disk, journal, memory, history
<1>19. CASE WaveEnds
  BY <1>19
     DEF WaveEnds, EvidenceTypes, Observed, Evidence, NoEvidence, NoBaseline, disk, journal, memory,
         history
<1>20. CASE CallFixer
  BY <1>20
     DEF CallFixer, EvidenceTypes, TreeTypes, Observed, Evidence, NoEvidence, NoBaseline, disk,
         journal, memory, history
<1>21. CASE FixerEnds
  BY <1>21
     DEF FixerEnds, Executed, Goto, EvidenceTypes, TreeTypes, Observed, Evidence, NoEvidence,
         NoBaseline, disk, journal, memory, history
<1>22. CASE JudgeFix
  BY <1>22
     DEF JudgeFix, EvidenceTypes, TreeTypes, Observed, Evidence, NoEvidence, NoBaseline, disk, journal,
         memory, history
<1>23. CASE Tampered
  BY <1>23
     DEF Tampered, EvidenceTypes, TreeTypes, Observed, Evidence, NoEvidence, NoBaseline, disk, journal,
         memory, history
<1>24. CASE Terminal
  BY <1>24 DEF Terminal, EvidenceTypes, Evidence, NoEvidence, NoBaseline, disk, journal, memory, history
<1>25. CASE Record
  BY <1>25, Initially
     DEF Record, Forget, NextState, EvidenceTypes, TreeTypes, Observed, Evidence, NoEvidence,
         NoBaseline, disk, journal, memory, history
<1>26. CASE Kill
  BY <1>26
     DEF Kill, Forget, EvidenceTypes, Observed, Evidence, NoEvidence, NoBaseline, disk, journal,
         memory, history
<1>27. CASE Purge
  BY <1>27 DEF Purge, EvidenceTypes, NoEvidence, NoBaseline, disk, journal, memory, history
<1>28. CASE Resume
  BY <1>28 DEF Resume, EvidenceTypes, Evidence, NoEvidence, NoBaseline, disk, journal, memory, history
<1>29. CASE Spend
  BY <1>29 DEF Spend, EvidenceTypes, NoEvidence, NoBaseline, disk, journal, memory, history
<1>30. CASE Over
  BY <1>30
     DEF Over, vars, EvidenceTypes, Evidence, NoEvidence, NoBaseline, disk, journal, memory, history
<1>31. CASE UNCHANGED vars
  BY <1>31
     DEF vars, journal, memory, EvidenceTypes, TreeTypes, Observed, Evidence, NoEvidence, NoBaseline
<1> QED
  BY <1>1, <1>2, <1>3, <1>4, <1>5, <1>6, <1>7, <1>8, <1>9, <1>10, <1>11, <1>12, <1>13, <1>14, <1>15,
     <1>16, <1>17, <1>18, <1>19, <1>20, <1>21, <1>22, <1>23, <1>24, <1>25, <1>26, <1>27, <1>28, <1>29,
     <1>30, <1>31 DEF Next, Step

LEMMA TreesTyped == ASSUME TypeOK, TreeTypes, Worktree, [Next]_vars PROVE TreeTypes'
<1>1. CASE Start
  BY <1>1, BaseIsATree DEF Start, TreeTypes, Worktree, disk, journal, memory, history, Edit
<1>2. CASE Dispatch
  BY <1>2 DEF Dispatch, TreeTypes, disk, journal, memory, history
<1>3. CASE Precheck
  BY <1>3 DEF Precheck, TreeTypes, Worktree, disk, journal, memory, history
<1>4. CASE Baseline
  BY <1>4 DEF Baseline, TreeTypes, Worktree, disk, journal, memory, history
<1>5. CASE CallAuthor
  BY <1>5 DEF CallAuthor, TypeOK, TreeTypes, Worktree, disk, journal, memory, history
<1>6. CASE AuthorEnds
  BY <1>6, Written DEF AuthorEnds, Stop, TypeOK, TreeTypes, Worktree, disk, journal, memory, history
<1>7. CASE CheckAuthor
  BY <1>7 DEF CheckAuthor, TreeTypes, Worktree, disk, journal, memory, history
<1>8. CASE RedGate
  BY <1>8 DEF RedGate, TreeTypes, disk, journal, memory, history
<1>9. CASE RecordRed
  BY <1>9 DEF RecordRed, TreeTypes, Worktree, disk, journal, memory, history
<1>10. CASE CallImplementer
  BY <1>10 DEF CallImplementer, TypeOK, TreeTypes, Worktree, disk, journal, memory, history
<1>11. CASE ImplementerEnds
  BY <1>11, Written
     DEF ImplementerEnds, Executed, StopOr, Goto, Stop, TypeOK, TreeTypes, Worktree, disk, journal,
         memory, history
<1>12. CASE RecordImplementation
  BY <1>12 DEF RecordImplementation, TreeTypes, Worktree, disk, journal, memory, history
<1>13. CASE Verify
  BY <1>13 DEF Verify, TreeTypes, Worktree, disk, journal, memory, history
<1>14. CASE Tier
  BY <1>14 DEF Tier, TreeTypes, disk, journal, memory, history
<1>15. CASE CallReviewer
  BY <1>15 DEF CallReviewer, TypeOK, TreeTypes, Worktree, disk, journal, memory, history
<1>16. CASE ReviewerEnds
  BY <1>16, Written
     DEF ReviewerEnds, Executed, Goto, TypeOK, TreeTypes, Worktree, disk, journal, memory, history
<1>17. CASE Compare
  BY <1>17 DEF Compare, TreeTypes, Worktree, disk, journal, memory, history
<1>18. CASE SnapshotFails
  BY <1>18 DEF SnapshotFails, TreeTypes, disk, journal, memory, history
<1>19. CASE WaveEnds
  BY <1>19 DEF WaveEnds, TreeTypes, Worktree, disk, journal, memory, history
<1>20. CASE CallFixer
  BY <1>20 DEF CallFixer, TypeOK, TreeTypes, Worktree, disk, journal, memory, history
<1>21. CASE FixerEnds
  BY <1>21, Written DEF FixerEnds, TreeTypes, Worktree, disk, journal, memory, history
<1>22. CASE JudgeFix
  BY <1>22 DEF JudgeFix, TypeOK, TreeTypes, Worktree, disk, journal, memory, history
<1>23. CASE Tampered
  BY <1>23 DEF Tampered, TreeTypes, Worktree, disk, journal, memory, history
<1>24. CASE Terminal
  BY <1>24 DEF Terminal, TreeTypes, disk, journal, memory, history
<1>25. CASE Record
  BY <1>25 DEF Record, Forget, TreeTypes, Worktree, disk, journal, memory, history
<1>26. CASE Kill
  BY <1>26, Written DEF Kill, Forget, TypeOK, TreeTypes, Worktree, disk, journal, memory, history
<1>27. CASE Purge
  BY <1>27 DEF Purge, TreeTypes, journal, memory, history
<1>28. CASE Resume
  BY <1>28 DEF Resume, TreeTypes, disk, journal, memory, history
<1>29. CASE Spend
  BY <1>29 DEF Spend, TreeTypes, disk, journal, memory, history
<1>30. CASE Over
  BY <1>30 DEF Over, vars, TreeTypes, disk, journal, memory, history
<1>31. CASE UNCHANGED vars
  BY <1>31 DEF vars, disk, memory, history, TypeOK, TreeTypes, Worktree
<1> QED
  BY <1>1, <1>2, <1>3, <1>4, <1>5, <1>6, <1>7, <1>8, <1>9, <1>10, <1>11, <1>12, <1>13, <1>14, <1>15,
     <1>16, <1>17, <1>18, <1>19, <1>20, <1>21, <1>22, <1>23, <1>24, <1>25, <1>26, <1>27, <1>28, <1>29,
     <1>30, <1>31 DEF Next, Step

LEMMA ReviewsTyped == ASSUME TypeOK, ReviewTypes, Places, [Next]_vars PROVE ReviewTypes'
<1>1. CASE Start
  <2>1. said' \in [Reviewer -> Word]
    BY <1>1, Initially DEF Start, Edit, SaidAbout, ReviewTypes
  <2> QED  BY <1>1, <2>1 DEF Start, ReviewTypes
<1>2. CASE Dispatch
  BY <1>2, StagesAssumption, Initially
     DEF Dispatch, Goto, ReviewTypes, Places, Silence, Word, Unasked, Emptied, File, NoFile, SaidAbout,
         Wave, Reviewer, disk, journal, memory, history
<1>3. CASE Precheck
  BY <1>3
     DEF Precheck, ReviewTypes, Places, Silence, Word, Unasked, Emptied, File, NoFile, SaidAbout, Wave,
         Reviewer, disk, journal, memory, history
<1>4. CASE Baseline
  BY <1>4
     DEF Baseline, ReviewTypes, Places, Silence, Word, Unasked, Emptied, File, NoFile, SaidAbout, Wave,
         Reviewer, disk, journal, memory, history
<1>5. CASE CallAuthor
  BY <1>5
     DEF CallAuthor, Running, ReviewTypes, Places, Silence, Word, Unasked, Emptied, File, NoFile,
         SaidAbout, Wave, Reviewer, disk, journal, memory, history
<1>6. CASE AuthorEnds
  BY <1>6
     DEF AuthorEnds, Stop, ReviewTypes, Places, Silence, Word, Unasked, Emptied, File, NoFile,
         SaidAbout, Wave, Reviewer, disk, journal, memory, history, Edit
<1>7. CASE CheckAuthor
  BY <1>7
     DEF CheckAuthor, ReviewTypes, Places, Silence, Word, Unasked, Emptied, File, NoFile, SaidAbout,
         Wave, Reviewer, disk, journal, memory, history
<1>8. CASE RedGate
  BY <1>8
     DEF RedGate, ReviewTypes, Word, Unasked, Emptied, File, NoFile, SaidAbout, Wave, Reviewer, disk,
         journal, memory, history
<1>9. CASE RecordRed
  BY <1>9
     DEF RecordRed, ReviewTypes, Places, Silence, Word, Unasked, Emptied, File, NoFile, SaidAbout,
         Wave, Reviewer, disk, journal, memory, history
<1>10. CASE CallImplementer
  BY <1>10
     DEF CallImplementer, Running, ReviewTypes, Places, Silence, Word, Unasked, Emptied, File, NoFile,
         SaidAbout, Wave, Reviewer, disk, journal, memory, history
<1>11. CASE ImplementerEnds
  BY <1>11
     DEF ImplementerEnds, Stop, ReviewTypes, Places, Silence, Word, Unasked, Emptied, File, NoFile,
         SaidAbout, Wave, Reviewer, disk, journal, memory, history, Edit
<1>12. CASE RecordImplementation
  BY <1>12
     DEF RecordImplementation, ReviewTypes, Places, Silence, Word, Unasked, Emptied, File, NoFile,
         SaidAbout, Wave, Reviewer, disk, journal, memory, history
<1>13. CASE Verify
  BY <1>13
     DEF Verify, ReviewTypes, Places, Silence, Word, Unasked, Emptied, File, NoFile, SaidAbout, Wave,
         Reviewer, disk, journal, memory, history
<1>14. CASE Tier
  BY <1>14
     DEF Tier, ReviewTypes, Silence, Word, Unasked, Emptied, File, NoFile, SaidAbout, Wave, Reviewer,
         disk, journal, memory, history
<1>15. CASE CallReviewer
  BY <1>15
     DEF CallReviewer, Running, ReviewTypes, Places, Silence, Word, Unasked, Emptied, File, NoFile,
         SaidAbout, Wave, Reviewer, disk, journal, memory, history
<1>16. CASE ReviewerEnds
  <2>1. PICK t \in Edits(tree), wrote \in BOOLEAN, found \in Reports[turn] :
          /\ files' = IF wrote THEN [files EXCEPT ![wave][turn] = [there |-> TRUE, found |-> found]]
                      ELSE files
          /\ said' = [SaidAbout(t) EXCEPT ![turn] = [called |-> TRUE, wrote |-> wrote, found |-> found]]
    BY <1>16 DEF ReviewerEnds
  <2>2. turn \in Reviewer /\ wave \in Wave
    BY <1>16, StagesAssumption DEF ReviewerEnds, Places, Reviewer, TypeOK
  <2>3. found \subseteq Finding
    BY <2>2, StagesAssumption
  <2>4. /\ [there |-> TRUE, found |-> found] \in File
        /\ [called |-> TRUE, wrote |-> wrote, found |-> found] \in Word
    BY <2>3 DEF File, Word
  <2>5. SaidAbout(t) \in [Reviewer -> Word]
    BY Initially DEF SaidAbout, ReviewTypes
  <2>6. said' \in [Reviewer -> Word]
    BY <2>1, <2>2, <2>4, <2>5
  <2>7. files' \in [Wave -> [Reviewer -> File]]
    BY <2>1, <2>2, <2>4 DEF ReviewTypes
  <2> QED  BY <1>16, <2>6, <2>7 DEF ReviewTypes, ReviewerEnds, memory
<1>17. CASE Compare
  BY <1>17, StagesAssumption
     DEF Compare, ReviewTypes, Places, Silence, Word, Unasked, Emptied, File, NoFile, SaidAbout, Wave,
         Reviewer, disk, journal, memory, history, Merge, TypeOK
<1>18. CASE SnapshotFails
  BY <1>18
     DEF SnapshotFails, ReviewTypes, Silence, Word, Unasked, Emptied, File, NoFile, SaidAbout, Wave,
         Reviewer, disk, journal, memory, history
<1>19. CASE WaveEnds
  BY <1>19
     DEF WaveEnds, ReviewTypes, Places, Silence, Word, Unasked, Emptied, File, NoFile, SaidAbout, Wave,
         Reviewer, disk, journal, memory, history
<1>20. CASE CallFixer
  BY <1>20
     DEF CallFixer, Running, ReviewTypes, Places, Silence, Word, Unasked, Emptied, File, NoFile,
         SaidAbout, Wave, Reviewer, disk, journal, memory, history
<1>21. CASE FixerEnds
  BY <1>21
     DEF FixerEnds, ReviewTypes, Places, Silence, Word, Unasked, Emptied, File, NoFile, SaidAbout,
         Wave, Reviewer, disk, journal, memory, history, Edit
<1>22. CASE JudgeFix
  BY <1>22
     DEF JudgeFix, NextWave, ReviewTypes, Places, Silence, Word, Unasked, Emptied, File, NoFile,
         SaidAbout, Wave, Reviewer, disk, journal, memory, history
<1>23. CASE Tampered
  BY <1>23
     DEF Tampered, ReviewTypes, Places, Silence, Word, Unasked, Emptied, File, NoFile, SaidAbout, Wave,
         Reviewer, disk, journal, memory, history
<1>24. CASE Terminal
  BY <1>24
     DEF Terminal, ReviewTypes, Silence, Word, Unasked, Emptied, File, NoFile, SaidAbout, Wave,
         Reviewer, disk, journal, memory, history
<1>25. CASE Record
  BY <1>25, StagesAssumption, Initially
     DEF Record, Forget, NextState, ReviewTypes, Places, Silence, Word, Unasked, Emptied, File, NoFile,
         SaidAbout, Wave, Reviewer, disk, journal, memory, history
<1>26. CASE Kill
  <2>1. said' \in [Reviewer -> Word]
    BY <1>26, Initially DEF Kill, SaidAbout, ReviewTypes
  <2>2. ASSUME pc = "reviewing", NEW s \in Reports[turn]
        PROVE  [files EXCEPT ![wave][turn] = [there |-> TRUE, found |-> s]]
                 \in [Wave -> [Reviewer -> File]]
    <3>1. turn \in Reviewer /\ wave \in Wave
      BY <2>2, StagesAssumption DEF Places, Reviewer, TypeOK
    <3>2. s \subseteq Finding
      BY <2>2, <3>1, StagesAssumption
    <3>3. [there |-> TRUE, found |-> s] \in File
      BY <3>2 DEF File
    <3> QED  BY <3>1, <3>3 DEF ReviewTypes
  <2>3. files' \in [Wave -> [Reviewer -> File]]
    BY <1>26, <2>2 DEF ReviewTypes, Kill
  <2>4. merged' = {}
    BY <1>26 DEF Kill, Forget
  <2> QED  BY <2>1, <2>3, <2>4 DEF ReviewTypes
<1>27. CASE Purge
  BY <1>27
     DEF Purge, ReviewTypes, Silence, Word, Unasked, Emptied, File, NoFile, SaidAbout, Wave, Reviewer,
         disk, journal, memory, history
<1>28. CASE Resume
  BY <1>28
     DEF Resume, ReviewTypes, Silence, Word, Unasked, Emptied, File, NoFile, SaidAbout, Wave, Reviewer,
         disk, journal, memory, history
<1>29. CASE Spend
  BY <1>29
     DEF Spend, ReviewTypes, Word, Unasked, Emptied, File, NoFile, SaidAbout, Wave, Reviewer, disk,
         journal, memory, history
<1>30. CASE Over
  BY <1>30
     DEF Over, vars, ReviewTypes, Silence, Word, Unasked, Emptied, File, NoFile, SaidAbout, Wave,
         Reviewer, disk, journal, memory, history
<1>31. CASE UNCHANGED vars
  BY <1>31
     DEF vars, disk, memory, history, ReviewTypes, Places, Silence, Word, Unasked, Emptied, File,
         NoFile, SaidAbout, Wave, Reviewer
<1> QED
  BY <1>1, <1>2, <1>3, <1>4, <1>5, <1>6, <1>7, <1>8, <1>9, <1>10, <1>11, <1>12, <1>13, <1>14, <1>15,
     <1>16, <1>17, <1>18, <1>19, <1>20, <1>21, <1>22, <1>23, <1>24, <1>25, <1>26, <1>27, <1>28, <1>29,
     <1>30, <1>31 DEF Next, Step

LEMMA TypeInductive == TypeInv /\ [Next]_vars => TypeInv'
<1> SUFFICES ASSUME TypeInv, [Next]_vars PROVE TypeInv'
  OBVIOUS
<1> USE DEF TypeInv
<1>1. Numbers' /\ Worktree' /\ Places'
  BY NumbersKept, WorktreeKept, PlacesKept
<1>2. ControlTypes' /\ EvidenceTypes' /\ TreeTypes' /\ ReviewTypes'
  BY Types, ControlTyped, EvidenceTyped, TreesTyped, ReviewsTyped
<1>3. TypeOK'
  BY <1>2 DEF TypeOK, ControlTypes, EvidenceTypes, TreeTypes, ReviewTypes
<1> QED  BY <1>1, <1>3

LEMMA InitiallyTyped == Init => TypeInv
<1> SUFFICES ASSUME Init PROVE TypeInv
  OBVIOUS
<1>1. ControlTypes
  <2>1. /\ 0 \in 0..MaxAttempts /\ 1 \in 1..MaxAttempts /\ 0 \in 0..MaxKills
        /\ 0 \in 0..MaxReviewers /\ 0 \in 0..MaxWaves /\ 0 \in 0..MaxReviewers + 1
    BY StagesAssumption
  <2> QED  BY <2>1 DEF Init, ControlTypes, States, Points, Outcomes
<1>2. EvidenceTypes /\ TreeTypes /\ ReviewTypes
  BY Initially DEF Init, EvidenceTypes, TreeTypes, ReviewTypes
<1>3. Numbers /\ Worktree /\ Places
  BY StagesAssumption DEF Init, Numbers, UnderWay, NotBegun, Closed, Worktree, Places
<1> QED  BY <1>1, <1>2, <1>3, Types DEF TypeInv

(* In every behaviour every variable has its type: in particular there are *)
(* never more attempts than the limit, nor more waves in one (run_task of  *)
(* runner.py, ReviewStage._waves of review.py).                            *)
THEOREM TypeCorrect == Spec => []TypeOK
<1>1. Spec => []TypeInv
  BY InitiallyTyped, TypeInductive, PTL DEF Spec
<1>2. TypeInv => TypeOK
  BY DEF TypeInv
<1> QED  BY <1>1, <1>2, PTL

-----------------------------------------------------------------------------
(* The red gate.                                                           *)
LEMMA GatesKept == ASSUME TypeOK, Numbers, Worktree, Places, Gates, [Next]_vars PROVE Gates'
<1>1. CASE Start
  BY <1>1
     DEF Start, Goto, Stop, Gates, TypeOK, disk, journal, memory, history, BaselineKnown,
         KnownBaseline, Evidence
<1>2. CASE Dispatch
  BY <1>2 DEF Dispatch, Goto, Gates, disk, journal, memory, history, BaselineKnown, NoEvidence
<1>3. CASE Precheck
  BY <1>3 DEF Precheck, StopOr, Goto, Stop, Gates, TypeOK, disk, journal, memory, history, BaselineKnown
<1>4. CASE Baseline
  <2> DEFINE g == Seen(GreenPasses(tree))
             r == Seen(RedPasses(tree))
  <2>1. g # "none" /\ r # "none"
    BY DEF Seen
  <2>2. \/ /\ mode = "tdd" /\ pc' = "author" /\ ev' = [ev EXCEPT !.green = g]
        \/ /\ mode # "tdd" /\ pc' \in {"implement", "record"}
           /\ ev' = [ev EXCEPT !.green = g, !.red = r] /\ before' = [green |-> g, red |-> r]
    BY <1>4 DEF Baseline, StopOr, Goto, Stop
  <2> HIDE DEF g, r
  <2>3. ev'.gate = ev.gate /\ ev'.green = g /\ ev'.red \in {ev.red, r}
    BY <2>2 DEF TypeOK, Evidence
  <2>4. mode' = mode
    BY <1>4 DEF Baseline
  <2> QED  BY <2>1, <2>2, <2>3, <2>4 DEF Gates, BaselineKnown
<1>5. CASE CallAuthor
  BY <1>5
     DEF CallAuthor, Call, Goto, Stop, Running, Gates, TypeOK, disk, journal, memory, history,
         BaselineKnown
<1>6. CASE AuthorEnds
  BY <1>6
     DEF AuthorEnds, Executed, StopOr, Goto, Stop, Gates, TypeOK, disk, journal, memory, history,
         BaselineKnown, Evidence
<1>7. CASE CheckAuthor
  <2>1. mode = "tdd" /\ tree \in Tree
    BY <1>7 DEF CheckAuthor, Gates, Worktree, TypeOK
  <2>2. CASE pc' = "red_gate"
    <3>1. gate' = tree /\ AuthorOutcome(tree) = "none" /\ UNCHANGED <<mode, tree, ev>>
      BY <1>7, <2>2 DEF CheckAuthor, Goto, Stop, disk, journal
    <3>2. Content(tree) # Content(Base) /\ tree.code = Base.code /\ ~tree.stray
      BY <3>1 DEF AuthorOutcome
    <3>3. tree.tests # "none"
      BY <2>1, <3>2, BaseIsATree DEF Content, Tree
    <3> QED
      BY <1>7, <2>1, <2>2, <3>1, <3>2, <3>3, BaseIsATree, NothingIsNoTree
         DEF CheckAuthor, Gates, BaselineKnown
  <2>3. CASE pc' = "record"
    BY <1>7, <2>3 DEF CheckAuthor, Gates, BaselineKnown, journal, disk
  <2> QED  BY <1>7, <2>2, <2>3 DEF CheckAuthor, Goto, Stop
<1>8. CASE RedGate
  <2>1. PICK how \in {"ran", "denied", "unapproved", "failed"} :
          LET seen == Seen(how = "ran" /\ RedPasses(tree))
          IN /\ ev' = [ev EXCEPT !.red = seen] /\ before' = [before EXCEPT !.red = seen]
             /\ outcome' = RedOutcome(seen, how)
    BY <1>8 DEF RedGate
  <2> DEFINE seen == Seen(how = "ran" /\ RedPasses(tree))
  <2>2. seen # "none" /\ (RedOutcome(seen, how) = "none" => seen = "red" /\ ~RedPasses(tree))
    BY DEF Seen, RedOutcome
  <2>3. tree \in Tree
    BY <1>8 DEF RedGate, Worktree, TypeOK
  <2>4. ~RedPasses(tree) /\ tree.tests # "none" => tree.tests = "red"
    BY <2>3 DEF RedPasses, Tree
  <2> HIDE DEF seen
  <2>5. ev'.red = seen /\ ev'.green = ev.green /\ ev'.gate = ev.gate /\ before'.red = seen
    BY <2>1 DEF TypeOK, Evidence, seen
  <2> QED
    BY <1>8, <2>1, <2>2, <2>4, <2>5 DEF RedGate, Gates, BaselineKnown, disk, seen
<1>9. CASE RecordRed
  BY <1>9, StagesAssumption
     DEF RecordRed, Goto, Stop, Gates, TypeOK, disk, journal, memory, history, BaselineKnown, Evidence
<1>10. CASE CallImplementer
  BY <1>10
     DEF CallImplementer, Call, Goto, Stop, Running, Gates, TypeOK, disk, journal, memory, history,
         BaselineKnown
<1>11. CASE ImplementerEnds
  BY <1>11
     DEF ImplementerEnds, Executed, StopOr, Goto, Stop, Gates, TypeOK, disk, journal, memory, history,
         BaselineKnown, Evidence
<1>12. CASE RecordImplementation
  BY <1>12
     DEF RecordImplementation, StopOr, Goto, Stop, Gates, TypeOK, disk, journal, memory, history,
         BaselineKnown, Evidence
<1>13. CASE Verify
  BY <1>13 DEF Verify, StopOr, Goto, Stop, Gates, TypeOK, disk, journal, memory, history, BaselineKnown
<1>14. CASE Tier
  BY <1>14 DEF Tier, Goto, Gates, disk, journal, memory, history, BaselineKnown
<1>15. CASE CallReviewer
  BY <1>15
     DEF CallReviewer, Call, Goto, Stop, Running, Gates, TypeOK, disk, journal, memory, history,
         BaselineKnown
<1>16. CASE ReviewerEnds
  BY <1>16
     DEF ReviewerEnds, Executed, Goto, Gates, TypeOK, disk, journal, memory, history, BaselineKnown,
         Evidence
<1>17. CASE Compare
  BY <1>17 DEF Compare, Stop, Goto, Gates, TypeOK, disk, journal, memory, history, BaselineKnown
<1>18. CASE SnapshotFails
  BY <1>18 DEF SnapshotFails, Stop, Gates, disk, journal, memory, history, BaselineKnown
<1>19. CASE WaveEnds
  BY <1>19 DEF WaveEnds, Goto, Stop, Gates, TypeOK, disk, journal, memory, history, BaselineKnown
<1>20. CASE CallFixer
  BY <1>20
     DEF CallFixer, Call, Goto, Stop, Running, Gates, TypeOK, disk, journal, memory, history,
         BaselineKnown
<1>21. CASE FixerEnds
  BY <1>21
     DEF FixerEnds, Executed, Goto, Gates, TypeOK, disk, journal, memory, history, BaselineKnown,
         Evidence
<1>22. CASE JudgeFix
  BY <1>22
     DEF JudgeFix, StopOr, Goto, Stop, NextWave, Gates, TypeOK, disk, journal, memory, history,
         BaselineKnown
<1>23. CASE Tampered
  BY <1>23
     DEF Tampered, StopOr, Goto, Stop, Gates, TypeOK, disk, journal, memory, history, BaselineKnown
<1>24. CASE Terminal
  BY <1>24 DEF Terminal, Stop, Gates, disk, journal, memory, history, BaselineKnown
<1>25. CASE Record
  BY <1>25 DEF Record, Forget, Gates, TypeOK, disk, journal, memory, history, BaselineKnown, NoEvidence
<1>26. CASE Kill
  BY <1>26 DEF Kill, Gates, disk, journal, memory, history, BaselineKnown
<1>27. CASE Purge
  BY <1>27 DEF Purge, Gates, journal, memory, history, BaselineKnown
<1>28. CASE Resume
  BY <1>28
     DEF Resume, ResumePoint, Gates, disk, journal, memory, history, BaselineKnown,
         ImplementationCompleted, ResumesAtImplementation
<1>29. CASE Spend
  BY <1>29 DEF Spend, Gates, disk, journal, memory, history, BaselineKnown
<1>30. CASE Over
  BY <1>30 DEF Over, vars, Gates, disk, journal, memory, history, BaselineKnown
<1>31. CASE UNCHANGED vars
  BY <1>31 DEF vars, disk, journal, memory, Gates, TypeOK, BaselineKnown
<1> QED
  BY <1>1, <1>2, <1>3, <1>4, <1>5, <1>6, <1>7, <1>8, <1>9, <1>10, <1>11, <1>12, <1>13, <1>14, <1>15,
     <1>16, <1>17, <1>18, <1>19, <1>20, <1>21, <1>22, <1>23, <1>24, <1>25, <1>26, <1>27, <1>28, <1>29,
     <1>30, <1>31 DEF Next, Step

-----------------------------------------------------------------------------
(* The judgement, the gate, and what dead calls left.                      *)
LEMMA JudgementsKept ==
  ASSUME TypeOK, Numbers, Worktree, Places, Gates, Judgements, [Next]_vars
  PROVE Judgements'
<1>1. CASE Start
  BY <1>1
     DEF Start, Goto, Stop, Judgements, Judged, AcceptedIsProven, RedPasses, TypeOK, Gates, Worktree,
         disk, journal, memory, history, Edit
<1>2. CASE Dispatch
  BY <1>2
     DEF Dispatch, Goto, Judgements, AcceptedIsProven, RedPasses, TypeOK, Gates, Worktree, disk,
         journal, memory, history
<1>3. CASE Precheck
  BY <1>3
     DEF Precheck, StopOr, Goto, Stop, Judgements, Judged, AcceptedIsProven, RedPasses, TypeOK, Gates,
         Worktree, disk, journal, memory, history
<1>4. CASE Baseline
  BY <1>4
     DEF Baseline, StopOr, Goto, Stop, Judgements, Judged, AcceptedIsProven, RedPasses, TypeOK, Gates,
         Worktree, disk, journal, memory, history
<1>5. CASE CallAuthor
  BY <1>5
     DEF CallAuthor, Call, Goto, Stop, Judgements, Judged, AcceptedIsProven, RedPasses, TypeOK, Gates,
         Worktree, disk, journal, memory, history
<1>6. CASE AuthorEnds
  BY <1>6
     DEF AuthorEnds, StopOr, Goto, Stop, Judgements, Judged, AcceptedIsProven, RedPasses, TypeOK,
         Gates, Worktree, disk, journal, memory, history
<1>7. CASE CheckAuthor
  BY <1>7
     DEF CheckAuthor, Goto, Stop, Judgements, AcceptedIsProven, RedPasses, TypeOK, Gates, Worktree,
         disk, journal, memory, history
<1>8. CASE RedGate
  BY <1>8
     DEF RedGate, Judgements, AcceptedIsProven, TypeOK, Gates, Worktree, disk, journal, memory, history
<1>9. CASE RecordRed
  BY <1>9
     DEF RecordRed, Goto, Stop, Judgements, AcceptedIsProven, RedPasses, TypeOK, Gates, Worktree, disk,
         journal, memory, history
<1>10. CASE CallImplementer
  BY <1>10
     DEF CallImplementer, Call, Goto, Stop, Judgements, Judged, AcceptedIsProven, RedPasses, TypeOK,
         Gates, Worktree, disk, journal, memory, history
<1>11. CASE ImplementerEnds
  BY <1>11
     DEF ImplementerEnds, StopOr, Goto, Stop, Judgements, Judged, AcceptedIsProven, RedPasses, TypeOK,
         Gates, Worktree, disk, journal, memory, history
<1>12. CASE RecordImplementation
  BY <1>12
     DEF RecordImplementation, StopOr, Goto, Stop, Judgements, Judged, AcceptedIsProven, RedPasses,
         TypeOK, Gates, Worktree, disk, journal, memory, history
<1>13. CASE Verify
  BY <1>13
     DEF Verify, StopOr, Goto, Stop, Judgements, Judged, AcceptedIsProven, RedPasses, TypeOK, Gates,
         Worktree, disk, journal, memory, history, Judgement, Rejects
<1>14. CASE Tier
  BY <1>14
     DEF Tier, Goto, Judgements, AcceptedIsProven, RedPasses, TypeOK, Gates, Worktree, disk, journal,
         memory, history
<1>15. CASE CallReviewer
  BY <1>15
     DEF CallReviewer, Call, Goto, Stop, Judgements, Judged, AcceptedIsProven, RedPasses, TypeOK,
         Gates, Worktree, disk, journal, memory, history
<1>16. CASE ReviewerEnds
  BY <1>16
     DEF ReviewerEnds, Goto, Judgements, Judged, AcceptedIsProven, RedPasses, TypeOK, Gates, Worktree,
         disk, journal, memory, history
<1>17. CASE Compare
  BY <1>17
     DEF Compare, Stop, Goto, Judgements, Judged, AcceptedIsProven, RedPasses, TypeOK, Gates, Worktree,
         disk, journal, memory, history, Mutated, Content
<1>18. CASE SnapshotFails
  BY <1>18
     DEF SnapshotFails, Stop, Judgements, AcceptedIsProven, RedPasses, TypeOK, Gates, Worktree, disk,
         journal, memory, history
<1>19. CASE WaveEnds
  BY <1>19
     DEF WaveEnds, Goto, Stop, Judgements, AcceptedIsProven, RedPasses, TypeOK, Gates, Worktree, disk,
         journal, memory, history
<1>20. CASE CallFixer
  BY <1>20
     DEF CallFixer, Call, Goto, Stop, Judgements, Judged, AcceptedIsProven, RedPasses, TypeOK, Gates,
         Worktree, disk, journal, memory, history
<1>21. CASE FixerEnds
  BY <1>21
     DEF FixerEnds, Goto, Judgements, Judged, AcceptedIsProven, RedPasses, TypeOK, Gates, Worktree,
         disk, journal, memory, history
<1>22. CASE JudgeFix
  BY <1>22
     DEF JudgeFix, StopOr, Goto, Stop, Judgements, Judged, AcceptedIsProven, RedPasses, TypeOK, Gates,
         Worktree, disk, journal, memory, history, Judgement, Rejects
<1>23. CASE Tampered
  BY <1>23
     DEF Tampered, StopOr, Goto, Stop, Judgements, Judged, AcceptedIsProven, RedPasses, TypeOK, Gates,
         Worktree, disk, journal, memory, history, PhaseViolation
<1>24. CASE Terminal
  <2>1. /\ pc = "terminal" /\ pc' = "record" /\ accepted' \in {tree, accepted}
        /\ UNCHANGED <<mode, tree, ev, snap>>
    BY <1>24 DEF Terminal, Stop, disk, journal, memory
  <2>2. Judged(tree) /\ (mode = "tdd" => tree.tests = "red")
    BY <2>1 DEF Judgements, Gates
  <2>3. mode = "standard" => tree.tests = "red"
    BY <2>1 DEF Worktree
  <2>4. mode \in Mode
    BY StagesAssumption DEF TypeOK
  <2>5. tree.tests = "red" /\ tree.code = "good" /\ ~tree.stray
    BY <2>2, <2>3, <2>4 DEF Judged, RedPasses, Mode
  <2> QED  BY <2>1, <2>5 DEF Judgements, AcceptedIsProven
<1>25. CASE Record
  BY <1>25
     DEF Record, Judgements, AcceptedIsProven, RedPasses, TypeOK, Gates, Worktree, disk, journal,
         memory, history
<1>26. CASE Kill
  BY <1>26
     DEF Kill, Judgements, AcceptedIsProven, RedPasses, TypeOK, Gates, Worktree, disk, journal, memory,
         history
<1>27. CASE Purge
  BY <1>27
     DEF Purge, Judgements, AcceptedIsProven, TypeOK, Gates, Worktree, disk, journal, memory, history
<1>28. CASE Resume
  BY <1>28
     DEF Resume, Judgements, AcceptedIsProven, RedPasses, TypeOK, Gates, Worktree, disk, journal,
         memory, history
<1>29. CASE Spend
  BY <1>29
     DEF Spend, Judgements, AcceptedIsProven, TypeOK, Gates, Worktree, disk, journal, memory, history
<1>30. CASE Over
  BY <1>30
     DEF Over, vars, Judgements, AcceptedIsProven, RedPasses, TypeOK, Gates, Worktree, disk, journal,
         memory, history
<1>31. CASE UNCHANGED vars
  BY <1>31
     DEF vars, disk, journal, memory, history, Judgements, Judged, AcceptedIsProven, RedPasses, TypeOK,
         Gates, Worktree
<1> QED
  BY <1>1, <1>2, <1>3, <1>4, <1>5, <1>6, <1>7, <1>8, <1>9, <1>10, <1>11, <1>12, <1>13, <1>14, <1>15,
     <1>16, <1>17, <1>18, <1>19, <1>20, <1>21, <1>22, <1>23, <1>24, <1>25, <1>26, <1>27, <1>28, <1>29,
     <1>30, <1>31 DEF Next, Step

LEMMA GatingKept ==
  ASSUME TypeOK, Numbers, Worktree, Places, Gates, Gating, [Next]_vars
  PROVE Gating'
<1>1. CASE Start
  BY <1>1
     DEF Start, Goto, Stop, Gating, Numbers, UnderWay, NotBegun, Gates, Worktree, TypeOK, disk,
         journal, memory, history, Edit
<1>2. CASE Dispatch
  BY <1>2
     DEF Dispatch, Goto, Gating, Numbers, UnderWay, NotBegun, Gates, Worktree, TypeOK, disk, journal,
         memory, history, NoEvidence
<1>3. CASE Precheck
  BY <1>3
     DEF Precheck, StopOr, Goto, Stop, Gating, Numbers, UnderWay, NotBegun, Gates, Worktree, TypeOK,
         disk, journal, memory, history
<1>4. CASE Baseline
  <2>1. ev'.gate = ev.gate
    BY <1>4 DEF Baseline, TypeOK, Evidence
  <2> QED
    BY <1>4, <2>1 DEF Baseline, StopOr, Goto, Stop, Gating, UnderWay, disk, history
<1>5. CASE CallAuthor
  BY <1>5
     DEF CallAuthor, Call, Goto, Stop, Running, Gating, Numbers, UnderWay, NotBegun, Gates, Worktree,
         TypeOK, disk, journal, memory, history
<1>6. CASE AuthorEnds
  BY <1>6, NothingIsNoTree, Written
     DEF AuthorEnds, Executed, StopOr, Goto, Stop, Gating, Numbers, UnderWay, NotBegun, Gates,
         Worktree, TypeOK, disk, journal, memory, history, Evidence
<1>7. CASE CheckAuthor
  BY <1>7
     DEF CheckAuthor, Goto, Stop, Gating, Numbers, UnderWay, NotBegun, Gates, Worktree, TypeOK, disk,
         journal, memory, history
<1>8. CASE RedGate
  BY <1>8
     DEF RedGate, Gating, UnderWay, NotBegun, Gates, Worktree, TypeOK, disk, journal, memory, history
<1>9. CASE RecordRed
  BY <1>9, StagesAssumption, NothingIsNoTree
     DEF RecordRed, Goto, Stop, Gating, Numbers, UnderWay, NotBegun, Gates, Worktree, TypeOK, disk,
         journal, memory, history
<1>10. CASE CallImplementer
  BY <1>10
     DEF CallImplementer, Call, Goto, Stop, Running, Gating, Numbers, UnderWay, NotBegun, Gates,
         Worktree, TypeOK, disk, journal, memory, history
<1>11. CASE ImplementerEnds
  BY <1>11, StagesAssumption, NothingIsNoTree, Written
     DEF ImplementerEnds, Executed, StopOr, Goto, Stop, Gating, Numbers, UnderWay, NotBegun, Gates,
         Worktree, TypeOK, disk, journal, memory, history, Evidence
<1>12. CASE RecordImplementation
  BY <1>12
     DEF RecordImplementation, StopOr, Goto, Stop, Gating, Numbers, UnderWay, NotBegun, Gates,
         Worktree, TypeOK, disk, journal, memory, history
<1>13. CASE Verify
  BY <1>13
     DEF Verify, StopOr, Goto, Stop, Gating, Numbers, UnderWay, NotBegun, Gates, Worktree, TypeOK,
         disk, journal, memory, history
<1>14. CASE Tier
  BY <1>14
     DEF Tier, Goto, Gating, Numbers, UnderWay, NotBegun, Gates, Worktree, TypeOK, disk, journal,
         memory, history
<1>15. CASE CallReviewer
  BY <1>15
     DEF CallReviewer, Call, Goto, Stop, Running, Gating, Numbers, UnderWay, NotBegun, Gates, Worktree,
         TypeOK, disk, journal, memory, history
<1>16. CASE ReviewerEnds
  BY <1>16, StagesAssumption, NothingIsNoTree, Written
     DEF ReviewerEnds, Executed, Goto, Gating, Numbers, UnderWay, NotBegun, Gates, Worktree, TypeOK,
         disk, journal, memory, history, Evidence
<1>17. CASE Compare
  BY <1>17
     DEF Compare, Stop, Goto, Gating, Numbers, UnderWay, NotBegun, Gates, Worktree, TypeOK, disk,
         journal, memory, history
<1>18. CASE SnapshotFails
  BY <1>18
     DEF SnapshotFails, Stop, Gating, Numbers, UnderWay, NotBegun, Gates, Worktree, TypeOK, disk,
         journal, memory, history
<1>19. CASE WaveEnds
  BY <1>19
     DEF WaveEnds, Goto, Stop, Gating, Numbers, UnderWay, NotBegun, Gates, Worktree, TypeOK, disk,
         journal, memory, history
<1>20. CASE CallFixer
  BY <1>20
     DEF CallFixer, Call, Goto, Stop, Running, Gating, Numbers, UnderWay, NotBegun, Gates, Worktree,
         TypeOK, disk, journal, memory, history
<1>21. CASE FixerEnds
  BY <1>21, NothingIsNoTree, Written
     DEF FixerEnds, Goto, Gating, Numbers, UnderWay, NotBegun, Gates, Worktree, TypeOK, disk, journal,
         memory, history, Evidence
<1>22. CASE JudgeFix
  BY <1>22
     DEF JudgeFix, StopOr, Goto, Stop, NextWave, Gating, Numbers, UnderWay, NotBegun, Gates, Worktree,
         TypeOK, disk, journal, memory, history
<1>23. CASE Tampered
  BY <1>23
     DEF Tampered, StopOr, Goto, Stop, Gating, Numbers, UnderWay, NotBegun, Gates, Worktree, TypeOK,
         disk, journal, memory, history
<1>24. CASE Terminal
  BY <1>24
     DEF Terminal, Stop, Gating, Numbers, UnderWay, NotBegun, Gates, Worktree, TypeOK, disk, journal,
         memory, history
<1>25. CASE Record
  BY <1>25
     DEF Record, Gating, Numbers, UnderWay, NotBegun, Gates, Worktree, TypeOK, disk, journal, memory,
         history, NoEvidence
<1>26. CASE Kill
  BY <1>26, StagesAssumption, NothingIsNoTree, Written
     DEF Kill, Forget, Gating, Numbers, UnderWay, NotBegun, Gates, Worktree, TypeOK, disk, journal,
         memory, history, Evidence
<1>27. CASE Purge
  BY <1>27
     DEF Purge, Gating, UnderWay, NotBegun, Gates, Worktree, TypeOK, disk, journal, memory, history
<1>28. CASE Resume
  BY <1>28
     DEF Resume, ResumePoint, Gating, Numbers, UnderWay, NotBegun, Gates, Worktree, TypeOK, disk,
         journal, memory, history, ImplementationCompleted, ResumesAtImplementation, BaselineKnown,
         Closed
<1>29. CASE Spend
  BY <1>29
     DEF Spend, Gating, UnderWay, NotBegun, Gates, Worktree, TypeOK, disk, journal, memory, history
<1>30. CASE Over
  BY <1>30
     DEF Over, vars, Gating, Numbers, UnderWay, NotBegun, Gates, Worktree, TypeOK, disk, journal,
         memory, history
<1>31. CASE UNCHANGED vars
  BY <1>31
     DEF vars, disk, journal, memory, history, Gating, Numbers, UnderWay, NotBegun, Gates, Worktree,
         TypeOK
<1> QED
  BY <1>1, <1>2, <1>3, <1>4, <1>5, <1>6, <1>7, <1>8, <1>9, <1>10, <1>11, <1>12, <1>13, <1>14, <1>15,
     <1>16, <1>17, <1>18, <1>19, <1>20, <1>21, <1>22, <1>23, <1>24, <1>25, <1>26, <1>27, <1>28, <1>29,
     <1>30, <1>31 DEF Next, Step

LEMMA TearingKept ==
  ASSUME TypeOK, Numbers, Worktree, Places, Gates, Tearing, [Next]_vars
  PROVE Tearing'
<1>1. CASE Start
  BY <1>1, BaseIsATree
     DEF Start, Goto, Stop, Tearing, Numbers, UnderWay, NotBegun, TypeOK, disk, journal, memory,
         history, Edit, Gates
<1>2. CASE Dispatch
  BY <1>2
     DEF Dispatch, Goto, Tearing, Numbers, UnderWay, NotBegun, TypeOK, disk, journal, memory, history
<1>3. CASE Precheck
  BY <1>3
     DEF Precheck, StopOr, Goto, Stop, Tearing, Numbers, UnderWay, NotBegun, TypeOK, disk, journal,
         memory, history
<1>4. CASE Baseline
  BY <1>4
     DEF Baseline, StopOr, Goto, Stop, Tearing, Numbers, UnderWay, NotBegun, TypeOK, disk, journal,
         memory, history
<1>5. CASE CallAuthor
  BY <1>5
     DEF CallAuthor, Call, Stop, Running, Tearing, Numbers, UnderWay, NotBegun, TypeOK, disk, journal,
         memory, history
<1>6. CASE AuthorEnds
  BY <1>6
     DEF AuthorEnds, StopOr, Goto, Stop, Tearing, Numbers, UnderWay, NotBegun, TypeOK, disk, journal,
         memory, history, Gates, Worktree
<1>7. CASE CheckAuthor
  BY <1>7
     DEF CheckAuthor, Goto, Stop, Tearing, Numbers, UnderWay, NotBegun, TypeOK, disk, journal, memory,
         history
<1>8. CASE RedGate
  BY <1>8 DEF RedGate, Tearing, UnderWay, NotBegun, TypeOK, disk, journal, memory, history
<1>9. CASE RecordRed
  BY <1>9
     DEF RecordRed, Goto, Stop, Tearing, Numbers, UnderWay, NotBegun, TypeOK, disk, journal, memory,
         history
<1>10. CASE CallImplementer
  BY <1>10
     DEF CallImplementer, Call, Stop, Running, Tearing, Numbers, UnderWay, NotBegun, TypeOK, disk,
         journal, memory, history
<1>11. CASE ImplementerEnds
  BY <1>11, StagesAssumption, NothingIsNoTree, Returned
     DEF ImplementerEnds, Executed, StopOr, Goto, Stop, Tearing, Numbers, UnderWay, NotBegun, TypeOK,
         disk, journal, memory, history, Gates, Worktree
<1>12. CASE RecordImplementation
  BY <1>12
     DEF RecordImplementation, StopOr, Goto, Stop, Tearing, Numbers, UnderWay, NotBegun, TypeOK, disk,
         journal, memory, history
<1>13. CASE Verify
  BY <1>13
     DEF Verify, StopOr, Goto, Stop, Tearing, Numbers, UnderWay, NotBegun, TypeOK, disk, journal,
         memory, history
<1>14. CASE Tier
  BY <1>14 DEF Tier, Goto, Tearing, Numbers, UnderWay, NotBegun, TypeOK, disk, journal, memory, history
<1>15. CASE CallReviewer
  BY <1>15
     DEF CallReviewer, Call, Stop, Running, Tearing, Numbers, UnderWay, NotBegun, TypeOK, disk,
         journal, memory, history
<1>16. CASE ReviewerEnds
  BY <1>16, StagesAssumption, NothingIsNoTree, Returned
     DEF ReviewerEnds, Executed, Goto, Tearing, Numbers, UnderWay, NotBegun, TypeOK, disk, journal,
         memory, history, Gates, Worktree
<1>17. CASE Compare
  BY <1>17
     DEF Compare, Stop, Goto, Tearing, Numbers, UnderWay, NotBegun, TypeOK, disk, journal, memory,
         history
<1>18. CASE SnapshotFails
  BY <1>18
     DEF SnapshotFails, Stop, Tearing, Numbers, UnderWay, NotBegun, TypeOK, disk, journal, memory,
         history
<1>19. CASE WaveEnds
  BY <1>19
     DEF WaveEnds, Goto, Stop, Tearing, Numbers, UnderWay, NotBegun, TypeOK, disk, journal, memory,
         history
<1>20. CASE CallFixer
  BY <1>20
     DEF CallFixer, Call, Stop, Running, Tearing, Numbers, UnderWay, NotBegun, TypeOK, disk, journal,
         memory, history
<1>21. CASE FixerEnds
  BY <1>21, Returned
     DEF FixerEnds, Goto, Tearing, Numbers, UnderWay, NotBegun, TypeOK, disk, journal, memory, history,
         Gates, Worktree
<1>22. CASE JudgeFix
  BY <1>22
     DEF JudgeFix, StopOr, Goto, Stop, NextWave, Tearing, Numbers, UnderWay, NotBegun, TypeOK, disk,
         journal, memory, history
<1>23. CASE Tampered
  BY <1>23
     DEF Tampered, StopOr, Goto, Stop, Tearing, Numbers, UnderWay, NotBegun, TypeOK, disk, journal,
         memory, history
<1>24. CASE Terminal
  BY <1>24
     DEF Terminal, Stop, Tearing, Numbers, UnderWay, NotBegun, TypeOK, disk, journal, memory, history
<1>25. CASE Record
  BY <1>25
     DEF Record, NextState, Tearing, Numbers, UnderWay, NotBegun, TypeOK, disk, journal, memory,
         history
<1>26. CASE Kill
  BY <1>26 DEF Kill, Tearing, Numbers, UnderWay, NotBegun, TypeOK, disk, journal, memory, history
<1>27. CASE Purge
  BY <1>27 DEF Purge, Tearing, UnderWay, NotBegun, TypeOK, disk, journal, memory, history, Nothing
<1>28. CASE Resume
  BY <1>28
     DEF Resume, ResumePoint, Tearing, Numbers, UnderWay, NotBegun, TypeOK, disk, journal, memory,
         history, Resumable, Closed
<1>29. CASE Spend
  BY <1>29 DEF Spend, Tearing, UnderWay, NotBegun, TypeOK, disk, journal, memory, history
<1>30. CASE Over
  BY <1>30 DEF Over, vars, Tearing, Numbers, UnderWay, NotBegun, TypeOK, disk, journal, memory, history
<1>31. CASE UNCHANGED vars
  BY <1>31 DEF vars, disk, journal, memory, Tearing, Numbers, UnderWay, NotBegun, TypeOK
<1> QED
  BY <1>1, <1>2, <1>3, <1>4, <1>5, <1>6, <1>7, <1>8, <1>9, <1>10, <1>11, <1>12, <1>13, <1>14, <1>15,
     <1>16, <1>17, <1>18, <1>19, <1>20, <1>21, <1>22, <1>23, <1>24, <1>25, <1>26, <1>27, <1>28, <1>29,
     <1>30, <1>31 DEF Next, Step

LEMMA ReviewsKept ==
  ASSUME TypeOK, Numbers, Worktree, Places, Gates, Reviews, [Next]_vars
  PROVE Reviews'
<1>1. CASE Start
  BY <1>1
     DEF Start, Goto, Stop, Reviews, Places, TypeOK, Mutated, Content, disk, journal, memory, history
<1>2. CASE Dispatch
  BY <1>2 DEF Dispatch, Goto, Reviews, Places, TypeOK, Mutated, Content, disk, journal, memory, history
<1>3. CASE Precheck
  BY <1>3
     DEF Precheck, StopOr, Goto, Stop, Reviews, Places, TypeOK, Mutated, Content, disk, journal,
         memory, history
<1>4. CASE Baseline
  BY <1>4
     DEF Baseline, StopOr, Goto, Stop, Reviews, Places, TypeOK, Mutated, Content, disk, journal,
         memory, history
<1>5. CASE CallAuthor
  BY <1>5
     DEF CallAuthor, Call, Goto, Stop, Running, Reviews, Places, TypeOK, Mutated, Content, disk,
         journal, memory, history
<1>6. CASE AuthorEnds
  BY <1>6
     DEF AuthorEnds, StopOr, Goto, Stop, Reviews, Places, TypeOK, Mutated, Content, disk, journal,
         memory, history
<1>7. CASE CheckAuthor
  BY <1>7
     DEF CheckAuthor, Goto, Stop, Reviews, Places, TypeOK, Mutated, Content, disk, journal, memory,
         history
<1>8. CASE RedGate
  BY <1>8 DEF RedGate, Reviews, TypeOK, Mutated, Content, disk, journal, memory, history
<1>9. CASE RecordRed
  BY <1>9
     DEF RecordRed, Goto, Stop, Reviews, Places, TypeOK, Mutated, Content, disk, journal, memory,
         history
<1>10. CASE CallImplementer
  BY <1>10
     DEF CallImplementer, Call, Goto, Stop, Running, Reviews, Places, TypeOK, Mutated, Content, disk,
         journal, memory, history
<1>11. CASE ImplementerEnds
  BY <1>11
     DEF ImplementerEnds, StopOr, Goto, Stop, Reviews, Places, TypeOK, Mutated, Content, disk, journal,
         memory, history
<1>12. CASE RecordImplementation
  BY <1>12
     DEF RecordImplementation, StopOr, Goto, Stop, Reviews, Places, TypeOK, Mutated, Content, disk,
         journal, memory, history
<1>13. CASE Verify
  BY <1>13
     DEF Verify, StopOr, Goto, Stop, Reviews, Places, TypeOK, Mutated, Content, disk, journal, memory,
         history
<1>14. CASE Tier
  BY <1>14 DEF Tier, Goto, Reviews, Places, TypeOK, Mutated, Content, disk, journal, memory, history
<1>15. CASE CallReviewer
  BY <1>15
     DEF CallReviewer, Call, Goto, Stop, Running, Reviews, Places, TypeOK, Mutated, Content, disk,
         journal, memory, history
<1>16. CASE ReviewerEnds
  <2>1. pc = "reviewing" /\ pc' = "compare" /\ tree # Nothing /\ UNCHANGED <<turn, snap>>
    BY <1>16 DEF ReviewerEnds, Goto, Worktree, memory
  <2>2. turn \in Reviewer /\ \A r \in 1..(turn - 1) : r \in Reviewer /\ said[r].called
    BY <2>1, StagesAssumption DEF Places, Reviews, Reviewer, TypeOK
  <2>3. ASSUME Content(tree') = Content(snap), NEW r \in 1..turn
        PROVE  said'[r].called
    BY <1>16, <2>1, <2>2, <2>3, Reviewed DEF TypeOK
  <2> QED  BY <2>1, <2>3 DEF Reviews, Mutated
<1>17. CASE Compare
  BY <1>17
     DEF Compare, Stop, Goto, Reviews, Places, TypeOK, Mutated, Content, disk, journal, memory, history
<1>18. CASE SnapshotFails
  BY <1>18
     DEF SnapshotFails, Stop, Reviews, Places, TypeOK, Mutated, Content, disk, journal, memory, history
<1>19. CASE WaveEnds
  BY <1>19
     DEF WaveEnds, Goto, Stop, Reviews, Places, TypeOK, Mutated, Content, disk, journal, memory,
         history
<1>20. CASE CallFixer
  BY <1>20
     DEF CallFixer, Call, Goto, Stop, Running, Reviews, Places, TypeOK, Mutated, Content, disk,
         journal, memory, history
<1>21. CASE FixerEnds
  BY <1>21
     DEF FixerEnds, Goto, Reviews, Places, TypeOK, Mutated, Content, disk, journal, memory, history
<1>22. CASE JudgeFix
  BY <1>22
     DEF JudgeFix, StopOr, Goto, Stop, NextWave, Reviews, Places, TypeOK, Mutated, Content, disk,
         journal, memory, history
<1>23. CASE Tampered
  BY <1>23
     DEF Tampered, StopOr, Goto, Stop, Reviews, Places, TypeOK, Mutated, Content, disk, journal,
         memory, history
<1>24. CASE Terminal
  BY <1>24 DEF Terminal, Stop, Reviews, Places, TypeOK, Mutated, Content, disk, journal, memory, history
<1>25. CASE Record
  BY <1>25 DEF Record, Reviews, Places, TypeOK, Mutated, Content, disk, journal, memory, history
<1>26. CASE Kill
  BY <1>26 DEF Kill, Reviews, Places, TypeOK, Mutated, Content, disk, journal, memory, history
<1>27. CASE Purge
  BY <1>27 DEF Purge, Reviews, TypeOK, Mutated, Content, disk, journal, memory, history
<1>28. CASE Resume
  BY <1>28 DEF Resume, Reviews, Places, TypeOK, Mutated, Content, disk, journal, memory, history
<1>29. CASE Spend
  BY <1>29 DEF Spend, Reviews, TypeOK, Mutated, Content, disk, journal, memory, history
<1>30. CASE Over
  BY <1>30 DEF Over, vars, Reviews, Places, TypeOK, Mutated, Content, disk, journal, memory, history
<1>31. CASE UNCHANGED vars
  BY <1>31 DEF vars, disk, memory, history, Reviews, Places, TypeOK, Mutated, Content
<1> QED
  BY <1>1, <1>2, <1>3, <1>4, <1>5, <1>6, <1>7, <1>8, <1>9, <1>10, <1>11, <1>12, <1>13, <1>14, <1>15,
     <1>16, <1>17, <1>18, <1>19, <1>20, <1>21, <1>22, <1>23, <1>24, <1>25, <1>26, <1>27, <1>28, <1>29,
     <1>30, <1>31 DEF Next, Step

LEMMA UnkilledKept ==
  ASSUME TypeOK, Numbers, Worktree, Places, Gates, Reviews, Unkilled, [Next]_vars
  PROVE Unkilled'
<1>1. CASE Start
  BY <1>1, BaseIsATree
     DEF Start, Goto, Stop, Unkilled, Unread, NotBegun, Numbers, Worktree, Places, TypeOK, Mutated,
         Content, disk, journal, memory, history, Edit
<1>2. CASE Dispatch
  BY <1>2
     DEF Dispatch, Goto, Unkilled, Unread, NotBegun, Numbers, Worktree, Places, TypeOK, Mutated,
         Content, disk, journal, memory, history, Emptied
<1>3. CASE Precheck
  BY <1>3
     DEF Precheck, StopOr, Goto, Stop, Unkilled, Unread, NotBegun, Numbers, Worktree, Places, TypeOK,
         Mutated, Content, disk, journal, memory, history
<1>4. CASE Baseline
  BY <1>4
     DEF Baseline, StopOr, Goto, Stop, Unkilled, Unread, NotBegun, Numbers, Worktree, Places, TypeOK,
         Mutated, Content, disk, journal, memory, history
<1>5. CASE CallAuthor
  BY <1>5
     DEF CallAuthor, Call, Goto, Stop, Running, Unkilled, Unread, NotBegun, Numbers, Worktree, Places,
         TypeOK, Mutated, Content, disk, journal, memory, history
<1>6. CASE AuthorEnds
  <2>1. pc = "authoring" /\ pc' \in {"check_author", "record"} /\ UNCHANGED <<files, kills, point>>
    BY <1>6 DEF AuthorEnds, Executed, StopOr, Goto, Stop, memory
  <2>2. tree # Nothing /\ (kills = 0 => ~tree.foreign)
    BY <2>1 DEF Unkilled, Worktree
  <2>3. tree'.foreign => tree.foreign
    BY <1>6, <2>1, <2>2, Returned DEF ReviewerEnds
  <2> QED  BY <2>1, <2>2, <2>3 DEF Unkilled, Unread
<1>7. CASE CheckAuthor
  BY <1>7
     DEF CheckAuthor, Goto, Stop, Unkilled, Unread, NotBegun, Numbers, Worktree, Places, TypeOK,
         Mutated, Content, disk, journal, memory, history
<1>8. CASE RedGate
  BY <1>8
     DEF RedGate, Unkilled, Unread, NotBegun, Numbers, Worktree, Places, TypeOK, Mutated, Content,
         disk, journal, memory, history
<1>9. CASE RecordRed
  BY <1>9
     DEF RecordRed, Goto, Stop, Unkilled, Unread, NotBegun, Numbers, Worktree, Places, TypeOK, Mutated,
         Content, disk, journal, memory, history
<1>10. CASE CallImplementer
  BY <1>10
     DEF CallImplementer, Call, Goto, Stop, Running, Unkilled, Unread, NotBegun, Numbers, Worktree,
         Places, TypeOK, Mutated, Content, disk, journal, memory, history
<1>11. CASE ImplementerEnds
  <2>1. pc = "implementing" /\ pc' \in {"record_implementation", "verify", "record"} /\ UNCHANGED <<files, kills, point>>
    BY <1>11 DEF ImplementerEnds, Executed, StopOr, Goto, Stop, memory
  <2>2. tree # Nothing /\ (kills = 0 => ~tree.foreign)
    BY <2>1 DEF Unkilled, Worktree
  <2>3. tree'.foreign => tree.foreign
    BY <1>11, <2>1, <2>2, Returned DEF ReviewerEnds
  <2> QED  BY <2>1, <2>2, <2>3 DEF Unkilled, Unread
<1>12. CASE RecordImplementation
  BY <1>12
     DEF RecordImplementation, StopOr, Goto, Stop, Unkilled, Unread, NotBegun, Numbers, Worktree,
         Places, TypeOK, Mutated, Content, disk, journal, memory, history
<1>13. CASE Verify
  BY <1>13
     DEF Verify, StopOr, Goto, Stop, Unkilled, Unread, NotBegun, Numbers, Worktree, Places, TypeOK,
         Mutated, Content, disk, journal, memory, history
<1>14. CASE Tier
  BY <1>14, StagesAssumption
     DEF Tier, Goto, Unkilled, Unread, NotBegun, Numbers, Worktree, Places, TypeOK, Mutated, Content,
         disk, journal, memory, history, Wave, Reviewer
<1>15. CASE CallReviewer
  BY <1>15
     DEF CallReviewer, Call, Goto, Stop, Running, Unkilled, Unread, NotBegun, Numbers, Worktree,
         Places, TypeOK, Mutated, Content, disk, journal, memory, history
<1>16. CASE ReviewerEnds
  <2>1. /\ pc = "reviewing" /\ pc' = "compare" /\ tree # Nothing
        /\ UNCHANGED <<turn, wave, snap, kills, point>>
    BY <1>16 DEF ReviewerEnds, Goto, Worktree, memory
  <2>2. turn \in Reviewer /\ wave \in Wave /\ Content(tree) = Content(snap)
    BY <2>1, StagesAssumption DEF Places, Reviews, Reviewer, TypeOK
  <2>3. kills = 0 /\ ~Mutated' => ~tree'.foreign
    BY <1>16, <2>1, <2>2, Returned DEF Unkilled, Mutated
  <2>4. /\ \A w \in (wave + 1)..MaxWaves : w \in Wave /\ w # wave
        /\ \A r \in (turn + 1)..MaxReviewers : r \in Reviewer /\ r # turn /\ r \in turn..MaxReviewers
        /\ \A r \in 1..(turn - 1) : r \in Reviewer /\ r # turn
    BY <2>2, StagesAssumption DEF Wave, Reviewer
  <2>5. /\ \A w \in Wave : w # wave => files'[w] = files[w]
        /\ \A r \in Reviewer : r # turn => files'[wave][r] = files[wave][r]
    BY <1>16, <2>2 DEF ReviewerEnds, TypeOK
  <2>6. /\ kills = 0 => \A w \in (wave + 1)..MaxWaves : Unread(w)'
        /\ kills = 0 => \A r \in (turn + 1)..MaxReviewers : files'[wave][r] = NoFile
    BY <2>1, <2>4, <2>5 DEF Unkilled, Unread
  <2>7. ASSUME kills = 0, ~Mutated'
        PROVE  /\ \A r \in 1..(turn - 1) : said'[r].wrote
               /\ files'[wave][turn].there => said'[turn].wrote
    <3>1. PICK wrote \in BOOLEAN, found \in Reports[turn] :
            /\ said' = [said EXCEPT ![turn] = [called |-> TRUE, wrote |-> wrote, found |-> found]]
            /\ files' = IF wrote THEN [files EXCEPT ![wave][turn] = [there |-> TRUE, found |-> found]]
                        ELSE files
      BY <1>16, <2>1, <2>7, Reviewed DEF Mutated
    <3>2. \A r \in 1..(turn - 1) : said'[r].wrote
      BY <2>1, <2>4, <2>7, <3>1 DEF Unkilled, TypeOK
    <3>3. said'[turn].wrote = wrote
      BY <2>2, <3>1 DEF TypeOK
    <3>4. ~wrote => files'[wave][turn] = NoFile
      BY <2>1, <2>2, <2>7, <3>1, StagesAssumption DEF Unkilled, Reviewer
    <3> QED  BY <3>2, <3>3, <3>4 DEF NoFile
  <2> QED  BY <2>1, <2>3, <2>6, <2>7 DEF Unkilled
<1>17. CASE Compare
  BY <1>17, StagesAssumption, NothingIsNoTree
     DEF Compare, Stop, Goto, Unkilled, Unread, NotBegun, Numbers, Worktree, Places, TypeOK, Mutated,
         Content, disk, journal, memory, history, Wave, Reviewer
<1>18. CASE SnapshotFails
  BY <1>18
     DEF SnapshotFails, Stop, Unkilled, Unread, NotBegun, Numbers, Worktree, Places, TypeOK, Mutated,
         Content, disk, journal, memory, history
<1>19. CASE WaveEnds
  BY <1>19
     DEF WaveEnds, Goto, Stop, Unkilled, Unread, NotBegun, Numbers, Worktree, Places, TypeOK, Mutated,
         Content, disk, journal, memory, history
<1>20. CASE CallFixer
  BY <1>20
     DEF CallFixer, Call, Goto, Stop, Running, Unkilled, Unread, NotBegun, Numbers, Worktree, Places,
         TypeOK, Mutated, Content, disk, journal, memory, history
<1>21. CASE FixerEnds
  <2>1. pc = "fixing" /\ pc' \in {"judge_fix"} /\ UNCHANGED <<files, kills, point, wave>>
    BY <1>21 DEF FixerEnds, Executed, Goto, memory
  <2>2. tree # Nothing /\ (kills = 0 => ~tree.foreign)
    BY <2>1 DEF Unkilled, Worktree
  <2>3. tree'.foreign => tree.foreign
    BY <1>21, <2>1, <2>2, Returned DEF ReviewerEnds
  <2> QED  BY <2>1, <2>2, <2>3 DEF Unkilled, Unread
<1>22. CASE JudgeFix
  <2>1. /\ pc = "judge_fix" /\ pc' \in {"reviewer", "record"} /\ wave' = wave + 1 /\ turn' = 1
        /\ UNCHANGED <<files, tree, kills, point>>
    BY <1>22 DEF JudgeFix, StopOr, Goto, Stop, NextWave, disk, history
  <2>2. /\ wave + 1 \in (wave + 1)..MaxWaves /\ 1..MaxReviewers = Reviewer /\ 1..(1 - 1) = {}
        /\ (wave + 1 + 1)..MaxWaves \subseteq (wave + 1)..MaxWaves
    BY <2>1, StagesAssumption DEF Places, TypeOK, Reviewer
  <2> QED  BY <2>1, <2>2 DEF Unkilled, Unread
<1>23. CASE Tampered
  BY <1>23
     DEF Tampered, StopOr, Goto, Stop, Unkilled, Unread, NotBegun, Numbers, Worktree, Places, TypeOK,
         Mutated, Content, disk, journal, memory, history
<1>24. CASE Terminal
  BY <1>24
     DEF Terminal, Stop, Unkilled, Unread, NotBegun, Numbers, Worktree, Places, TypeOK, Mutated,
         Content, disk, journal, memory, history
<1>25. CASE Record
  BY <1>25
     DEF Record, Forget, Unkilled, Unread, NotBegun, Numbers, Worktree, Places, TypeOK, Mutated,
         Content, disk, journal, memory, history, Emptied
<1>26. CASE Kill
  BY <1>26
     DEF Kill, Unkilled, Unread, NotBegun, Numbers, Worktree, Places, TypeOK, Mutated, Content, disk,
         journal, memory, history
<1>27. CASE Purge
  BY <1>27
     DEF Purge, Unkilled, NotBegun, Numbers, Worktree, Places, TypeOK, Mutated, Content, disk, journal,
         memory, history
<1>28. CASE Resume
  BY <1>28
     DEF Resume, Unkilled, Unread, NotBegun, Numbers, Worktree, Places, TypeOK, Mutated, Content, disk,
         journal, memory, history
<1>29. CASE Spend
  BY <1>29
     DEF Spend, Unkilled, Unread, NotBegun, Numbers, Worktree, Places, TypeOK, Mutated, Content, disk,
         journal, memory, history
<1>30. CASE Over
  BY <1>30
     DEF Over, vars, Unkilled, Unread, NotBegun, Numbers, Worktree, Places, TypeOK, Mutated, Content,
         disk, journal, memory, history
<1>31. CASE UNCHANGED vars
  BY <1>31
     DEF vars, disk, journal, memory, history, Unkilled, Unread, NotBegun, Numbers, Worktree, Places,
         TypeOK, Mutated, Content
<1> QED
  BY <1>1, <1>2, <1>3, <1>4, <1>5, <1>6, <1>7, <1>8, <1>9, <1>10, <1>11, <1>12, <1>13, <1>14, <1>15,
     <1>16, <1>17, <1>18, <1>19, <1>20, <1>21, <1>22, <1>23, <1>24, <1>25, <1>26, <1>27, <1>28, <1>29,
     <1>30, <1>31 DEF Next, Step

LEMMA FindingsKept ==
  ASSUME TypeOK, Numbers, Worktree, Places, Gates, Reviews, Findings, OwnRules, [Next]_vars
  PROVE Findings'
<1>1. CASE Start
  BY <1>1
     DEF Start, Goto, Stop, Findings, Places, TypeOK, Mutated, Content, Reviewer, disk, journal,
         memory, history, Edit
<1>2. CASE Dispatch
  BY <1>2, StagesAssumption
     DEF Dispatch, Goto, Findings, Places, TypeOK, Mutated, Content, Reviewer, disk, journal, memory,
         history, Emptied, NoFile
<1>3. CASE Precheck
  BY <1>3
     DEF Precheck, StopOr, Goto, Stop, Findings, Places, TypeOK, Mutated, Content, Reviewer, disk,
         journal, memory, history
<1>4. CASE Baseline
  BY <1>4
     DEF Baseline, StopOr, Goto, Stop, Findings, Places, TypeOK, Mutated, Content, Reviewer, disk,
         journal, memory, history
<1>5. CASE CallAuthor
  BY <1>5
     DEF CallAuthor, Call, Goto, Stop, Running, Findings, Places, TypeOK, Mutated, Content, Reviewer,
         disk, journal, memory, history
<1>6. CASE AuthorEnds
  BY <1>6
     DEF AuthorEnds, StopOr, Goto, Stop, Findings, Places, TypeOK, Mutated, Content, Reviewer, disk,
         journal, memory, history
<1>7. CASE CheckAuthor
  BY <1>7
     DEF CheckAuthor, Goto, Stop, Findings, Places, TypeOK, Mutated, Content, Reviewer, disk, journal,
         memory, history
<1>8. CASE RedGate
  BY <1>8 DEF RedGate, Findings, TypeOK, Mutated, Content, Reviewer, disk, journal, memory, history
<1>9. CASE RecordRed
  BY <1>9
     DEF RecordRed, Goto, Stop, Findings, Places, TypeOK, Mutated, Content, Reviewer, disk, journal,
         memory, history
<1>10. CASE CallImplementer
  BY <1>10
     DEF CallImplementer, Call, Goto, Stop, Running, Findings, Places, TypeOK, Mutated, Content,
         Reviewer, disk, journal, memory, history
<1>11. CASE ImplementerEnds
  BY <1>11
     DEF ImplementerEnds, StopOr, Goto, Stop, Findings, Places, TypeOK, Mutated, Content, Reviewer,
         disk, journal, memory, history
<1>12. CASE RecordImplementation
  BY <1>12
     DEF RecordImplementation, StopOr, Goto, Stop, Findings, Places, TypeOK, Mutated, Content,
         Reviewer, disk, journal, memory, history
<1>13. CASE Verify
  BY <1>13
     DEF Verify, StopOr, Goto, Stop, Findings, Places, TypeOK, Mutated, Content, Reviewer, disk,
         journal, memory, history
<1>14. CASE Tier
  BY <1>14
     DEF Tier, Goto, Findings, Places, TypeOK, Mutated, Content, Reviewer, disk, journal, memory,
         history
<1>15. CASE CallReviewer
  BY <1>15, StagesAssumption, NothingIsNoTree
     DEF CallReviewer, Call, Goto, Stop, Running, Findings, Places, TypeOK, Mutated, Content, Reviewer,
         disk, journal, memory, history
<1>16. CASE ReviewerEnds
  <2>1. /\ pc = "reviewing" /\ pc' = "compare" /\ tree # Nothing
        /\ UNCHANGED <<turn, wave, snap, merged, tier>>
    BY <1>16 DEF ReviewerEnds, Goto, Worktree, memory
  <2>2. turn \in Reviewer /\ wave \in Wave
    BY <2>1, StagesAssumption DEF Places, Reviewer, TypeOK
  <2>3. \A w \in Wave, r \in Reviewer : files'[w][r].found \subseteq UNION Reports[r]
    <3>1. PICK wrote \in BOOLEAN, found \in Reports[turn] :
            files' = IF wrote THEN [files EXCEPT ![wave][turn] = [there |-> TRUE, found |-> found]]
                     ELSE files
      BY <1>16 DEF ReviewerEnds
    <3> QED  BY <2>2, <3>1 DEF Findings, TypeOK
  <2>4. \A r \in 1..(turn - 1) : r \in Reviewer /\ r # turn
    BY <2>2, StagesAssumption DEF Reviewer
  <2>5. ASSUME ~Mutated'
        PROVE  /\ \A r \in 1..(turn - 1) : said'[r].found \subseteq merged
               /\ said'[turn].found \subseteq files'[wave][turn].found
    <3>1. PICK wrote \in BOOLEAN, found \in Reports[turn] :
            /\ said' = [said EXCEPT ![turn] = [called |-> TRUE, wrote |-> wrote, found |-> found]]
            /\ files' = IF wrote THEN [files EXCEPT ![wave][turn] = [there |-> TRUE, found |-> found]]
                        ELSE files
            /\ wrote \/ found = {}
      BY <1>16, <2>1, <2>5, Reviewed DEF Mutated
    <3>2. \A r \in 1..(turn - 1) : said'[r].found \subseteq merged
      BY <2>1, <2>4, <3>1 DEF Findings, TypeOK
    <3>3. said'[turn].found = found /\ (wrote => files'[wave][turn].found = found)
      BY <2>2, <3>1 DEF TypeOK
    <3> QED  BY <3>1, <3>2, <3>3
  <2> QED  BY <2>1, <2>3, <2>5 DEF Findings
<1>17. CASE Compare
  <2>1. pc = "compare" /\ UNCHANGED <<files, wave, tier, said, tree>>
    BY <1>17 DEF Compare, disk, history
  <2>2. CASE pc' = "record"
    BY <2>1, <2>2 DEF Findings
  <2>3. CASE pc' # "record"
    <3> DEFINE new == Merge(merged, files[wave][turn].found)
    <3>1. /\ ~Mutated /\ merged' = new /\ turn' = turn + 1
          /\ pc' = IF turn < tier THEN "reviewer" ELSE "wave_end"
      BY <1>17, <2>3 DEF Compare, Stop, Goto
    <3>2. turn \in Reviewer /\ wave \in Wave /\ turn \in 1..tier /\ tier \in 0..MaxReviewers
      BY <2>1, StagesAssumption DEF Places, Reviewer, TypeOK
    <3>3. /\ 1..(turn' - 1) = 1..turn /\ 1..turn = 1..(turn - 1) \cup {turn}
          /\ 1..(turn - 1) \subseteq Reviewer /\ turn \notin 1..(turn - 1)
          /\ pc' = "wave_end" => 1..tier = 1..turn
      BY <3>1, <3>2, StagesAssumption DEF Reviewer
    <3>4. merged \subseteq new /\ new \subseteq merged \cup files[wave][turn].found
      BY DEF Merge
    <3>5. \A f \in new : \E r \in 1..turn : f \in UNION Reports[r]
      BY <2>1, <3>2, <3>3, <3>4 DEF Findings
    <3>6. files[wave][turn].found \subseteq new
      <4>1. SUFFICES ASSUME NEW f \in files[wave][turn].found PROVE f \in new
        OBVIOUS
      <4>2. f \in UNION Reports[turn]
        BY <3>2 DEF Findings
      <4>3. \A g \in merged : g.rule # f.rule
        BY <2>1, <3>2, <3>3, <4>2 DEF Findings, OwnRules
      <4> QED  BY <4>3 DEF Merge
    <3>7. \A r \in 1..turn : said[r].found \subseteq new
      BY <2>1, <3>1, <3>3, <3>4, <3>6 DEF Findings
    <3> HIDE DEF new
    <3> QED  BY <2>1, <3>1, <3>3, <3>5, <3>7 DEF Findings
  <2> QED  BY <2>2, <2>3
<1>18. CASE SnapshotFails
  BY <1>18
     DEF SnapshotFails, Stop, Findings, Places, TypeOK, Mutated, Content, Reviewer, disk, journal,
         memory, history
<1>19. CASE WaveEnds
  BY <1>19
     DEF WaveEnds, Goto, Stop, Findings, Places, TypeOK, Mutated, Content, Reviewer, disk, journal,
         memory, history
<1>20. CASE CallFixer
  BY <1>20
     DEF CallFixer, Call, Goto, Stop, Running, Findings, Places, TypeOK, Mutated, Content, Reviewer,
         disk, journal, memory, history
<1>21. CASE FixerEnds
  BY <1>21
     DEF FixerEnds, Goto, Findings, Places, TypeOK, Mutated, Content, Reviewer, disk, journal, memory,
         history
<1>22. CASE JudgeFix
  BY <1>22
     DEF JudgeFix, StopOr, Goto, Stop, NextWave, Findings, Places, TypeOK, Mutated, Content, Reviewer,
         disk, journal, memory, history
<1>23. CASE Tampered
  BY <1>23
     DEF Tampered, StopOr, Goto, Stop, Findings, Places, TypeOK, Mutated, Content, Reviewer, disk,
         journal, memory, history
<1>24. CASE Terminal
  BY <1>24
     DEF Terminal, Stop, Findings, Places, TypeOK, Mutated, Content, Reviewer, disk, journal, memory,
         history
<1>25. CASE Record
  <2>1. pc' \in {"start", "returned"} /\ merged' = {}
    BY <1>25 DEF Record, Forget
  <2>2. files' = files \/ files' = Emptied
    BY <1>25 DEF Record
  <2>3. \A w \in Wave, r \in Reviewer : files'[w][r].found \subseteq UNION Reports[r]
    <3>1. CASE files' = files
      BY <3>1 DEF Findings
    <3>2. CASE files' = Emptied
      BY <3>2 DEF Emptied, NoFile
    <3> QED  BY <2>2, <3>1, <3>2
  <2> QED  BY <2>1, <2>3 DEF Findings
<1>26. CASE Kill
  <2>1. pc' = "dead" /\ merged' = {}
    BY <1>26 DEF Kill, Forget
  <2>2. \A w \in Wave, r \in Reviewer : files'[w][r].found \subseteq UNION Reports[r]
    <3>1. CASE files' = files
      BY <3>1 DEF Findings
    <3>2. CASE files' # files
      <4>1. PICK s \in Reports[turn] : files' = [files EXCEPT ![wave][turn] = [there |-> TRUE, found |-> s]]
        BY <1>26, <3>2 DEF Kill
      <4> QED  BY <4>1 DEF Findings, TypeOK
    <3> QED  BY <3>1, <3>2
  <2> QED  BY <2>1, <2>2 DEF Findings
<1>27. CASE Purge
  BY <1>27
     DEF Purge, Findings, TypeOK, Mutated, Content, Reviewer, disk, journal, memory, history, Emptied,
         NoFile
<1>28. CASE Resume
  BY <1>28
     DEF Resume, Findings, Places, TypeOK, Mutated, Content, Reviewer, disk, journal, memory, history
<1>29. CASE Spend
  BY <1>29, StagesAssumption, NothingIsNoTree
     DEF Spend, Findings, Places, TypeOK, Mutated, Content, Reviewer, disk, journal, memory, history
<1>30. CASE Over
  BY <1>30
     DEF Over, vars, Findings, Places, TypeOK, Mutated, Content, Reviewer, disk, journal, memory,
         history
<1>31. CASE UNCHANGED vars
  BY <1>31 DEF vars, disk, memory, history, Findings, Places, TypeOK, Mutated, Content, Reviewer
<1> QED
  BY <1>1, <1>2, <1>3, <1>4, <1>5, <1>6, <1>7, <1>8, <1>9, <1>10, <1>11, <1>12, <1>13, <1>14, <1>15,
     <1>16, <1>17, <1>18, <1>19, <1>20, <1>21, <1>22, <1>23, <1>24, <1>25, <1>26, <1>27, <1>28, <1>29,
     <1>30, <1>31 DEF Next, Step

(***************************************************************************)
(* The inductive invariant, and what follows from it.                      *)
(***************************************************************************)
StageInv == TypeInv /\ Gates /\ Judgements /\ Gating /\ Tearing /\ Reviews /\ Unkilled

LEMMA StagesInitially == Init => StageInv
<1> SUFFICES ASSUME Init PROVE StageInv
  OBVIOUS
<1>1. pc = "start" /\ point = "start" /\ tree = Nothing /\ accepted = Nothing /\ ev.gate = Nothing
      /\ kills = 0 /\ n = 1 /\ proj.attempt = 0 /\ proj.judged = 0
  BY DEF Init, NoEvidence
<1>2. Gates /\ Judgements /\ Gating /\ Reviews
  BY <1>1 DEF Gates, Judgements, AcceptedIsProven, Gating, Reviews
<1>3. Tearing /\ Unkilled
  BY <1>1 DEF Tearing, Unkilled, Nothing, NotBegun
<1> QED  BY <1>2, <1>3, InitiallyTyped DEF StageInv

LEMMA StagesInductive == StageInv /\ [Next]_vars => StageInv'
<1> SUFFICES ASSUME StageInv, [Next]_vars PROVE StageInv'
  OBVIOUS
<1>1. TypeInv /\ TypeInv' /\ TypeOK /\ Numbers /\ Worktree /\ Places
  BY TypeInductive DEF StageInv, TypeInv
<1>2. Gates /\ Judgements /\ Gating /\ Tearing /\ Reviews /\ Unkilled
  BY DEF StageInv
<1>3. Gates' /\ Judgements' /\ Gating'
  BY <1>1, <1>2, GatesKept, JudgementsKept, GatingKept
<1>4. Tearing' /\ Reviews' /\ Unkilled'
  BY <1>1, <1>2, TearingKept, ReviewsKept, UnkilledKept
<1> QED  BY <1>1, <1>3, <1>4 DEF StageInv

LEMMA StagesInvariant == Spec => []StageInv
  BY StagesInitially, StagesInductive, PTL DEF Spec

(* What is integrated was judged to be proven, and is what was judged,     *)
(* with whatever reviewers, fixers and kills in between (_attempt of       *)
(* runner.py, ReviewStage._waves).                                         *)
THEOREM IntegratedIsProven == Spec => []AcceptedIsProven
<1>1. StageInv => AcceptedIsProven
  BY DEF StageInv, Judgements
<1> QED  BY <1>1, StagesInvariant, PTL

(* Under TDD the implementer works in a worktree whose tests were seen to  *)
(* fail in it (TddStage.run), also after a resume, as long as no           *)
(* worktree was lost.                                                      *)
THEOREM RedFirst == Spec => []ImplementsAfterRed
<1>1. StageInv => ImplementsAfterRed
  <2> SUFFICES ASSUME StageInv, pc = "implementing", mode = "tdd", ~purged PROVE gated
    BY DEF ImplementsAfterRed
  <2>1. ev.gate # Nothing /\ UnderWay
    BY DEF StageInv, TypeInv, Gates, Numbers
  <2> QED  BY <2>1 DEF StageInv, Gating, UnderWay
<1> QED  BY <1>1, StagesInvariant, PTL

(* In standard mode nothing that a dead call left behind is judged: the    *)
(* resume point, _resume_point of runner.py, sees to it.                   *)
THEOREM TornNeverJudged == Spec => []TornIsNeverJudged
<1>1. StageInv => TornIsNeverJudged
  BY DEF StageInv, Tearing, TornIsNeverJudged
<1> QED  BY <1>1, StagesInvariant, PTL

(* Every reviewer of the tier was called on what is integrated; in a       *)
(* process that was never killed all of them filed findings on it, and     *)
(* none of them had a hand in it (ReviewStage._wave).                      *)
THEOREM IntegratedWasReviewed == Spec => AcceptedWasReviewed
<1> DEFINE Looked == pc = "terminal" /\ outcome' = "verified" =>
                      /\ \A r \in 1..tier : said[r].called
                      /\ kills = 0 => /\ \A r \in 1..tier : said[r].wrote
                                      /\ ~tree.foreign
<1>1. StageInv => Looked
  <2> SUFFICES ASSUME StageInv, pc = "terminal"
               PROVE  /\ \A r \in 1..tier : said[r].called
                      /\ kills = 0 => (\A r \in 1..tier : said[r].wrote) /\ ~tree.foreign
    OBVIOUS
  <2> QED  BY DEF StageInv, Reviews, Unkilled
<1>2. StageInv /\ [Next]_vars => [Looked]_vars
  BY <1>1
<1> QED  BY <1>2, StagesInvariant, PTL DEF Spec, AcceptedWasReviewed

(* With rules of their own the reviewers cannot overrule one another: what *)
(* is integrated carries no blocking finding of the last wave. Without,    *)
(* one reviewer's finding masks another's: see the finding in the README   *)
(* (ReviewStage._tier).                                                    *)
THEOREM NoBlockerIntegrated == ASSUME OwnRules PROVE Spec => NoBlockingFindingAccepted
<1> DEFINE Clear == pc = "terminal" /\ outcome' = "verified" =>
                      \A r \in 1..tier : \A f \in said[r].found : ~Blocking(f)
<1>1. Init => Findings
  BY DEF Init, Findings, Emptied, NoFile
<1>2. StageInv /\ Findings /\ [Next]_vars => Findings' /\ [Clear]_vars
  <2> SUFFICES ASSUME StageInv, Findings, [Next]_vars PROVE Findings' /\ Clear
    OBVIOUS
  <2>1. TypeOK /\ Numbers /\ Worktree /\ Places /\ Gates /\ Reviews
    BY DEF StageInv, TypeInv
  <2>2. Findings'
    BY <2>1, FindingsKept
  <2>3. Clear
    BY DEF Findings
  <2> QED  BY <2>2, <2>3
<1> QED  BY <1>1, <1>2, StagesInvariant, PTL DEF Spec, NoBlockingFindingAccepted

-----------------------------------------------------------------------------
(* The attempts are those of Attempts.                                     *)
SameAttempt == /\ proj'.attempt = proj.attempt /\ proj'.judged = proj.judged
               /\ pc # "returned" /\ pc' # "returned"

LEMMA OtherSteps ==
  ASSUME TypeOK, Next, ~Dispatch, ~Record, ~Over
  PROVE  SameAttempt
<1>1. CASE Start
  BY <1>1 DEF Start, Goto, Stop, SameAttempt, disk, journal, memory, history
<1>2. CASE Precheck
  BY <1>2 DEF Precheck, StopOr, Goto, Stop, SameAttempt, disk, journal, memory, history
<1>3. CASE Baseline
  BY <1>3 DEF Baseline, StopOr, Goto, Stop, SameAttempt, disk, journal, memory, history
<1>4. CASE CallAuthor
  BY <1>4 DEF CallAuthor, Call, Goto, Stop, Running, TypeOK, SameAttempt, disk, journal, memory, history
<1>5. CASE AuthorEnds
  BY <1>5
     DEF AuthorEnds, Executed, StopOr, Goto, Stop, TypeOK, SameAttempt, disk, journal, memory, history
<1>6. CASE CheckAuthor
  BY <1>6 DEF CheckAuthor, Goto, Stop, SameAttempt, disk, journal, memory, history
<1>7. CASE RedGate
  BY <1>7 DEF RedGate, SameAttempt, memory, history
<1>8. CASE RecordRed
  BY <1>8 DEF RecordRed, Goto, Stop, SameAttempt, disk, journal, memory, history
<1>9. CASE CallImplementer
  BY <1>9
     DEF CallImplementer, Call, Goto, Stop, Running, TypeOK, SameAttempt, disk, journal, memory,
         history
<1>10. CASE ImplementerEnds
  BY <1>10
     DEF ImplementerEnds, Executed, StopOr, Goto, Stop, TypeOK, SameAttempt, disk, journal, memory,
         history
<1>11. CASE RecordImplementation
  BY <1>11 DEF RecordImplementation, StopOr, Goto, Stop, SameAttempt, disk, journal, memory, history
<1>12. CASE Verify
  BY <1>12 DEF Verify, StopOr, Goto, Stop, SameAttempt, disk, journal, memory, history
<1>13. CASE Tier
  BY <1>13 DEF Tier, Goto, SameAttempt, journal, memory, history
<1>14. CASE CallReviewer
  BY <1>14
     DEF CallReviewer, Call, Goto, Stop, Running, TypeOK, SameAttempt, disk, journal, memory, history
<1>15. CASE ReviewerEnds
  BY <1>15 DEF ReviewerEnds, Executed, Goto, SameAttempt, disk, journal, memory, history
<1>16. CASE Compare
  BY <1>16 DEF Compare, Stop, Goto, TypeOK, SameAttempt, disk, journal, memory, history
<1>17. CASE SnapshotFails
  BY <1>17 DEF SnapshotFails, Stop, SameAttempt, journal, memory, history
<1>18. CASE WaveEnds
  BY <1>18 DEF WaveEnds, Goto, Stop, TypeOK, SameAttempt, disk, journal, memory, history
<1>19. CASE CallFixer
  BY <1>19 DEF CallFixer, Call, Goto, Stop, Running, TypeOK, SameAttempt, disk, journal, memory, history
<1>20. CASE FixerEnds
  BY <1>20 DEF FixerEnds, Executed, Goto, SameAttempt, disk, journal, memory, history
<1>21. CASE JudgeFix
  BY <1>21 DEF JudgeFix, StopOr, Goto, Stop, TypeOK, SameAttempt, disk, journal, memory, history
<1>22. CASE Tampered
  BY <1>22 DEF Tampered, StopOr, Goto, Stop, SameAttempt, disk, journal, memory, history
<1>23. CASE Terminal
  BY <1>23 DEF Terminal, Stop, SameAttempt, journal, memory, history
<1>24. CASE Kill
  BY <1>24 DEF Kill, SameAttempt, journal, memory, history
<1>25. CASE Purge
  BY <1>25 DEF Purge, SameAttempt, journal, memory, history
<1>26. CASE Resume
  BY <1>26 DEF Resume, SameAttempt, journal, memory, history
<1>27. CASE Spend
  BY <1>27 DEF Spend, SameAttempt, memory, history
<1> QED
  BY <1>1, <1>2, <1>3, <1>4, <1>5, <1>6, <1>7, <1>8, <1>9, <1>10, <1>11, <1>12, <1>13, <1>14, <1>15,
     <1>16, <1>17, <1>18, <1>19, <1>20, <1>21, <1>22, <1>23, <1>24, <1>25, <1>26, <1>27 DEF Next, Step

LEMMA AttemptStep ==
  ASSUME TypeInv, Next PROVE AbstractAttempts!Next \/ UNCHANGED AbstractAttempts!vars
<1> DEFINE a == proj.attempt
           j == proj.judged
           closed == proj.state \in Closed
<1>1. TypeOK /\ Numbers /\ Numbers'
  BY TypeInductive DEF TypeInv
<1>2. a \in Nat /\ j \in Nat /\ MaxAttempts \in Nat /\ n \in Nat
  BY <1>1, StagesAssumption DEF TypeOK
<1>3. CASE Dispatch
  <2>1. /\ a' = n /\ j' = j /\ ~closed /\ ~closed' /\ (j = a => a < MaxAttempts)
        /\ UnderWay \/ NotBegun
    BY <1>1, <1>3 DEF Dispatch, Numbers, Closed
  <2>2. CASE UnderWay
    BY <2>1, <2>2 DEF UnderWay, AbstractAttempts!vars
  <2>3. CASE NotBegun
    BY <2>1, <2>3 DEF NotBegun, AbstractAttempts!Next, AbstractAttempts!Begin
  <2> QED  BY <2>1, <2>2, <2>3
<1>4. CASE Record
  <2> DEFINE next == NextState(outcome, n)
  <2>1. /\ a' = n /\ j' = n /\ proj'.state = next /\ ~closed /\ (j = a => a < MaxAttempts)
        /\ UnderWay \/ (NotBegun /\ outcome = "budget_exhausted")
    BY <1>1, <1>4 DEF Record, Numbers
  <2>2. /\ next \in Closed \cup {"ready"} /\ (next = "ready" => n < MaxAttempts)
        /\ outcome = "budget_exhausted" => next \in Closed
    BY <1>2 DEF NextState, Closed
  <2> HIDE DEF next
  <2>3. CASE UnderWay
    <3>1. a = n /\ j < a /\ a' = a /\ j' = a /\ ~closed
      BY <2>1, <2>3 DEF UnderWay
    <3>2. closed' \in BOOLEAN
      OBVIOUS
    <3>3. ~(a < MaxAttempts) => closed' \in {TRUE}
      BY <2>1, <2>2, <3>1 DEF Closed
    <3>4. closed' \in IF a < MaxAttempts THEN BOOLEAN ELSE {TRUE}
      BY <3>2, <3>3, Zenon
    <3> HIDE DEF closed
    <3> QED  BY <3>1, <3>4 DEF AbstractAttempts!Next, AbstractAttempts!Judge, closed
  <2>4. CASE NotBegun /\ outcome = "budget_exhausted"
    BY <1>2, <2>1, <2>2, <2>4 DEF NotBegun, AbstractAttempts!Next, AbstractAttempts!Refuse
  <2> QED  BY <2>1, <2>3, <2>4
<1>5. CASE Over
  BY <1>5 DEF Over, vars, journal, AbstractAttempts!vars
<1>6. CASE ~Dispatch /\ ~Record /\ ~Over
  <2>1. SameAttempt
    BY <1>1, <1>6, OtherSteps
  <2>2. ~closed /\ ~closed'
    BY <1>1, <2>1 DEF SameAttempt, Numbers
  <2> QED  BY <2>1, <2>2 DEF SameAttempt, AbstractAttempts!vars
<1> QED  BY <1>3, <1>4, <1>5, <1>6

(* The attempts of a task, with all their stages, kills and resumes, are   *)
(* those Attempts promises: numbered in turn, judged once each, never      *)
(* taken up after the task was closed (_resume_point, _next_state).        *)
THEOREM AttemptsImplemented == Spec => ImplementsAttempts
<1>1. Init => AbstractAttempts!Init
  BY DEF Init, AbstractAttempts!Init, Closed
<1>2. TypeInv /\ [Next]_vars => [AbstractAttempts!Next]_(AbstractAttempts!vars)
  <2>1. TypeInv /\ Next => [AbstractAttempts!Next]_(AbstractAttempts!vars)
    BY AttemptStep
  <2>2. UNCHANGED vars => UNCHANGED AbstractAttempts!vars
    BY DEF vars, journal, AbstractAttempts!vars
  <2> QED  BY <2>1, <2>2
<1>3. Spec => []TypeInv
  BY InitiallyTyped, TypeInductive, PTL DEF Spec
<1> QED  BY <1>1, <1>2, <1>3, PTL DEF Spec, ImplementsAttempts, AbstractAttempts!Spec
=============================================================================
