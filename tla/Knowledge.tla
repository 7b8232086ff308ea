----------------------------- MODULE Knowledge ------------------------------
(***************************************************************************)
(* The knowledge cards (learn.py): runs leave review findings in their     *)
(* journals, `harness learn` proposes a card for a rule that was found     *)
(* broken in several runs, and only a human promotes or retires one.       *)
(* learn works on what it read at its start and writes all the cards back, *)
(* one file after the other; it may be killed between two files.           *)
(*                                                                         *)
(* A card file is K-<number>.yaml: cards[k] is its content, or NoCard; its *)
(* evidence is a sequence of [run, task].  The order in which learn takes  *)
(* rules and runs is left out, and so is what it counts and reports of the *)
(* prompts that held a card: neither decides anything.                     *)
(***************************************************************************)
EXTENDS Naturals, Sequences, FiniteSetsExt, SequencesExt

CONSTANTS CandidateAfter,     \* config.knowledge.candidate_after
          KRules, KTasks,     \* what findings name
          Overlapping,        \* whether a human may decide while learn runs
          MaxKRuns, MaxCards, MaxKFindings   \* bounds

CardId == 1..MaxCards
NoCard == [rule |-> "", status |-> "", evidence |-> <<>>]

VARIABLES cards,   \* the card files
          runs,    \* runs[r]: the findings in the journal of the run
          memory,  \* what learn is about to write; <<>> when it is not running
          written, \* the cards it has written
          asked    \* the last status a human gave each card

kvars == <<cards, runs, memory, written, asked>>

KInit ==
    /\ cards = [k \in CardId |-> NoCard]
    /\ runs = <<>> /\ memory = <<>> /\ written = {}
    /\ asked = [k \in CardId |-> "candidate"]

Existing(all) == {k \in CardId : all[k] # NoCard}

-----------------------------------------------------------------------------
\* The findings of a rule in a run.
Findings(run, rule) == {i \in DOMAIN runs[run] : runs[run][i].rule = rule}

\* The first finding of a rule in a run; the others of that run do not count.
\* Mutant: every finding counts.
ObservationsAll(rule) ==
    UNION {{[run |-> r, task |-> runs[r][i].task] : i \in Findings(r, rule)} : r \in DOMAIN runs}
Observations(rule) ==
    {[run |-> r, task |-> runs[r][Min(Findings(r, rule))].task] :
        r \in {q \in DOMAIN runs : Findings(q, rule) # {}}}

\* The rules that were found broken often enough.
Due == {rule \in KRules : Observations(rule) # {} /\ Cardinality(Observations(rule)) >= CandidateAfter}

NewCard(rule) ==
    [rule |-> rule, status |-> "candidate", evidence |-> SetToSeq(Observations(rule))]

AddEvidence(card) ==
    [card EXCEPT !.evidence = @ \o SetToSeq(Observations(card.rule) \ ToSet(@))]

CardOf(all, rule) == {k \in Existing(all) : all[k].rule = rule}

\* A rule that has a card, whatever its status, gets no other. New cards have
\* the numbers after the highest.
Unproposed(all) == {rule \in Due : CardOf(all, rule) = {}}
Highest(all) == Max({0} \cup Existing(all))

\* What learn makes of the cards. Not even new evidence revives a card that
\* was retired.
ProposeAll(all) ==
    [k \in CardId |->
        IF k \in Existing(all)
        THEN IF all[k].rule \in Due /\ all[k].status # "retired" THEN AddEvidence(all[k]) ELSE all[k]
        ELSE IF k - Highest(all) \in 1..Cardinality(Unproposed(all))
             THEN NewCard(SetToSeq(Unproposed(all))[k - Highest(all)]) ELSE NoCard]

-----------------------------------------------------------------------------
StartRun ==
    /\ Len(runs) < MaxKRuns
    /\ runs' = Append(runs, <<>>)
    /\ UNCHANGED <<cards, memory, written, asked>>

\* A review of the newest run files a finding.
Find ==
    /\ runs # <<>> /\ Len(Last(runs)) < MaxKFindings
    /\ \E rule \in KRules, task \in KTasks :
           runs' = [runs EXCEPT ![Len(runs)] = Append(@, [rule |-> rule, task |-> task])]
    /\ UNCHANGED <<cards, memory, written, asked>>

\* learn reads everything and decides.
ReadAll ==
    /\ memory = <<>> /\ Highest(cards) + Cardinality(Unproposed(cards)) <= MaxCards
    /\ memory' = ProposeAll(cards) /\ written' = {}
    /\ UNCHANGED <<cards, runs, asked>>

\* It writes the next of its cards, whatever the file holds by now.
WriteCard ==
    /\ memory # <<>>
    /\ LET left == Existing(memory) \ written
       IN /\ left # {}
          /\ cards' = [cards EXCEPT ![Min(left)] = memory[Min(left)]]
          /\ written' = written \cup {Min(left)}
    /\ UNCHANGED <<runs, memory, asked>>

\* It is done, or is killed where it stands.
EndLearn ==
    /\ memory # <<>>
    /\ memory' = <<>> /\ written' = {}
    /\ UNCHANGED <<cards, runs, asked>>

\* promote or retire, whatever the status was.
SetStatus ==
    /\ Overlapping \/ memory = <<>>
    /\ \E k \in Existing(cards), status \in {"promoted", "retired"} :
           /\ cards' = [cards EXCEPT ![k].status = status]
           /\ asked' = [asked EXCEPT ![k] = status]
    /\ UNCHANGED <<runs, memory, written>>

-----------------------------------------------------------------------------
\* docs/08: a card stands for a rule that was found broken in CandidateAfter
\* runs at least, each counted once; a rule has one card, whatever its status,
\* so that what a human retired is not proposed anew; and only a human changes
\* a status. Each card is written from what learn read, possibly by one that
\* was killed half way.
CardsAreEarned ==
    \A k \in Existing(cards) :
        /\ \A j \in Existing(cards) : cards[j].rule = cards[k].rule => j = k
        /\ Cardinality({o.run : o \in ToSet(cards[k].evidence)}) = Len(cards[k].evidence)
        /\ Len(cards[k].evidence) >= CandidateAfter
        /\ \A o \in ToSet(cards[k].evidence) :
               [rule |-> cards[k].rule, task |-> o.task] \in ToSet(runs[o.run])
        /\ cards[k].status = asked[k]

KNext == StartRun \/ Find \/ ReadAll \/ WriteCard \/ EndLearn \/ SetStatus

KSpec == KInit /\ [][KNext]_kvars
=============================================================================
