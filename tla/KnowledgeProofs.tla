-------------------------- MODULE KnowledgeProofs ---------------------------
(***************************************************************************)
(* What TLAPS proves of the knowledge cards: for every threshold and every *)
(* sequence of runs, findings, learns that are killed between two files    *)
(* and human decisions, cards are earned.  It is assumed that no human     *)
(* decides while learn runs; TLC refutes the theorem without.              *)
(***************************************************************************)
EXTENDS Knowledge, SequenceTheorems, FiniteSetTheorems, WellFoundedInduction, TLAPS

NeverOverlapping ==
    /\ Overlapping = FALSE /\ CandidateAfter \in Nat /\ MaxCards \in Nat
    /\ "" \notin KRules /\ IsFiniteSet(KRules)

Finding  == [rule : KRules, task : KTasks]
Evidence == [run : Nat, task : KTasks]
Card     == [rule : KRules, status : {"candidate", "promoted", "retired"}, evidence : Seq(Evidence)]

KTypeOK ==
    /\ runs \in Seq(Seq(Finding))
    /\ cards \in [CardId -> Card \cup {NoCard}]
    /\ memory = <<>> \/ memory \in [CardId -> Card \cup {NoCard}]
    /\ asked \in [CardId -> {"candidate", "promoted", "retired"}]

(* A card names only first findings of its rule, each once, and as many as *)
(* are asked for.                                                          *)
Earned(card) ==
    /\ \A i, j \in DOMAIN card.evidence : card.evidence[i].run = card.evidence[j].run => i = j
    /\ Len(card.evidence) >= CandidateAfter
    /\ ToSet(card.evidence) \subseteq Observations(card.rule)

(* A set of cards, of files or in memory.                                  *)
Sound(all) ==
    /\ \A k \in Existing(all) : Earned(all[k]) /\ all[k].status = asked[k]
    /\ \A j, k \in Existing(all) : all[j].rule = all[k].rule => j = k

(* What learn is about to write has all the cards there are, each about    *)
(* the same rule, so that the cards stay sound after any number of writes. *)
KInv ==
    /\ KTypeOK
    /\ Sound(cards)
    /\ \A k \in CardId \ Existing(cards) : asked[k] = "candidate"
    /\ memory # <<>> =>
         /\ Sound(memory)
         /\ \A k \in Existing(cards) : k \in Existing(memory) /\ memory[k].rule = cards[k].rule

-----------------------------------------------------------------------------
(* The least and the greatest of numbers.                                  *)

LEMMA BelowIsWellFounded ==
  \E R : IsWellFoundedOn(R, Nat) /\ \A x, y \in Nat : <<y, x>> \in R <=> y < x
<1>1. \A x, y \in Nat : <<y, x>> \in OpToRel(<, Nat) <=> y < x
  BY DEF OpToRel
<1> QED  BY <1>1, NatLessThanWellFounded

LEMMA LeastNumber ==
  ASSUME NEW S \in SUBSET Nat, S # {}
  PROVE  \E x \in S : \A y \in S : x <= y
<1>1. PICK R : IsWellFoundedOn(R, Nat) /\ \A x, y \in Nat : <<y, x>> \in R <=> y < x
  BY BelowIsWellFounded
<1>2. PICK x \in S : \A y \in S : ~(<<y, x>> \in R)
  BY <1>1, WFMin
<1>3. ASSUME NEW y \in S PROVE x <= y
  <2>1. ~(<<y, x>> \in R) /\ (<<y, x>> \in R <=> y < x)
    BY <1>1, <1>2
  <2> QED  BY <2>1
<1> QED  BY <1>3

LEMMA MinIsLeast ==
  ASSUME NEW S \in SUBSET Nat, S # {}
  PROVE  Min(S) \in S /\ \A y \in S : Min(S) <= y
  BY LeastNumber DEF Min

LEMMA MaxIsMember ==
  ASSUME NEW n \in Nat, NEW S \in SUBSET (0..n), 0 \in S
  PROVE  Max(S) \in S
<1> DEFINE bounds == {b \in Nat : \A x \in S : x <= b}
<1>1. bounds \in SUBSET Nat /\ n \in bounds
  OBVIOUS
<1>2. PICK b \in bounds : \A c \in bounds : b <= c
  BY <1>1, LeastNumber
<1>3. b \in S
  <2> SUFFICES ASSUME b \notin S PROVE FALSE
    OBVIOUS
  <2>1. b \in Nat /\ b # 0 /\ \A x \in S : x <= b /\ x # b /\ x \in Nat
    OBVIOUS
  <2>2. b - 1 \in bounds
    BY <2>1
  <2> QED  BY <1>2, <2>1, <2>2
<1>4. \A x \in S : b >= x
  OBVIOUS
<1> QED  BY <1>3, <1>4 DEF Max

(* The list of a finite set has each element once.                         *)
LEMMA ListOfSet ==
  ASSUME NEW S, IsFiniteSet(S)
  PROVE  /\ SetToSeq(S) \in Seq(S)
         /\ Len(SetToSeq(S)) = Cardinality(S) /\ Cardinality(S) \in Nat
         /\ \A i, j \in 1..Cardinality(S) : SetToSeq(S)[i] = SetToSeq(S)[j] => i = j
<1>1. Cardinality(S) \in Nat /\ ExistsBijection(1..Cardinality(S), S)
  BY FS_CardinalityType
<1>2. PICK f \in [1..Cardinality(S) -> S] : IsInjective(f)
  BY <1>1 DEF ExistsBijection, Bijection, Injection
<1>3. SetToSeq(S) \in [1..Cardinality(S) -> S] /\ IsInjective(SetToSeq(S))
  BY <1>2 DEF SetToSeq
<1>4. SetToSeq(S) \in Seq(S) /\ Len(SetToSeq(S)) = Cardinality(S)
  BY <1>1, <1>3
<1> QED  BY <1>1, <1>3, <1>4 DEF IsInjective

-----------------------------------------------------------------------------
(* What the journals say of a rule.                                        *)

LEMMA RunParts ==
  ASSUME runs \in Seq(Seq(Finding))
  PROVE  /\ Len(runs) \in Nat /\ DOMAIN runs = 1..Len(runs)
         /\ \A r \in DOMAIN runs : /\ runs[r] \in Seq(Finding) /\ Len(runs[r]) \in Nat
                                   /\ DOMAIN runs[r] = 1..Len(runs[r])
                                   /\ \A i \in DOMAIN runs[r] : /\ runs[r][i] \in Finding
                                                                /\ runs[r][i].rule \in KRules
                                                                /\ runs[r][i].task \in KTasks
<1>1. \A f \in Finding : f.rule \in KRules /\ f.task \in KTasks
  BY DEF Finding
<1>2. \A s \in Seq(Finding) : /\ Len(s) \in Nat /\ DOMAIN s = 1..Len(s)
                              /\ \A i \in DOMAIN s : s[i] \in Finding
  BY LenProperties, ElementOfSeq
<1>3. Len(runs) \in Nat /\ DOMAIN runs = 1..Len(runs) /\ \A r \in DOMAIN runs : runs[r] \in Seq(Finding)
  BY LenProperties, ElementOfSeq
<1> QED  BY <1>1, <1>2, <1>3

(* The first finding of a rule in a run that has one.                      *)
LEMMA FirstFinding ==
  ASSUME runs \in Seq(Seq(Finding)), NEW rule, NEW r \in DOMAIN runs, Findings(r, rule) # {}
  PROVE  LET first == Min(Findings(r, rule))
         IN  /\ first \in DOMAIN runs[r] /\ runs[r][first].rule = rule
             /\ \A i \in DOMAIN runs[r] : runs[r][i].rule = rule => first <= i
<1>1. Findings(r, rule) \in SUBSET Nat
  BY RunParts DEF Findings
<1> QED  BY <1>1, MinIsLeast DEF Findings

LEMMA ObservationParts ==
  ASSUME runs \in Seq(Seq(Finding)), NEW rule
  PROVE  /\ Observations(rule) \subseteq Evidence
         /\ \A o \in Observations(rule) :
              /\ o.run \in DOMAIN runs /\ Findings(o.run, rule) # {}
              /\ o = [run |-> o.run, task |-> runs[o.run][Min(Findings(o.run, rule))].task]
              /\ [rule |-> rule, task |-> o.task] \in ToSet(runs[o.run])
         /\ \A o, p \in Observations(rule) : o.run = p.run => o = p
<1>1. ASSUME NEW o \in Observations(rule)
      PROVE  /\ o.run \in DOMAIN runs /\ Findings(o.run, rule) # {}
             /\ o = [run |-> o.run, task |-> runs[o.run][Min(Findings(o.run, rule))].task]
             /\ o.task = runs[o.run][Min(Findings(o.run, rule))].task
  BY <1>1 DEF Observations
<1>2. ASSUME NEW o \in Observations(rule)
      PROVE  o \in Evidence /\ [rule |-> rule, task |-> o.task] \in ToSet(runs[o.run])
  <2> DEFINE r == o.run
             first == Min(Findings(r, rule))
  <2>1. first \in DOMAIN runs[r] /\ runs[r][first].rule = rule
    BY <1>1, FirstFinding
  <2>2. runs[r][first] \in Finding /\ runs[r][first].task = o.task /\ r \in Nat
    BY <1>1, <2>1, RunParts
  <2>3. runs[r][first] = [rule |-> rule, task |-> o.task]
    BY <2>1, <2>2 DEF Finding
  <2>4. o \in Evidence
    BY <1>1, <2>1, <2>2, RunParts DEF Evidence
  <2> QED  BY <2>1, <2>3, <2>4 DEF ToSet
<1>3. ASSUME NEW o \in Observations(rule), NEW p \in Observations(rule), o.run = p.run PROVE o = p
  BY <1>1, <1>3
<1> QED  BY <1>1, <1>2, <1>3

LEMMA ObservationsAreFinite ==
  ASSUME runs \in Seq(Seq(Finding)), NEW rule
  PROVE  IsFiniteSet(Observations(rule))
<1> DEFINE S == Observations(rule)
           f == [o \in S |-> o.run]
<1>1. f \in Injection(S, 1..Len(runs))
  BY ObservationParts, RunParts DEF Injection, IsInjective
<1>2. IsFiniteSet(1..Len(runs))
  BY RunParts, FS_Interval
<1> QED  BY <1>1, <1>2, FS_Injection

-----------------------------------------------------------------------------
(* What learn makes of a card and of the cards.                            *)

LEMMA CardParts ==
  ASSUME NEW card \in Card
  PROVE  /\ card.rule \in KRules /\ card.status \in {"candidate", "promoted", "retired"}
         /\ card.evidence \in Seq(Evidence)
  BY DEF Card

LEMMA AddEvidenceEarns ==
  ASSUME runs \in Seq(Seq(Finding)), CandidateAfter \in Nat, NEW card \in Card, Earned(card)
  PROVE  LET new == AddEvidence(card)
         IN  new \in Card /\ new.rule = card.rule /\ new.status = card.status /\ Earned(new)
<1> DEFINE S == Observations(card.rule)
           old == card.evidence
           rest == S \ ToSet(old)
           add == SetToSeq(rest)
           all == old \o add
           new == AddEvidence(card)
<1>1. old \in Seq(Evidence) /\ S \subseteq Evidence /\ IsFiniteSet(S)
  BY CardParts, ObservationParts, ObservationsAreFinite
<1>2. IsFiniteSet(rest) /\ rest \subseteq S
  BY <1>1, FS_Subset
<1>3. /\ add \in Seq(rest)
      /\ \A i, j \in 1..Len(add) : add[i] = add[j] => i = j
  <2> HIDE DEF rest
  <2> QED  BY <1>2, ListOfSet
<1>4. add \in Seq(Evidence)
  <2> HIDE DEF rest, S, add
  <2> QED  BY <1>1, <1>2, <1>3, SeqMonotonic
<1>5. \A i \in 1..Len(add) : add[i] \in rest
  <2> HIDE DEF rest, add
  <2> QED  BY <1>3, ElementOfSeq
<1>6. /\ Len(old) \in Nat /\ DOMAIN old = 1..Len(old)
      /\ Len(add) \in Nat /\ DOMAIN add = 1..Len(add)
  <2> HIDE DEF old, add
  <2> QED  BY <1>1, <1>4, LenProperties
<1>7. /\ all \in Seq(Evidence) /\ Len(all) = Len(old) + Len(add) /\ DOMAIN all = 1..Len(all)
      /\ \A i \in 1..Len(all) : all[i] = IF i <= Len(old) THEN old[i] ELSE add[i - Len(old)]
  <2> HIDE DEF old, add
  <2>1. /\ all \in Seq(Evidence) /\ Len(all) = Len(old) + Len(add)
        /\ \A i \in 1..(Len(old) + Len(add)) : all[i] = IF i <= Len(old) THEN old[i] ELSE add[i - Len(old)]
    BY <1>1, <1>4, ConcatProperties
  <2> HIDE DEF all
  <2> QED  BY <2>1, LenProperties
<1>8. new \in Card /\ new.rule = card.rule /\ new.status = card.status /\ new.evidence = all
  <2>1. new = [card EXCEPT !.evidence = all]
    BY DEF AddEvidence
  <2> HIDE DEF all, new
  <2> QED  BY <2>1, <1>7 DEF Card
<1>9. \A i \in 1..Len(old) : old[i] \in S
  BY <1>6 DEF Earned, ToSet
<1>10. \A i \in 1..Len(all) : all[i] \in S
  <2> HIDE DEF S, old, add, all, rest
  <2> QED  BY <1>2, <1>5, <1>6, <1>7, <1>9
<1>11. ASSUME NEW i \in 1..Len(old), NEW j \in 1..Len(add) PROVE old[i].run # add[j].run
  <2>1. old[i] \in S /\ add[j] \in S /\ add[j] \notin ToSet(old) /\ old[i] \in ToSet(old)
    BY <1>5, <1>6, <1>9 DEF ToSet
  <2> QED  BY <2>1, ObservationParts
<1>12. ASSUME NEW i \in 1..Len(old), NEW j \in 1..Len(old), old[i].run = old[j].run PROVE i = j
  BY <1>12, <1>6 DEF Earned
<1>13. ASSUME NEW i \in 1..Len(add), NEW j \in 1..Len(add), add[i].run = add[j].run PROVE i = j
  <2>1. add[i] \in S /\ add[j] \in S
    BY <1>5
  <2>2. add[i] = add[j]
    <3> HIDE DEF add
    <3> QED  BY <2>1, <1>13, ObservationParts
  <2> QED  BY <1>3, <2>2
<1>14. ASSUME NEW i \in 1..Len(all), NEW j \in 1..Len(all), all[i].run = all[j].run PROVE i = j
  <2> HIDE DEF S, old, add, all, rest
  <2>1. CASE i <= Len(old) /\ j <= Len(old)
    BY <2>1, <1>6, <1>7, <1>12, <1>14
  <2>2. CASE i <= Len(old) /\ ~(j <= Len(old))
    <3>1. j - Len(old) \in 1..Len(add) /\ i \in 1..Len(old)
      BY <2>2, <1>6, <1>7
    <3> QED  BY <3>1, <2>2, <1>7, <1>11, <1>14
  <2>3. CASE ~(i <= Len(old)) /\ j <= Len(old)
    <3>1. i - Len(old) \in 1..Len(add) /\ j \in 1..Len(old)
      BY <2>3, <1>6, <1>7
    <3> QED  BY <3>1, <2>3, <1>7, <1>11, <1>14
  <2>4. CASE ~(i <= Len(old)) /\ ~(j <= Len(old))
    <3>1. i - Len(old) \in 1..Len(add) /\ j - Len(old) \in 1..Len(add)
      BY <2>4, <1>6, <1>7
    <3>2. i - Len(old) = j - Len(old)
      BY <3>1, <2>4, <1>7, <1>13, <1>14
    <3> QED  BY <3>2, <1>6, <1>7
  <2> QED  BY <2>1, <2>2, <2>3, <2>4
<1>15. Len(all) >= CandidateAfter
  BY <1>6, <1>7 DEF Earned
<1>16. ToSet(all) \subseteq S
  BY <1>7, <1>10 DEF ToSet
<1>17. Earned(new)
  <2> HIDE DEF all, new
  <2> QED  BY <1>7, <1>8, <1>14, <1>15, <1>16 DEF Earned
<1> QED  BY <1>8, <1>17

LEMMA NewCardEarns ==
  ASSUME runs \in Seq(Seq(Finding)), CandidateAfter \in Nat, NEW rule \in Due
  PROVE  LET new == NewCard(rule)
         IN  new \in Card /\ new.rule = rule /\ new.status = "candidate" /\ Earned(new)
<1> DEFINE S == Observations(rule)
           all == SetToSeq(S)
           new == NewCard(rule)
<1>1. rule \in KRules /\ Cardinality(S) >= CandidateAfter
  BY DEF Due
<1>2. S \subseteq Evidence /\ IsFiniteSet(S)
  BY ObservationParts, ObservationsAreFinite
<1>3. /\ all \in Seq(S) /\ Len(all) = Cardinality(S)
      /\ \A i, j \in 1..Len(all) : all[i] = all[j] => i = j
  <2> HIDE DEF S
  <2> QED  BY <1>2, ListOfSet
<1>4. /\ all \in Seq(Evidence) /\ DOMAIN all = 1..Len(all)
      /\ \A i \in 1..Len(all) : all[i] \in S
  <2> HIDE DEF S, all
  <2> QED  BY <1>2, <1>3, SeqMonotonic, ElementOfSeq, LenProperties
<1>5. new = [rule |-> rule, status |-> "candidate", evidence |-> all]
  BY DEF NewCard
<1>6. \A i, j \in DOMAIN all : all[i].run = all[j].run => i = j
  <2> HIDE DEF all
  <2> QED  BY <1>3, <1>4, ObservationParts
<1>7. ToSet(all) \subseteq S
  BY <1>4 DEF ToSet
<1>8. new \in Card
  <2> HIDE DEF all, new
  <2> QED  BY <1>1, <1>4, <1>5 DEF Card
<1>9. Earned(new)
  <2> HIDE DEF all, new
  <2> QED  BY <1>1, <1>3, <1>5, <1>6, <1>7 DEF Earned
<1>10. new.rule = rule /\ new.status = "candidate"
  <2> HIDE DEF all, new
  <2> QED  BY <1>5
<1> QED  BY <1>8, <1>9, <1>10

(* The new cards get numbers no card has, one number each.                 *)
LEMMA ProposeAllSound ==
  ASSUME NeverOverlapping, KTypeOK, Sound(cards),
         \A k \in CardId \ Existing(cards) : asked[k] = "candidate"
  PROVE  /\ ProposeAll(cards) \in [CardId -> Card \cup {NoCard}]
         /\ Sound(ProposeAll(cards))
         /\ \A k \in Existing(cards) : /\ k \in Existing(ProposeAll(cards))
                                       /\ ProposeAll(cards)[k].rule = cards[k].rule
<1> DEFINE old == Existing(cards)
           P == ProposeAll(cards)
           U == Unproposed(cards)
           h == Highest(cards)
           list == SetToSeq(U)
           Added(k) == k \in CardId /\ k \notin old /\ k - h \in 1..Cardinality(U)
<1>1. runs \in Seq(Seq(Finding)) /\ CandidateAfter \in Nat /\ NoCard \notin Card
  BY DEF NeverOverlapping, KTypeOK, Card, NoCard
<1>2. \A k \in old : k \in CardId /\ cards[k] \in Card /\ Earned(cards[k]) /\ cards[k].status = asked[k]
  BY DEF Existing, KTypeOK, Sound
<1>3. old \subseteq CardId
  BY DEF Existing
<1>4. U \subseteq Due /\ IsFiniteSet(U) /\ \A rule \in U, k \in old : cards[k].rule # rule
  BY FS_Subset DEF Unproposed, Due, NeverOverlapping, CardOf
<1>5. h \in Nat
  <2> HIDE DEF old
  <2>1. MaxCards \in Nat /\ old \subseteq 1..MaxCards
    BY <1>3 DEF CardId, NeverOverlapping
  <2> DEFINE numbers == {0} \cup old
  <2>2. numbers \in SUBSET (0..MaxCards) /\ 0 \in numbers
    BY <2>1
  <2> HIDE DEF numbers
  <2>3. Max(numbers) \in numbers
    BY <2>1, <2>2, MaxIsMember
  <2>4. \A x \in numbers : x \in Nat
    BY <2>1, <2>2
  <2>5. Max(numbers) \in Nat
    BY <2>3, <2>4
  <2> QED  BY <2>5 DEF Highest, numbers, old
<1>6. /\ Cardinality(U) \in Nat
      /\ \A i \in 1..Cardinality(U) : list[i] \in U
      /\ \A i, j \in 1..Cardinality(U) : list[i] = list[j] => i = j
  <2> HIDE DEF U
  <2> QED  BY <1>4, ListOfSet, ElementOfSeq
<1>7. ASSUME NEW k \in old
      PROVE  P[k] \in Card /\ P[k].rule = cards[k].rule /\ Earned(P[k]) /\ P[k].status = asked[k]
  <2>1. P[k] = AddEvidence(cards[k]) \/ P[k] = cards[k]
    BY <1>3 DEF ProposeAll
  <2> HIDE DEF P, old
  <2> QED  BY <2>1, <1>1, <1>2, AddEvidenceEarns
<1>8. ASSUME NEW k, Added(k)
      PROVE  /\ P[k] \in Card /\ Earned(P[k]) /\ P[k].status = asked[k]
             /\ k - h \in 1..Cardinality(U) /\ P[k].rule = list[k - h]
  <2>1. P[k] = NewCard(list[k - h])
    BY <1>8 DEF ProposeAll
  <2>2. list[k - h] \in Due
    BY <1>4, <1>6, <1>8
  <2>3. asked[k] = "candidate"
    BY <1>8
  <2> HIDE DEF P, list
  <2> QED  BY <2>1, <2>2, <2>3, <1>1, <1>8, NewCardEarns
<1>9. ASSUME NEW k \in CardId, k \notin old, ~Added(k) PROVE P[k] = NoCard
  BY <1>9 DEF ProposeAll
<1>10. P = [k \in CardId |-> P[k]]
  BY DEF ProposeAll
<1> DEFINE has == Existing(P)
<1>11. \A k : k \in has <=> k \in CardId /\ P[k] # NoCard
  BY DEF Existing
<1> HIDE DEF old, P, U, h, list, has
<1>12. \A k : k \in has <=> k \in old \/ Added(k)
  BY <1>1, <1>3, <1>7, <1>8, <1>9, <1>11
<1>13. P \in [CardId -> Card \cup {NoCard}]
  BY <1>7, <1>8, <1>9, <1>10
<1>14. ASSUME NEW j \in has, NEW k \in has, P[j].rule = P[k].rule PROVE j = k
  <2>1. CASE j \in old /\ k \in old
    BY <2>1, <1>7, <1>14 DEF Sound, old
  <2>2. CASE j \in old /\ Added(k)
    BY <2>2, <1>4, <1>6, <1>7, <1>8, <1>14
  <2>3. CASE Added(j) /\ k \in old
    BY <2>3, <1>4, <1>6, <1>7, <1>8, <1>14
  <2>4. CASE Added(j) /\ Added(k)
    <3>1. list[j - h] = list[k - h] /\ j - h \in 1..Cardinality(U) /\ k - h \in 1..Cardinality(U)
      BY <2>4, <1>8, <1>14
    <3>2. j - h = k - h
      BY <3>1, <1>6
    <3>3. j \in Nat /\ k \in Nat
      BY <2>4 DEF CardId
    <3> QED  BY <3>2, <3>3, <1>5
  <2> QED  BY <1>12, <2>1, <2>2, <2>3, <2>4
<1>15. \A k \in has : Earned(P[k]) /\ P[k].status = asked[k]
  BY <1>7, <1>8, <1>12
<1>16. Sound(P)
  BY <1>14, <1>15 DEF Sound, has
<1>17. \A k \in old : k \in has /\ P[k].rule = cards[k].rule
  BY <1>7, <1>12
<1> QED  BY <1>13, <1>16, <1>17 DEF P, old, has

-----------------------------------------------------------------------------
(* A journal only grows, and its first finding of a rule stays the first.  *)
LEMMA JournalsGrow ==
  ASSUME KTypeOK, StartRun \/ Find
  PROVE  /\ runs' \in Seq(Seq(Finding))
         /\ \A r \in DOMAIN runs : /\ r \in DOMAIN runs' /\ DOMAIN runs[r] \subseteq DOMAIN runs'[r]
                                   /\ \A i \in DOMAIN runs[r] : runs'[r][i] = runs[r][i]
                                   /\ \A i \in DOMAIN runs'[r] \ DOMAIN runs[r] :
                                        \A j \in DOMAIN runs[r] : j <= i
<1>1. runs \in Seq(Seq(Finding))
  BY DEF KTypeOK
<1>2. /\ Len(runs) \in Nat /\ DOMAIN runs = 1..Len(runs)
      /\ \A r \in DOMAIN runs : /\ runs[r] \in Seq(Finding) /\ Len(runs[r]) \in Nat
                                /\ DOMAIN runs[r] = 1..Len(runs[r])
  BY <1>1, RunParts
<1>3. CASE StartRun
  <2>1. runs' = Append(runs, <<>>) /\ <<>> \in Seq(Finding)
    BY <1>3 DEF StartRun
  <2> DEFINE Journals == Seq(Finding)
  <2>2. runs \in Seq(Journals) /\ <<>> \in Journals
    BY <1>1, <2>1
  <2> HIDE DEF Journals
  <2>3. /\ runs' \in Seq(Journals) /\ Len(runs') = Len(runs) + 1
        /\ \A r \in 1..Len(runs) : runs'[r] = runs[r]
    BY <2>1, <2>2, AppendProperties
  <2>4. runs' \in Seq(Seq(Finding))
    BY <2>3 DEF Journals
  <2>5. DOMAIN runs' = 1..Len(runs')
    BY <2>3, LenProperties
  <2>6. ASSUME NEW r \in DOMAIN runs PROVE r \in DOMAIN runs' /\ runs'[r] = runs[r]
    BY <1>2, <2>3, <2>5
  <2> QED  BY <2>4, <2>6
<1>4. CASE Find
  <2>1. PICK rule \in KRules, task \in KTasks :
           runs' = [runs EXCEPT ![Len(runs)] = Append(@, [rule |-> rule, task |-> task])]
    BY <1>4 DEF Find
  <2> DEFINE n == Len(runs)
             finding == [rule |-> rule, task |-> task]
             longer == Append(runs[n], finding)
             Journals == Seq(Finding)
  <2>2. n \in 1..Len(runs) /\ n \in DOMAIN runs
    BY <1>1, <1>2, <1>4, EmptySeq DEF Find
  <2>3. finding \in Finding /\ runs[n] \in Seq(Finding)
    BY <1>2, <2>2 DEF Finding
  <2>4. /\ longer \in Seq(Finding) /\ Len(longer) = Len(runs[n]) + 1
        /\ \A i \in 1..Len(runs[n]) : longer[i] = runs[n][i]
    <3> HIDE DEF finding, n
    <3> QED  BY <2>3, AppendProperties
  <2>5. DOMAIN longer = 1..Len(longer)
    <3> HIDE DEF longer
    <3> QED  BY <2>4, LenProperties
  <2>6. runs' = [runs EXCEPT ![n] = longer]
    BY <2>1
  <2>7. longer \in Journals /\ runs \in Seq(Journals)
    BY <1>1, <2>4
  <2> HIDE DEF longer, finding, n, Journals
  <2>8. /\ runs' \in Seq(Journals) /\ Len(runs') = Len(runs)
        /\ \A r \in 1..Len(runs) : runs'[r] = IF r = n THEN longer ELSE runs[r]
    BY <2>2, <2>6, <2>7, ExceptSeq
  <2>9. runs' \in Seq(Seq(Finding))
    BY <2>8 DEF Journals
  <2>10. DOMAIN runs' = 1..Len(runs')
    BY <2>8, LenProperties
  <2>11. ASSUME NEW r \in DOMAIN runs
         PROVE  /\ r \in DOMAIN runs' /\ DOMAIN runs[r] \subseteq DOMAIN runs'[r]
                /\ \A i \in DOMAIN runs[r] : runs'[r][i] = runs[r][i]
                /\ \A i \in DOMAIN runs'[r] \ DOMAIN runs[r] : \A j \in DOMAIN runs[r] : j <= i
    <3>1. r \in DOMAIN runs' /\ r \in 1..Len(runs)
      BY <1>2, <2>8, <2>10
    <3>2. CASE r # n
      <4>1. runs'[r] = runs[r]
        BY <2>8, <3>1, <3>2
      <4> QED  BY <3>1, <4>1
    <3>3. CASE r = n
      <4>1. runs'[r] = longer
        BY <2>8, <3>1, <3>3
      <4> QED  BY <1>2, <2>2, <2>4, <2>5, <3>1, <3>3, <4>1
    <3> QED  BY <3>2, <3>3
  <2> QED  BY <2>9, <2>11
<1> QED  BY <1>3, <1>4

LEMMA ObservationsStay ==
  ASSUME KTypeOK, StartRun \/ Find, NEW rule
  PROVE  Observations(rule) \subseteq Observations(rule)'
<1> SUFFICES ASSUME NEW o \in Observations(rule) PROVE o \in Observations(rule)'
  OBVIOUS
<1> DEFINE r == o.run
           first == Min(Findings(r, rule))
<1>1. runs \in Seq(Seq(Finding)) /\ runs' \in Seq(Seq(Finding))
  BY JournalsGrow DEF KTypeOK
<1>2. r \in DOMAIN runs /\ Findings(r, rule) # {} /\ o = [run |-> r, task |-> runs[r][first].task]
  BY <1>1, ObservationParts
<1>3. /\ first \in DOMAIN runs[r] /\ runs[r][first].rule = rule
      /\ \A i \in DOMAIN runs[r] : runs[r][i].rule = rule => first <= i
  BY <1>1, <1>2, FirstFinding
<1>4. /\ r \in DOMAIN runs' /\ DOMAIN runs[r] \subseteq DOMAIN runs'[r]
      /\ \A i \in DOMAIN runs[r] : runs'[r][i] = runs[r][i]
      /\ \A i \in DOMAIN runs'[r] \ DOMAIN runs[r] : \A j \in DOMAIN runs[r] : j <= i
  BY <1>2, JournalsGrow
<1> HIDE DEF r, first
<1> DEFINE later == {i \in DOMAIN runs'[r] : runs'[r][i].rule = rule}
<1>5. first \in later /\ \A i \in later : first <= i
  BY <1>3, <1>4
<1>6. later \in SUBSET Nat
  <2>1. runs'[r] \in Seq(Finding)
    BY <1>1, <1>4, ElementOfSeq, LenProperties
  <2>2. DOMAIN runs'[r] = 1..Len(runs'[r]) /\ Len(runs'[r]) \in Nat
    BY <2>1, LenProperties
  <2> QED  BY <2>2
<1>7. Min(later) \in later /\ \A i \in later : Min(later) <= i
  BY <1>5, <1>6, MinIsLeast
<1>8. Min(later) = first
  <2> HIDE DEF later
  <2>1. Min(later) <= first /\ first <= Min(later) /\ first \in Nat /\ Min(later) \in Nat
    BY <1>5, <1>6, <1>7
  <2> QED  BY <2>1
<1>9. runs'[r][first].task = runs[r][first].task
  BY <1>3, <1>4
<1>10. o = [run |-> r, task |-> runs'[r][Min(later)].task] /\ later # {}
  BY <1>2, <1>5, <1>8, <1>9
<1>11. Findings(r, rule)' = later
  BY DEF Findings
<1>12. Observations(rule)' = {[run |-> q, task |-> runs'[q][Min(Findings(q, rule)')].task] :
                                q \in {p \in DOMAIN runs' : Findings(p, rule)' # {}}}
  BY DEF Observations
<1> HIDE DEF later
<1> QED  BY <1>4, <1>10, <1>11, <1>12

-----------------------------------------------------------------------------
(* The steps.                                                              *)

(* A run that goes on takes nothing from a card.                           *)
LEMMA RunsGoOn ==
  ASSUME KInv, StartRun \/ Find
  PROVE  KInv'
<1>1. UNCHANGED <<cards, memory, asked>>
  BY DEF StartRun, Find
<1>2. KTypeOK /\ KTypeOK'
  BY <1>1, JournalsGrow DEF KInv, KTypeOK
<1>3. ASSUME NEW all, Sound(all) PROVE Sound(all)'
  <2>1. ASSUME NEW k \in Existing(all) PROVE Earned(all[k])'
    <3>1. Earned(all[k])
      BY <1>3 DEF Sound
    <3>2. Observations(all[k].rule) \subseteq Observations(all[k].rule)'
      BY <1>2, ObservationsStay
    <3> QED  BY <3>1, <3>2 DEF Earned
  <2> QED  BY <1>1, <1>3, <2>1 DEF Sound, Existing
<1>4. Sound(cards)' /\ (memory # <<>> => Sound(memory)')
  BY <1>1, <1>3 DEF KInv
<1> QED  BY <1>1, <1>2, <1>4 DEF KInv, Existing

(* What the runs and the human have not changed is as sound as it was.     *)
LEMMA EarnedAsBefore ==
  ASSUME UNCHANGED runs, NEW card
  PROVE  Earned(card)' <=> Earned(card)
<1>1. \A r, rule : Findings(r, rule)' = Findings(r, rule)
  BY DEF Findings
<1>2. Observations(card.rule)' = Observations(card.rule)
  BY <1>1 DEF Observations
<1> QED  BY <1>2 DEF Earned

LEMMA SoundAsBefore ==
  ASSUME UNCHANGED <<runs, asked>>, NEW all
  PROVE  Sound(all)' <=> Sound(all)
<1>1. \A k : Earned(all[k])' <=> Earned(all[k])
  BY EarnedAsBefore
<1>2. Existing(all)' = Existing(all)
  BY DEF Existing, CardId
<1> QED  BY <1>1, <1>2 DEF Sound

(* learn decides on cards that are sound.                                  *)
LEMMA ReadAllKeeps ==
  ASSUME NeverOverlapping, KInv, ReadAll
  PROVE  KInv'
<1>1. UNCHANGED <<cards, runs, asked>> /\ memory' = ProposeAll(cards)
  BY DEF ReadAll
<1>2. /\ ProposeAll(cards) \in [CardId -> Card \cup {NoCard}]
      /\ Sound(ProposeAll(cards))
      /\ \A k \in Existing(cards) : /\ k \in Existing(ProposeAll(cards))
                                    /\ ProposeAll(cards)[k].rule = cards[k].rule
  BY ProposeAllSound DEF KInv
<1>3. KTypeOK'
  BY <1>1, <1>2 DEF KInv, KTypeOK
<1>4. Sound(cards)' /\ Sound(memory)'
  BY <1>1, <1>2, SoundAsBefore DEF KInv
<1> QED  BY <1>1, <1>2, <1>3, <1>4 DEF KInv, Existing

(* Whatever learn has written when it is killed, the cards are sound.      *)
LEMMA WriteCardKeeps ==
  ASSUME KInv, WriteCard
  PROVE  KInv'
<1> DEFINE left == Existing(memory) \ written
           n == Min(left)
<1>1. /\ memory # <<>> /\ left # {} /\ cards' = [cards EXCEPT ![n] = memory[n]]
      /\ UNCHANGED <<runs, memory, asked>>
  BY DEF WriteCard
<1>2. n \in Existing(memory) /\ n \in CardId
  <2>1. left \in SUBSET Nat
    BY DEF Existing, CardId
  <2>2. n \in left
    BY <1>1, <2>1, MinIsLeast
  <2> QED  BY <2>2 DEF Existing
<1> HIDE DEF left, n
<1>3. /\ KTypeOK /\ Sound(cards) /\ Sound(memory)
      /\ \A k \in Existing(cards) : k \in Existing(memory) /\ memory[k].rule = cards[k].rule
      /\ \A k \in CardId \ Existing(cards) : asked[k] = "candidate"
      /\ memory \in [CardId -> Card \cup {NoCard}]
  BY <1>1 DEF KInv, KTypeOK
<1>4. /\ KTypeOK'
      /\ \A k \in CardId : cards'[k] = IF k = n THEN memory[n] ELSE cards[k]
  BY <1>1, <1>2, <1>3 DEF KTypeOK
<1>5. \A k : k \in Existing(cards)' <=> k = n \/ k \in Existing(cards)
  BY <1>2, <1>3, <1>4 DEF Existing
<1>6. \A k \in Existing(cards)' : k \in Existing(memory) /\ memory[k].rule = cards'[k].rule
  BY <1>2, <1>3, <1>4, <1>5 DEF Existing
<1>7. \A j, k \in Existing(cards)' : cards'[j].rule = cards'[k].rule => j = k
  BY <1>3, <1>6 DEF Sound
<1>8. ASSUME NEW k \in Existing(cards)' PROVE Earned(cards'[k]) /\ cards'[k].status = asked[k]
  <2>1. k \in CardId
    BY <1>8 DEF Existing
  <2>2. CASE k = n
    BY <1>2, <1>3, <1>4, <2>1, <2>2 DEF Sound
  <2>3. CASE k # n
    BY <1>3, <1>4, <1>5, <2>1, <2>3 DEF Sound
  <2> QED  BY <2>2, <2>3
<1>9. Sound(cards)'
  BY <1>1, <1>7, <1>8, EarnedAsBefore DEF Sound
<1>10. Sound(memory)'
  BY <1>1, <1>3, SoundAsBefore
<1>11. \A k \in CardId \ Existing(cards)' : asked'[k] = "candidate"
  BY <1>1, <1>3, <1>5
<1>12. \A k \in Existing(cards)' : k \in Existing(memory)' /\ memory'[k].rule = cards'[k].rule
  BY <1>1, <1>6 DEF Existing
<1>13. CardId' = CardId
  BY DEF CardId
<1> QED  BY <1>4, <1>9, <1>10, <1>11, <1>12, <1>13 DEF KInv

LEMMA EndLearnKeeps ==
  ASSUME KInv, EndLearn
  PROVE  KInv'
<1>1. UNCHANGED <<cards, runs, asked>> /\ memory' = <<>>
  BY DEF EndLearn
<1>2. Sound(cards)'
  BY <1>1, SoundAsBefore DEF KInv
<1>3. KTypeOK' /\ Existing(cards)' = Existing(cards)
  BY <1>1 DEF KInv, KTypeOK, Existing
<1> QED  BY <1>1, <1>2, <1>3 DEF KInv

(* A human decides on one card, and no learn has read it before.           *)
LEMMA SetStatusKeeps ==
  ASSUME NeverOverlapping, KInv, SetStatus
  PROVE  KInv'
<1>1. memory = <<>> /\ UNCHANGED <<runs, memory>>
  BY DEF SetStatus, NeverOverlapping
<1>2. PICK n \in Existing(cards), status \in {"promoted", "retired"} :
         cards' = [cards EXCEPT ![n].status = status] /\ asked' = [asked EXCEPT ![n] = status]
  BY DEF SetStatus
<1> DEFINE card == [cards[n] EXCEPT !.status = status]
<1>3. n \in CardId /\ cards[n] \in Card /\ cards \in [CardId -> Card \cup {NoCard}]
  BY <1>2 DEF KInv, KTypeOK, Existing
<1>4. card \in Card /\ card.rule = cards[n].rule /\ card.evidence = cards[n].evidence /\ card.status = status
  BY <1>3 DEF Card
<1>5. cards' = [cards EXCEPT ![n] = card]
  BY <1>2
<1>6. card # NoCard
  BY <1>4 DEF NoCard
<1> HIDE DEF card
<1>7. \A k \in CardId : cards'[k] = IF k = n THEN card ELSE cards[k]
  BY <1>3, <1>5
<1>8. KTypeOK'
  BY <1>1, <1>2, <1>3, <1>4, <1>5 DEF KInv, KTypeOK
<1>9. \A k : k \in Existing(cards)' <=> k \in Existing(cards)
  BY <1>2, <1>6, <1>7 DEF Existing
<1>10. \A k \in Existing(cards) : asked'[k] = IF k = n THEN status ELSE asked[k]
  BY <1>2 DEF KInv, KTypeOK, Existing
<1>11. \A k \in CardId : cards'[k].rule = cards[k].rule /\ cards'[k].evidence = cards[k].evidence
  BY <1>4, <1>7
<1>12. \A k \in Existing(cards) : Earned(cards[k]) => Earned(cards'[k])
  BY <1>11 DEF Earned, Existing
<1>13. \A k \in Existing(cards) : cards'[k].status = asked'[k]
  BY <1>4, <1>7, <1>10 DEF KInv, Sound, Existing
<1>14. \A j, k \in Existing(cards) : cards'[j].rule = cards'[k].rule => j = k
  BY <1>11 DEF KInv, Sound, Existing
<1>15. \A k \in Existing(cards) : Earned(cards'[k])
  BY <1>12 DEF KInv, Sound
<1>16. Sound(cards)'
  BY <1>1, <1>9, <1>13, <1>14, <1>15, EarnedAsBefore DEF Sound
<1>17. \A k \in CardId \ Existing(cards)' : asked'[k] = "candidate"
  BY <1>2, <1>9 DEF KInv, KTypeOK
<1>18. memory' = <<>> /\ CardId' = CardId
  BY <1>1 DEF CardId
<1> QED  BY <1>8, <1>16, <1>17, <1>18 DEF KInv

LEMMA KStarts ==
  ASSUME NeverOverlapping, KInit
  PROVE  KInv
<1>1. runs = <<>> /\ memory = <<>> /\ cards = [k \in CardId |-> NoCard] /\ asked = [k \in CardId |-> "candidate"]
  BY DEF KInit
<1>2. Existing(cards) = {}
  BY <1>1 DEF Existing
<1>3. runs \in Seq(Seq(Finding))
  BY <1>1
<1>4. KTypeOK
  BY <1>1, <1>3 DEF KTypeOK
<1> QED  BY <1>1, <1>2, <1>4 DEF KInv, Sound

LEMMA KStep ==
  ASSUME NeverOverlapping, KInv, [KNext]_kvars
  PROVE  KInv'
<1>1. CASE StartRun \/ Find
  BY <1>1, RunsGoOn
<1>2. CASE ReadAll
  BY <1>2, ReadAllKeeps
<1>3. CASE WriteCard
  BY <1>3, WriteCardKeeps
<1>4. CASE EndLearn
  BY <1>4, EndLearnKeeps
<1>5. CASE SetStatus
  BY <1>5, SetStatusKeeps
<1>6. CASE UNCHANGED kvars
  <2>1. UNCHANGED <<cards, runs, memory, asked>>
    BY <1>6 DEF kvars
  <2>2. Sound(cards)' /\ (memory # <<>> => Sound(memory)')
    BY <2>1, SoundAsBefore DEF KInv
  <2> QED  BY <2>1, <2>2 DEF KInv, KTypeOK, Existing
<1> QED  BY <1>1, <1>2, <1>3, <1>4, <1>5, <1>6 DEF KNext

(* What is known of a sound card is what is promised.                      *)
LEMMA SoundIsEarned ==
  ASSUME NeverOverlapping, KInv
  PROVE  CardsAreEarned
<1> SUFFICES ASSUME NEW k \in Existing(cards)
             PROVE  /\ \A j \in Existing(cards) : cards[j].rule = cards[k].rule => j = k
                    /\ Cardinality({o.run : o \in ToSet(cards[k].evidence)}) = Len(cards[k].evidence)
                    /\ Len(cards[k].evidence) >= CandidateAfter
                    /\ \A o \in ToSet(cards[k].evidence) :
                         [rule |-> cards[k].rule, task |-> o.task] \in ToSet(runs[o.run])
                    /\ cards[k].status = asked[k]
  BY DEF CardsAreEarned
<1> DEFINE evidence == cards[k].evidence
           named == {o.run : o \in ToSet(evidence)}
           f == [i \in 1..Len(evidence) |-> evidence[i].run]
<1>1. cards[k] \in Card /\ Earned(cards[k]) /\ cards[k].status = asked[k]
  BY DEF KInv, KTypeOK, Sound, Existing
<1>2. /\ \A i, j \in DOMAIN evidence : evidence[i].run = evidence[j].run => i = j
      /\ Len(evidence) >= CandidateAfter
      /\ ToSet(evidence) \subseteq Observations(cards[k].rule)
  BY <1>1 DEF Earned
<1>3. Len(evidence) \in Nat /\ DOMAIN evidence = 1..Len(evidence)
  <2>1. evidence \in Seq(Evidence)
    BY <1>1, CardParts
  <2> HIDE DEF evidence
  <2> QED  BY <2>1, LenProperties
<1>4. Cardinality(named) = Len(evidence)
  <2> HIDE DEF evidence
  <2>1. f \in [1..Len(evidence) -> named] /\ \A o \in named : \E i \in 1..Len(evidence) : f[i] = o
    BY <1>3 DEF ToSet
  <2>2. \A i, j \in 1..Len(evidence) : f[i] = f[j] => i = j
    BY <1>2, <1>3
  <2> HIDE DEF f, named
  <2>3. ExistsBijection(1..Len(evidence), named)
    BY <2>1, <2>2 DEF ExistsBijection, Bijection, Injection, Surjection, IsInjective
  <2>4. IsFiniteSet(1..Len(evidence)) /\ Cardinality(1..Len(evidence)) = Len(evidence)
    <3> DEFINE n == Len(evidence)
    <3>1. n \in Int /\ 1 \in Int /\ (IF 1 > n THEN 0 ELSE n - 1 + 1) = n
      BY <1>3
    <3> HIDE DEF n
    <3>2. IsFiniteSet(1..n) /\ Cardinality(1..n) = (IF 1 > n THEN 0 ELSE n - 1 + 1)
      BY <3>1, FS_Interval
    <3> QED  BY <3>1, <3>2 DEF n
  <2> QED  BY <2>3, <2>4, FS_Bijection
<1>5. \A o \in ToSet(evidence) : [rule |-> cards[k].rule, task |-> o.task] \in ToSet(runs[o.run])
  <2>1. runs \in Seq(Seq(Finding))
    BY DEF KInv, KTypeOK
  <2> HIDE DEF evidence
  <2> QED  BY <1>2, <2>1, ObservationParts
<1>6. \A j \in Existing(cards) : cards[j].rule = cards[k].rule => j = k
  BY DEF KInv, Sound
<1> QED  BY <1>1, <1>2, <1>4, <1>5, <1>6

(* A card stands for a rule that was found broken in as many runs as are   *)
(* asked for, each counted once; a rule has one card, and only a human     *)
(* changes a status: for every threshold and every number of runs and      *)
(* cards, wherever learn is killed, if no human decides while it runs      *)
(* (learn.py, docs/08).                                                    *)
THEOREM CardsEarned == NeverOverlapping => (KSpec => []CardsAreEarned)
<1> SUFFICES ASSUME NeverOverlapping PROVE KSpec => []CardsAreEarned
  OBVIOUS
<1>1. KInit => KInv
  BY KStarts
<1>2. KInv /\ [KNext]_kvars => KInv'
  BY KStep
<1>3. KInv => CardsAreEarned
  BY SoundIsEarned
<1> QED  BY <1>1, <1>2, <1>3, PTL DEF KSpec
=============================================================================
