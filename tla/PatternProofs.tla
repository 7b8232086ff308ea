--------------------------- MODULE PatternProofs ----------------------------
(***************************************************************************)
(* What TLAPS proves of patterns: for every pattern and path, what the     *)
(* scheduler compares is never less than what verification matches, and    *)
(* the translation to an expression over characters matches segment by     *)
(* segment.                                                                *)
(***************************************************************************)
EXTENDS DecisionProofs

-----------------------------------------------------------------------------
(* Patterns.                                                               *)

(* What is dropped of a pattern are slashes at its end.                    *)
LEMMA PatternNormalized ==
  ASSUME NEW p \in Relative
  PROVE  LET n == Normalized(p)
         IN  /\ n \in Seq(STRING) /\ Len(n) \in Nat /\ Len(p) \in Nat /\ Len(n) <= Len(p)
             /\ \A k \in 1..Len(n) : n[k] = p[k]
             /\ \A k \in (Len(n) + 1)..Len(p) : p[k] = "/"
<1> DEFINE lead  == {i \in 0..(Len(p) \div 2) : \A j \in 1..i : p[2*j - 1] = "." /\ p[2*j] = "/"}
           start == 2 * Max(lead) + 1
           text  == SubSeq(p, start, Len(p))
           trail == {i \in 0..Len(text) : \A j \in (i + 1)..Len(text) : text[j] = "/"}
           m     == Min(trail)
<1>0. p \in Seq(STRING) /\ Len(p) \in Nat /\ ~(Len(p) >= 2 /\ p[1] = "." /\ p[2] = "/")
  BY LenProperties DEF Relative
<1>1. lead = {0}
  <2>1. 0 \in lead
    BY <1>0
  <2>2. ASSUME NEW i \in lead, i # 0 PROVE FALSE
    <3>1. i \in Nat /\ i >= 1 /\ i <= Len(p) \div 2 /\ 1 \in 1..i
      BY <1>0, <2>2
    <3>2. p[2*1 - 1] = "." /\ p[2*1] = "/"
      BY <3>1, <2>2
    <3>3. Len(p) >= 2
      BY <1>0, <3>1
    <3> QED  BY <1>0, <3>2, <3>3
  <2> QED  BY <2>1, <2>2
<1>2. Max(lead) = 0
  BY <1>1 DEF Max
<1>3. text \in Seq(STRING) /\ Len(text) = Len(p) /\ \A k \in 1..Len(p) : text[k] = p[k]
  <2>1. start = 1
    BY <1>2
  <2>2. \A k \in 1..Len(p) : p[k] \in STRING
    BY <1>0, ElementOfSeq
  <2> HIDE DEF start
  <2> QED  BY <1>0, <2>1, <2>2, SubSeqProperties
<1> HIDE DEF text
<1>4. m \in trail /\ m \in 0..Len(p)
  <2>1. trail \in SUBSET Nat /\ Len(p) \in trail
    BY <1>0, <1>3
  <2> HIDE DEF trail
  <2>2. m \in trail
    BY <2>1, MinIsLeast
  <2> QED  BY <2>2, <1>3 DEF trail
<1>5. Normalized(p) = SubSeq(text, 1, m)
  BY DEF Normalized, text, m, trail, start
<1> HIDE DEF m
<1>6. \A k \in 1..m : text[k] \in STRING
  BY <1>0, <1>3, <1>4, ElementOfSeq
<1>7. /\ SubSeq(text, 1, m) \in Seq(STRING) /\ Len(SubSeq(text, 1, m)) = m
      /\ \A k \in 1..m : SubSeq(text, 1, m)[k] = text[k]
  BY <1>0, <1>4, <1>6, SubSeqProperties
<1>8. \A k \in (m + 1)..Len(p) : p[k] = "/"
  BY <1>0, <1>3, <1>4
<1> QED  BY <1>0, <1>3, <1>4, <1>5, <1>7, <1>8

LEMMA PathNormalized ==
  ASSUME NEW p \in Seq(STRING)
  PROVE  Normalized(p) \in Seq(STRING)
<1> DEFINE lead  == {i \in 0..(Len(p) \div 2) : \A j \in 1..i : p[2*j - 1] = "." /\ p[2*j] = "/"}
           start == 2 * Max(lead) + 1
           text  == SubSeq(p, start, Len(p))
           trail == {i \in 0..Len(text) : \A j \in (i + 1)..Len(text) : text[j] = "/"}
           m     == Min(trail)
<1>0. Len(p) \in Nat /\ \A k \in 1..Len(p) : p[k] \in STRING
  BY LenProperties, ElementOfSeq
<1>1. Max(lead) \in 0..(Len(p) \div 2)
  <2>1. lead \in SUBSET (0..(Len(p) \div 2)) /\ 0 \in lead /\ Len(p) \div 2 \in Nat
    BY <1>0
  <2> DEFINE half == Len(p) \div 2
  <2>2. half \in Nat /\ lead \in SUBSET (0..half) /\ 0 \in lead
    BY <2>1
  <2> HIDE DEF lead, half
  <2>3. Max(lead) \in lead
    BY <2>2, MaxIsGreatest
  <2> QED  BY <2>2, <2>3 DEF half
<1>2. start \in Int /\ start >= 1
  BY <1>0, <1>1
<1> HIDE DEF start
<1>3. text \in Seq(STRING) /\ Len(text) \in Nat
  <2>1. \A k \in start..Len(p) : p[k] \in STRING
    BY <1>0, <1>2
  <2>2. SubSeq(p, start, Len(p)) \in Seq(STRING)
    BY <1>0, <1>2, <2>1, SubSeqProperties
  <2> HIDE DEF text
  <2> QED  BY <2>2, LenProperties DEF text
<1> HIDE DEF text
<1>4. m \in 0..Len(text)
  <2>1. trail \in SUBSET Nat /\ Len(text) \in trail
    BY <1>3
  <2> HIDE DEF trail
  <2>2. m \in trail
    BY <2>1, MinIsLeast
  <2> QED  BY <2>2 DEF trail
<1>5. Normalized(p) = SubSeq(text, 1, m)
  BY DEF Normalized, text, m, trail, start
<1> HIDE DEF m
<1>6. \A k \in 1..m : text[k] \in STRING
  BY <1>3, <1>4, ElementOfSeq
<1> QED  BY <1>3, <1>4, <1>5, <1>6, SubSeqProperties

-----------------------------------------------------------------------------
(* The recursion of MatchesGlob: the positions from which the pattern      *)
(* matches from i on, given those from which it matches further on.        *)

From(left, pattern, path, i) ==
  LET end == Len(path) + 1
  IN IF i > Len(pattern) THEN {end}
     ELSE IF At(pattern, i, <<"*", "*", "/">>) THEN
         LET rest == left[i + 3]
         IN {j \in 1..end : j \in rest \/ \E k \in j..Len(path) : path[k] = "/" /\ k + 1 \in rest}
     ELSE IF ClosingStars(pattern, i) THEN {j \in 1..end : j = end \/ path[j] = "/"}
     ELSE IF At(pattern, i, <<"*", "*">>) THEN
         LET rest == left[i + 2]
         IN {j \in 1..end : \E k \in j..end : k \in rest}
     ELSE
         LET rest == left[i + 1]
         IN IF pattern[i] = "*"
            THEN {j \in 1..end : \E k \in j..end : k \in rest /\ \A l \in j..(k - 1) : path[l] # "/"}
            ELSE {j \in 1..Len(path) : /\ j + 1 \in rest
                                       /\ IF pattern[i] = "?" THEN path[j] # "/" ELSE path[j] = pattern[i]}

Solves(left, pattern, path, first) ==
  left = [i \in first..(Len(pattern) + 1) |-> From(left, pattern, path, i)]

LEMMA FromLooksAhead ==
  ASSUME NEW S, NEW pattern \in Seq(S), NEW path, NEW i \in 1..(Len(pattern) + 1), NEW f, NEW g,
         \A k \in (i + 1)..(Len(pattern) + 1) : f[k] = g[k]
  PROVE  From(f, pattern, path, i) = From(g, pattern, path, i)
<1>0. Len(pattern) \in Nat
  BY LenProperties
<1>1. CASE i > Len(pattern)
  BY <1>1 DEF From
<1>2. CASE ~(i > Len(pattern))
  <2>1. f[i + 1] = g[i + 1]
    BY <1>0, <1>2
  <2>2. At(pattern, i, <<"*", "*", "/">>) => f[i + 3] = g[i + 3]
    <3>1. Len(<<"*", "*", "/">>) = 3
      OBVIOUS
    <3>2. At(pattern, i, <<"*", "*", "/">>) => i + 2 <= Len(pattern)
      BY <1>0, <3>1 DEF At
    <3> QED  BY <1>0, <3>2
  <2>3. At(pattern, i, <<"*", "*">>) => f[i + 2] = g[i + 2]
    <3>1. Len(<<"*", "*">>) = 2
      OBVIOUS
    <3>2. At(pattern, i, <<"*", "*">>) => i + 1 <= Len(pattern)
      BY <1>0, <3>1 DEF At
    <3> QED  BY <1>0, <3>2
  <2> QED  BY <1>2, <2>1, <2>2, <2>3, Zenon DEF From
<1> QED  BY <1>1, <1>2

LEMMA Solvable ==
  ASSUME NEW S, NEW pattern \in Seq(S), NEW path
  PROVE  \E left : Solves(left, pattern, path, 1)
<1> DEFINE top == Len(pattern) + 1
           good == {m \in 0..Len(pattern) : \E left : Solves(left, pattern, path, top - m)}
<1>0. Len(pattern) \in Nat
  BY LenProperties
<1>1. 0 \in good
  <2> DEFINE left == [i \in top..top |-> {Len(path) + 1}]
  <2>1. \A i \in top..top : From(left, pattern, path, i) = {Len(path) + 1}
    BY <1>0 DEF From
  <2>2. left = [i \in top..top |-> From(left, pattern, path, i)]
    BY <2>1
  <2>3. Solves(left, pattern, path, top)
    BY <2>2 DEF Solves
  <2>4. top - 0 = top
    BY <1>0
  <2> HIDE DEF top
  <2> QED  BY <1>0, <2>3, <2>4
<1>2. ASSUME NEW m \in 1..Len(pattern), m - 1 \in good PROVE m \in good
  <2> DEFINE first == top - m
  <2>1. PICK f : Solves(f, pattern, path, top - (m - 1))
    BY <1>2
  <2>2. top - (m - 1) = first + 1 /\ first \in 1..Len(pattern) /\ first \in Int /\ top \in Int
    BY <1>0
  <2> DEFINE left == [i \in first..top |-> IF i = first THEN From(f, pattern, path, first) ELSE f[i]]
  <2> HIDE DEF first
  <2>3. \A i \in (first + 1)..top : f[i] = From(f, pattern, path, i)
    <3>1. f = [i \in (first + 1)..top |-> From(f, pattern, path, i)]
      BY <2>1, <2>2 DEF Solves
    <3> QED  BY <3>1
  <2>4. \A i \in (first + 1)..top : left[i] = f[i]
    BY <2>2
  <2>5. ASSUME NEW i \in first..top PROVE left[i] = From(left, pattern, path, i)
    <3>1. i \in 1..(Len(pattern) + 1) /\ i \in Int
      BY <1>0, <2>2
    <3>2. \A k \in (i + 1)..(Len(pattern) + 1) : left[k] = f[k]
      BY <1>0, <2>2, <2>4, <3>1
    <3>3. From(left, pattern, path, i) = From(f, pattern, path, i)
      <4> HIDE DEF left
      <4> QED  BY <3>1, <3>2, FromLooksAhead
    <3>4. left[i] = From(f, pattern, path, i)
      <4>1. CASE i = first
        BY <4>1
      <4>2. CASE i # first
        <5>1. i \in (first + 1)..top
          BY <2>2, <4>2
        <5> QED  BY <5>1, <2>3, <2>4
      <4> QED  BY <4>1, <4>2
    <3> QED  BY <3>3, <3>4
  <2>6. left = [i \in first..top |-> left[i]]
    OBVIOUS
  <2>7. Solves(left, pattern, path, first)
    <3> HIDE DEF left
    <3> QED  BY <2>5, <2>6 DEF Solves
  <2> QED  BY <1>0, <2>7 DEF first
<1>3. Len(pattern) \in good
  <2> HIDE DEF good
  <2>1. \A m \in 0..Len(pattern) : m \in good
    BY <1>0, <1>1, <1>2, UpTo
  <2> QED  BY <1>0, <2>1
<1>4. top - Len(pattern) = 1
  BY <1>0
<1> QED  BY <1>3, <1>4

(* What MatchesGlob computes is a solution of its recursion.               *)
LEMMA MatchesAreSolved ==
  ASSUME NEW S, NEW rawPath, NEW rawPattern, Normalized(rawPattern) \in Seq(S)
  PROVE  LET path == Normalized(rawPath)
             pattern == Normalized(rawPattern)
         IN  \E left : /\ \A i \in 1..(Len(pattern) + 1) : left[i] = From(left, pattern, path, i)
                       /\ MatchesGlob(rawPath, rawPattern) <=> 1 \in left[1]
<1> DEFINE path == Normalized(rawPath)
           pattern == Normalized(rawPattern)
           left == CHOOSE f : Solves(f, pattern, path, 1)
<1>1. MatchesGlob(rawPath, rawPattern) <=> 1 \in left[1]
  BY Zenon DEF MatchesGlob, Solves, From
<1>2. Solves(left, pattern, path, 1)
  BY Solvable
<1> HIDE DEF left
<1>3. \A i \in 1..(Len(pattern) + 1) : left[i] = From(left, pattern, path, i)
  BY <1>2 DEF Solves
<1> QED  BY <1>1, <1>3

-----------------------------------------------------------------------------
(* What a pattern says before its first wildcard is what a path it matches *)
(* begins with, but for slashes at the end.                                *)

Char(text, k) == IF k <= Len(text) THEN text[k] ELSE "/"

LEMMA LiteralStep ==
  ASSUME NEW pattern \in Seq(STRING), NEW path \in Seq(STRING), NEW left,
         NEW i \in 1..Len(pattern), pattern[i] \notin Wildcards,
         left[i] = From(left, pattern, path, i), i \in left[i]
  PROVE  /\ pattern[i] = Char(path, i)
         /\ (i < Len(pattern) => pattern[i + 1] \notin Wildcards) => i + 1 \in left[i + 1]
<1>0. Len(pattern) \in Nat /\ Len(path) \in Nat /\ i \in Nat /\ ~(i > Len(pattern)) /\ i >= 1
  BY LenProperties
<1>1. pattern[i] # "*" /\ pattern[i] # "?"
  BY DEF Wildcards
<1>2. ~At(pattern, i, <<"*", "*", "/">>) /\ ~At(pattern, i, <<"*", "*">>)
  <2>1. ASSUME NEW token, 1 \in DOMAIN token, token[1] = "*", At(pattern, i, token) PROVE FALSE
    <3>1. pattern[i + 1 - 1] = "*"
      BY <2>1 DEF At
    <3> QED  BY <1>0, <1>1, <3>1
  <2>2. /\ 1 \in DOMAIN <<"*", "*", "/">> /\ <<"*", "*", "/">>[1] = "*"
        /\ 1 \in DOMAIN <<"*", "*">> /\ <<"*", "*">>[1] = "*"
    OBVIOUS
  <2> QED  BY <2>1, <2>2
<1>3. CASE ClosingStars(pattern, i)
  <2> DEFINE token == <<"/", "*", "*">>
  <2>1. At(pattern, i, token) /\ i + 2 = Len(pattern)
    BY <1>3 DEF ClosingStars
  <2>2. 1 \in DOMAIN token /\ 2 \in DOMAIN token /\ token[1] = "/" /\ token[2] = "*"
    OBVIOUS
  <2> HIDE DEF token
  <2>3. pattern[i + 1 - 1] = "/" /\ pattern[i + 2 - 1] = "*"
    BY <2>1, <2>2 DEF At
  <2>4. pattern[i] = "/" /\ pattern[i + 1] = "*" /\ i < Len(pattern)
    BY <1>0, <2>1, <2>3
  <2>5. i \in {j \in 1..(Len(path) + 1) : j = Len(path) + 1 \/ path[j] = "/"}
    BY <1>0, <1>2, <1>3 DEF From
  <2>6. Char(path, i) = "/"
    BY <1>0, <2>5 DEF Char
  <2> QED  BY <2>4, <2>6 DEF Wildcards
<1>4. CASE ~ClosingStars(pattern, i)
  <2>1. i \in {j \in 1..Len(path) : /\ j + 1 \in left[i + 1]
                                    /\ IF pattern[i] = "?" THEN path[j] # "/" ELSE path[j] = pattern[i]}
    BY <1>0, <1>1, <1>2, <1>4 DEF From
  <2> QED  BY <1>0, <1>1, <2>1 DEF Char
<1> QED  BY <1>3, <1>4

LEMMA LiteralsAreMatched ==
  ASSUME NEW pattern \in Seq(STRING), NEW path \in Seq(STRING), NEW left, 1 \in left[1],
         \A i \in 1..(Len(pattern) + 1) : left[i] = From(left, pattern, path, i),
         NEW w \in 1..(Len(pattern) + 1), \A k \in 1..(w - 1) : pattern[k] \notin Wildcards
  PROVE  /\ \A k \in 1..(w - 1) : pattern[k] = Char(path, k)
         /\ w = Len(pattern) + 1 => Len(path) = Len(pattern)
<1>0. Len(pattern) \in Nat /\ Len(path) \in Nat /\ w \in Nat /\ w >= 1
  BY LenProperties
<1>1. ASSUME w >= 2 PROVE \A k \in 1..(w - 1) : k \in left[k]
  <2> DEFINE good == {m \in 0..(w - 2) : m + 1 \in left[m + 1]}
  <2>1. 0 \in good
    BY <1>0, <1>1
  <2>2. ASSUME NEW m \in 1..(w - 2), m - 1 \in good PROVE m \in good
    <3>1. m \in 1..Len(pattern) /\ m \in 1..(w - 1) /\ m + 1 \in 1..(w - 1) /\ m \in left[m]
      BY <1>0, <2>2
    <3>2. m + 1 \in left[m + 1]
      BY <1>0, <3>1, LiteralStep
    <3> QED  BY <1>0, <3>2
  <2>3. w - 2 \in Nat
    BY <1>0, <1>1
  <2> HIDE DEF good
  <2>4. \A m \in 0..(w - 2) : m \in good
    BY <2>1, <2>2, <2>3, UpTo
  <2>5. ASSUME NEW k \in 1..(w - 1) PROVE k \in left[k]
    <3>1. k - 1 \in good /\ k - 1 + 1 = k
      BY <1>0, <2>4
    <3> QED  BY <3>1 DEF good
  <2> QED  BY <2>5
<1>2. ASSUME NEW k \in 1..(w - 1) PROVE pattern[k] = Char(path, k)
  <2>1. k \in 1..Len(pattern) /\ k \in left[k] /\ k \in 1..(Len(pattern) + 1)
    BY <1>0, <1>1
  <2> QED  BY <2>1, LiteralStep
<1>3. ASSUME w = Len(pattern) + 1 PROVE Len(path) = Len(pattern)
  <2>1. w \in left[w]
    <3>1. CASE w = 1
      BY <3>1
    <3>2. CASE w # 1
      <4>1. w - 1 \in 1..Len(pattern) /\ w - 1 \in left[w - 1] /\ ~(w - 1 < Len(pattern))
        BY <1>0, <1>1, <1>3, <3>2
      <4>2. w - 1 + 1 \in left[w - 1 + 1]
        BY <1>0, <1>3, <4>1, LiteralStep
      <4> QED  BY <1>0, <4>2
    <3> QED  BY <3>1, <3>2
  <2>2. left[w] = {Len(path) + 1}
    <3>1. w > Len(pattern) /\ left[w] = From(left, pattern, path, w)
      BY <1>0, <1>3
    <3> QED  BY <3>1, Zenon DEF From
  <2> QED  BY <1>0, <1>3, <2>1, <2>2
<1> QED  BY <1>2, <1>3

LEMMA PrefixIsMatched ==
  ASSUME NEW p \in Relative, NEW rawPath \in Seq(STRING), MatchesGlob(rawPath, p)
  PROVE  LET literal == LiteralPrefix(p)
         IN  /\ literal \in Seq(STRING)
             /\ \A k \in 1..Len(literal) : literal[k] = Char(Normalized(rawPath), k)
<1> DEFINE path == Normalized(rawPath)
           pattern == Normalized(p)
           wild == {i \in DOMAIN p : p[i] \in Wildcards}
<1>1. path \in Seq(STRING) /\ Len(path) \in Nat
  <2>1. path \in Seq(STRING)
    BY PathNormalized
  <2> HIDE DEF path
  <2> QED  BY <2>1, LenProperties
<1>2. /\ pattern \in Seq(STRING) /\ Len(pattern) \in Nat /\ Len(p) \in Nat /\ Len(pattern) <= Len(p)
      /\ \A k \in 1..Len(pattern) : pattern[k] = p[k]
      /\ \A k \in (Len(pattern) + 1)..Len(p) : p[k] = "/"
  BY PatternNormalized
<1>3. PICK left : /\ \A i \in 1..(Len(pattern) + 1) : left[i] = From(left, pattern, path, i)
                  /\ 1 \in left[1]
  BY <1>2, MatchesAreSolved
<1>4. p \in Seq(STRING) /\ DOMAIN p = 1..Len(p)
  BY LenProperties DEF Relative
<1> HIDE DEF path, pattern
<1>5. CASE wild = {}
  <2>1. LiteralPrefix(p) = p
    BY <1>5 DEF LiteralPrefix
  <2> DEFINE w == Len(pattern) + 1
  <2>2. w \in 1..(Len(pattern) + 1) /\ \A k \in 1..(w - 1) : pattern[k] \notin Wildcards
    BY <1>2, <1>4, <1>5
  <2>3. (\A k \in 1..(w - 1) : pattern[k] = Char(path, k)) /\ (w = Len(pattern) + 1 => Len(path) = Len(pattern))
    <3> HIDE DEF w
    <3> QED  BY <1>1, <1>2, <1>3, <2>2, LiteralsAreMatched
  <2>4. ASSUME NEW k \in 1..Len(p) PROVE p[k] = Char(path, k)
    <3>1. CASE k <= Len(pattern)
      <4>1. k \in 1..(w - 1) /\ k \in 1..Len(pattern)
        BY <1>2, <3>1
      <4> QED  BY <1>2, <2>3, <4>1
    <3>2. CASE ~(k <= Len(pattern))
      <4>1. k \in (Len(pattern) + 1)..Len(p) /\ ~(k <= Len(path))
        BY <1>1, <1>2, <2>3, <3>2
      <4> QED  BY <1>2, <4>1 DEF Char
    <3> QED  BY <3>1, <3>2
  <2> QED  BY <1>4, <2>1, <2>4 DEF path
<1>6. CASE wild # {}
  <2> DEFINE w == Min(wild)
  <2>0. wild \in SUBSET Nat
    BY <1>4
  <2>1. w \in wild /\ \A i \in wild : w <= i
    <3> HIDE DEF wild
    <3> QED  BY <1>6, <2>0, MinIsLeast
  <2>2. LiteralPrefix(p) = SubSeq(p, 1, w - 1)
    BY <1>6 DEF LiteralPrefix
  <2> HIDE DEF w
  <2>3. w \in 1..Len(p) /\ p[w] \in Wildcards /\ w \in Nat
    BY <1>4, <2>1
  <2>4. w <= Len(pattern)
    <3>1. w \notin (Len(pattern) + 1)..Len(p)
      BY <1>2, <2>3 DEF Wildcards
    <3> QED  BY <1>2, <2>3, <3>1
  <2>5. \A k \in 1..(w - 1) : pattern[k] \notin Wildcards /\ pattern[k] = p[k]
    <3> SUFFICES ASSUME NEW k \in 1..(w - 1) PROVE pattern[k] \notin Wildcards /\ pattern[k] = p[k]
      OBVIOUS
    <3>1. k \in 1..Len(pattern) /\ k \in DOMAIN p /\ ~(w <= k)
      BY <1>2, <1>4, <2>3, <2>4
    <3>2. k \notin wild
      BY <2>1, <3>1
    <3> QED  BY <1>2, <3>1, <3>2
  <2>6. \A k \in 1..(w - 1) : pattern[k] = Char(path, k)
    <3>1. w \in 1..(Len(pattern) + 1)
      BY <1>2, <2>3, <2>4
    <3> QED  BY <1>1, <1>2, <1>3, <2>5, <3>1, LiteralsAreMatched
  <2>7. \A k \in 1..(w - 1) : p[k] \in STRING
    BY <1>4, <2>3, ElementOfSeq
  <2>8. /\ SubSeq(p, 1, w - 1) \in Seq(STRING) /\ Len(SubSeq(p, 1, w - 1)) = w - 1
        /\ \A k \in 1..(w - 1) : SubSeq(p, 1, w - 1)[k] = p[k]
    <3> DEFINE n == w - 1
    <3>1. n \in Int /\ n - 1 + 1 = n /\ (IF 1 <= n THEN n - 1 + 1 ELSE 0) = n
      BY <2>3
    <3>2. \A k \in 1..n : p[k] \in STRING
      BY <2>7
    <3> HIDE DEF n
    <3>3. /\ SubSeq(p, 1, n) \in Seq(STRING) /\ Len(SubSeq(p, 1, n)) = (IF 1 <= n THEN n - 1 + 1 ELSE 0)
          /\ \A k \in 1..(n - 1 + 1) : SubSeq(p, 1, n)[k] = p[1 + k - 1]
      BY <3>1, <3>2, SubSeqProperties
    <3>4. \A k \in 1..n : SubSeq(p, 1, n)[k] = p[k]
      BY <3>1, <3>3
    <3> QED  BY <3>1, <3>3, <3>4 DEF n
  <2> QED  BY <2>2, <2>5, <2>6, <2>8 DEF path
<1> QED  BY <1>5, <1>6

(* Two texts that agree wherever both have a character: one is a prefix.   *)
LEMMA AgreeingIsPrefix ==
  ASSUME NEW a \in Seq(STRING), NEW b \in Seq(STRING), Len(a) <= Len(b),
         \A k \in 1..Len(a) : a[k] = b[k]
  PROVE  IsPrefix(a, b)
<1> DEFINE n == Len(a)
           x == SubSeq(a, 1, n)
           y == SubSeq(b, 1, n)
<1>0. n \in Nat /\ Len(b) \in Nat
  BY LenProperties
<1>1. (\A k \in 1..n : a[k] \in STRING) /\ (\A k \in 1..n : b[k] \in STRING)
  BY <1>0, ElementOfSeq
<1>2. n \in Int /\ n - 1 + 1 = n /\ (IF 1 <= n THEN n - 1 + 1 ELSE 0) = n
  BY <1>0
<1> HIDE DEF n
<1>3. /\ x \in Seq(STRING) /\ Len(x) = n /\ \A k \in 1..n : x[k] = a[k]
      /\ y \in Seq(STRING) /\ Len(y) = n /\ \A k \in 1..n : y[k] = b[k]
  BY <1>0, <1>1, <1>2, SubSeqProperties
<1>4. x = y
  <2>1. \A k \in 1..Len(x) : x[k] = y[k]
    BY <1>3 DEF n
  <2> HIDE DEF x, y
  <2> QED  BY <1>3, <2>1, SeqEqual
<1> QED  BY <1>4 DEF IsPrefix, n, x, y

(* For every pair of tasks and every path: tasks that may run side by side *)
(* declare nothing in common, although the scheduler compares only what    *)
(* their patterns say before the first wildcard (scheduler.py:189-213)     *)
(* while verification matches the whole of them (verify.py, paths.py).     *)
THEOREM ScopesConservative ==
  ASSUME question \in PairQuestions
  PROVE  ScopesAreConservative
<1> DEFINE lhs == question.lhs
           rhs == question.rhs
<1>1. lhs.allowed \in SUBSET Relative /\ rhs.allowed \in SUBSET Relative /\ question.paths \in SUBSET Seq(STRING)
  BY DEF PairQuestions, Scoped
<1> SUFFICES ASSUME ~Conflicts(lhs, rhs)
             PROVE  /\ ~SharesWorktree(lhs) /\ ~SharesWorktree(rhs)
                    /\ \A path \in question.paths : ~(PathViolations({path}, lhs.allowed, {}) = {}
                                                      /\ PathViolations({path}, rhs.allowed, {}) = {})
  BY DEF ScopesAreConservative
<1>2. /\ ~SharesWorktree(lhs) /\ ~SharesWorktree(rhs) /\ lhs.allowed # {} /\ rhs.allowed # {}
      /\ \A p \in lhs.allowed, q \in rhs.allowed : ~PairOverlaps(p, q)
  BY DEF Conflicts, ScopesOverlap
<1>3. ASSUME NEW path, NEW allowed, allowed # {}, PathViolations({path}, allowed, {}) = {}
      PROVE  \E p \in allowed : MatchesGlob(path, p)
  BY <1>3 DEF PathViolations, Outside, AnyMatch
<1>4. ASSUME NEW path \in question.paths,
             PathViolations({path}, lhs.allowed, {}) = {}, PathViolations({path}, rhs.allowed, {}) = {}
      PROVE  FALSE
  <2>1. PICK p \in lhs.allowed : MatchesGlob(path, p)
    BY <1>2, <1>3, <1>4
  <2>2. PICK q \in rhs.allowed : MatchesGlob(path, q)
    BY <1>2, <1>3, <1>4
  <2> DEFINE a == LiteralPrefix(p)
             b == LiteralPrefix(q)
  <2>3. /\ a \in Seq(STRING) /\ \A k \in 1..Len(a) : a[k] = Char(Normalized(path), k)
        /\ b \in Seq(STRING) /\ \A k \in 1..Len(b) : b[k] = Char(Normalized(path), k)
    BY <1>1, <2>1, <2>2, PrefixIsMatched
  <2>4. ~(IsPrefix(a, b) \/ IsPrefix(b, a))
    BY <1>2 DEF PairOverlaps
  <2> HIDE DEF a, b
  <2>5. Len(a) \in Nat /\ Len(b) \in Nat
    BY <2>3, LenProperties
  <2>6. CASE Len(a) <= Len(b)
    <3>1. \A k \in 1..Len(a) : a[k] = b[k]
      BY <2>3, <2>5, <2>6
    <3> QED  BY <2>3, <2>4, <2>6, <3>1, AgreeingIsPrefix
  <2>7. CASE Len(b) <= Len(a)
    <3>1. \A k \in 1..Len(b) : b[k] = a[k]
      BY <2>3, <2>5, <2>7
    <3> QED  BY <2>3, <2>4, <2>7, <3>1, AgreeingIsPrefix
  <2> QED  BY <2>5, <2>6, <2>7
<1> QED  BY <1>2, <1>4

-----------------------------------------------------------------------------
(* A pattern and a path as lists of segments, and as text.                 *)

Letters == STRING \cup {"/", "."}

(* A list of segments is laid out in a text: at[s] is where the s-th of    *)
(* the first m begins, and at[m + 1] where a next one would.               *)
Laid(text, segs, at, m) ==
  /\ at \in [1..(m + 1) -> Nat] /\ at[1] = 1
  /\ \A s \in 1..m : at[s + 1] = at[s] + Len(segs[s]) + 1
  /\ \A s, t \in 1..(m + 1) : s < t => at[s] < at[t]
  /\ \A k \in 1..(at[m + 1] - 1) : \E s \in 1..m : at[s] <= k /\ k < at[s + 1]
  /\ text \in Seq(Letters) /\ Len(text) + 2 = at[m + 1]
  /\ \A s \in 1..m : \A k \in 1..Len(segs[s]) : text[at[s] + k - 1] = segs[s][k]
  /\ \A s \in 2..m : text[at[s] - 1] = "/"

LEMMA SegmentParts ==
  ASSUME NEW s \in Segment
  PROVE  /\ s \in Seq(Letters) /\ Len(s) \in Nat /\ Len(s) >= 1
         /\ \A i \in 1..Len(s) : s[i] \in STRING /\ s[i] # "/"
<1>1. s \in Seq(STRING) /\ s # <<>> /\ \A i \in 1..Len(s) : s[i] # "/"
  BY DEF Segment
<1>2. Len(s) \in Nat /\ \A i \in 1..Len(s) : s[i] \in STRING
  BY <1>1, LenProperties, ElementOfSeq
<1>3. Len(s) # 0
  BY <1>1, EmptySeq
<1>4. s \in [1..Len(s) -> Letters]
  <2>1. s \in [1..Len(s) -> STRING]
    BY <1>1, <1>2, LenProperties
  <2> QED  BY <2>1 DEF Letters
<1>5. s \in Seq(Letters)
  BY <1>2, <1>4, SeqDef
<1> QED  BY <1>1, <1>2, <1>3, <1>5

LEMMA FirstIsLaid ==
  ASSUME NEW segs \in Seq(Segment), segs # <<>>
  PROVE  \E at : Laid(segs[1], segs, at, 1)
<1> DEFINE len == Len(segs[1])
           at == [s \in 1..2 |-> IF s = 1 THEN 1 ELSE len + 2]
<1>1. segs[1] \in Segment
  BY LenProperties, EmptySeq, ElementOfSeq
<1>2. segs[1] \in Seq(Letters) /\ len \in Nat /\ len >= 1
  BY <1>1, SegmentParts
<1> HIDE DEF len
<1>3. at \in [1..(1 + 1) -> Nat] /\ at[1] = 1 /\ at[2] = len + 2 /\ at[1 + 1] = len + 2
  BY <1>2
<1> HIDE DEF at
<1>4. \A s \in 1..1 : at[s + 1] = at[s] + Len(segs[s]) + 1
  BY <1>2, <1>3 DEF len
<1>5. \A s, t \in 1..(1 + 1) : s < t => at[s] < at[t]
  BY <1>2, <1>3
<1>6. \A k \in 1..(at[1 + 1] - 1) : \E s \in 1..1 : at[s] <= k /\ k < at[s + 1]
  BY <1>2, <1>3
<1>7. Len(segs[1]) + 2 = at[1 + 1]
  BY <1>3 DEF len
<1>8. \A s \in 1..1 : \A k \in 1..Len(segs[s]) : segs[1][at[s] + k - 1] = segs[s][k]
  BY <1>2, <1>3
<1>9. Laid(segs[1], segs, at, 1)
  BY <1>2, <1>3, <1>4, <1>5, <1>6, <1>7, <1>8 DEF Laid
<1> QED  BY <1>9

LEMMA NextIsLaid ==
  ASSUME NEW segs \in Seq(Segment), NEW m \in Nat, m >= 1, m + 1 \in 1..Len(segs), NEW text, NEW at,
         Laid(text, segs, at, m)
  PROVE  \E next : Laid(text \o <<"/">> \o segs[m + 1], segs, next, m + 1)
<1> DEFINE seg == segs[m + 1]
           len == Len(seg)
           top == at[m + 1]
           next == [s \in 1..(m + 2) |-> IF s <= m + 1 THEN at[s] ELSE top + len + 1]
           all == text \o <<"/">> \o seg
<1>1. /\ at \in [1..(m + 1) -> Nat] /\ at[1] = 1
      /\ \A s \in 1..m : at[s + 1] = at[s] + Len(segs[s]) + 1
      /\ \A s, t \in 1..(m + 1) : s < t => at[s] < at[t]
      /\ \A k \in 1..(top - 1) : \E s \in 1..m : at[s] <= k /\ k < at[s + 1]
      /\ text \in Seq(Letters) /\ Len(text) + 2 = top
      /\ \A s \in 1..m : \A k \in 1..Len(segs[s]) : text[at[s] + k - 1] = segs[s][k]
      /\ \A s \in 2..m : text[at[s] - 1] = "/"
  BY DEF Laid
<1>2. seg \in Seq(Letters) /\ len \in Nat /\ len >= 1
  BY ElementOfSeq, SegmentParts
<1>3. top \in Nat /\ Len(text) = top - 2 /\ Len(text) \in Nat
  <2>1. top \in Nat /\ Len(text) \in Nat
    BY <1>1, LenProperties
  <2> QED  BY <1>1, <2>1
<1>4. \A s \in 1..m : Len(segs[s]) \in Nat
  <2> SUFFICES ASSUME NEW s \in 1..m PROVE Len(segs[s]) \in Nat
    OBVIOUS
  <2>1. s \in 1..Len(segs)
    BY LenProperties
  <2> QED  BY <2>1, ElementOfSeq, SegmentParts
<1>5. top \in Nat /\ Len(text) \in Nat
  BY <1>1, LenProperties
<1>6. /\ all \in Seq(Letters) /\ Len(all) = Len(text) + 1 + len
      /\ \A k \in 1..Len(text) : all[k] = text[k]
      /\ all[Len(text) + 1] = "/"
      /\ \A k \in 1..len : all[Len(text) + 1 + k] = seg[k]
  <2> DEFINE slash == <<"/">>
             head == text \o slash
  <2>1. slash \in Seq(Letters) /\ Len(slash) = 1 /\ slash[1] = "/"
    BY DEF Letters
  <2> HIDE DEF slash
  <2>2. /\ head \in Seq(Letters) /\ Len(head) = Len(text) + Len(slash)
        /\ \A k \in 1..(Len(text) + Len(slash)) : head[k] = IF k <= Len(text) THEN text[k] ELSE slash[k - Len(text)]
    <3>1. text \in Seq(Letters)
      BY <1>1
    <3> QED  BY <2>1, <3>1, ConcatProperties
  <2>3. /\ head \in Seq(Letters) /\ Len(head) = Len(text) + 1 /\ \A k \in 1..Len(text) : head[k] = text[k]
        /\ head[Len(text) + 1] = "/"
    BY <1>5, <2>1, <2>2
  <2> HIDE DEF head, seg
  <2>4. /\ head \o seg \in Seq(Letters) /\ Len(head \o seg) = Len(head) + Len(seg)
        /\ \A k \in 1..(Len(head) + Len(seg)) :
              (head \o seg)[k] = IF k <= Len(head) THEN head[k] ELSE seg[k - Len(head)]
    BY <1>2, <2>3, ConcatProperties
  <2>5. all = head \o seg
    BY DEF head, slash
  <2> HIDE DEF all
  <2>6. \A k \in 1..Len(text) : all[k] = text[k]
    BY <1>2, <1>5, <2>3, <2>4, <2>5
  <2>7. all[Len(text) + 1] = "/"
    BY <1>2, <1>5, <2>3, <2>4, <2>5
  <2>8. \A k \in 1..len : all[Len(text) + 1 + k] = seg[k]
    BY <1>2, <1>5, <2>3, <2>4, <2>5
  <2> QED  BY <1>2, <2>3, <2>4, <2>5, <2>6, <2>7, <2>8
<1> HIDE DEF all, len, seg, top
<1>7. /\ \A s \in 1..(m + 1) : next[s] = at[s]
      /\ next[m + 2] = top + len + 1 /\ next[m + 1] = top
  BY <1>1, <1>5 DEF top
<1>8. next \in [1..(m + 1 + 1) -> Nat] /\ next[1] = 1
  <2>1. \A s \in 1..(m + 2) : s \in 1..(m + 1) \/ s = m + 2
    OBVIOUS
  <2>2. \A s \in 1..(m + 2) : next[s] \in Nat
    BY <1>1, <1>2, <1>5, <1>7, <2>1
  <2>3. next[1] = 1
    BY <1>1, <1>7
  <2>4. m + 2 = m + 1 + 1
    OBVIOUS
  <2>5. next = [s \in 1..(m + 2) |-> next[s]]
    OBVIOUS
  <2> HIDE DEF next
  <2> QED  BY <2>2, <2>3, <2>4, <2>5
<1> HIDE DEF next
<1>9. \A s \in 1..(m + 1) : next[s + 1] = next[s] + Len(segs[s]) + 1
  <2> SUFFICES ASSUME NEW s \in 1..(m + 1) PROVE next[s + 1] = next[s] + Len(segs[s]) + 1
    OBVIOUS
  <2>1. CASE s = m + 1
    <3>1. s + 1 = m + 2
      BY <2>1
    <3> QED  BY <1>7, <2>1, <3>1 DEF len, seg
  <2>2. CASE s \in 1..m
    <3>1. s + 1 \in 1..(m + 1)
      BY <2>2
    <3> QED  BY <1>1, <1>7, <2>2, <3>1
  <2> QED  BY <2>1, <2>2
<1>10. \A s, t \in 1..(m + 1 + 1) : s < t => next[s] < next[t]
  <2> SUFFICES ASSUME NEW s \in 1..(m + 2), NEW t \in 1..(m + 2), s < t PROVE next[s] < next[t]
    OBVIOUS
  <2>1. s \in 1..(m + 1) /\ next[s] = at[s] /\ at[s] \in Nat
    BY <1>1, <1>7
  <2>2. CASE t = m + 2
    <3>1. at[s] <= top
      <4>1. s = m + 1 \/ s < m + 1
        BY <2>1
      <4>2. CASE s = m + 1
        BY <1>5, <4>2 DEF top
      <4>3. CASE s < m + 1
        <5>1. at[s] < at[m + 1]
          BY <1>1, <2>1, <4>3
        <5> QED  BY <1>5, <2>1, <5>1 DEF top
      <4> QED  BY <4>1, <4>2, <4>3
    <3> QED  BY <1>2, <1>5, <1>7, <2>1, <2>2, <3>1
  <2>3. CASE t \in 1..(m + 1)
    BY <1>1, <1>7, <2>1, <2>3
  <2> QED  BY <2>2, <2>3
<1>11. \A k \in 1..(next[m + 1 + 1] - 1) : \E s \in 1..(m + 1) : next[s] <= k /\ k < next[s + 1]
  <2> SUFFICES ASSUME NEW k \in 1..(next[m + 2] - 1)
               PROVE  \E s \in 1..(m + 1) : next[s] <= k /\ k < next[s + 1]
    OBVIOUS
  <2>1. CASE k <= top - 1
    <3>1. PICK s \in 1..m : at[s] <= k /\ k < at[s + 1]
      BY <1>1, <1>5, <2>1
    <3>2. s \in 1..(m + 1) /\ s + 1 \in 1..(m + 1)
      OBVIOUS
    <3> QED  BY <1>7, <3>1, <3>2
  <2>2. CASE ~(k <= top - 1)
    <3>1. next[m + 1] <= k /\ k < next[m + 1 + 1]
      BY <1>2, <1>5, <1>7, <2>2
    <3> QED  BY <3>1
  <2> QED  BY <2>1, <2>2
<1>12. Len(all) + 2 = next[m + 1 + 1]
  <2>1. next[m + 1 + 1] = top + len + 1
    BY <1>7
  <2> QED  BY <1>2, <1>6, <1>3, <2>1
<1>13. \A s \in 1..(m + 1) : \A k \in 1..Len(segs[s]) : all[next[s] + k - 1] = segs[s][k]
  <2> SUFFICES ASSUME NEW s \in 1..(m + 1), NEW k \in 1..Len(segs[s]) PROVE all[next[s] + k - 1] = segs[s][k]
    OBVIOUS
  <2>1. CASE s = m + 1
    <3>1. k \in 1..len /\ segs[s] = seg
      BY <2>1 DEF len, seg
    <3>2. next[s] + k - 1 = Len(text) + 1 + k
      <4>1. next[s] = top
        BY <1>7, <2>1
      <4> QED  BY <1>2, <1>3, <3>1, <4>1
    <3> QED  BY <1>6, <3>1, <3>2
  <2>2. CASE s \in 1..m
    <3> DEFINE j == at[s] + k - 1
    <3>1. at[s] \in Nat /\ at[s] >= 1 /\ Len(segs[s]) \in Nat /\ at[s + 1] \in Nat /\ s + 1 \in 1..(m + 1)
      <4>1. s = 1 \/ at[1] < at[s]
        BY <1>1, <2>2
      <4> QED  BY <1>1, <1>4, <2>2, <4>1
    <3>2. at[s + 1] <= top
      <4>1. s + 1 = m + 1 \/ s + 1 < m + 1
        BY <2>2
      <4>2. s + 1 < m + 1 => at[s + 1] < at[m + 1]
        BY <1>1, <3>1
      <4> QED  BY <1>5, <3>1, <4>1, <4>2 DEF top
    <3>3. j \in 1..Len(text)
      <4>1. at[s + 1] = at[s] + Len(segs[s]) + 1
        BY <1>1, <2>2
      <4> QED  BY <1>3, <2>2, <3>1, <3>2, <4>1
    <3>4. text[j] = segs[s][k]
      BY <1>1, <2>2
    <3>5. next[s] + k - 1 = j
      BY <1>7
    <3> HIDE DEF j
    <3> QED  BY <1>6, <3>3, <3>4, <3>5
  <2> QED  BY <2>1, <2>2
<1>14. \A s \in 2..(m + 1) : all[next[s] - 1] = "/"
  <2> SUFFICES ASSUME NEW s \in 2..(m + 1) PROVE all[next[s] - 1] = "/"
    OBVIOUS
  <2>1. CASE s = m + 1
    <3>1. next[s] - 1 = Len(text) + 1
      <4>1. next[s] = top
        BY <1>7, <2>1
      <4> QED  BY <1>3, <4>1
    <3> QED  BY <1>6, <3>1
  <2>2. CASE s \in 2..m
    <3> DEFINE j == at[s] - 1
    <3>1. at[1] < at[s] /\ at[s] < at[m + 1] /\ at[s] \in Nat
      BY <1>1, <2>2
    <3>2. j \in 1..Len(text)
      BY <1>1, <1>5, <3>1 DEF top
    <3>3. text[j] = "/"
      BY <1>1, <2>2
    <3>4. next[s] - 1 = j
      BY <1>7
    <3> HIDE DEF j
    <3> QED  BY <1>6, <3>2, <3>3, <3>4
  <2> QED  BY <2>1, <2>2
<1>15. Laid(all, segs, next, m + 1)
  BY <1>6, <1>8, <1>9, <1>10, <1>11, <1>12, <1>13, <1>14, Zenon DEF Laid
<1> QED  BY <1>15 DEF all, seg

(* The text that Joined builds, segment by segment.                        *)
Builds(text, segs, m) ==
  text = [k \in 1..m |-> IF k = 1 THEN segs[1] ELSE text[k - 1] \o <<"/">> \o segs[k]]

LEMMA TextExists ==
  ASSUME NEW segs, NEW n \in Nat
  PROVE  \E text : Builds(text, segs, n)
<1> DEFINE good == {m \in 0..n : \E text : Builds(text, segs, m)}
<1>1. 0 \in good
  <2> DEFINE text == [k \in 1..0 |-> segs[1]]
  <2>1. text = [k \in 1..0 |-> IF k = 1 THEN segs[1] ELSE text[k - 1] \o <<"/">> \o segs[k]]
    OBVIOUS
  <2> HIDE DEF text
  <2>2. Builds(text, segs, 0)
    BY <2>1 DEF Builds
  <2> QED  BY <2>2
<1>2. ASSUME NEW m \in 1..n, m - 1 \in good PROVE m \in good
  <2>1. PICK f : Builds(f, segs, m - 1)
    BY <1>2
  <2> DEFINE more == f[m - 1] \o <<"/">> \o segs[m]
             text == [k \in 1..m |-> IF k = 1 THEN segs[1] ELSE IF k = m THEN more ELSE f[k]]
  <2>2. \A k \in 1..(m - 1) : f[k] = IF k = 1 THEN segs[1] ELSE f[k - 1] \o <<"/">> \o segs[k]
    BY <2>1 DEF Builds
  <2> HIDE DEF more
  <2>3. ASSUME NEW k \in 1..m
        PROVE  text[k] = IF k = 1 THEN segs[1] ELSE text[k - 1] \o <<"/">> \o segs[k]
    <3>1. CASE k = 1
      BY <3>1
    <3>2. CASE k # 1 /\ k = m
      <4>1. text[k] = more /\ text[k - 1] = f[m - 1]
        <5>1. m - 1 \in 1..(m - 1) /\ (m - 1 = 1 => f[m - 1] = segs[1])
          BY <2>2, <3>2
        <5> QED  BY <3>2, <5>1
      <4> HIDE DEF text
      <4> QED  BY <3>2, <4>1 DEF more
    <3>3. CASE k # 1 /\ k # m
      <4>1. k \in 1..(m - 1) /\ k - 1 \in 1..(m - 1) /\ k - 1 # m
        BY <3>3
      <4>2. text[k] = f[k] /\ text[k - 1] = f[k - 1]
        <5>1. k - 1 = 1 => f[k - 1] = segs[1]
          BY <2>2, <4>1
        <5> QED  BY <3>3, <4>1, <5>1
      <4> HIDE DEF text
      <4> QED  BY <2>2, <3>3, <4>1, <4>2
    <3> QED  BY <3>1, <3>2, <3>3
  <2>4. text = [k \in 1..m |-> text[k]]
    OBVIOUS
  <2>5. Builds(text, segs, m)
    <3> HIDE DEF text
    <3> QED  BY <2>3, <2>4 DEF Builds
  <2> QED  BY <2>5
<1>3. \A m \in 0..n : m \in good
  <2> HIDE DEF good
  <2> QED  BY <1>1, <1>2, UpTo
<1> QED  BY <1>3

LEMMA JoinedIsLaid ==
  ASSUME NEW segs \in Seq(Segment), segs # <<>>
  PROVE  \E at : Laid(Joined(segs), segs, at, Len(segs))
<1> DEFINE n == Len(segs)
           text == CHOOSE f : Builds(f, segs, n)
<1>1. Joined(segs) = text[n]
  BY Zenon DEF Joined, Builds
<1>2. n \in Nat /\ n >= 1
  BY LenProperties, EmptySeq
<1>3. Builds(text, segs, n)
  BY <1>2, TextExists
<1> HIDE DEF text
<1>4. \A k \in 1..n : text[k] = IF k = 1 THEN segs[1] ELSE text[k - 1] \o <<"/">> \o segs[k]
  BY <1>3 DEF Builds
<1> DEFINE good == {k \in 0..(n - 1) : \E at : Laid(text[k + 1], segs, at, k + 1)}
<1>5. 0 \in good
  <2>1. text[1] = segs[1]
    BY <1>2, <1>4
  <2>2. \E at : Laid(text[1], segs, at, 1)
    BY <2>1, FirstIsLaid
  <2> QED  BY <1>2, <2>2
<1>6. ASSUME NEW k \in 1..(n - 1), k - 1 \in good PROVE k \in good
  <2>1. PICK at : Laid(text[k], segs, at, k)
    <3>1. k - 1 + 1 = k
      OBVIOUS
    <3> QED  BY <1>6, <3>1
  <2>2. k \in Nat /\ k >= 1 /\ k + 1 \in 1..Len(segs) /\ k + 1 # 1
    BY <1>2
  <2>3. text[k + 1] = text[k] \o <<"/">> \o segs[k + 1]
    <3> DEFINE j == k + 1
    <3>1. j - 1 = k /\ j \in 1..n /\ j # 1
      BY <2>2
    <3> HIDE DEF j, n
    <3>2. text[j] = text[j - 1] \o <<"/">> \o segs[j]
      BY <1>4, <3>1, Zenon
    <3> QED  BY <3>1, <3>2 DEF j
  <2>4. \E next : Laid(text[k + 1], segs, next, k + 1)
    BY <2>1, <2>2, <2>3, NextIsLaid
  <2> QED  BY <2>4
<1>7. n - 1 \in good
  <2> HIDE DEF good
  <2>1. n - 1 \in Nat
    BY <1>2
  <2>2. \A k \in 0..(n - 1) : k \in good
    BY <1>5, <1>6, <2>1, UpTo
  <2> QED  BY <2>1, <2>2
<1>8. n - 1 + 1 = n
  BY <1>2
<1> QED  BY <1>1, <1>7, <1>8

(* p is a text with a "./" before it and a "/" behind it when n = 1, and   *)
(* the text itself when n = 0. A plain text is what both are normalised to. *)
Dressed(p, text, n) ==
  /\ n \in 0..1 /\ Len(p) = Len(text) + 3 * n
  /\ \A k \in 1..Len(text) : p[2 * n + k] = text[k]
  /\ n = 1 => p[1] = "." /\ p[2] = "/" /\ p[Len(p)] = "/"

Plain(text) ==
  /\ Len(text) >= 1 /\ text[Len(text)] # "/"
  /\ ~(text[1] = "." /\ (Len(text) = 1 \/ text[2] = "/"))

LEMMA DressedNormalized ==
  ASSUME NEW S, NEW p \in Seq(S), NEW t \in Seq(S), NEW n, Plain(t), Dressed(p, t, n)
  PROVE  Normalized(p) = t
<1> DEFINE len   == Len(p)
           half  == len \div 2
           lead  == {i \in 0..(Len(p) \div 2) : \A j \in 1..i : p[2*j - 1] = "." /\ p[2*j] = "/"}
           start == 2 * Max(lead) + 1
           text  == SubSeq(p, start, Len(p))
           trail == {i \in 0..Len(text) : \A j \in (i + 1)..Len(text) : text[j] = "/"}
           m     == Min(trail)
<1>0. /\ Len(p) \in Nat /\ Len(t) \in Nat /\ n \in 0..1 /\ Len(p) = Len(t) + 3 * n /\ Len(t) >= 1
      /\ n \in Nat /\ (n = 0 \/ n = 1)
  BY LenProperties DEF Dressed, Plain
<1>1. Len(t) = 1 \/ Len(t) >= 2
  <2>1. \A x \in Nat : x >= 1 => (x = 1 \/ x >= 2)
    OBVIOUS
  <2>2. Len(t) \in Nat /\ Len(t) >= 1
    BY <1>0
  <2> QED  BY <2>1, <2>2, Zenon
<1>2. \A k \in 1..Len(t) : p[2 * n + k] = t[k]
  BY DEF Dressed
<1>3. lead \in SUBSET (0..half) /\ half \in Nat
  BY <1>0
<1>4. n \in lead
  <2>1. CASE n = 0
    BY <1>0, <2>1
  <2>2. CASE n = 1
    <3>1. p[2*1 - 1] = "." /\ p[2*1] = "/"
      BY <2>2 DEF Dressed
    <3>2. \A j \in 1..n : j = 1
      BY <2>2
    <3>3. 1 <= Len(p) \div 2
      BY <1>0, <2>2
    <3> QED  BY <1>0, <2>2, <3>1, <3>2, <3>3
  <2> QED  BY <1>0, <2>1, <2>2
<1>5. ASSUME NEW i \in lead PROVE i <= n
  <2> SUFFICES ASSUME ~(i <= n) PROVE FALSE
    OBVIOUS
  <2>1. i \in Nat /\ i >= n + 1 /\ i <= Len(p) \div 2 /\ n + 1 \in 1..i
    BY <1>0, <1>3
  <2> DEFINE j == n + 1
  <2>2. p[2*j - 1] = "." /\ p[2*j] = "/"
    BY <2>1
  <2>3. t[1] = "."
    <3>1. 2*j - 1 = 2 * n + 1 /\ 1 \in 1..Len(t)
      BY <1>0
    <3> QED  BY <1>2, <2>2, <3>1
  <2>4. CASE Len(t) = 1
    BY <2>3, <2>4 DEF Plain
  <2>5. CASE Len(t) >= 2
    <3>1. 2*j = 2 * n + 2 /\ 2 \in 1..Len(t)
      BY <1>0, <2>5
    <3>2. t[2] = "/"
      BY <1>2, <2>2, <3>1
    <3> QED  BY <2>3, <3>2 DEF Plain
  <2> QED  BY <1>1, <2>4, <2>5
<1>6. Max(lead) = n
  <2> HIDE DEF lead, half
  <2>1. Max(lead) \in lead /\ \A x \in lead : x <= Max(lead)
    BY <1>3, <1>4, MaxIsGreatest
  <2>2. Max(lead) <= n /\ n <= Max(lead) /\ Max(lead) \in 0..half
    BY <1>3, <1>4, <1>5, <2>1
  <2> QED  BY <1>0, <1>3, <2>2
<1>7. start = 2 * n + 1 /\ start \in Int
  BY <1>0, <1>6
<1> HIDE DEF start
<1>8. /\ text \in Seq(S) /\ Len(text) = Len(t) + n
      /\ \A k \in 1..(Len(t) + n) : text[k] = p[start + k - 1]
  <2>1. \A k \in start..Len(p) : p[k] \in S
    BY <1>0, <1>7, ElementOfSeq
  <2>2. /\ SubSeq(p, start, len) \in Seq(S)
        /\ Len(SubSeq(p, start, len)) = (IF start <= len THEN len - start + 1 ELSE 0)
        /\ \A k \in 1..(len - start + 1) : SubSeq(p, start, len)[k] = p[start + k - 1]
    BY <1>0, <1>7, <2>1, SubSeqProperties
  <2>3. start <= len /\ len - start + 1 = Len(t) + n
    BY <1>0, <1>7
  <2> QED  BY <2>2, <2>3
<1> HIDE DEF text
<1>9. \A k \in 1..Len(t) : text[k] = t[k]
  <2> SUFFICES ASSUME NEW k \in 1..Len(t) PROVE text[k] = t[k]
    OBVIOUS
  <2>1. k \in 1..(Len(t) + n) /\ start + k - 1 = 2 * n + k
    BY <1>0, <1>7
  <2> QED  BY <1>2, <1>8, <2>1
<1>10. n = 1 => text[Len(t) + n] = "/"
  <2> SUFFICES ASSUME n = 1 PROVE text[Len(t) + n] = "/"
    OBVIOUS
  <2>1. start + (Len(t) + n) - 1 = Len(p) /\ Len(t) + n \in 1..(Len(t) + n)
    BY <1>0, <1>7
  <2>2. p[Len(p)] = "/"
    BY DEF Dressed
  <2> QED  BY <1>8, <2>1, <2>2
<1>11. m = Len(t)
  <2>1. trail \in SUBSET Nat
    BY <1>0, <1>8
  <2>2. Len(t) \in trail
    <3>1. \A j \in (Len(t) + 1)..Len(text) : n = 1 /\ j = Len(t) + n
      BY <1>0, <1>8
    <3> QED  BY <1>0, <1>8, <1>10, <3>1
  <2>3. ASSUME NEW i \in trail, i < Len(t) PROVE FALSE
    <3>1. Len(t) \in (i + 1)..Len(text) /\ Len(t) \in 1..Len(t)
      BY <1>0, <1>8, <2>1, <2>3
    <3>2. text[Len(t)] = "/"
      BY <2>3, <3>1
    <3> QED  BY <1>9, <3>1, <3>2 DEF Plain
  <2> HIDE DEF trail
  <2>4. m \in trail /\ m <= Len(t) /\ m \in Nat
    BY <2>1, <2>2, MinIsLeast
  <2> QED  BY <1>0, <2>3, <2>4
<1> HIDE DEF m
<1>12. Normalized(p) = SubSeq(text, 1, m)
  BY DEF Normalized, text, m, trail, start
<1>13. \A k \in 1..m : text[k] \in S
  BY <1>0, <1>8, <1>11, ElementOfSeq
<1>14. /\ SubSeq(text, 1, m) \in Seq(S) /\ Len(SubSeq(text, 1, m)) = m
       /\ \A k \in 1..m : SubSeq(text, 1, m)[k] = text[k]
  <2>1. m \in Int /\ (IF 1 <= m THEN m - 1 + 1 ELSE 0) = m /\ m - 1 + 1 = m
    BY <1>0, <1>11
  <2>2. /\ SubSeq(text, 1, m) \in Seq(S) /\ Len(SubSeq(text, 1, m)) = (IF 1 <= m THEN m - 1 + 1 ELSE 0)
        /\ \A k \in 1..(m - 1 + 1) : SubSeq(text, 1, m)[k] = text[1 + k - 1]
    BY <1>13, <2>1, SubSeqProperties
  <2> QED  BY <1>0, <1>11, <2>1, <2>2
<1>15. \A k \in 1..Len(t) : SubSeq(text, 1, m)[k] = t[k]
  BY <1>9, <1>11, <1>14
<1> HIDE DEF lead
<1> QED  BY <1>11, <1>12, <1>14, <1>15, SeqEqual

(* A text that does not begin with the segment "." is plain.               *)
LEMMA PlainText ==
  ASSUME NEW segs \in Seq(Segment), segs # <<>>, segs[1] # <<".">>,
         NEW text, NEW at, Laid(text, segs, at, Len(segs))
  PROVE  Plain(text)
<1> DEFINE m == Len(segs)
           one == Len(segs[1])
           last == Len(segs[m])
<1>1. m \in Nat /\ m >= 1 /\ \A s \in 1..m : segs[s] \in Segment
  BY LenProperties, EmptySeq, ElementOfSeq
<1>2. /\ at \in [1..(m + 1) -> Nat] /\ at[1] = 1
      /\ \A s \in 1..m : at[s + 1] = at[s] + Len(segs[s]) + 1
      /\ \A s, t \in 1..(m + 1) : s < t => at[s] < at[t]
      /\ text \in Seq(Letters) /\ Len(text) + 2 = at[m + 1]
      /\ \A s \in 1..m : \A k \in 1..Len(segs[s]) : text[at[s] + k - 1] = segs[s][k]
  BY DEF Laid
<1>3. /\ segs[1] \in Segment /\ one \in Nat /\ one >= 1 /\ last \in Nat /\ last >= 1 /\ segs[m][last] # "/"
      /\ \A k \in 1..one : segs[1][k] # "/"
  BY <1>1, SegmentParts
<1>4. at[m + 1] = at[m] + last + 1 /\ Len(text) + 2 = at[m + 1]
  BY <1>1, <1>2
<1>5. \A k \in 1..last : text[at[m] + k - 1] = segs[m][k]
  <2>1. m \in 1..m
    BY <1>1
  <2> QED  BY <1>2, <2>1, Zenon
<1>6. \A k \in 1..one : text[at[1] + k - 1] = segs[1][k]
  BY <1>1, <1>2
<1>7. one = Len(segs[1])
  OBVIOUS
<1> HIDE DEF m, one, last
<1>8. Len(text) = at[m] + last - 1 /\ at[m] \in Nat /\ at[m] >= 1 /\ Len(text) \in Nat
  <2>1. m = 1 \/ 1 < m
    BY <1>1
  <2>2. at[m] \in Nat /\ at[m] >= 1
    BY <1>1, <1>2, <2>1
  <2>3. Len(text) \in Nat
    BY <1>2, LenProperties
  <2> QED  BY <1>3, <1>4, <2>2, <2>3
<1>9. Len(text) >= 1 /\ text[Len(text)] # "/"
  <2>1. text[at[m] + last - 1] = segs[m][last]
    BY <1>3, <1>5
  <2> QED  BY <1>3, <1>8, <2>1
<1>10. \A k \in 1..one : text[k] = segs[1][k]
  <2> SUFFICES ASSUME NEW k \in 1..one PROVE text[k] = segs[1][k]
    OBVIOUS
  <2>1. text[at[1] + k - 1] = segs[1][k]
    BY <1>6
  <2>2. at[1] + k - 1 = k
    BY <1>2, <1>3
  <2> QED  BY <2>1, <2>2
<1>11. ASSUME text[1] = ".", Len(text) = 1 \/ text[2] = "/" PROVE FALSE
  <2>1. one = 1
    <3>1. CASE Len(text) = 1
      <4>1. at[m] = 1 /\ last = 1
        <5> DEFINE x == at[m]
        <5>1. 1 = x + last - 1 /\ x \in Nat /\ x >= 1
          BY <1>8, <3>1
        <5> HIDE DEF x
        <5>2. x = 1 /\ last = 1
          BY <1>3, <5>1
        <5> QED  BY <5>2 DEF x
      <4>2. m = 1
        <5>1. m > 1 => at[1] < at[m]
          BY <1>1, <1>2
        <5> QED  BY <1>1, <1>2, <4>1, <5>1
      <4> QED  BY <4>1, <4>2 DEF one, last
    <3>2. CASE text[2] = "/"
      <4>1. one >= 2 => segs[1][2] = "/"
        BY <1>3, <1>10, <3>2
      <4>2. ~(one >= 2)
        BY <1>3, <4>1
      <4> QED  BY <1>3, <4>2
    <3> QED  BY <1>11, <3>1, <3>2
  <2>2. segs[1][1] = "."
    BY <1>10, <1>11, <2>1
  <2>3. segs[1] = <<".">>
    <3> DEFINE dot == <<".">>
    <3>1. dot \in Seq(Letters) /\ Len(dot) = 1 /\ dot[1] = "."
      BY DEF Letters
    <3>2. segs[1] \in Seq(Letters)
      BY <1>3, SegmentParts
    <3> HIDE DEF dot
    <3>3. segs[1] = dot
      <4>1. Len(segs[1]) = Len(dot) /\ \A i \in 1..Len(segs[1]) : segs[1][i] = dot[i]
        BY <1>7, <2>1, <2>2, <3>1
      <4> QED  BY <3>1, <3>2, <4>1, SeqEqual
    <3> QED  BY <3>3 DEF dot
  <2> QED  BY <2>3
<1> QED  BY <1>9, <1>11 DEF Plain

LEMMA TextIsDressed ==
  ASSUME NEW text \in Seq(Letters), NEW p \in {text, <<".", "/">> \o text \o <<"/">>}
  PROVE  p \in Seq(Letters) /\ \E n : Dressed(p, text, n)
<1>0. Len(text) \in Nat
  BY LenProperties
<1>1. CASE p = text
  <2>1. Dressed(p, text, 0)
    BY <1>0, <1>1 DEF Dressed
  <2> QED  BY <1>1, <2>1
<1>2. CASE p = <<".", "/">> \o text \o <<"/">>
  <2> DEFINE here  == <<".", "/">>
             slash == <<"/">>
             head  == here \o text
  <2>1. /\ here \in Seq(Letters) /\ Len(here) = 2 /\ here[1] = "." /\ here[2] = "/"
        /\ slash \in Seq(Letters) /\ Len(slash) = 1 /\ slash[1] = "/"
    BY DEF Letters
  <2> HIDE DEF here, slash
  <2>2. /\ head \in Seq(Letters) /\ Len(head) = Len(here) + Len(text)
        /\ \A k \in 1..(Len(here) + Len(text)) : head[k] = IF k <= Len(here) THEN here[k] ELSE text[k - Len(here)]
    BY <2>1, ConcatProperties
  <2>3. /\ head \in Seq(Letters) /\ Len(head) = 2 + Len(text) /\ head[1] = "." /\ head[2] = "/"
        /\ \A k \in 1..Len(text) : head[2 + k] = text[k]
    BY <1>0, <2>1, <2>2
  <2> HIDE DEF head
  <2>4. p = head \o slash
    BY <1>2 DEF head, here, slash
  <2>5. /\ head \o slash \in Seq(Letters) /\ Len(head \o slash) = Len(head) + Len(slash)
        /\ \A k \in 1..(Len(head) + Len(slash)) :
              (head \o slash)[k] = IF k <= Len(head) THEN head[k] ELSE slash[k - Len(head)]
    BY <2>1, <2>3, ConcatProperties
  <2>6. /\ p \in Seq(Letters) /\ Len(p) = Len(text) + 3
        /\ \A k \in 1..(Len(text) + 3) : p[k] = IF k <= Len(text) + 2 THEN head[k] ELSE slash[k - (Len(text) + 2)]
    BY <1>0, <2>1, <2>3, <2>4, <2>5
  <2>7. \A k \in 1..Len(text) : p[2 * 1 + k] = text[k]
    <3> SUFFICES ASSUME NEW k \in 1..Len(text) PROVE p[2 * 1 + k] = text[k]
      OBVIOUS
    <3>1. 2 * 1 + k = 2 + k /\ 2 + k \in 1..(Len(text) + 3) /\ 2 + k <= Len(text) + 2
      BY <1>0
    <3> QED  BY <2>3, <2>6, <3>1
  <2>8. p[1] = "." /\ p[2] = "/" /\ p[Len(p)] = "/"
    BY <1>0, <2>1, <2>3, <2>6
  <2>9. Dressed(p, text, 1)
    <3>1. 1 \in 0..1 /\ Len(p) = Len(text) + 3 * 1
      BY <1>0, <2>6
    <3> QED  BY <2>7, <2>8, <3>1 DEF Dressed
  <2> QED  BY <2>6, <2>9
<1> QED  BY <1>1, <1>2

(* However it is written, a list of segments is normalised to its text.    *)
LEMMA WrittenAlike ==
  ASSUME NEW segs \in Whereabouts, NEW p \in {Joined(segs), <<".", "/">> \o Joined(segs) \o <<"/">>}
  PROVE  /\ Normalized(p) = Joined(segs) /\ segs \in Seq(Segment) /\ segs # <<>>
         /\ \E at : Laid(Joined(segs), segs, at, Len(segs))
<1>1. segs \in Seq(Segment) /\ segs # <<>> /\ segs[1] # <<".">>
  BY DEF Whereabouts
<1> DEFINE text == Joined(segs)
<1>2. PICK at : Laid(text, segs, at, Len(segs))
  BY <1>1, JoinedIsLaid
<1> HIDE DEF text
<1>3. text \in Seq(Letters) /\ Plain(text)
  <2>1. text \in Seq(Letters)
    BY <1>2 DEF Laid
  <2> QED  BY <1>1, <1>2, <2>1, PlainText
<1>4. p \in {text, <<".", "/">> \o text \o <<"/">>}
  BY DEF text
<1>5. p \in Seq(Letters) /\ \E n : Dressed(p, text, n)
  BY <1>3, <1>4, TextIsDressed
<1>6. Normalized(p) = text
  BY <1>3, <1>5, DressedNormalized
<1> QED  BY <1>1, <1>2, <1>6 DEF text

-----------------------------------------------------------------------------
(* Dividing a list: a part of it from x on is divided from a on, by steps  *)
(* from where the i-th part begins to where the next one does.             *)

Leads(steps, n, end, a, x) ==
  \E at \in [a..(n + 1) -> 1..end] :
      /\ at[a] = x /\ at[n + 1] = end
      /\ \A i \in a..n : <<i, at[i], at[i + 1]>> \in steps

LEMMA LeadsNowhere ==
  ASSUME NEW n \in Nat, NEW end \in Nat, NEW x \in 1..end, NEW steps
  PROVE  Leads(steps, n, end, n + 1, x) <=> x = end
<1>1. ASSUME Leads(steps, n, end, n + 1, x) PROVE x = end
  BY <1>1 DEF Leads
<1>2. ASSUME x = end PROVE Leads(steps, n, end, n + 1, x)
  <2> DEFINE at == [i \in (n + 1)..(n + 1) |-> end]
  <2>1. at \in [(n + 1)..(n + 1) -> 1..end] /\ at[n + 1] = end
    BY <1>2
  <2>2. \A i \in (n + 1)..n : FALSE
    OBVIOUS
  <2> HIDE DEF at
  <2> QED  BY <1>2, <2>1, <2>2 DEF Leads
<1> QED  BY <1>1, <1>2

LEMMA LeadsOn ==
  ASSUME NEW n \in Nat, NEW end \in Nat, NEW a \in 1..n, NEW x \in 1..end, NEW steps
  PROVE  Leads(steps, n, end, a, x) <=> \E y \in 1..end : <<a, x, y>> \in steps /\ Leads(steps, n, end, a + 1, y)
<1>1. ASSUME Leads(steps, n, end, a, x)
      PROVE  \E y \in 1..end : <<a, x, y>> \in steps /\ Leads(steps, n, end, a + 1, y)
  <2>1. PICK at \in [a..(n + 1) -> 1..end] :
              /\ at[a] = x /\ at[n + 1] = end
              /\ \A i \in a..n : <<i, at[i], at[i + 1]>> \in steps
    BY <1>1 DEF Leads
  <2> DEFINE rest == [i \in (a + 1)..(n + 1) |-> at[i]]
             y == at[a + 1]
  <2>2. y \in 1..end /\ <<a, x, y>> \in steps
    BY <2>1
  <2>3. rest \in [(a + 1)..(n + 1) -> 1..end] /\ rest[a + 1] = y /\ rest[n + 1] = end
    BY <2>1
  <2>4. \A i \in (a + 1)..n : <<i, rest[i], rest[i + 1]>> \in steps
    <3> SUFFICES ASSUME NEW i \in (a + 1)..n PROVE <<i, rest[i], rest[i + 1]>> \in steps
      OBVIOUS
    <3>1. i \in a..n /\ rest[i] = at[i] /\ rest[i + 1] = at[i + 1]
      OBVIOUS
    <3> HIDE DEF rest
    <3> QED  BY <2>1, <3>1
  <2> HIDE DEF rest, y
  <2>5. Leads(steps, n, end, a + 1, y)
    BY <2>3, <2>4 DEF Leads
  <2> QED  BY <2>2, <2>5
<1>2. ASSUME NEW y \in 1..end, <<a, x, y>> \in steps, Leads(steps, n, end, a + 1, y)
      PROVE  Leads(steps, n, end, a, x)
  <2>1. PICK rest \in [(a + 1)..(n + 1) -> 1..end] :
              /\ rest[a + 1] = y /\ rest[n + 1] = end
              /\ \A i \in (a + 1)..n : <<i, rest[i], rest[i + 1]>> \in steps
    BY <1>2 DEF Leads
  <2> DEFINE at == [i \in a..(n + 1) |-> IF i = a THEN x ELSE rest[i]]
  <2>2. at \in [a..(n + 1) -> 1..end] /\ at[a] = x /\ at[n + 1] = end /\ at[a + 1] = y
    BY <2>1
  <2>3. \A i \in a..n : <<i, at[i], at[i + 1]>> \in steps
    <3> SUFFICES ASSUME NEW i \in a..n PROVE <<i, at[i], at[i + 1]>> \in steps
      OBVIOUS
    <3>1. CASE i = a
      <4> HIDE DEF at
      <4> QED  BY <1>2, <2>2, <3>1
    <3>2. CASE i # a
      <4>1. i \in (a + 1)..n /\ at[i] = rest[i] /\ at[i + 1] = rest[i + 1]
        BY <3>2
      <4> HIDE DEF at
      <4> QED  BY <2>1, <4>1
    <3> QED  BY <3>1, <3>2
  <2> HIDE DEF at
  <2> QED  BY <2>2, <2>3 DEF Leads
<1> QED  BY <1>1, <1>2

(* The steps of a segment of the pattern through one of the path, and those*)
(* of a whole pattern through a whole path.                                *)
SegmentSteps(p, q) ==
  {step \in (1..Len(p)) \X (1..(Len(q) + 1)) \X (1..(Len(q) + 1)) :
     IF p[step[1]] = "*" THEN step[2] <= step[3]
     ELSE step[3] = step[2] + 1 /\ p[step[1]] \in {"?", q[step[2]]}}
Rest(p, q, a, x) == Leads(SegmentSteps(p, q), Len(p), Len(q) + 1, a, x)

PathSteps(p, q) ==
  {step \in (1..Len(p)) \X (1..(Len(q) + 1)) \X (1..(Len(q) + 1)) :
     IF p[step[1]] = DoubleStar THEN step[2] <= step[3]
     ELSE step[3] = step[2] + 1 /\ SegmentMatches(p[step[1]], q[step[2]])}
Onwards(p, q, a, x) == Leads(PathSteps(p, q), Len(p), Len(q) + 1, a, x)

LEMMA SegmentIsDivided ==
  ASSUME NEW p \in Segment, NEW q \in Segment
  PROVE  SegmentMatches(p, q) <=> Rest(p, q, 1, 1)
<1> DEFINE n == Len(p)
           end == Len(q) + 1
           Good(at) == \A i \in 1..n : IF p[i] = "*" THEN at[i] <= at[i + 1]
                                       ELSE at[i + 1] = at[i] + 1 /\ p[i] \in {"?", q[at[i]]}
<1>1. n \in Nat /\ Len(q) \in Nat /\ end \in Nat
  BY SegmentParts
<1>2. ASSUME NEW at \in [1..(n + 1) -> 1..end]
      PROVE  Good(at) <=> \A i \in 1..n : <<i, at[i], at[i + 1]>> \in SegmentSteps(p, q)
  <2>1. ASSUME NEW i \in 1..n
        PROVE  <<i, at[i], at[i + 1]>> \in SegmentSteps(p, q)
                 <=> IF p[i] = "*" THEN at[i] <= at[i + 1]
                     ELSE at[i + 1] = at[i] + 1 /\ p[i] \in {"?", q[at[i]]}
    <3> DEFINE step == <<i, at[i], at[i + 1]>>
    <3>1. at[i] \in 1..(Len(q) + 1) /\ at[i + 1] \in 1..(Len(q) + 1)
      BY <1>1
    <3>2. /\ step \in (1..Len(p)) \X (1..(Len(q) + 1)) \X (1..(Len(q) + 1))
          /\ step[1] = i /\ step[2] = at[i] /\ step[3] = at[i + 1]
      BY <3>1
    <3> HIDE DEF step
    <3>3. step \in SegmentSteps(p, q)
            <=> IF p[i] = "*" THEN at[i] <= at[i + 1]
                ELSE at[i + 1] = at[i] + 1 /\ p[i] \in {"?", q[at[i]]}
      BY <3>2, Zenon DEF SegmentSteps
    <3> QED  BY <3>3 DEF step
  <2> QED  BY <2>1
<1>3. SegmentMatches(p, q) <=> \E at \in [1..(n + 1) -> 1..end] : at[1] = 1 /\ at[n + 1] = end /\ Good(at)
  BY Zenon DEF SegmentMatches, Divisions
<1>4. Rest(p, q, 1, 1) <=> \E at \in [1..(n + 1) -> 1..end] :
                              /\ at[1] = 1 /\ at[n + 1] = end
                              /\ \A i \in 1..n : <<i, at[i], at[i + 1]>> \in SegmentSteps(p, q)
  BY Zenon DEF Rest, Leads
<1> HIDE DEF Good, n, end
<1> QED  BY <1>2, <1>3, <1>4, Zenon

(* Once the pattern is used up nothing may be left; before that a star goes*)
(* any way and any other character one further.                            *)
LEMMA RestEnds ==
  ASSUME NEW p \in Segment, NEW q \in Segment, NEW x \in 1..(Len(q) + 1)
  PROVE  Rest(p, q, Len(p) + 1, x) <=> x = Len(q) + 1
<1>1. Len(p) \in Nat /\ Len(q) + 1 \in Nat
  BY SegmentParts
<1> QED  BY <1>1, LeadsNowhere DEF Rest

LEMMA RestSteps ==
  ASSUME NEW p \in Segment, NEW q \in Segment, NEW a \in 1..Len(p), NEW x \in 1..(Len(q) + 1)
  PROVE  /\ p[a] = "*" => (Rest(p, q, a, x) <=> \E y \in x..(Len(q) + 1) : Rest(p, q, a + 1, y))
         /\ p[a] # "*" =>
              (Rest(p, q, a, x) <=> x <= Len(q) /\ p[a] \in {"?", q[x]} /\ Rest(p, q, a + 1, x + 1))
<1> DEFINE end == Len(q) + 1
           steps == SegmentSteps(p, q)
<1>1. Len(p) \in Nat /\ end \in Nat /\ Len(q) \in Nat
  BY SegmentParts
<1>2. Rest(p, q, a, x) <=> \E y \in 1..end : <<a, x, y>> \in steps /\ Rest(p, q, a + 1, y)
  <2> HIDE DEF end, steps
  <2>1. x \in 1..end
    BY DEF end
  <2>2. Leads(steps, Len(p), end, a, x)
          <=> \E y \in 1..end : <<a, x, y>> \in steps /\ Leads(steps, Len(p), end, a + 1, y)
    BY <1>1, <2>1, LeadsOn
  <2> QED  BY <2>2, Zenon DEF Rest, end, steps
<1>3. ASSUME NEW y \in 1..end
      PROVE  <<a, x, y>> \in steps <=> IF p[a] = "*" THEN x <= y ELSE y = x + 1 /\ p[a] \in {"?", q[x]}
  <2> DEFINE step == <<a, x, y>>
  <2>1. /\ step \in (1..Len(p)) \X (1..(Len(q) + 1)) \X (1..(Len(q) + 1))
        /\ step[1] = a /\ step[2] = x /\ step[3] = y
    OBVIOUS
  <2> HIDE DEF step
  <2>2. step \in steps <=> IF p[a] = "*" THEN x <= y ELSE y = x + 1 /\ p[a] \in {"?", q[x]}
    BY <2>1, Zenon DEF SegmentSteps
  <2> QED  BY <2>2 DEF step
<1> HIDE DEF steps
<1>4. CASE p[a] = "*"
  <2>1. \A y : y \in x..(Len(q) + 1) <=> (y \in 1..end /\ x <= y)
    BY <1>1
  <2>2. \A y \in 1..end : <<a, x, y>> \in steps <=> x <= y
    BY <1>3, <1>4, Zenon
  <2> HIDE DEF end
  <2>3. Rest(p, q, a, x) <=> \E y \in x..(Len(q) + 1) : Rest(p, q, a + 1, y)
    BY <1>2, <2>1, <2>2, Zenon
  <2> QED  BY <1>4, <2>3
<1>5. CASE p[a] # "*"
  <2>1. \A y \in 1..end : <<a, x, y>> \in steps <=> (y = x + 1 /\ p[a] \in {"?", q[x]})
    BY <1>3, <1>5, Zenon
  <2>2. x + 1 \in 1..end <=> x <= Len(q)
    BY <1>1
  <2> HIDE DEF end
  <2>3. Rest(p, q, a, x) <=> x <= Len(q) /\ p[a] \in {"?", q[x]} /\ Rest(p, q, a + 1, x + 1)
    BY <1>2, <2>1, <2>2, Zenon
  <2> QED  BY <1>5, <2>3
<1> QED  BY <1>4, <1>5

(* The same of segments.                                                   *)
LEMMA OnwardsEnds ==
  ASSUME NEW p \in Globs, NEW q \in Whereabouts, NEW x \in 1..(Len(q) + 1)
  PROVE  Onwards(p, q, Len(p) + 1, x) <=> x = Len(q) + 1
<1>1. Len(p) \in Nat /\ Len(q) + 1 \in Nat
  BY LenProperties DEF Globs, Whereabouts
<1> QED  BY <1>1, LeadsNowhere DEF Onwards

LEMMA OnwardsSteps ==
  ASSUME NEW p \in Globs, NEW q \in Whereabouts, NEW a \in 1..Len(p), NEW x \in 1..(Len(q) + 1)
  PROVE  /\ p[a] = DoubleStar => (Onwards(p, q, a, x) <=> \E y \in x..(Len(q) + 1) : Onwards(p, q, a + 1, y))
         /\ p[a] # DoubleStar =>
              (Onwards(p, q, a, x)
                 <=> x <= Len(q) /\ SegmentMatches(p[a], q[x]) /\ Onwards(p, q, a + 1, x + 1))
<1> DEFINE end == Len(q) + 1
           steps == PathSteps(p, q)
<1>1. Len(p) \in Nat /\ end \in Nat /\ Len(q) \in Nat
  BY LenProperties DEF Globs, Whereabouts
<1>2. Onwards(p, q, a, x) <=> \E y \in 1..end : <<a, x, y>> \in steps /\ Onwards(p, q, a + 1, y)
  <2> HIDE DEF end, steps
  <2>1. x \in 1..end
    BY DEF end
  <2>2. Leads(steps, Len(p), end, a, x)
          <=> \E y \in 1..end : <<a, x, y>> \in steps /\ Leads(steps, Len(p), end, a + 1, y)
    BY <1>1, <2>1, LeadsOn
  <2> QED  BY <2>2, Zenon DEF Onwards, end, steps
<1>3. ASSUME NEW y \in 1..end
      PROVE  <<a, x, y>> \in steps <=> IF p[a] = DoubleStar THEN x <= y ELSE y = x + 1 /\ SegmentMatches(p[a], q[x])
  <2> DEFINE step == <<a, x, y>>
  <2>1. /\ step \in (1..Len(p)) \X (1..(Len(q) + 1)) \X (1..(Len(q) + 1))
        /\ step[1] = a /\ step[2] = x /\ step[3] = y
    OBVIOUS
  <2> HIDE DEF step
  <2>2. step \in steps <=> IF p[a] = DoubleStar THEN x <= y ELSE y = x + 1 /\ SegmentMatches(p[a], q[x])
    BY <2>1, Zenon DEF PathSteps
  <2> QED  BY <2>2 DEF step
<1> HIDE DEF steps
<1>4. CASE p[a] = DoubleStar
  <2>1. \A y : y \in x..(Len(q) + 1) <=> (y \in 1..end /\ x <= y)
    BY <1>1
  <2>2. \A y \in 1..end : <<a, x, y>> \in steps <=> x <= y
    BY <1>3, <1>4, Zenon
  <2> HIDE DEF end
  <2>3. Onwards(p, q, a, x) <=> \E y \in x..(Len(q) + 1) : Onwards(p, q, a + 1, y)
    BY <1>2, <2>1, <2>2, Zenon
  <2> QED  BY <1>4, <2>3
<1>5. CASE p[a] # DoubleStar
  <2>1. \A y \in 1..end : <<a, x, y>> \in steps <=> (y = x + 1 /\ SegmentMatches(p[a], q[x]))
    BY <1>3, <1>5, Zenon
  <2>2. x + 1 \in 1..end <=> x <= Len(q)
    BY <1>1
  <2> HIDE DEF end
  <2>3. Onwards(p, q, a, x)
          <=> x <= Len(q) /\ SegmentMatches(p[a], q[x]) /\ Onwards(p, q, a + 1, x + 1)
    BY <1>2, <2>1, <2>2, Zenon
  <2> QED  BY <1>5, <2>3
<1> QED  BY <1>4, <1>5

(* What GlobIsSegmentwise says of a pattern and a path.                    *)
Matches(p, q) ==
  \E at \in Divisions(Len(p), Len(q) + 1) :
      \A i \in 1..Len(p) :
          IF p[i] = DoubleStar THEN at[i] <= at[i + 1]
          ELSE at[i + 1] = at[i] + 1 /\ SegmentMatches(p[i], q[at[i]])

LEMMA PathIsDivided ==
  ASSUME NEW p \in Globs, NEW q \in Whereabouts
  PROVE  Matches(p, q) <=> Onwards(p, q, 1, 1)
<1> DEFINE n == Len(p)
           end == Len(q) + 1
           Good(at) == \A i \in 1..n : IF p[i] = DoubleStar THEN at[i] <= at[i + 1]
                                       ELSE at[i + 1] = at[i] + 1 /\ SegmentMatches(p[i], q[at[i]])
<1>1. n \in Nat /\ Len(q) \in Nat /\ end \in Nat
  BY LenProperties DEF Globs, Whereabouts
<1>2. ASSUME NEW at \in [1..(n + 1) -> 1..end]
      PROVE  Good(at) <=> \A i \in 1..n : <<i, at[i], at[i + 1]>> \in PathSteps(p, q)
  <2>1. ASSUME NEW i \in 1..n
        PROVE  <<i, at[i], at[i + 1]>> \in PathSteps(p, q)
                 <=> IF p[i] = DoubleStar THEN at[i] <= at[i + 1]
                     ELSE at[i + 1] = at[i] + 1 /\ SegmentMatches(p[i], q[at[i]])
    <3> DEFINE step == <<i, at[i], at[i + 1]>>
    <3>1. at[i] \in 1..(Len(q) + 1) /\ at[i + 1] \in 1..(Len(q) + 1)
      BY <1>1
    <3>2. /\ step \in (1..Len(p)) \X (1..(Len(q) + 1)) \X (1..(Len(q) + 1))
          /\ step[1] = i /\ step[2] = at[i] /\ step[3] = at[i + 1]
      BY <3>1
    <3> HIDE DEF step
    <3>3. step \in PathSteps(p, q)
            <=> IF p[i] = DoubleStar THEN at[i] <= at[i + 1]
                ELSE at[i + 1] = at[i] + 1 /\ SegmentMatches(p[i], q[at[i]])
      BY <3>2, Zenon DEF PathSteps
    <3> QED  BY <3>3 DEF step
  <2> QED  BY <2>1, Zenon
<1>3. Matches(p, q) <=> \E at \in [1..(n + 1) -> 1..end] : at[1] = 1 /\ at[n + 1] = end /\ Good(at)
  BY Zenon DEF Matches, Divisions
<1>4. Onwards(p, q, 1, 1) <=> \E at \in [1..(n + 1) -> 1..end] :
                                 /\ at[1] = 1 /\ at[n + 1] = end
                                 /\ \A i \in 1..n : <<i, at[i], at[i + 1]>> \in PathSteps(p, q)
  BY Zenon DEF Onwards, Leads
<1> HIDE DEF Good, n, end
<1> QED  BY <1>2, <1>3, <1>4, Zenon

(* A list of globs and one of segments, what each is made of.              *)
LEMMA GlobParts ==
  ASSUME NEW p \in Globs
  PROVE  /\ p \in Seq(Segment) /\ p # <<>> /\ Len(p) \in Nat /\ Len(p) >= 1 /\ p \in Whereabouts
         /\ \A s \in 1..Len(p) : p[s] \in Segment /\ (p[s] = DoubleStar \/ Steady(p[s]))
         /\ \A s \in 1..(Len(p) - 1) : p[s] = DoubleStar => p[s + 1] # DoubleStar
<1>1. p \in Seq(Segment) /\ p # <<>>
  BY DEF Globs, Whereabouts
<1>2. Len(p) \in Nat /\ Len(p) >= 1 /\ \A s \in 1..Len(p) : p[s] \in Segment
  BY <1>1, LenProperties, EmptySeq, ElementOfSeq
<1> QED  BY <1>1, <1>2 DEF Globs

LEMMA PathParts ==
  ASSUME NEW q \in Whereabouts
  PROVE  /\ q \in Seq(Segment) /\ q # <<>> /\ Len(q) \in Nat /\ Len(q) >= 1
         /\ \A s \in 1..Len(q) : q[s] \in Segment
<1>1. q \in Seq(Segment) /\ q # <<>>
  BY DEF Whereabouts
<1> QED  BY <1>1, LenProperties, EmptySeq, ElementOfSeq

(* What a closing "**" and what anything else say of no segment at all.    *)
LEMMA ClosingTakesAll ==
  ASSUME NEW p \in Globs, NEW q \in Whereabouts, p[Len(p)] = DoubleStar, NEW x \in 1..(Len(q) + 1)
  PROVE  Onwards(p, q, Len(p), x)
<1>1. Len(p) \in 1..Len(p) /\ Len(q) \in Nat
  BY GlobParts, PathParts
<1>2. Len(q) + 1 \in x..(Len(q) + 1) /\ Len(q) + 1 \in 1..(Len(q) + 1)
  BY <1>1
<1>3. Onwards(p, q, Len(p) + 1, Len(q) + 1)
  BY <1>2, OnwardsEnds
<1>4. Onwards(p, q, Len(p), x) <=> \E y \in x..(Len(q) + 1) : Onwards(p, q, Len(p) + 1, y)
  BY <1>1, OnwardsSteps
<1> QED  BY <1>2, <1>3, <1>4

LEMMA OthersTakeOne ==
  ASSUME NEW p \in Globs, NEW q \in Whereabouts, NEW s \in 1..Len(p),
         ~(s = Len(p) /\ p[s] = DoubleStar)
  PROVE  ~Onwards(p, q, s, Len(q) + 1)
<1>1. Len(p) \in Nat /\ Len(q) \in Nat /\ Len(q) + 1 \in 1..(Len(q) + 1)
  BY GlobParts, PathParts
<1>2. ASSUME NEW a \in 1..Len(p), p[a] # DoubleStar PROVE ~Onwards(p, q, a, Len(q) + 1)
  <2>1. ~(Len(q) + 1 <= Len(q))
    BY <1>1
  <2> QED  BY <1>1, <1>2, <2>1, OnwardsSteps
<1>3. CASE p[s] # DoubleStar
  BY <1>2, <1>3
<1>4. CASE p[s] = DoubleStar
  <2>1. s \in 1..(Len(p) - 1) /\ s + 1 \in 1..Len(p)
    BY <1>1, <1>4
  <2>2. p[s + 1] # DoubleStar
    BY <1>4, <2>1, GlobParts
  <2>3. ~Onwards(p, q, s + 1, Len(q) + 1)
    BY <1>2, <2>1, <2>2
  <2>4. Onwards(p, q, s, Len(q) + 1) <=> \E y \in (Len(q) + 1)..(Len(q) + 1) : Onwards(p, q, s + 1, y)
    BY <1>1, <1>4, OnwardsSteps
  <2>5. \A y \in (Len(q) + 1)..(Len(q) + 1) : y = Len(q) + 1
    BY <1>1
  <2> QED  BY <2>3, <2>4, <2>5
<1> QED  BY <1>3, <1>4

(* A place in the text: in a segment, or right behind it.                  *)
Located(segs, text, at, s, k) ==
  LET j == at[s] + k - 1
  IN  /\ j \in 1..(Len(text) + 1) /\ at[s] \in 1..(Len(text) + 1) /\ at[s] \in Nat /\ Len(text) \in Nat
      /\ Len(segs[s]) \in Nat /\ Len(segs[s]) >= 1 /\ at[s + 1] = at[s] + Len(segs[s]) + 1
      /\ k <= Len(segs[s]) => j <= Len(text) /\ text[j] = segs[s][k] /\ text[j] # "/"
      /\ k = Len(segs[s]) + 1 /\ s < Len(segs) => j <= Len(text) /\ text[j] = "/" /\ j + 1 = at[s + 1]
      /\ k = Len(segs[s]) + 1 /\ s = Len(segs) => j = Len(text) + 1

LEMMA Placed ==
  ASSUME NEW segs \in Seq(Segment), NEW text, NEW at, Laid(text, segs, at, Len(segs)),
         NEW s \in 1..Len(segs), NEW k \in 1..(Len(segs[s]) + 1)
  PROVE  Located(segs, text, at, s, k)
<1> DEFINE m == Len(segs)
           len == Len(segs[s])
           here == at[s]
           next == at[s + 1]
           size == Len(text)
           j == here + k - 1
<1>1. m \in Nat /\ segs[s] \in Segment /\ s \in 1..m /\ s + 1 \in 1..(m + 1)
  BY LenProperties, ElementOfSeq
<1>2. len \in Nat /\ len >= 1 /\ \A i \in 1..len : segs[s][i] # "/"
  BY <1>1, SegmentParts
<1>3. /\ at \in [1..(m + 1) -> Nat] /\ at[1] = 1
      /\ \A x \in 1..m : at[x + 1] = at[x] + Len(segs[x]) + 1
      /\ \A x, y \in 1..(m + 1) : x < y => at[x] < at[y]
      /\ text \in Seq(Letters) /\ size + 2 = at[m + 1]
      /\ \A x \in 1..m : \A i \in 1..Len(segs[x]) : text[at[x] + i - 1] = segs[x][i]
      /\ \A x \in 2..m : text[at[x] - 1] = "/"
  BY DEF Laid
<1>4. size \in Nat
  BY <1>3, LenProperties
<1>5. \A i \in 1..len : text[here + i - 1] = segs[s][i]
  BY <1>1, <1>3, Zenon
<1>6. next = here + len + 1
  BY <1>1, <1>3, Zenon
<1>7. here \in Nat /\ here >= 1 /\ next \in Nat
  <2>1. s \in 1..(m + 1) /\ 1 \in 1..(m + 1) /\ s \in Nat /\ (s = 1 \/ 1 < s)
    BY <1>1
  <2>2. at[s] \in Nat /\ at[s + 1] \in Nat
    BY <1>1, <1>3, <2>1
  <2>3. 1 < s => at[1] < at[s]
    BY <1>3, <2>1, Zenon
  <2>4. at[s] >= 1
    BY <1>3, <2>1, <2>2, <2>3
  <2> QED  BY <2>2, <2>4
<1>8. next <= size + 2 /\ (s < m => next < size + 2) /\ (s = m => next = size + 2)
  <2>1. s < m => at[s + 1] < at[m + 1]
    BY <1>1, <1>3
  <2>2. s = m => next = size + 2
    BY <1>3
  <2>3. s < m => next < size + 2
    BY <1>3, <2>1
  <2> QED  BY <1>1, <1>4, <1>7, <2>2, <2>3
<1>9. s < m => text[next - 1] = "/"
  <2>1. s < m => s + 1 \in 2..m
    BY <1>1
  <2> QED  BY <1>3, <2>1
<1> HIDE DEF m, len, here, next, size
<1>10. k \in 1..(len + 1)
  BY DEF len
<1>11. j \in 1..(size + 1) /\ here \in 1..(size + 1)
  BY <1>2, <1>4, <1>6, <1>7, <1>8, <1>10
<1>12. k <= len => j <= size /\ text[j] = segs[s][k] /\ text[j] # "/"
  BY <1>2, <1>4, <1>5, <1>6, <1>7, <1>8, <1>10
<1>13. ASSUME k = len + 1, s < m PROVE j <= size /\ text[j] = "/" /\ j + 1 = next
  <2>1. j + 1 = next /\ j = next - 1
    BY <1>2, <1>6, <1>7, <1>13
  <2> QED  BY <1>4, <1>7, <1>8, <1>9, <1>13, <2>1
<1>14. ASSUME k = len + 1, s = m PROVE j = size + 1
  BY <1>2, <1>4, <1>6, <1>7, <1>8, <1>14
<1>15. Located(segs, text, at, s, k) <=>
         /\ j \in 1..(size + 1) /\ here \in 1..(size + 1) /\ here \in Nat /\ size \in Nat
         /\ len \in Nat /\ len >= 1 /\ next = here + len + 1
         /\ k <= len => j <= size /\ text[j] = segs[s][k] /\ text[j] # "/"
         /\ k = len + 1 /\ s < m => j <= size /\ text[j] = "/" /\ j + 1 = next
         /\ k = len + 1 /\ s = m => j = size + 1
  BY Zenon DEF Located, m, len, here, next, size
<1> HIDE DEF j
<1> QED  BY <1>2, <1>4, <1>6, <1>7, <1>11, <1>12, <1>13, <1>14, <1>15

(* Every character is at such a place.                                     *)
IsPlace(segs, at, j) ==
  \E s \in 1..Len(segs), k \in Nat : k \in 1..(Len(segs[s]) + 1) /\ j = at[s] + k - 1

LEMMA EveryPlace ==
  ASSUME NEW segs \in Seq(Segment), NEW text, NEW at, Laid(text, segs, at, Len(segs)),
         NEW j \in 1..(Len(text) + 1)
  PROVE  IsPlace(segs, at, j)
<1> DEFINE m == Len(segs)
           top == at[m + 1]
<1>1. /\ at \in [1..(m + 1) -> Nat]
      /\ \A x \in 1..m : at[x + 1] = at[x] + Len(segs[x]) + 1
      /\ \A k \in 1..(top - 1) : \E s \in 1..m : at[s] <= k /\ k < at[s + 1]
      /\ text \in Seq(Letters) /\ Len(text) + 2 = top
  BY DEF Laid
<1>2. m \in Nat /\ Len(text) \in Nat
  BY <1>1, LenProperties
<1>3. j \in 1..(top - 1)
  <2> HIDE DEF top
  <2>1. top - 1 = Len(text) + 1
    BY <1>1, <1>2
  <2> QED  BY <2>1
<1>4. PICK s \in 1..m : at[s] <= j /\ j < at[s + 1]
  BY <1>1, <1>3
<1> DEFINE k == j - at[s] + 1
<1>5. at[s] \in Nat /\ at[s + 1] = at[s] + Len(segs[s]) + 1 /\ Len(segs[s]) \in Nat /\ j \in Nat
  <2>1. segs[s] \in Segment
    BY ElementOfSeq
  <2>2. Len(segs[s]) \in Nat
    BY <2>1, SegmentParts
  <2>3. at[s + 1] = at[s] + Len(segs[s]) + 1
    BY <1>1, <1>4, Zenon
  <2>4. s \in 1..(m + 1)
    BY <1>2
  <2> HIDE DEF m
  <2>5. at[s] \in Nat /\ j \in Nat
    BY <1>1, <1>2, <2>4
  <2> QED  BY <2>2, <2>3, <2>5
<1>6. k \in 1..(Len(segs[s]) + 1) /\ j = at[s] + k - 1 /\ k \in Nat
  BY <1>4, <1>5
<1> HIDE DEF k
<1> QED  BY <1>6 DEF IsPlace

(* What is looked for at a character of the pattern.                       *)
LEMMA AtStars ==
  ASSUME NEW p, NEW i \in Nat
  PROVE  /\ At(p, i, <<"*", "*">>) <=> i + 1 <= Len(p) /\ p[i] = "*" /\ p[i + 1] = "*"
         /\ At(p, i, <<"*", "*", "/">>) <=> i + 2 <= Len(p) /\ p[i] = "*" /\ p[i + 1] = "*" /\ p[i + 2] = "/"
         /\ ClosingStars(p, i) <=> i + 2 = Len(p) /\ p[i] = "/" /\ p[i + 1] = "*" /\ p[i + 2] = "*"
<1>1. ASSUME NEW c, NEW d, NEW e
      PROVE  At(p, i, <<c, d, e>>) <=> i + 2 <= Len(p) /\ p[i] = c /\ p[i + 1] = d /\ p[i + 2] = e
  <2> DEFINE token == <<c, d, e>>
  <2>1. Len(token) = 3 /\ DOMAIN token = 1..3 /\ token[1] = c /\ token[2] = d /\ token[3] = e
    OBVIOUS
  <2> HIDE DEF token
  <2>2. i + Len(token) - 1 = i + 2 /\ i + 1 - 1 = i /\ i + 2 - 1 = i + 1 /\ i + 3 - 1 = i + 2
    BY <2>1
  <2>3. (\A n \in DOMAIN token : p[i + n - 1] = token[n]) <=> p[i] = c /\ p[i + 1] = d /\ p[i + 2] = e
    <3>1. \A n \in DOMAIN token : n = 1 \/ n = 2 \/ n = 3
      BY <2>1
    <3>2. 1 \in DOMAIN token /\ 2 \in DOMAIN token /\ 3 \in DOMAIN token
      BY <2>1
    <3> QED  BY <2>1, <2>2, <3>1, <3>2
  <2>4. At(p, i, token) <=> i + 2 <= Len(p) /\ p[i] = c /\ p[i + 1] = d /\ p[i + 2] = e
    BY <2>2, <2>3 DEF At
  <2> QED  BY <2>4 DEF token
<1>2. At(p, i, <<"*", "*">>) <=> i + 1 <= Len(p) /\ p[i] = "*" /\ p[i + 1] = "*"
  <2> DEFINE token == <<"*", "*">>
  <2>1. Len(token) = 2 /\ DOMAIN token = 1..2 /\ token[1] = "*" /\ token[2] = "*"
    OBVIOUS
  <2> HIDE DEF token
  <2>2. i + Len(token) - 1 = i + 1 /\ i + 1 - 1 = i /\ i + 2 - 1 = i + 1
    BY <2>1
  <2>3. (\A n \in DOMAIN token : p[i + n - 1] = token[n]) <=> p[i] = "*" /\ p[i + 1] = "*"
    <3>1. \A n \in DOMAIN token : n = 1 \/ n = 2
      BY <2>1
    <3>2. 1 \in DOMAIN token /\ 2 \in DOMAIN token
      BY <2>1
    <3> QED  BY <2>1, <2>2, <3>1, <3>2
  <2>4. At(p, i, token) <=> i + 1 <= Len(p) /\ p[i] = "*" /\ p[i + 1] = "*"
    BY <2>2, <2>3 DEF At
  <2> QED  BY <2>4 DEF token
<1>3. ClosingStars(p, i) <=> i + 2 = Len(p) /\ p[i] = "/" /\ p[i + 1] = "*" /\ p[i + 2] = "*"
  <2>1. At(p, i, <<"/", "*", "*">>) <=> i + 2 <= Len(p) /\ p[i] = "/" /\ p[i + 1] = "*" /\ p[i + 2] = "*"
    BY <1>1
  <2>2. i + 2 = Len(p) => i + 2 <= Len(p)
    OBVIOUS
  <2> QED  BY <2>1, <2>2 DEF ClosingStars
<1> QED  BY <1>1, <1>2, <1>3

LEMMA TwoStars ==
  ASSUME NEW s \in Segment
  PROVE  s = DoubleStar <=> Len(s) = 2 /\ s[1] = "*" /\ s[2] = "*"
<1>1. s = DoubleStar => Len(s) = 2 /\ s[1] = "*" /\ s[2] = "*"
  BY DEF DoubleStar
<1>2. ASSUME Len(s) = 2, s[1] = "*", s[2] = "*" PROVE s = DoubleStar
  <2>1. s \in Seq(Letters) /\ s[1] \in STRING
    BY <1>2, SegmentParts
  <2>2. "*" \in Letters
    BY <1>2, <2>1 DEF Letters
  <2> DEFINE two == <<"*", "*">>
  <2>3. two \in Seq(Letters) /\ Len(two) = 2 /\ two[1] = "*" /\ two[2] = "*"
    BY <2>2
  <2> HIDE DEF two
  <2>4. \A i \in 1..Len(s) : s[i] = two[i]
    <3>1. \A i \in 1..Len(s) : i = 1 \/ i = 2
      BY <1>2
    <3> QED  BY <1>2, <2>3, <3>1
  <2>5. s = two
    BY <1>2, <2>1, <2>3, <2>4, SeqEqual
  <2> QED  BY <2>5 DEF two, DoubleStar
<1> QED  BY <1>1, <1>2

(* Where the pattern is in a segment that is not "**" ...                  *)
LEMMA InSegment ==
  ASSUME NEW p \in Globs, NEW text, NEW at, Laid(text, p, at, Len(p)),
         NEW s \in 1..Len(p), p[s] # DoubleStar, NEW k \in 1..Len(p[s])
  PROVE  LET i == at[s] + k - 1
         IN  /\ i \in 1..Len(text) /\ text[i] = p[s][k] /\ text[i] # "/"
             /\ ~At(text, i, <<"*", "*", "/">>) /\ ~At(text, i, <<"*", "*">>) /\ ~ClosingStars(text, i)
<1> DEFINE i == at[s] + k - 1
           len == Len(p[s])
<1>1. p \in Seq(Segment) /\ p[s] \in Segment /\ Steady(p[s])
  BY GlobParts
<1>2. len \in Nat /\ at[s] \in Nat /\ Len(text) \in Nat /\ k \in 1..(Len(p[s]) + 1)
      /\ i \in 1..(Len(text) + 1) /\ i <= Len(text) /\ text[i] = p[s][k] /\ text[i] # "/"
  <2>1. len \in Nat
    BY <1>1, SegmentParts
  <2>2. k \in 1..(len + 1) /\ k <= len
    BY <2>1
  <2>3. k \in 1..(Len(p[s]) + 1)
    BY <2>2
  <2>4. Located(p, text, at, s, k)
    BY <1>1, <2>3, Placed
  <2> HIDE DEF len
  <2> QED  BY <2>1, <2>2, <2>4 DEF Located, len
<1>3. ASSUME text[i] = "*", i + 1 <= Len(text), text[i + 1] = "*" PROVE FALSE
  <2> DEFINE l == k + 1
             j == at[s] + l - 1
  <2>1. l \in 1..(Len(p[s]) + 1) /\ j = i + 1 /\ (l <= len \/ l = len + 1)
    <3> HIDE DEF len
    <3>1. k \in 1..(len + 1)
      BY <1>2 DEF len
    <3>2. k \in 1..len
      BY DEF len
    <3>3. l \in 1..(len + 1) /\ j = i + 1 /\ (l <= len \/ l = len + 1)
      BY <1>2, <3>2
    <3> QED  BY <3>3 DEF len
  <2>2. /\ l <= Len(p[s]) => text[j] = p[s][l]
        /\ l = Len(p[s]) + 1 /\ s < Len(p) => text[j] = "/"
        /\ l = Len(p[s]) + 1 /\ s = Len(p) => j = Len(text) + 1
    <3> HIDE DEF l
    <3>1. Located(p, text, at, s, l)
      BY <1>1, <2>1, Placed
    <3> QED  BY <3>1, Zenon DEF Located, j
  <2>3. s < Len(p) \/ s = Len(p)
    BY GlobParts
  <2>4. CASE l <= len
    <3>1. p[s][k] = "*" /\ p[s][k + 1] = "*" /\ k \in 1..(Len(p[s]) - 1)
      BY <1>2, <1>3, <2>1, <2>2, <2>4
    <3> QED  BY <1>1, <3>1 DEF Steady
  <2>5. CASE l = len + 1
    <3>1. j # Len(text) + 1
      BY <1>2, <1>3, <2>1
    <3> QED  BY <1>3, <2>1, <2>2, <2>3, <2>5, <3>1
  <2> QED  BY <2>1, <2>4, <2>5
<1>4. i \in Nat
  BY <1>2
<1> HIDE DEF i
<1>5. ~At(text, i, <<"*", "*">>)
  BY <1>3, <1>4, AtStars
<1>6. ~At(text, i, <<"*", "*", "/">>)
  <2>1. i + 2 <= Len(text) => i + 1 <= Len(text)
    BY <1>2, <1>4
  <2> QED  BY <1>3, <1>4, <2>1, AtStars
<1>7. ~ClosingStars(text, i)
  BY <1>2, <1>4, AtStars
<1>8. i \in 1..Len(text)
  BY <1>2
<1> QED  BY <1>2, <1>5, <1>6, <1>7, <1>8 DEF i

(* ... where a segment "**" begins ...                                     *)
LEMMA AtStarSegment ==
  ASSUME NEW p \in Globs, NEW text, NEW at, Laid(text, p, at, Len(p)),
         NEW s \in 1..Len(p), p[s] = DoubleStar
  PROVE  LET i == at[s]
         IN  /\ i \in 1..Len(text)
             /\ s < Len(p) => At(text, i, <<"*", "*", "/">>) /\ at[s + 1] = i + 3
             /\ s = Len(p) => /\ ~At(text, i, <<"*", "*", "/">>) /\ ~ClosingStars(text, i)
                              /\ At(text, i, <<"*", "*">>) /\ i + 2 = Len(text) + 1
<1> DEFINE i == at[s]
<1>1. p \in Seq(Segment) /\ p[s] \in Segment /\ Len(p[s]) = 2 /\ p[s][1] = "*" /\ p[s][2] = "*"
  BY GlobParts, TwoStars
<1>2. /\ at[s] \in Nat /\ Len(text) \in Nat /\ at[s] >= 1
      /\ at[s] + 1 - 1 <= Len(text) /\ text[at[s] + 1 - 1] = "*" /\ text[at[s] + 1 - 1] # "/"
  <2>1. 1 \in 1..(Len(p[s]) + 1) /\ 1 <= Len(p[s])
    BY <1>1
  <2>2. Located(p, text, at, s, 1)
    BY <1>1, <2>1, Placed
  <2> QED  BY <1>1, <2>1, <2>2 DEF Located
<1>3. at[s] + 2 - 1 <= Len(text) /\ text[at[s] + 2 - 1] = "*" /\ at[s + 1] = at[s] + Len(p[s]) + 1
  <2>1. 2 \in 1..(Len(p[s]) + 1) /\ 2 <= Len(p[s])
    BY <1>1
  <2>2. Located(p, text, at, s, 2)
    BY <1>1, <2>1, Placed
  <2> QED  BY <1>1, <2>1, <2>2, Zenon DEF Located
<1>4. /\ s < Len(p) => at[s] + 3 - 1 <= Len(text) /\ text[at[s] + 3 - 1] = "/"
      /\ s = Len(p) => at[s] + 3 - 1 = Len(text) + 1
  <2>1. 3 \in 1..(Len(p[s]) + 1) /\ 3 = Len(p[s]) + 1
    BY <1>1
  <2>2. Located(p, text, at, s, 3)
    BY <1>1, <2>1, Placed
  <2> QED  BY <2>1, <2>2, Zenon DEF Located
<1> HIDE DEF i
<1>5. i \in Nat /\ i >= 1 /\ i = at[s]
  BY <1>2 DEF i
<1>6. text[i] = "*" /\ text[i] # "/" /\ i <= Len(text) /\ text[i + 1] = "*" /\ i + 1 <= Len(text) /\ at[s + 1] = i + 3
  <2>1. i + 1 - 1 = i /\ i + 2 - 1 = i + 1 /\ i + 2 + 1 = i + 3
    BY <1>5
  <2> QED  BY <1>1, <1>2, <1>3, <1>5, <2>1
<1>7. /\ s < Len(p) => i + 2 <= Len(text) /\ text[i + 2] = "/"
      /\ s = Len(p) => i + 2 = Len(text) + 1
  <2>1. i + 3 - 1 = i + 2
    BY <1>5
  <2> QED  BY <1>4, <1>5, <2>1
<1>8. s < Len(p) => At(text, i, <<"*", "*", "/">>)
  BY <1>5, <1>6, <1>7, AtStars
<1>9. At(text, i, <<"*", "*">>) /\ ~ClosingStars(text, i)
  BY <1>5, <1>6, <1>7, AtStars
<1>10. s = Len(p) => ~At(text, i, <<"*", "*", "/">>)
  <2>1. s = Len(p) => ~(i + 2 <= Len(text))
    BY <1>2, <1>5, <1>7
  <2> QED  BY <1>5, <2>1, AtStars
<1>11. i \in 1..Len(text)
  BY <1>2, <1>5, <1>6
<1> QED  BY <1>6, <1>7, <1>8, <1>9, <1>10, <1>11 DEF i

(* ... and between two segments.                                           *)
LEMMA BetweenSegments ==
  ASSUME NEW p \in Globs, NEW text, NEW at, Laid(text, p, at, Len(p)),
         NEW s \in 1..Len(p), s < Len(p)
  PROVE  LET i == at[s + 1] - 1
         IN  /\ i \in 1..Len(text) /\ text[i] = "/" /\ i + 1 = at[s + 1]
             /\ ~At(text, i, <<"*", "*", "/">>) /\ ~At(text, i, <<"*", "*">>)
             /\ ClosingStars(text, i) <=> s + 1 = Len(p) /\ p[s + 1] = DoubleStar
<1> DEFINE i == at[s + 1] - 1
           t == s + 1
<1>1. p \in Seq(Segment) /\ p[s] \in Segment /\ t \in 1..Len(p) /\ p[t] \in Segment /\ Len(p) \in Nat
  <2>1. t \in 1..Len(p)
    BY GlobParts
  <2> QED  BY <2>1, GlobParts
<1>2. /\ at[s] \in Nat /\ Len(text) \in Nat /\ at[s] >= 1 /\ Len(p[s]) \in Nat /\ Len(p[s]) >= 1
      /\ at[t] = at[s] + Len(p[s]) + 1
      /\ at[s] + (Len(p[s]) + 1) - 1 <= Len(text) /\ text[at[s] + (Len(p[s]) + 1) - 1] = "/"
  <2> DEFINE k == Len(p[s]) + 1
  <2>1. k \in 1..(Len(p[s]) + 1)
    BY <1>1, SegmentParts
  <2>2. Located(p, text, at, s, k)
    BY <1>1, <2>1, Placed
  <2>3. k = Len(p[s]) + 1
    OBVIOUS
  <2> HIDE DEF k
  <2>4. at[s] + k - 1 <= Len(text) /\ text[at[s] + k - 1] = "/"
    BY <2>2, <2>3, Zenon DEF Located
  <2>5. /\ Len(p[s]) \in Nat /\ Len(p[s]) >= 1 /\ at[s + 1] = at[s] + Len(p[s]) + 1
        /\ at[s] \in Nat /\ Len(text) \in Nat /\ at[s] \in 1..(Len(text) + 1)
    BY <2>2, Zenon DEF Located
  <2> QED  BY <2>3, <2>4, <2>5
<1> HIDE DEF i, t
<1>3. /\ i \in Nat /\ i >= 1 /\ i <= Len(text) /\ text[i] = "/" /\ i + 1 = at[t] /\ at[t] \in Nat
  <2>1. at[s] + (Len(p[s]) + 1) - 1 = at[t] - 1
    BY <1>2
  <2>2. at[t] \in Nat /\ at[t] - 1 \in Nat /\ at[t] - 1 >= 1 /\ at[t] - 1 + 1 = at[t]
    BY <1>2
  <2> QED  BY <1>2, <2>1, <2>2 DEF i, t
<1>4. ~At(text, i, <<"*", "*", "/">>) /\ ~At(text, i, <<"*", "*">>)
  BY <1>3, AtStars
<1> DEFINE len == Len(p[t])
<1>5. len \in Nat /\ len >= 1
  BY <1>1, SegmentParts
<1>6. ASSUME NEW k \in 1..(len + 1)
      PROVE  /\ k <= len => i + k <= Len(text) /\ text[i + k] = p[t][k]
             /\ k = len + 1 /\ t < Len(p) => text[i + k] = "/"
             /\ k = len + 1 /\ t = Len(p) => i + k = Len(text) + 1
  <2>1. at[t] + k - 1 = i + k
    BY <1>3, <1>5
  <2>2. /\ k <= Len(p[t]) => at[t] + k - 1 <= Len(text) /\ text[at[t] + k - 1] = p[t][k]
        /\ k = Len(p[t]) + 1 /\ t < Len(p) => text[at[t] + k - 1] = "/"
        /\ k = Len(p[t]) + 1 /\ t = Len(p) => at[t] + k - 1 = Len(text) + 1
    <3>1. Located(p, text, at, t, k)
      BY <1>1, Placed
    <3> QED  BY <3>1, Zenon DEF Located
  <2> QED  BY <2>1, <2>2
<1>7. p[t] = DoubleStar <=> len = 2 /\ p[t][1] = "*" /\ p[t][2] = "*"
  BY <1>1, TwoStars
<1>8. t < Len(p) \/ t = Len(p)
  BY <1>1
<1> HIDE DEF len
<1>9. ASSUME ClosingStars(text, i) PROVE t = Len(p) /\ p[t] = DoubleStar
  <2>1. i + 2 = Len(text) /\ text[i + 1] = "*" /\ text[i + 2] = "*"
    BY <1>3, <1>9, AtStars
  <2>2. len >= 2 /\ p[t][1] = "*"
    <3>1. 1 \in 1..(len + 1) /\ 1 <= len
      BY <1>5
    <3>2. p[t][1] = "*"
      BY <1>6, <2>1, <3>1
    <3>3. ASSUME len = 1 PROVE FALSE
      <4>1. 2 \in 1..(len + 1) /\ 2 = len + 1
        BY <3>3
      <4>2. t = Len(p) => i + 2 = Len(text) + 1
        BY <1>6, <4>1
      <4>3. t < Len(p) => text[i + 2] = "/"
        BY <1>6, <4>1
      <4> QED  BY <1>2, <1>8, <2>1, <4>2, <4>3
    <3> QED  BY <1>5, <3>2, <3>3
  <2>3. p[t][2] = "*"
    <3>1. 2 \in 1..(len + 1) /\ 2 <= len
      BY <1>5, <2>2
    <3> QED  BY <1>6, <2>1, <3>1
  <2>4. len = 2
    <3>1. 3 \in 1..(len + 1)
      BY <1>5, <2>2
    <3>2. 3 <= len => i + 3 <= Len(text)
      BY <1>6, <3>1
    <3> QED  BY <1>2, <1>3, <1>5, <2>1, <2>2, <3>2
  <2>5. t = Len(p)
    <3>1. 3 \in 1..(len + 1) /\ 3 = len + 1
      BY <2>4
    <3>2. ASSUME t < Len(p) PROVE FALSE
      <4> DEFINE last == len + 1
                 place == at[t] + last - 1
      <4>1. last \in 1..(Len(p[t]) + 1) /\ last = Len(p[t]) + 1
        BY <1>5 DEF len
      <4>2. place <= Len(text)
        <5> HIDE DEF last
        <5>1. Located(p, text, at, t, last)
          BY <1>1, <4>1, Placed
        <5> QED  BY <3>2, <4>1, <5>1, Zenon DEF Located, place
      <4>3. place = i + 3
        BY <1>3, <2>4
      <4> QED  BY <1>2, <1>3, <2>1, <4>2, <4>3
    <3> QED  BY <1>8, <3>2
  <2> QED  BY <1>7, <2>2, <2>3, <2>4, <2>5
<1>10. ASSUME t = Len(p), p[t] = DoubleStar PROVE ClosingStars(text, i)
  <2>1. len = 2 /\ p[t][1] = "*" /\ p[t][2] = "*"
    BY <1>7, <1>10
  <2>2. 1 \in 1..(len + 1) /\ 2 \in 1..(len + 1) /\ 3 \in 1..(len + 1) /\ 3 = len + 1 /\ 1 <= len /\ 2 <= len
    BY <2>1
  <2>3. text[i + 1] = "*" /\ text[i + 2] = "*" /\ i + 3 = Len(text) + 1
    BY <1>6, <1>10, <2>1, <2>2
  <2>4. i + 2 = Len(text)
    BY <1>2, <1>3, <2>3
  <2> QED  BY <1>3, <2>3, <2>4, AtStars
<1>11. i \in 1..Len(text)
  BY <1>2, <1>3
<1> QED  BY <1>3, <1>4, <1>9, <1>10, <1>11 DEF i, t

(* A pattern and a path, laid out, and what the recursion says of them.    *)
Meeting(p, q, ptext, qtext, u, v, left) ==
  /\ p \in Globs /\ q \in Whereabouts
  /\ Laid(ptext, p, u, Len(p)) /\ Laid(qtext, q, v, Len(q))
  /\ \A i \in 1..(Len(ptext) + 1) : left[i] = From(left, ptext, qtext, i)

(* What is to be shown: from the k-th character of its s-th segment on the *)
(* pattern matches what is left of a segment of the path, and then all     *)
(* behind it; from the beginning of a segment, the path from there on.     *)
Here(p, q, u, v, left, s, k) ==
  \A t \in 1..Len(q) : \A b \in 1..(Len(q[t]) + 1) :
     v[t] + b - 1 \in left[u[s] + k - 1] <=> Rest(p[s], q[t], k, b) /\ Onwards(p, q, s + 1, t + 1)
Begins(p, q, u, v, left, s) ==
  \A t \in 1..Len(q) : v[t] \in left[u[s]] <=> Onwards(p, q, s, t)

LEMMA MeetingParts ==
  ASSUME NEW p, NEW q, NEW ptext, NEW qtext, NEW u, NEW v, NEW left, Meeting(p, q, ptext, qtext, u, v, left)
  PROVE  /\ p \in Globs /\ q \in Whereabouts /\ p \in Seq(Segment) /\ q \in Seq(Segment)
         /\ Laid(ptext, p, u, Len(p)) /\ Laid(qtext, q, v, Len(q))
         /\ Len(p) \in Nat /\ Len(p) >= 1 /\ Len(q) \in Nat /\ Len(q) >= 1
         /\ Len(ptext) \in Nat /\ Len(qtext) \in Nat
         /\ \A s \in 1..Len(p) : p[s] \in Segment
         /\ \A s \in 1..Len(q) : q[s] \in Segment
         /\ \A i \in 1..(Len(ptext) + 1) : left[i] = From(left, ptext, qtext, i)
<1>1. ptext \in Seq(Letters) /\ qtext \in Seq(Letters)
  BY DEF Meeting, Laid
<1> QED  BY <1>1, LenProperties, GlobParts, PathParts DEF Meeting

(* Behind a segment.                                                       *)
LEMMA BehindSegment ==
  ASSUME NEW p, NEW q, NEW ptext, NEW qtext, NEW u, NEW v, NEW left, Meeting(p, q, ptext, qtext, u, v, left),
         NEW s \in 1..Len(p), s < Len(p) => Begins(p, q, u, v, left, s + 1)
  PROVE  Here(p, q, u, v, left, s, Len(p[s]) + 1)
<1> DEFINE m == Len(p)
           n == Len(q)
           i == u[s] + (Len(p[s]) + 1) - 1
           size == Len(qtext)
           psize == Len(ptext)
<1>0. /\ p \in Globs /\ q \in Whereabouts /\ p \in Seq(Segment) /\ q \in Seq(Segment)
      /\ Laid(ptext, p, u, Len(p)) /\ Laid(qtext, q, v, Len(q))
      /\ m \in Nat /\ m >= 1 /\ n \in Nat /\ n >= 1 /\ psize \in Nat /\ size \in Nat
      /\ p[s] \in Segment /\ \A t \in 1..n : q[t] \in Segment
  BY MeetingParts
<1>1. /\ i \in 1..(psize + 1) /\ i = u[s + 1] - 1 /\ u[s + 1] \in Nat /\ u[s] \in Nat
      /\ s = m => i = psize + 1
  <2> DEFINE k == Len(p[s]) + 1
  <2>1. k \in 1..(Len(p[s]) + 1) /\ k = Len(p[s]) + 1 /\ Len(p[s]) \in Nat
    BY <1>0, SegmentParts
  <2> HIDE DEF k
  <2>2. Located(p, ptext, u, s, k)
    BY <1>0, <2>1, Placed
  <2>3. /\ u[s] + k - 1 \in 1..(psize + 1) /\ u[s] \in Nat
        /\ u[s + 1] = u[s] + Len(p[s]) + 1
        /\ s = m => u[s] + k - 1 = psize + 1
    BY <2>1, <2>2, Zenon DEF Located
  <2>4. i = u[s] + k - 1
    BY <2>1
  <2>5. u[s + 1] \in Nat /\ i = u[s + 1] - 1
    BY <2>1, <2>3
  <2> QED  BY <2>3, <2>4, <2>5
<1>2. left[i] = From(left, ptext, qtext, i)
  <2> HIDE DEF i
  <2> QED  BY <1>1, MeetingParts
<1> SUFFICES ASSUME NEW t \in 1..Len(q), NEW b \in 1..(Len(q[t]) + 1)
             PROVE  v[t] + b - 1 \in left[i] <=> Rest(p[s], q[t], Len(p[s]) + 1, b) /\ Onwards(p, q, s + 1, t + 1)
  BY DEF Here
<1> DEFINE j == v[t] + b - 1
           len == Len(q[t])
<1>3. /\ j \in 1..(size + 1) /\ len \in Nat /\ b \in 1..(len + 1)
      /\ b <= len => j <= size /\ qtext[j] # "/"
      /\ b = len + 1 /\ t < n => j <= size /\ qtext[j] = "/" /\ j + 1 = v[t + 1]
      /\ b = len + 1 /\ t = n => j = size + 1
  <2>1. Located(q, qtext, v, t, b)
    BY <1>0, Placed
  <2> QED  BY <2>1, Zenon DEF Located
<1>4. Rest(p[s], q[t], Len(p[s]) + 1, b) <=> b = len + 1
  BY <1>0, RestEnds
<1>5. (b <= len \/ b = len + 1) /\ ~(b <= len /\ b = len + 1)
  <2> HIDE DEF len
  <2> QED  BY <1>3
<1>6. t < n \/ t = n
  BY <1>0
<1> HIDE DEF i, j, m, n, size, psize, len
<1>7. s < m \/ s = m
  BY <1>0 DEF m
<1>8. CASE s = m
  <2>1. i > Len(ptext)
    BY <1>0, <1>1, <1>8 DEF psize
  <2>2. left[i] = {size + 1}
    BY <1>2, <2>1, Zenon DEF From, size
  <2>3. Onwards(p, q, s + 1, t + 1) <=> t + 1 = n + 1
    <3> DEFINE x == t + 1
    <3>1. x \in 1..(Len(q) + 1)
      BY <1>0 DEF n
    <3> HIDE DEF x
    <3>2. Onwards(p, q, Len(p) + 1, x) <=> x = Len(q) + 1
      BY <1>0, <3>1, OnwardsEnds
    <3> QED  BY <1>8, <3>2 DEF m, n, x
  <2>4. j = size + 1 <=> b = len + 1 /\ t = n
    BY <1>0, <1>3, <1>5, <1>6
  <2>5. t + 1 = n + 1 <=> t = n
    BY <1>0
  <2> QED  BY <1>4, <2>2, <2>3, <2>4, <2>5 DEF j
<1>9. CASE s < m
  <2>1. /\ i \in 1..psize /\ ptext[i] = "/" /\ i + 1 = u[s + 1]
        /\ ~At(ptext, i, <<"*", "*", "/">>) /\ ~At(ptext, i, <<"*", "*">>)
        /\ ClosingStars(ptext, i) <=> s + 1 = m /\ p[s + 1] = DoubleStar
    <3> DEFINE h == u[s + 1] - 1
    <3>1. /\ h \in 1..Len(ptext) /\ ptext[h] = "/" /\ h + 1 = u[s + 1]
          /\ ~At(ptext, h, <<"*", "*", "/">>) /\ ~At(ptext, h, <<"*", "*">>)
          /\ ClosingStars(ptext, h) <=> s + 1 = Len(p) /\ p[s + 1] = DoubleStar
      <4>1. s < Len(p)
        BY <1>9 DEF m
      <4> QED  BY <1>0, <4>1, BetweenSegments
    <3> HIDE DEF h
    <3>2. h = i
      BY <1>1 DEF h
    <3> QED  BY <3>1, <3>2 DEF m, psize
  <2>2. ~(i > Len(ptext))
    BY <1>0, <2>1 DEF psize
  <2>3. s + 1 \in 1..Len(p) /\ t + 1 \in 1..(Len(q) + 1)
    BY <1>0, <1>9 DEF m, n
  <2>4. CASE ClosingStars(ptext, i)
    <3>1. left[i] = {x \in 1..(size + 1) : x = size + 1 \/ qtext[x] = "/"}
      BY <1>2, <2>1, <2>2, <2>4, Zenon DEF From, size
    <3>2. Onwards(p, q, s + 1, t + 1)
      <4>1. s + 1 = Len(p) /\ p[Len(p)] = DoubleStar
        BY <2>1, <2>4 DEF m
      <4>2. Onwards(p, q, Len(p), t + 1)
        BY <1>0, <2>3, <4>1, ClosingTakesAll
      <4> QED  BY <4>1, <4>2
    <3>3. (j = size + 1 \/ qtext[j] = "/") <=> b = len + 1
      <4>1. j <= size => j # size + 1
        BY <1>0
      <4> QED  BY <1>3, <1>5, <1>6, <4>1
    <3> QED  BY <1>3, <1>4, <3>1, <3>2, <3>3 DEF j
  <2>5. CASE ~ClosingStars(ptext, i)
    <3>1. ptext[i] # "*" /\ ptext[i] # "?"
      BY <2>1
    <3>2. left[i] = {x \in 1..size : x + 1 \in left[i + 1] /\ qtext[x] = ptext[i]}
      BY <1>2, <2>1, <2>2, <2>5, <3>1, Zenon DEF From, size
    <3>3. CASE t < n
      <4>1. v[t + 1] \in left[u[s + 1]] <=> Onwards(p, q, s + 1, t + 1)
        <5>1. t + 1 \in 1..Len(q)
          BY <1>0, <3>3 DEF n
        <5>2. Begins(p, q, u, v, left, s + 1)
          BY <1>9 DEF m
        <5> QED  BY <5>1, <5>2 DEF Begins
      <4>2. j \in left[i] <=> b = len + 1 /\ v[t + 1] \in left[u[s + 1]]
        <5>1. CASE b = len + 1
          <6>1. j \in 1..size /\ qtext[j] = ptext[i] /\ j + 1 = v[t + 1]
            BY <1>0, <1>3, <2>1, <3>3, <5>1
          <6> QED  BY <2>1, <3>2, <5>1, <6>1
        <5>2. CASE b <= len
          <6>1. qtext[j] # ptext[i]
            BY <1>3, <2>1, <5>2
          <6> QED  BY <1>5, <3>2, <5>2, <6>1
        <5> QED  BY <1>5, <5>1, <5>2
      <4> QED  BY <1>4, <4>1, <4>2 DEF j
    <3>4. CASE t = n
      <4>1. ~Onwards(p, q, s + 1, t + 1)
        <5>1. ~Onwards(p, q, s + 1, Len(q) + 1)
          BY <1>0, <2>1, <2>3, <2>5, OthersTakeOne DEF m
        <5> QED  BY <3>4, <5>1 DEF n
      <4>2. j \notin left[i]
        <5>1. CASE b = len + 1
          <6>1. j \notin 1..size
            BY <1>0, <1>3, <3>4, <5>1
          <6> QED  BY <3>2, <6>1
        <5>2. CASE b <= len
          <6>1. qtext[j] # ptext[i]
            BY <1>3, <2>1, <5>2
          <6> QED  BY <3>2, <6>1
        <5> QED  BY <1>5, <5>1, <5>2
      <4> QED  BY <1>4, <4>1, <4>2 DEF j
    <3> QED  BY <1>6, <3>3, <3>4
  <2> QED  BY <2>4, <2>5
<1> QED  BY <1>7, <1>8, <1>9

(* The d-th place from w on, no nearer than the b-th, among n + 1.         *)
Offset(w, n, b, y, j, d) ==
  /\ w \in Nat /\ n \in Nat /\ b \in Nat /\ b \in 1..(n + 1) /\ y \in Nat
  /\ j \in Nat /\ j = w + b - 1 /\ j <= y /\ d \in Int /\ d = y - w + 1
Within(w, n, b, y, j, d) ==
  /\ y = w + d - 1
  /\ y <= w + n => d \in b..(n + 1) /\ d \in 1..(n + 1)
  /\ y <= w + n - 1 => d <= n
  /\ ~(y <= w + n) => w + n \in j..(y - 1) /\ w + n < y
LEMMA Offsets ==
  ASSUME NEW w, NEW n, NEW b, NEW y, NEW j, NEW d, Offset(w, n, b, y, j, d)
  PROVE  Within(w, n, b, y, j, d)
  BY DEF Offset, Within

(* At a character of a segment, when it is known for the next.             *)
LEMMA InsideSegment ==
  ASSUME NEW p, NEW q, NEW ptext, NEW qtext, NEW u, NEW v, NEW left, Meeting(p, q, ptext, qtext, u, v, left),
         NEW s \in 1..Len(p), p[s] # DoubleStar, NEW k \in 1..Len(p[s]), Here(p, q, u, v, left, s, k + 1)
  PROVE  Here(p, q, u, v, left, s, k)
<1> DEFINE i == u[s] + k - 1
           size == Len(qtext)
           c == p[s][k]
<1>0. /\ p \in Globs /\ q \in Whereabouts /\ p \in Seq(Segment) /\ q \in Seq(Segment)
      /\ Laid(ptext, p, u, Len(p)) /\ Laid(qtext, q, v, Len(q))
      /\ Len(q) \in Nat /\ Len(ptext) \in Nat /\ size \in Nat
      /\ p[s] \in Segment /\ \A t \in 1..Len(q) : q[t] \in Segment
  BY MeetingParts
<1>1. /\ i \in 1..Len(ptext) /\ ptext[i] = c /\ c # "/"
      /\ ~At(ptext, i, <<"*", "*", "/">>) /\ ~At(ptext, i, <<"*", "*">>) /\ ~ClosingStars(ptext, i)
  BY <1>0, InSegment
<1>2. u[s] \in Nat /\ k \in Nat
  <2>1. k \in 1..(Len(p[s]) + 1) /\ k \in Nat
    BY <1>0, SegmentParts
  <2>2. Located(p, ptext, u, s, k)
    BY <1>0, <2>1, Placed
  <2> QED  BY <2>1, <2>2, Zenon DEF Located
<1>3. i + 1 = u[s] + (k + 1) - 1 /\ i \in 1..(Len(ptext) + 1) /\ ~(i > Len(ptext))
  <2>1. i + 1 = u[s] + (k + 1) - 1
    BY <1>2
  <2> HIDE DEF i
  <2>2. i \in 1..(Len(ptext) + 1) /\ ~(i > Len(ptext))
    BY <1>0, <1>1
  <2> QED  BY <2>1, <2>2
<1>4. left[i] = From(left, ptext, qtext, i)
  <2> HIDE DEF i
  <2> QED  BY <1>3, MeetingParts
<1> HIDE DEF i, size, c
<1> SUFFICES ASSUME NEW t \in 1..Len(q), NEW b \in 1..(Len(q[t]) + 1)
             PROVE  v[t] + b - 1 \in left[i] <=> Rest(p[s], q[t], k, b) /\ Onwards(p, q, s + 1, t + 1)
  BY DEF Here, i
<1> DEFINE len == Len(q[t])
           j == v[t] + b - 1
           onwards == Onwards(p, q, s + 1, t + 1)
<1>5. ASSUME NEW d \in 1..(len + 1)
      PROVE  v[t] + d - 1 \in left[i + 1] <=> Rest(p[s], q[t], k + 1, d) /\ onwards
  BY <1>3 DEF Here
<1>6. ASSUME NEW d \in 1..(len + 1)
      PROVE  /\ v[t] + d - 1 \in 1..(size + 1) /\ v[t] \in Nat /\ len \in Nat
             /\ d <= len => v[t] + d - 1 <= size /\ qtext[v[t] + d - 1] = q[t][d] /\ qtext[v[t] + d - 1] # "/"
             /\ d = len + 1 /\ t < Len(q) => v[t] + d - 1 <= size /\ qtext[v[t] + d - 1] = "/"
             /\ d = len + 1 /\ t = Len(q) => v[t] + d - 1 = size + 1
  <2>1. Located(q, qtext, v, t, d)
    BY <1>0, <1>6, Placed
  <2> QED  BY <2>1, Zenon DEF Located, size
<1>7. /\ c = "*" => (Rest(p[s], q[t], k, b) <=> \E y \in b..(len + 1) : Rest(p[s], q[t], k + 1, y))
      /\ c # "*" =>
           (Rest(p[s], q[t], k, b) <=> b <= len /\ c \in {"?", q[t][b]} /\ Rest(p[s], q[t], k + 1, b + 1))
  BY <1>0, RestSteps, Zenon DEF c
<1>8. b \in 1..(len + 1)
  OBVIOUS
<1>9. len \in Nat /\ v[t] \in Nat /\ j \in 1..(size + 1) /\ j \in Nat /\ b \in Nat
  <2>1. len \in Nat /\ v[t] \in Nat /\ j \in 1..(size + 1)
    BY <1>6, <1>8
  <2> HIDE DEF len
  <2>2. b \in Nat
    BY <1>8, <2>1
  <2> HIDE DEF j
  <2> QED  BY <2>1, <2>2
<1>10. t < Len(q) \/ t = Len(q)
  BY <1>0
<1> HIDE DEF len, onwards
<1>11. CASE c = "*"
  <2>1. left[i] = {x \in 1..(size + 1) :
                     \E y \in x..(size + 1) : y \in left[i + 1] /\ \A l \in x..(y - 1) : qtext[l] # "/"}
    BY <1>1, <1>3, <1>4, <1>11, Zenon DEF From, size
  <2>2. ASSUME NEW y \in j..(size + 1), y \in left[i + 1], \A l \in j..(y - 1) : qtext[l] # "/"
        PROVE  Rest(p[s], q[t], k, b) /\ onwards
    <3> DEFINE d == y - v[t] + 1
               last == len + 1
               stop == v[t] + last - 1
    <3>1. last \in 1..(len + 1) /\ y \in Nat /\ j <= y /\ y <= size + 1 /\ stop = v[t] + len
      <4>1. last \in 1..(len + 1) /\ stop = v[t] + len
        BY <1>9
      <4> HIDE DEF j
      <4>2. y \in Nat /\ j <= y /\ y <= size + 1
        BY <1>0, <1>9
      <4> QED  BY <4>1, <4>2
    <3>2. /\ t < Len(q) => stop <= size /\ qtext[stop] = "/"
          /\ t = Len(q) => stop = size + 1
      <4> HIDE DEF last
      <4>1. last = len + 1
        BY DEF last
      <4> QED  BY <1>6, <3>1, <4>1
    <3>3. /\ y = v[t] + d - 1
          /\ y <= v[t] + len => d \in b..(len + 1) /\ d \in 1..(len + 1)
          /\ ~(y <= v[t] + len) => v[t] + len \in j..(y - 1) /\ v[t] + len < y
      <4>1. d = y - v[t] + 1 /\ j = v[t] + b - 1 /\ d \in Int
        <5>1. y \in Nat /\ v[t] \in Nat
          BY <1>9, <3>1
        <5> QED  BY <5>1
      <4> HIDE DEF d, j
      <4>2. Offset(v[t], len, b, y, j, d)
        BY <1>8, <1>9, <3>1, <4>1 DEF Offset
      <4>3. Within(v[t], len, b, y, j, d)
        BY <4>2, Offsets, Zenon
      <4> QED  BY <4>3, Zenon DEF Within
    <3>4. y <= stop
      <4> SUFFICES ASSUME ~(y <= stop) PROVE FALSE
        OBVIOUS
      <4>1. stop \in j..(y - 1) /\ stop < y
        BY <3>1, <3>3
      <4> HIDE DEF stop, j
      <4>2. qtext[stop] # "/"
        BY <2>2, <4>1
      <4>3. t = Len(q) /\ stop = size + 1
        BY <1>10, <3>2, <4>2
      <4> QED  BY <1>0, <3>1, <4>1, <4>3
    <3>5. d \in b..(len + 1) /\ d \in 1..(len + 1) /\ y = v[t] + d - 1
      BY <3>1, <3>4, <3>3
    <3> HIDE DEF d
    <3>6. Rest(p[s], q[t], k + 1, d) /\ onwards
      BY <1>5, <2>2, <3>5
    <3> QED  BY <1>7, <1>11, <3>5, <3>6
  <2>3. ASSUME Rest(p[s], q[t], k, b), onwards PROVE j \in left[i]
    <3>1. PICK d \in b..(len + 1) : Rest(p[s], q[t], k + 1, d)
      BY <1>7, <1>11, <2>3
    <3> DEFINE y == v[t] + d - 1
    <3>2. d \in 1..(len + 1) /\ d \in Nat
      BY <1>8, <1>9
    <3>3. y \in left[i + 1] /\ y \in 1..(size + 1)
      BY <1>5, <1>6, <2>3, <3>1, <3>2
    <3>4. y \in j..(size + 1)
      BY <1>0, <1>8, <1>9, <3>2, <3>3 DEF size
    <3>5. ASSUME NEW l \in j..(y - 1) PROVE qtext[l] # "/"
      <4> DEFINE e == l - v[t] + 1
      <4>1. l \in Nat /\ j <= l /\ l <= v[t] + len - 1 /\ l <= v[t] + len
        <5>1. j \in Nat /\ y \in Nat /\ y <= v[t] + len
          <6>1. d <= len + 1 /\ d \in Nat /\ d >= 1
            <7> HIDE DEF j, y
            <7> QED  BY <1>9, <3>2
          <6> QED  BY <1>9, <6>1
        <5> HIDE DEF y
        <5>2. l \in Nat /\ j <= l /\ l <= y - 1
          <6> HIDE DEF j
          <6> QED  BY <5>1
        <5>3. l <= v[t] + len - 1 /\ l <= v[t] + len
          <6> HIDE DEF y
          <6> QED  BY <1>9, <5>1, <5>2
        <5> QED  BY <5>2, <5>3
      <4>2. e \in 1..(len + 1) /\ e <= len /\ l = v[t] + e - 1
        <5>1. e = l - v[t] + 1 /\ j = v[t] + b - 1 /\ e \in Int
          BY <1>9, <4>1
        <5> HIDE DEF e, j
        <5>2. Offset(v[t], len, b, l, j, e)
          BY <1>8, <1>9, <4>1, <5>1 DEF Offset
        <5>3. Within(v[t], len, b, l, j, e)
          BY <5>2, Offsets, Zenon
        <5> QED  BY <4>1, <5>3 DEF Within
      <4> HIDE DEF e
      <4> QED  BY <1>6, <4>2
    <3> HIDE DEF y, j
    <3> QED  BY <1>9, <2>1, <3>3, <3>4, <3>5
  <2>4. j \in left[i] <=> Rest(p[s], q[t], k, b) /\ onwards
    <3> HIDE DEF j
    <3> QED  BY <2>1, <2>2, <2>3
  <2> QED  BY <2>4 DEF j, onwards
<1>12. CASE c # "*"
  <2>1. left[i] = {x \in 1..size :
                     x + 1 \in left[i + 1] /\ IF c = "?" THEN qtext[x] # "/" ELSE qtext[x] = c}
    BY <1>1, <1>3, <1>4, <1>12, Zenon DEF From, size
  <2>2. CASE b <= len
    <3> DEFINE d == b + 1
    <3>1. d \in 1..(len + 1) /\ j + 1 = v[t] + d - 1
      BY <1>8, <1>9, <2>2
    <3> HIDE DEF d
    <3>2. j + 1 \in left[i + 1] <=> Rest(p[s], q[t], k + 1, d) /\ onwards
      BY <1>5, <3>1
    <3>3. j \in 1..size /\ qtext[j] = q[t][b] /\ qtext[j] # "/"
      BY <1>6, <1>8, <1>9, <2>2
    <3>4. (IF c = "?" THEN qtext[j] # "/" ELSE qtext[j] = c) <=> c \in {"?", q[t][b]}
      BY <3>3
    <3> HIDE DEF j
    <3>5. j \in left[i] <=> Rest(p[s], q[t], k, b) /\ onwards
      BY <1>7, <1>12, <2>1, <2>2, <3>2, <3>3, <3>4 DEF d
    <3> QED  BY <3>5 DEF j, onwards
  <2>3. CASE b = len + 1
    <3>1. ~Rest(p[s], q[t], k, b)
      <4>1. ~(b <= len)
        BY <1>9, <2>3
      <4> QED  BY <1>7, <1>12, <4>1
    <3>2. j \in 1..size => qtext[j] = "/"
      <4>1. j = size + 1 => j \notin 1..size
        BY <1>0 DEF size
      <4> QED  BY <1>6, <1>8, <1>10, <2>3, <4>1
    <3> HIDE DEF j
    <3>3. j \notin left[i]
      BY <1>1, <2>1, <3>2
    <3> QED  BY <3>1, <3>3 DEF j
  <2>4. b <= len \/ b = len + 1
    BY <1>8, <1>9
  <2> QED  BY <2>2, <2>3, <2>4
<1> QED  BY <1>11, <1>12

(* Where a segment begins, when it is known where it ends.                 *)
LEMMA AtSegment ==
  ASSUME NEW p, NEW q, NEW ptext, NEW qtext, NEW u, NEW v, NEW left, Meeting(p, q, ptext, qtext, u, v, left),
         NEW s \in 1..Len(p), p[s] # DoubleStar, Here(p, q, u, v, left, s, Len(p[s]) + 1)
  PROVE  Begins(p, q, u, v, left, s)
<1> DEFINE len == Len(p[s])
           good == {m \in 0..len : Here(p, q, u, v, left, s, len + 1 - m)}
<1>0. /\ p \in Globs /\ q \in Whereabouts /\ p \in Seq(Segment) /\ q \in Seq(Segment)
      /\ Laid(ptext, p, u, Len(p)) /\ Laid(qtext, q, v, Len(q)) /\ Len(q) \in Nat
      /\ p[s] \in Segment /\ \A t \in 1..Len(q) : q[t] \in Segment
  BY MeetingParts
<1>1. len \in Nat /\ len >= 1
  BY <1>0, SegmentParts
<1>2. 0 \in good
  <2>1. len + 1 - 0 = len + 1
    BY <1>1
  <2> QED  BY <1>1, <2>1
<1>3. ASSUME NEW m \in 1..len, m - 1 \in good PROVE m \in good
  <2> DEFINE k == len + 1 - m
  <2>1. k \in 1..len /\ len + 1 - (m - 1) = k + 1
    BY <1>1
  <2>2. Here(p, q, u, v, left, s, k + 1)
    BY <1>3, <2>1
  <2> HIDE DEF k
  <2>3. Here(p, q, u, v, left, s, k)
    BY <2>1, <2>2, InsideSegment
  <2> QED  BY <1>1, <2>3 DEF k
<1>4. Here(p, q, u, v, left, s, 1)
  <2> HIDE DEF good
  <2>1. \A m \in 0..len : m \in good
    BY <1>1, <1>2, <1>3, UpTo
  <2>2. len \in good
    BY <1>1, <2>1
  <2>3. len + 1 - len = 1
    BY <1>1
  <2> QED  BY <2>2, <2>3 DEF good
<1> SUFFICES ASSUME NEW t \in 1..Len(q) PROVE v[t] \in left[u[s]] <=> Onwards(p, q, s, t)
  BY DEF Begins
<1>5. u[s] + 1 - 1 = u[s] /\ v[t] + 1 - 1 = v[t] /\ 1 \in 1..(Len(q[t]) + 1)
  <2>1. 1 \in 1..(Len(p[s]) + 1) /\ 1 \in 1..(Len(q[t]) + 1)
    BY <1>0, SegmentParts
  <2>2. Located(p, ptext, u, s, 1) /\ Located(q, qtext, v, t, 1)
    BY <1>0, <2>1, Placed
  <2>3. u[s] \in Nat /\ v[t] \in Nat
    BY <2>2, Zenon DEF Located
  <2> QED  BY <2>1, <2>3
<1>6. v[t] \in left[u[s]] <=> Rest(p[s], q[t], 1, 1) /\ Onwards(p, q, s + 1, t + 1)
  <2>1. v[t] + 1 - 1 \in left[u[s] + 1 - 1] <=> Rest(p[s], q[t], 1, 1) /\ Onwards(p, q, s + 1, t + 1)
    BY <1>4, <1>5, Zenon DEF Here
  <2> QED  BY <1>5, <2>1
<1>7. SegmentMatches(p[s], q[t]) <=> Rest(p[s], q[t], 1, 1)
  BY <1>0, SegmentIsDivided
<1>8. Onwards(p, q, s, t) <=> SegmentMatches(p[s], q[t]) /\ Onwards(p, q, s + 1, t + 1)
  <2>1. t \in 1..(Len(q) + 1) /\ t <= Len(q)
    BY <1>0
  <2> QED  BY <1>0, <2>1, OnwardsSteps
<1> QED  BY <1>6, <1>7, <1>8

(* Where a "**" begins.                                                    *)
LEMMA AtStarsOfAll ==
  ASSUME NEW p, NEW q, NEW ptext, NEW qtext, NEW u, NEW v, NEW left, Meeting(p, q, ptext, qtext, u, v, left),
         NEW s \in 1..Len(p), p[s] = DoubleStar, s < Len(p) => Begins(p, q, u, v, left, s + 1)
  PROVE  Begins(p, q, u, v, left, s)
<1> DEFINE n == Len(q)
           i == u[s]
           size == Len(qtext)
<1>0. /\ p \in Globs /\ q \in Whereabouts /\ p \in Seq(Segment) /\ q \in Seq(Segment)
      /\ Laid(ptext, p, u, Len(p)) /\ Laid(qtext, q, v, Len(q))
      /\ Len(p) \in Nat /\ n \in Nat /\ Len(ptext) \in Nat /\ size \in Nat
      /\ p[s] \in Segment /\ \A t \in 1..n : q[t] \in Segment
  BY MeetingParts
<1>1. /\ i \in 1..Len(ptext)
      /\ s < Len(p) => At(ptext, i, <<"*", "*", "/">>) /\ u[s + 1] = i + 3
      /\ s = Len(p) => /\ ~At(ptext, i, <<"*", "*", "/">>) /\ ~ClosingStars(ptext, i)
                       /\ At(ptext, i, <<"*", "*">>) /\ i + 2 = Len(ptext) + 1
  BY <1>0, AtStarSegment
<1> HIDE DEF i
<1>2. left[i] = From(left, ptext, qtext, i) /\ ~(i > Len(ptext))
  <2>1. i \in 1..(Len(ptext) + 1) /\ ~(i > Len(ptext))
    BY <1>0, <1>1
  <2> QED  BY <2>1, MeetingParts
<1>3. \A t \in 1..n : /\ v[t] \in 1..(size + 1) /\ v[t] \in Nat /\ Len(q[t]) \in Nat
                      /\ v[t + 1] = v[t] + Len(q[t]) + 1
  <2> SUFFICES ASSUME NEW t \in 1..n
               PROVE  /\ v[t] \in 1..(size + 1) /\ v[t] \in Nat /\ Len(q[t]) \in Nat
                      /\ v[t + 1] = v[t] + Len(q[t]) + 1
    OBVIOUS
  <2>1. 1 \in 1..(Len(q[t]) + 1)
    BY <1>0, SegmentParts
  <2>2. Located(q, qtext, v, t, 1)
    BY <1>0, <2>1, Placed
  <2> QED  BY <2>2, Zenon DEF Located
<1>4. \A x, y \in 1..n : x < y => v[x] < v[y]
  <2>1. \A x, y \in 1..(n + 1) : x < y => v[x] < v[y]
    BY <1>0 DEF Laid
  <2>2. \A x \in 1..n : x \in 1..(n + 1)
    BY <1>0
  <2> QED  BY <2>1, <2>2
<1> SUFFICES ASSUME NEW t \in 1..Len(q) PROVE v[t] \in left[i] <=> Onwards(p, q, s, t)
  BY DEF Begins, i
<1>5. t \in 1..n /\ t \in 1..(Len(q) + 1) /\ t \in Nat
  BY <1>0
<1>6. CASE s = Len(p)
  <2>1. left[i + 2] = {size + 1}
    <3> DEFINE h == i + 2
    <3>1. h \in 1..(Len(ptext) + 1) /\ h > Len(ptext)
      BY <1>0, <1>1, <1>6
    <3> HIDE DEF h
    <3>2. left[h] = From(left, ptext, qtext, h)
      BY <3>1, MeetingParts
    <3>3. left[h] = {size + 1}
      BY <3>1, <3>2, Zenon DEF From
    <3> QED  BY <3>3 DEF h
  <2>2. left[i] = {j \in 1..(size + 1) : \E k \in j..(size + 1) : k \in left[i + 2]}
    BY <1>1, <1>2, <1>6, Zenon DEF From
  <2> HIDE DEF size
  <2>3. v[t] \in left[i]
    <3>1. size + 1 \in v[t]..(size + 1) /\ v[t] \in 1..(size + 1)
      BY <1>0, <1>3, <1>5
    <3> QED  BY <2>1, <2>2, <3>1
  <2>4. Onwards(p, q, s, t)
    BY <1>0, <1>5, <1>6, ClosingTakesAll
  <2> QED  BY <2>3, <2>4
<1>7. CASE s < Len(p)
  <2> DEFINE rest == left[u[s + 1]]
  <2>1. left[i] = {j \in 1..(size + 1) :
                     j \in rest \/ \E k \in j..size : qtext[k] = "/" /\ k + 1 \in rest}
    <3>1. left[i] = {j \in 1..(size + 1) :
                       j \in left[i + 3] \/ \E k \in j..size : qtext[k] = "/" /\ k + 1 \in left[i + 3]}
      BY <1>1, <1>2, <1>7, Zenon DEF From
    <3> QED  BY <1>1, <1>7, <3>1
  <2>2. \A x \in 1..n : v[x] \in rest <=> Onwards(p, q, s + 1, x)
    BY <1>7 DEF Begins
  <2>3. Onwards(p, q, s, t) <=> \E y \in t..(n + 1) : Onwards(p, q, s + 1, y)
    BY <1>0, <1>5, OnwardsSteps
  <2>4. ~Onwards(p, q, s + 1, n + 1)
    <3>1. s + 1 \in 1..Len(p) /\ s \in 1..(Len(p) - 1)
      BY <1>0, <1>7
    <3>2. p[s + 1] # DoubleStar
      BY <1>0, <3>1, GlobParts
    <3> QED  BY <1>0, <3>1, <3>2, OthersTakeOne
  <2> HIDE DEF rest
  <2>5. ASSUME v[t] \in left[i] PROVE Onwards(p, q, s, t)
    <3>1. CASE v[t] \in rest
      <4>1. t \in t..(n + 1)
        BY <1>0, <1>5
      <4> QED  BY <1>5, <2>2, <2>3, <3>1, <4>1
    <3>2. CASE \E k \in v[t]..size : qtext[k] = "/" /\ k + 1 \in rest
      <4>1. PICK k \in v[t]..size : qtext[k] = "/" /\ k + 1 \in rest
        BY <3>2
      <4>2. k \in Nat /\ v[t] <= k /\ k <= size /\ k \in 1..(size + 1)
        <5> HIDE DEF size
        <5>1. v[t] \in Nat /\ v[t] >= 1
          BY <1>3, <1>5
        <5> QED  BY <1>0, <5>1
      <4>3. PICK x \in 1..Len(q), b \in Nat : b \in 1..(Len(q[x]) + 1) /\ k = v[x] + b - 1
        <5>1. IsPlace(q, v, k)
          BY <1>0, <4>2, EveryPlace
        <5> QED  BY <5>1 DEF IsPlace
      <4>4. /\ b <= Len(q[x]) => qtext[k] # "/"
            /\ b = Len(q[x]) + 1 /\ x < Len(q) => k + 1 = v[x + 1]
            /\ b = Len(q[x]) + 1 /\ x = Len(q) => k = size + 1
        <5>1. Located(q, qtext, v, x, b)
          BY <1>0, <4>3, Placed
        <5> QED  BY <4>3, <5>1, Zenon DEF Located
      <4>5. b = Len(q[x]) + 1
        <5>1. Len(q[x]) \in Nat
          BY <1>3
        <5> QED  BY <4>1, <4>3, <4>4, <5>1
      <4>6. x < n
        <5>1. x = Len(q) => FALSE
          <6> HIDE DEF size
          <6> QED  BY <1>0, <4>2, <4>4, <4>5
        <5> QED  BY <1>0, <5>1
      <4>7. k + 1 = v[x + 1] /\ x + 1 \in 1..n
        BY <1>0, <4>4, <4>5, <4>6
      <4>8. Onwards(p, q, s + 1, x + 1)
        BY <2>2, <4>1, <4>7
      <4>9. x + 1 \in t..(n + 1)
        <5> DEFINE y == x + 1
        <5>1. y \in 1..n /\ v[y] = k + 1 /\ y \in Nat
          BY <4>7
        <5> HIDE DEF y
        <5>2. ~(y < t)
          <6>1. y < t => v[y] < v[t]
            BY <1>4, <1>5, <5>1
          <6>2. v[t] \in Nat
            BY <1>3, <1>5
          <6> QED  BY <4>2, <5>1, <6>1, <6>2
        <5>3. y \in t..(n + 1)
          BY <1>0, <1>5, <5>1, <5>2
        <5> QED  BY <5>3 DEF y
      <4> QED  BY <2>3, <4>8, <4>9
    <3> QED  BY <2>1, <2>5, <3>1, <3>2
  <2>6. ASSUME Onwards(p, q, s, t) PROVE v[t] \in left[i]
    <3>1. PICK y \in t..(n + 1) : Onwards(p, q, s + 1, y)
      BY <2>3, <2>6
    <3>2. y \in 1..n /\ y # n + 1 /\ y \in Nat /\ t <= y
      BY <1>0, <1>5, <2>4, <3>1
    <3>3. v[y] \in rest
      BY <2>2, <3>1, <3>2
    <3>4. v[t] \in 1..(size + 1)
      BY <1>3, <1>5
    <3>5. CASE y = t
      BY <2>1, <3>3, <3>4, <3>5
    <3>6. CASE y # t
      <4> DEFINE x == y - 1
                 b == Len(q[x]) + 1
                 k == v[x] + b - 1
      <4>1. x \in 1..n /\ x < n /\ x + 1 = y
        BY <1>0, <1>5, <3>2, <3>6
      <4> HIDE DEF x
      <4>2. b \in 1..(Len(q[x]) + 1) /\ b = Len(q[x]) + 1
        BY <1>3, <4>1
      <4> HIDE DEF b
      <4>3. k <= size /\ qtext[k] = "/" /\ k + 1 = v[y] /\ k \in 1..(size + 1)
        <5>1. Located(q, qtext, v, x, b)
          BY <1>0, <4>1, <4>2, Placed
        <5> QED  BY <4>1, <4>2, <5>1, Zenon DEF Located
      <4>4. v[t] < v[y] /\ v[t] \in Nat /\ v[y] \in Nat
        BY <1>3, <1>4, <1>5, <3>2, <3>6
      <4> HIDE DEF k
      <4>5. k \in v[t]..size
        <5> HIDE DEF size
        <5>1. k \in Nat
          BY <1>0, <4>3
        <5> QED  BY <1>0, <4>3, <4>4, <5>1
      <4>6. k + 1 \in rest
        BY <3>3, <4>3
      <4> QED  BY <2>1, <3>4, <4>3, <4>5, <4>6
    <3> QED  BY <3>5, <3>6
  <2> QED  BY <2>5, <2>6
<1>8. s < Len(p) \/ s = Len(p)
  BY <1>0
<1> QED  BY <1>6, <1>7, <1>8

(* The recursion over the characters divides the path by segments.         *)
LEMMA MeetingIsDivided ==
  ASSUME NEW p, NEW q, NEW ptext, NEW qtext, NEW u, NEW v, NEW left, Meeting(p, q, ptext, qtext, u, v, left)
  PROVE  1 \in left[1] <=> Matches(p, q)
<1> DEFINE m == Len(p)
           good == {x \in 0..(m - 1) : Begins(p, q, u, v, left, m - x)}
<1>0. /\ p \in Globs /\ q \in Whereabouts /\ m \in Nat /\ m >= 1 /\ Len(q) \in Nat /\ Len(q) >= 1
      /\ Laid(ptext, p, u, m) /\ Laid(qtext, q, v, Len(q))
  BY MeetingParts
<1>1. ASSUME NEW s \in 1..m, s < m => Begins(p, q, u, v, left, s + 1)
      PROVE  Begins(p, q, u, v, left, s)
  <2>1. CASE p[s] = DoubleStar
    BY <1>1, <2>1, AtStarsOfAll
  <2>2. CASE p[s] # DoubleStar
    <3>1. Here(p, q, u, v, left, s, Len(p[s]) + 1)
      BY <1>1, BehindSegment
    <3> QED  BY <2>2, <3>1, AtSegment
  <2> QED  BY <2>1, <2>2
<1> HIDE DEF m
<1>2. 0 \in good
  <2>1. m \in 1..m /\ ~(m < m) /\ m - 0 = m /\ 0 \in 0..(m - 1)
    BY <1>0
  <2>2. Begins(p, q, u, v, left, m)
    BY <1>1, <2>1
  <2> QED  BY <2>1, <2>2
<1>3. ASSUME NEW x \in 1..(m - 1), x - 1 \in good PROVE x \in good
  <2> DEFINE s == m - x
  <2>1. s \in 1..m /\ m - (x - 1) = s + 1 /\ x \in 0..(m - 1)
    BY <1>0
  <2>2. Begins(p, q, u, v, left, s + 1)
    BY <1>3, <2>1
  <2> HIDE DEF s
  <2>3. Begins(p, q, u, v, left, s)
    BY <1>1, <2>1, <2>2
  <2> QED  BY <2>1, <2>3 DEF s
<1>4. Begins(p, q, u, v, left, 1)
  <2> HIDE DEF good
  <2>0. m - 1 \in Nat
    BY <1>0
  <2>1. \A x \in 0..(m - 1) : x \in good
    BY <1>2, <1>3, <2>0, UpTo
  <2>2. m - 1 \in good /\ m - (m - 1) = 1
    BY <1>0, <2>0, <2>1
  <2> QED  BY <2>2 DEF good
<1>5. u[1] = 1 /\ v[1] = 1 /\ 1 \in 1..Len(q)
  BY <1>0 DEF Laid
<1>6. 1 \in left[1] <=> Onwards(p, q, 1, 1)
  BY <1>4, <1>5 DEF Begins
<1> QED  BY <1>0, <1>6, PathIsDivided

(* GlobIsSegmentwise: the translation of a pattern to an expression over   *)
(* characters (paths.py) matches a path exactly when it can be divided     *)
(* segment by segment as docs/05 says, whatever their number and contents, *)
(* and also when either is written with "./" before it and "/" behind it.  *)
THEOREM GlobSegmentwise ==
  ASSUME question \in GlobQuestions
  PROVE  GlobIsSegmentwise
<1> DEFINE pattern == question.pattern
           path == question.path
<1>1. pattern \in Globs /\ path \in Whereabouts
  BY DEF GlobQuestions
<1> HIDE DEF pattern, path
<1>2. pattern \in Whereabouts
  BY <1>1, GlobParts
<1>3. ASSUME NEW rawPath \in {Joined(path), <<".", "/">> \o Joined(path) \o <<"/">>},
             NEW rawPattern \in {Joined(pattern), <<".", "/">> \o Joined(pattern) \o <<"/">>}
      PROVE  MatchesGlob(rawPath, rawPattern) <=> Matches(pattern, path)
  <2> DEFINE ptext == Joined(pattern)
             qtext == Joined(path)
  <2>1. Normalized(rawPath) = qtext /\ \E at : Laid(qtext, path, at, Len(path))
    BY <1>1, WrittenAlike
  <2>2. Normalized(rawPattern) = ptext /\ \E at : Laid(ptext, pattern, at, Len(pattern))
    BY <1>2, WrittenAlike
  <2> HIDE DEF ptext, qtext
  <2>3. PICK u : Laid(ptext, pattern, u, Len(pattern))
    BY <2>2
  <2>4. PICK v : Laid(qtext, path, v, Len(path))
    BY <2>1
  <2>5. Normalized(rawPattern) \in Seq(Letters)
    BY <2>2, <2>3 DEF Laid
  <2>6. PICK left : /\ \A i \in 1..(Len(ptext) + 1) : left[i] = From(left, ptext, qtext, i)
                    /\ MatchesGlob(rawPath, rawPattern) <=> 1 \in left[1]
    <3> DEFINE a == Normalized(rawPath)
               b == Normalized(rawPattern)
    <3>1. b \in Seq(Letters) /\ a = qtext /\ b = ptext
      BY <2>1, <2>2, <2>5
    <3>2. \E left : /\ \A i \in 1..(Len(b) + 1) : left[i] = From(left, b, a, i)
                    /\ MatchesGlob(rawPath, rawPattern) <=> 1 \in left[1]
      BY <3>1, MatchesAreSolved
    <3> HIDE DEF a, b
    <3> QED  BY <3>1, <3>2
  <2>7. Meeting(pattern, path, ptext, qtext, u, v, left)
    BY <1>1, <2>3, <2>4, <2>6 DEF Meeting
  <2> QED  BY <2>6, <2>7, MeetingIsDivided
<1> QED  BY <1>3, Zenon DEF GlobIsSegmentwise, Matches, pattern, path

=============================================================================
