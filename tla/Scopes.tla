------------------------------- MODULE Scopes -------------------------------
(***************************************************************************)
(* What is decided from paths: whether a change is in bounds (exec/        *)
(* verify.py) and whether two tasks may run side by side (exec/            *)
(* scheduler.py), both on one dialect of glob patterns (paths.py).  A path *)
(* or a pattern is a sequence of characters: the dialect is the point.     *)
(***************************************************************************)
EXTENDS Naturals, Sequences, FiniteSetsExt, SequencesExt

Wildcards == {"*", "?"}

\* Leading "./" and trailing "/" are dropped.
Normalized(path) ==
    LET lead  == {i \in 0..(Len(path) \div 2) :
                     \A j \in 1..i : path[2*j - 1] = "." /\ path[2*j] = "/"}
        text  == SubSeq(path, 2 * Max(lead) + 1, Len(path))
        trail == {i \in 0..Len(text) : \A j \in (i + 1)..Len(text) : text[j] = "/"}
    IN SubSeq(text, 1, Min(trail))

At(pattern, i, token) ==
    i + Len(token) - 1 <= Len(pattern) /\ \A n \in DOMAIN token : pattern[i + n - 1] = token[n]

\* Mutant: a closing "/**" wants something beneath.
ClosingStarsStrict(pattern, i) == FALSE
\* A closing "/**": the path before it, and everything beneath.
ClosingStars(pattern, i) == At(pattern, i, <<"/", "*", "*">>) /\ i + 2 = Len(pattern)

\* left[i]: the positions of the path from which the pattern from i on matches.
MatchesGlob(rawPath, rawPattern) ==
    LET path    == Normalized(rawPath)
        pattern == Normalized(rawPattern)
        end     == Len(path) + 1
        left[i \in 1..(Len(pattern) + 1)] ==
          IF i > Len(pattern) THEN {end}
          ELSE IF At(pattern, i, <<"*", "*", "/">>) THEN
              LET rest == left[i + 3]
              IN {j \in 1..end : j \in rest \/ \E k \in j..Len(path) : path[k] = "/" /\ k + 1 \in rest}
          ELSE IF ClosingStars(pattern, i) THEN {j \in 1..end : j = end \/ path[j] = "/"}
          ELSE IF At(pattern, i, <<"*", "*">>) THEN
              LET rest == left[i + 2]
              IN {j \in 1..end : \E k \in j..end : k \in rest}
          ELSE
              LET rest == left[i + 1]
              IN IF pattern[i] = "*"
                 THEN {j \in 1..end : \E k \in j..end : k \in rest /\ \A l \in j..(k - 1) : path[l] # "/"}
                 ELSE {j \in 1..Len(path) : /\ j + 1 \in rest
                                            /\ IF pattern[i] = "?" THEN path[j] # "/" ELSE path[j] = pattern[i]}
    IN 1 \in left[1]

AnyMatch(path, patterns) == \E p \in patterns : MatchesGlob(path, p)

-----------------------------------------------------------------------------
\* check_paths: the changed paths that are out of bounds. Nothing declared
\* allows everything.
Outside(paths, allowed) == {p \in paths : allowed # {} /\ ~AnyMatch(p, allowed)}
Banned(paths, forbidden) == {p \in paths : AnyMatch(p, forbidden)}
PathViolations(paths, allowed, forbidden) == Outside(paths, allowed) \cup Banned(paths, forbidden)

\* What a pattern says before its first wildcard.
LiteralPrefix(pattern) ==
    LET wild == {i \in DOMAIN pattern : pattern[i] \in Wildcards}
    IN IF wild = {} THEN pattern ELSE SubSeq(pattern, 1, Min(wild) - 1)

\* Mutant: two patterns overlap when their prefixes are one.
PairOverlapsSame(lhs, rhs) == LiteralPrefix(lhs) = LiteralPrefix(rhs)
PairOverlaps(lhs, rhs) ==
    LET a == LiteralPrefix(lhs)
        b == LiteralPrefix(rhs)
    IN IsPrefix(a, b) \/ IsPrefix(b, a)

ScopesOverlap(lhs, rhs) == \E p \in lhs, q \in rhs : PairOverlaps(p, q)

\* A task is [profile, allowed] here, with the profile it runs under.
SharesWorktree(task) == task.profile = "safe"
Conflicts(lhs, rhs) ==
    \/ SharesWorktree(lhs) \/ SharesWorktree(rhs)
    \/ lhs.allowed = {} \/ rhs.allowed = {}
    \/ ScopesOverlap(lhs.allowed, rhs.allowed)

=============================================================================
