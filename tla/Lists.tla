------------------------------- MODULE Lists --------------------------------
(***************************************************************************)
(* Python's sorted() and the list comprehension with a condition.          *)
(***************************************************************************)
EXTENDS Naturals, Sequences, FiniteSets

\* The numbers of S in ascending order.
Sorted(S) ==
    CHOOSE s \in [1..Cardinality(S) -> S] : \A i, j \in DOMAIN s : i < j => s[i] < s[j]

\* The elements of s that are in T, in their order.
Picked(s, T) ==
    LET at == Sorted({i \in DOMAIN s : s[i] \in T})
    IN [k \in DOMAIN at |-> s[at[k]]]
=============================================================================
