------------------------------ MODULE MCJournal ------------------------------
(* Journal for TLC: what an event says does not matter, only whether two   *)
(* say the same.                                                           *)
EXTENDS Journal, TLC

Symm == Permutations(Vals)
=============================================================================
