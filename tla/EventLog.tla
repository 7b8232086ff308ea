------------------------------ MODULE EventLog ------------------------------
(***************************************************************************)
(* What the journal of a run promises to everything built on it, with no   *)
(* word on files, caches or processes: a log of numbered events that only  *)
(* grows at its end, a prefix of which is committed, and which may lose    *)
(* nothing but its uncommitted tail (docs/03 "The journal is canonical",   *)
(* docs/10 "Crash Consistency").                                           *)
(***************************************************************************)
EXTENDS Integers, Sequences

CONSTANT Vals               \* what an event can say

VARIABLES log,              \* the events, in order
          committed         \* how many of them can no longer be lost

vars == <<log, committed>>

Entry == [seq : Nat, val : Vals]

TypeOK == log \in Seq(Entry) /\ committed \in 0..Len(log)

Init == log = <<>> /\ committed = 0

Write(v) == log' = Append(log, [seq |-> Len(log) + 1, val |-> v])
            /\ UNCHANGED committed

Commit == committed' = Len(log) /\ UNCHANGED log

Lose == \E n \in committed..Len(log) :
           log' = SubSeq(log, 1, n) /\ committed' = n

Next == (\E v \in Vals : Write(v)) \/ Commit \/ Lose

Spec == Init /\ [][Next]_vars

(* The sequence numbers run from 1 without a gap and without a repetition. *)
Gapless == \A i \in 1..Len(log) : log[i].seq = i

(* A committed event is never lost and never altered. *)
CommittedIsForever ==
  [][/\ committed' >= committed
     /\ Len(log') >= committed
     /\ \A i \in 1..committed : log'[i] = log[i]]_vars
=============================================================================
