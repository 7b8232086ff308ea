------------------------------ MODULE Attempts ------------------------------
(***************************************************************************)
(* What the attempt loop promises, whatever an attempt consists of: the    *)
(* attempts are numbered 1, 2, ..., at most MaxAttempts; each is judged    *)
(* once; the next one starts when the last one was judged and the task is  *)
(* not closed; nothing is judged or started after the task was closed.     *)
(* Implemented by Stages.                                                  *)
(***************************************************************************)
EXTENDS Naturals

CONSTANT MaxAttempts

VARIABLES number,   \* the attempt under way, or the last one; 0 before the first
          judged,   \* the last attempt that was judged
          closed    \* done, or waiting for a human

vars == <<number, judged, closed>>

Init == number = 0 /\ judged = 0 /\ closed = FALSE

\* The next attempt starts.
Begin ==
    /\ ~closed /\ judged = number /\ number < MaxAttempts
    /\ number' = number + 1
    /\ UNCHANGED <<judged, closed>>

\* The attempt under way is judged: the task is closed, or may try again.
Judge ==
    /\ ~closed /\ judged < number
    /\ judged' = number
    /\ closed' \in IF number < MaxAttempts THEN BOOLEAN ELSE {TRUE}
    /\ UNCHANGED number

\* The next attempt is refused before it starts: there is no budget for it.
Refuse ==
    /\ ~closed /\ judged = number /\ number < MaxAttempts
    /\ number' = number + 1 /\ judged' = number + 1 /\ closed' = TRUE

Next == Begin \/ Judge \/ Refuse

Spec == Init /\ [][Next]_vars
=============================================================================
