------------------------------ MODULE Journal ------------------------------
(***************************************************************************)
(* The journal of one run and the state projected from it: the classes     *)
(* Journal and Store of src/harness/store.py, down to the order of the     *)
(* write, the fsync, the in-memory projection and the snapshot file, and   *)
(* to what a failed write, a killed process or a power failure leaves      *)
(* behind between any two of them.                                         *)
(*                                                                         *)
(* A process of Procs is one orchestrator process with a Store open on the *)
(* run.  The threads of one process append under Store._lock, so a process *)
(* has at most one append under way; when an append raises, the other      *)
(* threads of that process go on.  docs/03 promises a single writer, and   *)
(* what is claimed of the code is claimed for one: between two processes   *)
(* RepairTail and WriteLine are coarser than the code.                     *)
(*                                                                         *)
(* A projected state is the sequence of the events folded into it: apply   *)
(* reads nothing but the state and the event, so fold(events) is the       *)
(* sequence `events` itself, and two states that differ here may only      *)
(* coincide in the program, never the other way round.                     *)
(***************************************************************************)
EXTENDS Integers, Sequences

CONSTANTS Procs,        \* the orchestrator processes that use the run
          Vals,         \* what an event can say (type, task, attempt, payload)
          NoState,      \* state.json is absent or cannot be parsed
          Environment,  \* which of the events of EnvEvents can happen
          MaxEvents,    \* bound: lines ever in the journal
          MaxFaults     \* bound: faults of the environment

EnvEvents == {"kill", "power", "write", "fsync", "save", "doctor"}

Entry == [seq : Nat, val : Vals]
States == Seq(Entry)
NoEntry == <<>>
Unread == -1            \* Journal._last_seq is None

ASSUME EnvironmentAssumption == Environment \subseteq EnvEvents
ASSUME BoundAssumption == MaxEvents \in Nat /\ MaxFaults \in Nat
ASSUME NoStateAssumption == NoState \notin States

VARIABLES
  file,       \* the complete (newline-terminated) lines of journal.jsonl
  torn,       \* journal.jsonl ends in an incomplete line
  synced,     \* how many complete lines are known to be on the disk
  snapshot,   \* what a reader of state.json gets
  versions,   \* what state.json may hold after a power failure
  pc,         \* where each process is
  lastSeq,    \* Journal._last_seq of each process
  mem,        \* Store._state of each process
  entry,      \* the event being appended by each process
  faults      \* faults so far (bounded by MaxFaults)

disk == <<file, torn, synced>>
cache == <<snapshot, versions>>
procs == <<pc, lastSeq, mem, entry>>
vars == <<disk, cache, procs, faults>>

PCs == {"down", "idle", "repair", "write", "sync", "apply", "save"}

TypeOK ==
  /\ file \in States /\ torn \in BOOLEAN /\ synced \in 0..Len(file)
  /\ snapshot \in States \cup {NoState} /\ versions \subseteq States
  /\ pc \in [Procs -> PCs]
  /\ lastSeq \in [Procs -> Nat \cup {Unread}]
  /\ mem \in [Procs -> States]
  /\ entry \in [Procs -> Entry \cup {NoEntry}]
  /\ faults \in Nat

\* Journal.read: the complete lines; an incomplete last one is a trace of a
\* process that died, and is passed over.
Read == file

LastOf(events) == IF events = <<>> THEN 0 ELSE events[Len(events)].seq

Init ==
  /\ file = <<>> /\ torn = FALSE /\ synced = 0
  /\ snapshot = NoState /\ versions = {}
  /\ pc = [p \in Procs |-> "down"]
  /\ lastSeq = [p \in Procs |-> Unread]
  /\ mem = [p \in Procs |-> <<>>]
  /\ entry = [p \in Procs |-> NoEntry]
  /\ faults = 0

-----------------------------------------------------------------------------
(* Opening a run: the snapshot is trusted exactly when it has applied the  *)
(* last event of the journal, otherwise the journal is folded.             *)

\* Mutant: any snapshot is trusted.
LoadAnySnapshot == IF snapshot # NoState THEN snapshot ELSE Read

LoadOrFold == IF snapshot # NoState /\ LastOf(snapshot) = LastOf(Read)
              THEN snapshot ELSE Read

Open(p) ==
  /\ pc[p] = "down"
  /\ pc' = [pc EXCEPT ![p] = "idle"]
  /\ mem' = [mem EXCEPT ![p] = LoadOrFold]
  /\ UNCHANGED <<disk, cache, lastSeq, entry, faults>>

-----------------------------------------------------------------------------
(* Store.append, one step per effect.                                      *)

\* The number is taken from the cache when there is one, else from the file.
NumberEvent(p, v) ==
  /\ pc[p] = "idle" /\ Len(file) < MaxEvents
  /\ lastSeq' = [lastSeq EXCEPT ![p] = IF @ = Unread THEN LastOf(Read) ELSE @]
  /\ entry' = [entry EXCEPT ![p] = [seq |-> lastSeq'[p] + 1, val |-> v]]
  /\ pc' = [pc EXCEPT ![p] = "repair"]
  /\ UNCHANGED <<disk, cache, mem, faults>>

\* Mutant: the cut takes the last complete line too.
RepairTailTooFar(p) ==
  /\ pc[p] = "repair"
  /\ torn' = FALSE
  /\ file' = SubSeq(file, 1, Len(file) - 1)
  /\ pc' = [pc EXCEPT ![p] = "write"]
  /\ UNCHANGED <<synced, cache, lastSeq, mem, entry, faults>>

\* The code reads the file, finds where its last complete line ends and
\* truncates there: one step, as nobody else writes.  (A line that another
\* process committed in between would be cut off with the tail.)
RepairTail(p) ==
  /\ pc[p] = "repair"
  /\ torn' = FALSE
  /\ pc' = [pc EXCEPT ![p] = "write"]
  /\ UNCHANGED <<file, synced, cache, lastSeq, mem, entry, faults>>

\* One write(2) of the whole line, after the last complete one.  (A tail that
\* another process has torn since RepairTail would become part of it.)
WriteLine(p) ==
  /\ pc[p] = "write" /\ Len(file) < MaxEvents
  /\ file' = Append(file, entry[p])
  /\ pc' = [pc EXCEPT ![p] = "sync"]
  /\ UNCHANGED <<torn, synced, cache, lastSeq, mem, entry, faults>>

\* Mutants: no fsync; the cached number is not advanced.
SyncNothing(p) ==
  /\ pc[p] = "sync"
  /\ lastSeq' = [lastSeq EXCEPT ![p] = entry[p].seq]
  /\ pc' = [pc EXCEPT ![p] = "apply"]
  /\ UNCHANGED <<disk, cache, mem, entry, faults>>
SyncForgetsNumber(p) ==
  /\ pc[p] = "sync"
  /\ synced' = Len(file)
  /\ pc' = [pc EXCEPT ![p] = "apply"]
  /\ UNCHANGED <<file, torn, cache, lastSeq, mem, entry, faults>>

SyncFile(p) ==
  /\ pc[p] = "sync"
  /\ synced' = Len(file)
  /\ lastSeq' = [lastSeq EXCEPT ![p] = entry[p].seq]
  /\ pc' = [pc EXCEPT ![p] = "apply"]
  /\ UNCHANGED <<file, torn, cache, mem, entry, faults>>

ApplyEvent(p) ==
  /\ pc[p] = "apply"
  /\ mem' = [mem EXCEPT ![p] = Append(@, entry[p])]
  /\ entry' = [entry EXCEPT ![p] = NoEntry]
  /\ pc' = [pc EXCEPT ![p] = "save"]
  /\ UNCHANGED <<disk, cache, lastSeq, faults>>

\* A temporary file renamed over state.json: a reader sees the old or the
\* new content, but nothing says which of them the disk holds.
SaveState(p) ==
  /\ pc[p] = "save"
  /\ snapshot' = mem[p]
  /\ versions' = versions \cup {mem[p]}
  /\ pc' = [pc EXCEPT ![p] = "idle"]
  /\ UNCHANGED <<disk, lastSeq, mem, entry, faults>>

AppendStep(p) ==
  \/ \E v \in Vals : NumberEvent(p, v)
  \/ RepairTail(p) \/ WriteLine(p) \/ SyncFile(p) \/ ApplyEvent(p) \/ SaveState(p)

-----------------------------------------------------------------------------
(* What can go wrong.                                                      *)

Fault(kind) == kind \in Environment /\ faults < MaxFaults /\ faults' = faults + 1

\* The exception leaves Store.append; the process and its caches survive.
GiveUp(p) == /\ pc' = [pc EXCEPT ![p] = "idle"]
             /\ entry' = [entry EXCEPT ![p] = NoEntry]
             /\ UNCHANGED <<lastSeq, mem>>

\* The truncation or its fsync raises.
RepairFails(p) == /\ Fault("write") /\ pc[p] = "repair" /\ torn' \in {torn, FALSE}
                  /\ GiveUp(p) /\ UNCHANGED <<file, synced, cache>>

\* The disk is full: a part of the line was written, or nothing.
WriteFails(p) == /\ Fault("write") /\ pc[p] = "write" /\ torn' \in BOOLEAN
                 /\ GiveUp(p) /\ UNCHANGED <<file, synced, cache>>

\* The line is in the file, fsync raises before _last_seq is advanced.
FsyncFails(p) == /\ Fault("fsync") /\ pc[p] = "sync"
                 /\ GiveUp(p) /\ UNCHANGED <<disk, cache>>

\* The event is committed and applied, the snapshot cannot be written.
SaveFails(p) == /\ Fault("save") /\ pc[p] = "save"
                /\ GiveUp(p) /\ UNCHANGED <<disk, cache>>

Kill(p) ==
  /\ Fault("kill") /\ pc[p] # "down"
  /\ torn' \in IF pc[p] = "write" THEN {TRUE, FALSE} ELSE {torn}
  /\ pc' = [pc EXCEPT ![p] = "down"]
  /\ lastSeq' = [lastSeq EXCEPT ![p] = Unread]
  /\ mem' = [mem EXCEPT ![p] = <<>>]
  /\ entry' = [entry EXCEPT ![p] = NoEntry]
  /\ UNCHANGED <<file, synced, cache>>

\* Every process dies.  The disk keeps the fsynced lines, any number of the
\* others and perhaps a part of the next one; of state.json, which is never
\* fsynced, it keeps some version that was written, or an unreadable file.
PowerLoss ==
  /\ Fault("power")
  /\ \E n \in synced..Len(file) :
       /\ file' = SubSeq(file, 1, n) /\ synced' = n
       /\ torn' \in IF torn \/ n < Len(file) \/ \E p \in Procs : pc[p] = "write"
                    THEN {TRUE, FALSE} ELSE {FALSE}
  /\ snapshot' \in versions \cup {NoState}
  /\ versions' = {snapshot'} \ {NoState}
  /\ pc' = [p \in Procs |-> "down"]
  /\ lastSeq' = [p \in Procs |-> Unread]
  /\ mem' = [p \in Procs |-> <<>>]
  /\ entry' = [p \in Procs |-> NoEntry]

\* `harness doctor` rewrites the snapshot when it is not the fold of the
\* journal.  It is a process of its own, takes no lock, and only reads lines.
Doctor ==
  /\ Fault("doctor")
  /\ snapshot # NoState => snapshot # Read
  /\ snapshot' = Read /\ versions' = versions \cup {Read}
  /\ UNCHANGED <<disk, procs>>

Next ==
  \/ \E p \in Procs : Open(p) \/ AppendStep(p)
  \/ \E p \in Procs : RepairFails(p) \/ WriteFails(p) \/ FsyncFails(p) \/ SaveFails(p) \/ Kill(p)
  \/ PowerLoss
  \/ Doctor

Spec == Init /\ [][Next]_vars

-----------------------------------------------------------------------------
(* Properties.                                                             *)

(* docs/03: `seq` increases from 1 and has no gaps.  What could break it   *)
(* is the cached _last_seq going out of step with the file: after a failed *)
(* write, a repair, a restart, or another process's append.                *)
SeqGapless == \A i \in 1..Len(file) : file[i].seq = i

(* docs/03: state == fold(journal).  A process that is between two appends *)
(* holds the fold of exactly the lines in the file, however it came by it: *)
(* loaded from the snapshot, folded, or built event by event.              *)
StateIsFold == \A p \in Procs : pc[p] = "idle" => mem[p] = file

(* The shortcut of _load_or_fold is sound: a snapshot whose last applied   *)
(* number is the journal's last number is the fold of the journal.         *)
SnapshotSound ==
  snapshot # NoState /\ LastOf(snapshot) = LastOf(file) => snapshot = file

AgreesUpTo(s, k) == Len(s) <= k /\ \A i \in 1..Len(s) : s[i] = file[i]

(* docs/10: the write order, journal and fsync before state, means that no *)
(* content state.json can ever show holds an event the journal can lose.   *)
SnapshotBehindJournal == \A s \in versions : AgreesUpTo(s, synced)

(* The journal is an EventLog: whatever is killed, it is numbered without  *)
(* gaps and loses nothing that was committed.                              *)
Log == INSTANCE EventLog WITH log <- file, committed <- synced
ImplementsEventLog == Log!Spec

(* docs/10: "A committed event is never lost".  Of a single writer this    *)
(* holds even where the numbering does not: no repair, restart or failed   *)
(* fsync takes away or alters a line that reached the disk.                *)
CommittedIsForever == Log!CommittedIsForever
=============================================================================
