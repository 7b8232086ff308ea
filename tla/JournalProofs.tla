--------------------------- MODULE JournalProofs ---------------------------
(***************************************************************************)
(* What TLAPS proves of Journal, for every set of event contents, every    *)
(* bound and every combination of kills, power failures and failing writes *)
(* - provided one process uses the run and, but for the types and for what *)
(* is committed, fsync does not fail and `doctor` and power failures do    *)
(* not come together.  Each proviso is necessary: without it TLC finds a   *)
(* violation (README.md, "What is proved").                                *)
(***************************************************************************)
EXTENDS Journal, SequenceTheorems, TLAPS

SingleWriter == \A p, q \in Procs : p = q

USE DEF Read

BenignEnvironment == /\ "fsync" \notin Environment
                     /\ "power" \in Environment => "doctor" \notin Environment

\* How much of the file a power failure, where there can be one, leaves.
Kept == IF "power" \in Environment THEN synced ELSE Len(file)

\* What holds at each point of Store.append.
Ready(p) == mem[p] = file
Numbered(p) == /\ mem[p] = file /\ lastSeq[p] = Len(file)
               /\ entry[p] \in Entry /\ entry[p].seq = Len(file) + 1
Written(p) == entry[p] \in Entry /\ file = Append(mem[p], entry[p])

AtPC(p) ==
  /\ pc[p] = "down" => lastSeq[p] = Unread
  /\ pc[p] = "idle" => Ready(p) /\ lastSeq[p] \in {Unread, Len(file)}
  /\ pc[p] \in {"repair", "write"} => Numbered(p)
  /\ pc[p] = "sync" => Written(p)
  /\ pc[p] = "apply" => /\ Written(p) /\ lastSeq[p] = Len(file)
                        /\ synced = Len(file)
  /\ pc[p] = "save" => /\ Ready(p) /\ lastSeq[p] = Len(file)
                       /\ synced = Len(file)

Snapshots == /\ snapshot # NoState => snapshot \in versions
             /\ \A s \in versions : AgreesUpTo(s, Kept)

(* The inductive invariant.  The snapshot shortcut is sound because every  *)
(* version of state.json is a prefix of what survives, and the numbers are *)
(* the positions; the numbers stay the positions because the cached        *)
(* _last_seq, where there is one, is the length of the file.               *)
IInv == TypeOK /\ SeqGapless /\ (\A p \in Procs : AtPC(p)) /\ Snapshots

-----------------------------------------------------------------------------
(* A sequence numbered from 1 without gaps ends in its length.             *)
LEMMA LastIsLength ==
  ASSUME NEW s \in States, \A i \in 1..Len(s) : s[i].seq = i
  PROVE  LastOf(s) = Len(s)
<1>1. CASE s = <<>>
  BY <1>1 DEF LastOf
<1>2. CASE s # <<>>
  <2>1. Len(s) \in 1..Len(s)
    BY <1>2, EmptySeq, LenProperties DEF States
  <2> QED  BY <1>2, <2>1 DEF LastOf
<1> QED  BY <1>1, <1>2

(* A prefix of the file that ends in the file's last number is the file.   *)
LEMMA PrefixWithSameLast ==
  ASSUME file \in States, SeqGapless,
         NEW s \in States, AgreesUpTo(s, Len(file)), LastOf(s) = LastOf(file)
  PROVE  s = file
<1>1. \A i \in 1..Len(s) : i \in 1..Len(file) /\ s[i] = file[i]
  BY LenProperties DEF AgreesUpTo, States
<1>2. LastOf(s) = Len(s)
  BY <1>1, LastIsLength DEF SeqGapless
<1>3. LastOf(file) = Len(file)
  BY LastIsLength DEF SeqGapless
<1> QED  BY <1>1, <1>2, <1>3, SeqEqual DEF States

(* The shortcut of _load_or_fold, in every state of the invariant.         *)
LEMMA ShortcutSound == IInv => SnapshotSound
<1> SUFFICES ASSUME IInv, snapshot # NoState, LastOf(snapshot) = LastOf(file)
             PROVE  snapshot = file
  BY DEF SnapshotSound
<1>1. snapshot \in States /\ file \in States /\ synced \in 0..Len(file)
  BY DEF IInv, TypeOK
<1>2. AgreesUpTo(snapshot, Kept)
  BY DEF IInv, Snapshots
<1>3. Kept <= Len(file) /\ Kept \in Nat /\ Len(file) \in Nat /\ Len(snapshot) \in Nat
  BY <1>1, LenProperties DEF Kept, States
<1>4. AgreesUpTo(snapshot, Len(file))
  BY <1>2, <1>3 DEF AgreesUpTo
<1> QED  BY <1>1, <1>4, PrefixWithSameLast DEF IInv

-----------------------------------------------------------------------------
(* What the sequence operators of the steps do.                            *)
LEMMA AppendKeepsPrefix ==
  ASSUME NEW s \in States, NEW e \in Entry
  PROVE  /\ Append(s, e) \in States
         /\ Len(Append(s, e)) = Len(s) + 1
         /\ \A i \in 1..Len(s) : Append(s, e)[i] = s[i]
         /\ Append(s, e)[Len(s) + 1] = e
BY AppendProperties DEF States

LEMMA CutKeepsPrefix ==
  ASSUME NEW s \in States, NEW n \in 0..Len(s)
  PROVE  /\ SubSeq(s, 1, n) \in States
         /\ Len(SubSeq(s, 1, n)) = n
         /\ \A i \in 1..n : SubSeq(s, 1, n)[i] = s[i]
<1>1. 1 \in 1..Len(s)+1 /\ n \in 0..Len(s) /\ Len(s) \in Nat
  BY LenProperties DEF States
<1>2. \A i \in 1..n : s[i] \in Entry
  BY <1>1, ElementOfSeq DEF States
<1> QED  BY <1>1, <1>2, SubSeqProperties DEF States

-----------------------------------------------------------------------------
LEMMA Initially == Init => IInv
<1> SUFFICES ASSUME Init PROVE IInv
  OBVIOUS
<1> <<>> \in States /\ Len(<<>>) = 0
  BY EmptySeq DEF States
<1>1. TypeOK
  <2>1. file \in States /\ synced \in 0..Len(file) /\ faults \in Nat
    BY DEF Init
  <2>2. torn \in BOOLEAN /\ snapshot \in States \cup {NoState} /\ versions \subseteq States
    BY DEF Init
  <2>3. /\ pc \in [Procs -> PCs] /\ lastSeq \in [Procs -> Nat \cup {Unread}]
        /\ mem \in [Procs -> States] /\ entry \in [Procs -> Entry \cup {NoEntry}]
    BY DEF Init, PCs
  <2> QED  BY <2>1, <2>2, <2>3 DEF TypeOK
<1>2. SeqGapless
  BY DEF Init, SeqGapless
<1>3. \A p \in Procs : AtPC(p)
  BY DEF Init, AtPC
<1>4. Snapshots
  BY DEF Init, Snapshots
<1> QED  BY <1>1, <1>2, <1>3, <1>4 DEF IInv

(* Every step of the single writer and of its environment keeps IInv.      *)
LEMMA Inductive ==
  ASSUME SingleWriter, BenignEnvironment, IInv, [Next]_vars
  PROVE  IInv'
<1> USE DEF Unread
<1> synced \in 0..Len(file) /\ Len(file) \in Nat /\ synced \in Nat
  BY LenProperties DEF IInv, TypeOK, States
<1> TypeOK /\ SeqGapless /\ Snapshots /\ \A p \in Procs : AtPC(p)
  BY DEF IInv
<1>1. ASSUME NEW p \in Procs, Open(p) PROVE IInv'
  <2>1. LoadOrFold = file
    BY ShortcutSound DEF LoadOrFold, SnapshotSound
  <2>2. TypeOK'
    BY <1>1, <2>1 DEF Open, TypeOK, PCs, disk, cache
  <2>3. SeqGapless' /\ Snapshots'
    BY <1>1 DEF Open, SeqGapless, Snapshots, AgreesUpTo, Kept, disk, cache
  <2>4. ASSUME NEW q \in Procs PROVE AtPC(q)'
    <3> p = q /\ AtPC(p)
      BY DEF SingleWriter
    <3> QED  BY <1>1, <2>1 DEF Open, TypeOK, AtPC, Ready, disk, cache
  <2> QED  BY <2>2, <2>3, <2>4 DEF IInv
<1>2. ASSUME NEW p \in Procs, NEW v \in Vals, NumberEvent(p, v) PROVE IInv'
  <2> DEFINE n == IF lastSeq[p] = Unread THEN LastOf(file) ELSE lastSeq[p]
  <2>1. n = Len(file)
    <3>1. LastOf(file) = Len(file)
      BY LastIsLength DEF TypeOK, SeqGapless
    <3> QED  BY <1>2, <3>1 DEF NumberEvent, AtPC
  <2>2. /\ lastSeq' = [lastSeq EXCEPT ![p] = Len(file)]
        /\ entry' = [entry EXCEPT ![p] = [seq |-> Len(file) + 1, val |-> v]]
    BY <1>2, <2>1 DEF NumberEvent, TypeOK
  <2>3. TypeOK'
    BY <1>2, <2>2 DEF NumberEvent, TypeOK, PCs, Entry, disk, cache
  <2>4. SeqGapless' /\ Snapshots'
    BY <1>2 DEF NumberEvent, SeqGapless, Snapshots, AgreesUpTo, Kept, disk, cache
  <2>5. ASSUME NEW q \in Procs PROVE AtPC(q)'
    <3> p = q /\ AtPC(p)
      BY DEF SingleWriter
    <3> QED  BY <1>2, <2>2 DEF NumberEvent, TypeOK, AtPC, Ready, Numbered, Entry, disk, cache
  <2> QED  BY <2>3, <2>4, <2>5 DEF IInv
<1>3. ASSUME NEW p \in Procs, RepairTail(p) PROVE IInv'
  <2>1. TypeOK' /\ SeqGapless' /\ Snapshots'
    BY <1>3 DEF RepairTail, TypeOK, PCs, SeqGapless, Snapshots, AgreesUpTo, Kept, cache
  <2>2. ASSUME NEW q \in Procs PROVE AtPC(q)'
    <3> p = q /\ AtPC(p)
      BY DEF SingleWriter
    <3> QED  BY <1>3 DEF RepairTail, TypeOK, AtPC, Numbered, cache
  <2> QED  BY <2>1, <2>2 DEF IInv
<1>4. ASSUME NEW p \in Procs, WriteLine(p) PROVE IInv'
  <2>1. Numbered(p)
    BY <1>4 DEF WriteLine, AtPC
  <2>2. /\ file' \in States /\ Len(file') = Len(file) + 1
        /\ \A i \in 1..Len(file) : file'[i] = file[i]
        /\ file'[Len(file) + 1] = entry[p]
    BY <1>4, <2>1, AppendKeepsPrefix DEF WriteLine, Numbered, TypeOK
  <2>3. TypeOK'
    BY <1>4, <2>2 DEF WriteLine, TypeOK, PCs, cache
  <2>4. SeqGapless'
    BY <2>1, <2>2 DEF SeqGapless, Numbered
  <2>5. Snapshots'
    <3>1. Kept <= Len(file) /\ Kept <= Kept' /\ Kept \in Nat /\ Kept' \in Nat
      BY <1>4, <2>2 DEF WriteLine, Kept
    <3>2. ASSUME NEW s \in versions PROVE AgreesUpTo(s, Kept)'
      <4> Len(s) \in Nat /\ AgreesUpTo(s, Kept)
        BY LenProperties DEF Snapshots, TypeOK, States
      <4> QED  BY <2>2, <3>1 DEF AgreesUpTo
    <3> QED  BY <1>4, <3>2 DEF WriteLine, Snapshots, cache
  <2>6. ASSUME NEW q \in Procs PROVE AtPC(q)'
    <3> p = q /\ AtPC(p)
      BY DEF SingleWriter
    <3> QED  BY <1>4, <2>1 DEF WriteLine, TypeOK, AtPC, Numbered, Written, cache
  <2> QED  BY <2>3, <2>4, <2>5, <2>6 DEF IInv
<1>5. ASSUME NEW p \in Procs, SyncFile(p) PROVE IInv'
  <2>1. Written(p) /\ Len(file) = entry[p].seq
    <3>1. Written(p) /\ file[Len(mem[p]) + 1] = entry[p] /\ Len(file) = Len(mem[p]) + 1
      BY <1>5, AppendKeepsPrefix DEF SyncFile, AtPC, Written, TypeOK
    <3> QED  BY <3>1, LenProperties DEF SeqGapless, TypeOK, States
  <2>2. TypeOK'
    BY <1>5, <2>1 DEF SyncFile, TypeOK, PCs, Written, Entry, cache
  <2>3. SeqGapless'
    BY <1>5 DEF SyncFile, SeqGapless
  <2>4. Snapshots'
    <3>1. Kept <= Kept' /\ Kept \in Nat /\ Kept' \in Nat
      BY <1>5 DEF SyncFile, Kept
    <3>2. ASSUME NEW s \in versions PROVE AgreesUpTo(s, Kept)'
      <4> Len(s) \in Nat /\ AgreesUpTo(s, Kept)
        BY LenProperties DEF Snapshots, TypeOK, States
      <4> QED  BY <1>5, <3>1 DEF AgreesUpTo, SyncFile
    <3> QED  BY <1>5, <3>2 DEF SyncFile, Snapshots, cache
  <2>5. ASSUME NEW q \in Procs PROVE AtPC(q)'
    <3> p = q /\ AtPC(p)
      BY DEF SingleWriter
    <3> QED  BY <1>5, <2>1 DEF SyncFile, TypeOK, AtPC, Written, cache
  <2> QED  BY <2>2, <2>3, <2>4, <2>5 DEF IInv
<1>6. ASSUME NEW p \in Procs, ApplyEvent(p) PROVE IInv'
  <2>1. Written(p) /\ Append(mem[p], entry[p]) \in States
    BY <1>6, AppendKeepsPrefix DEF ApplyEvent, AtPC, Written, TypeOK
  <2>2. TypeOK'
    BY <1>6, <2>1 DEF ApplyEvent, TypeOK, PCs, NoEntry, disk, cache
  <2>3. SeqGapless' /\ Snapshots'
    BY <1>6 DEF ApplyEvent, SeqGapless, Snapshots, AgreesUpTo, Kept, disk, cache
  <2>4. ASSUME NEW q \in Procs PROVE AtPC(q)'
    <3> p = q /\ AtPC(p)
      BY DEF SingleWriter
    <3> QED  BY <1>6, <2>1 DEF ApplyEvent, TypeOK, AtPC, Written, Ready, disk, cache
  <2> QED  BY <2>2, <2>3, <2>4 DEF IInv
<1>7. ASSUME NEW p \in Procs, SaveState(p) PROVE IInv'
  <2>1. mem[p] = file /\ synced = Len(file) /\ lastSeq[p] = Len(file)
    BY <1>7 DEF SaveState, AtPC, Ready
  <2>2. TypeOK'
    BY <1>7, <2>1 DEF SaveState, TypeOK, PCs, disk
  <2>3. SeqGapless'
    BY <1>7 DEF SaveState, SeqGapless, disk
  <2>4. Snapshots'
    <3>1. AgreesUpTo(file, Kept)
      BY <2>1 DEF AgreesUpTo, Kept
    <3> QED  BY <1>7, <2>1, <3>1 DEF SaveState, Snapshots, AgreesUpTo, Kept, disk
  <2>5. ASSUME NEW q \in Procs PROVE AtPC(q)'
    <3> p = q /\ AtPC(p)
      BY DEF SingleWriter
    <3> QED  BY <1>7, <2>1 DEF SaveState, TypeOK, AtPC, Ready, disk
  <2> QED  BY <2>2, <2>3, <2>4, <2>5 DEF IInv
<1>8. ASSUME NEW p \in Procs, RepairFails(p) \/ WriteFails(p) PROVE IInv'
  <2>1. /\ file' = file /\ synced' = synced /\ snapshot' = snapshot /\ versions' = versions
        /\ torn' \in BOOLEAN /\ pc[p] \in {"repair", "write"}
        /\ pc' = [pc EXCEPT ![p] = "idle"] /\ entry' = [entry EXCEPT ![p] = NoEntry]
        /\ lastSeq' = lastSeq /\ mem' = mem /\ faults' \in Nat
    <3>1. torn' \in BOOLEAN
      <4>1. torn \in BOOLEAN
        BY DEF TypeOK
      <4>2. CASE RepairFails(p)
        BY <4>1, <4>2, Zenon DEF RepairFails
      <4>3. CASE WriteFails(p)
        BY <4>3, Zenon DEF WriteFails
      <4> QED  BY <1>8, <4>2, <4>3
    <3>2. faults' \in Nat
      <4>1. Fault("write")
        BY <1>8, Zenon DEF RepairFails, WriteFails
      <4> QED  BY <4>1 DEF Fault, TypeOK
    <3> QED  BY <1>8, <3>1, <3>2 DEF RepairFails, WriteFails, GiveUp, cache
  <2>2. TypeOK'
    BY <2>1 DEF TypeOK, PCs, NoEntry
  <2>3. SeqGapless' /\ Snapshots'
    BY <2>1 DEF SeqGapless, Snapshots, AgreesUpTo, Kept
  <2>4. ASSUME NEW q \in Procs PROVE AtPC(q)'
    <3> p = q /\ AtPC(p)
      BY DEF SingleWriter
    <3> QED  BY <2>1 DEF TypeOK, AtPC, Numbered, Ready
  <2> QED  BY <2>2, <2>3, <2>4 DEF IInv
<1>9. ASSUME NEW p \in Procs, SaveFails(p) PROVE IInv'
  <2>1. /\ UNCHANGED <<disk, cache, lastSeq, mem>> /\ pc[p] = "save" /\ faults' \in Nat
        /\ pc' = [pc EXCEPT ![p] = "idle"] /\ entry' = [entry EXCEPT ![p] = NoEntry]
    BY <1>9 DEF SaveFails, GiveUp, Fault, TypeOK
  <2>2. TypeOK'
    BY <2>1 DEF TypeOK, PCs, NoEntry, disk, cache
  <2>3. SeqGapless' /\ Snapshots'
    BY <2>1 DEF SeqGapless, Snapshots, AgreesUpTo, Kept, disk, cache
  <2>4. ASSUME NEW q \in Procs PROVE AtPC(q)'
    <3> p = q /\ AtPC(p)
      BY DEF SingleWriter
    <3> QED  BY <2>1 DEF TypeOK, AtPC, Ready, disk
  <2> QED  BY <2>2, <2>3, <2>4 DEF IInv
<1>10. ASSUME NEW p \in Procs, Kill(p) PROVE IInv'
  <2>1. /\ file' = file /\ synced' = synced /\ snapshot' = snapshot /\ versions' = versions
        /\ torn' \in BOOLEAN /\ faults' \in Nat
        /\ pc' = [pc EXCEPT ![p] = "down"] /\ lastSeq' = [lastSeq EXCEPT ![p] = Unread]
        /\ mem' = [mem EXCEPT ![p] = <<>>] /\ entry' = [entry EXCEPT ![p] = NoEntry]
    <3>1. torn' \in BOOLEAN
      BY <1>10, Zenon DEF Kill, TypeOK
    <3>2. faults' \in Nat
      BY <1>10 DEF Kill, Fault, TypeOK
    <3> QED  BY <1>10, <3>1, <3>2 DEF Kill, cache
  <2>2. TypeOK'
    BY <2>1, EmptySeq DEF TypeOK, PCs, NoEntry, States
  <2>3. SeqGapless' /\ Snapshots'
    BY <2>1 DEF SeqGapless, Snapshots, AgreesUpTo, Kept
  <2>4. ASSUME NEW q \in Procs PROVE AtPC(q)'
    <3> p = q /\ AtPC(p)
      BY DEF SingleWriter
    <3> QED  BY <2>1 DEF TypeOK, AtPC
  <2> QED  BY <2>2, <2>3, <2>4 DEF IInv
<1>11. ASSUME PowerLoss PROVE IInv'
  <2>1. PICK n \in synced..Len(file) : file' = SubSeq(file, 1, n) /\ synced' = n
    BY <1>11 DEF PowerLoss
  <2>2. /\ file' \in States /\ Len(file') = n /\ n \in Nat /\ synced <= n /\ n <= Len(file)
        /\ \A i \in 1..n : file'[i] = file[i]
    BY <2>1, CutKeepsPrefix DEF TypeOK
  <2>3. torn' \in BOOLEAN /\ faults' \in Nat
    <3>1. torn' \in BOOLEAN
      BY <1>11, Zenon DEF PowerLoss
    <3>2. faults' \in Nat
      BY <1>11 DEF PowerLoss, Fault, TypeOK
    <3> QED  BY <3>1, <3>2
  <2>4. /\ snapshot' \in versions \cup {NoState}
        /\ versions' = {snapshot'} \ {NoState}
        /\ pc' = [p \in Procs |-> "down"] /\ lastSeq' = [p \in Procs |-> Unread]
        /\ mem' = [p \in Procs |-> <<>>] /\ entry' = [p \in Procs |-> NoEntry]
        /\ "power" \in Environment
    BY <1>11 DEF PowerLoss, Fault
  <2>5. TypeOK'
    BY <2>1, <2>2, <2>3, <2>4, EmptySeq DEF TypeOK, PCs, NoEntry, States
  <2>6. SeqGapless'
    BY <2>2 DEF SeqGapless
  <2>7. Snapshots'
    <3>1. ASSUME NEW s \in versions PROVE AgreesUpTo(s, Kept)'
      <4>1. Len(s) \in Nat /\ AgreesUpTo(s, synced)
        BY <2>4, LenProperties DEF Snapshots, TypeOK, States, Kept
      <4>2. Kept' = n
        BY <2>1, <2>4 DEF Kept
      <4> QED  BY <2>2, <4>1, <4>2 DEF AgreesUpTo
    <3> QED  BY <2>4, <3>1, NoStateAssumption DEF Snapshots, TypeOK
  <2>8. \A p \in Procs : AtPC(p)'
    BY <2>4 DEF AtPC
  <2> QED  BY <2>5, <2>6, <2>7, <2>8 DEF IInv
<1>12. ASSUME Doctor PROVE IInv'
  <2>1. UNCHANGED <<disk, procs>> /\ snapshot' = file /\ versions' = versions \cup {file}
        /\ faults' \in Nat /\ "power" \notin Environment
    BY <1>12 DEF Doctor, Fault, TypeOK, BenignEnvironment
  <2>2. TypeOK' /\ SeqGapless'
    BY <2>1 DEF TypeOK, SeqGapless, disk, procs
  <2>3. AgreesUpTo(file, Kept)
    BY <2>1 DEF AgreesUpTo, Kept
  <2>4. Snapshots'
    BY <2>1, <2>3 DEF Snapshots, AgreesUpTo, Kept, disk
  <2>5. \A p \in Procs : AtPC(p)'
    BY <2>1 DEF AtPC, Ready, Numbered, Written, disk, procs
  <2> QED  BY <2>2, <2>4, <2>5 DEF IInv
<1>13. CASE UNCHANGED vars
  <2>1. TypeOK' /\ SeqGapless' /\ Snapshots'
    BY <1>13 DEF vars, disk, cache, procs, TypeOK, SeqGapless, Snapshots, AgreesUpTo, Kept
  <2>2. \A p \in Procs : AtPC(p)'
    BY <1>13 DEF vars, disk, cache, procs, AtPC, Ready, Numbered, Written
  <2> QED  BY <2>1, <2>2 DEF IInv
<1>14. ASSUME NEW p \in Procs PROVE ~FsyncFails(p)
  BY DEF FsyncFails, Fault, BenignEnvironment
<1> QED
  BY <1>1, <1>2, <1>3, <1>4, <1>5, <1>6, <1>7, <1>8, <1>9, <1>10, <1>11, <1>12,
     <1>13, <1>14 DEF Next, AppendStep

-----------------------------------------------------------------------------
(* In every behaviour of a single writer in a benign environment ...       *)
THEOREM Invariance ==
  ASSUME SingleWriter, BenignEnvironment
  PROVE  Spec => []IInv
<1>1. Init => IInv
  BY Initially
<1>2. IInv /\ [Next]_vars => IInv'
  BY Inductive
<1> QED  BY <1>1, <1>2, PTL DEF Spec

(* ... the events are numbered from 1 without a gap, ...                   *)
THEOREM NumberedWithoutGaps ==
  ASSUME SingleWriter, BenignEnvironment
  PROVE  Spec => []SeqGapless
<1>1. IInv => SeqGapless
  BY DEF IInv
<1> QED  BY <1>1, Invariance, PTL

(* ... a process between two appends holds the fold of the journal, ...    *)
THEOREM StateIsTheFold ==
  ASSUME SingleWriter, BenignEnvironment
  PROVE  Spec => []StateIsFold
<1>1. IInv => StateIsFold
  BY DEF IInv, AtPC, Ready, StateIsFold
<1> QED  BY <1>1, Invariance, PTL

(* ... the shortcut that trusts a snapshot by its number is sound, ...     *)
THEOREM TrustedSnapshotIsTheFold ==
  ASSUME SingleWriter, BenignEnvironment
  PROVE  Spec => []SnapshotSound
<1> QED  BY Invariance, ShortcutSound, PTL

(* ... and what the disk may show as state.json is, where there are power  *)
(* failures, the fold of events the journal cannot lose.                   *)
THEOREM SnapshotNeverAhead ==
  ASSUME SingleWriter, BenignEnvironment, "power" \in Environment
  PROVE  Spec => []SnapshotBehindJournal
<1>1. IInv => SnapshotBehindJournal
  BY DEF IInv, Snapshots, Kept, SnapshotBehindJournal
<1> QED  BY <1>1, Invariance, PTL

(* The steps that neither write, nor commit, nor lose a line.              *)
LEMMA OtherStepsKeepLog ==
  /\ \A p \in Procs :
       \/ Open(p) \/ (\E v \in Vals : NumberEvent(p, v))
       \/ RepairTail(p) \/ ApplyEvent(p) \/ SaveState(p)
       \/ RepairFails(p) \/ WriteFails(p) \/ FsyncFails(p) \/ SaveFails(p) \/ Kill(p)
       => UNCHANGED <<file, synced>>
  /\ Doctor \/ UNCHANGED vars => UNCHANGED <<file, synced>>
BY DEF Open, NumberEvent, RepairTail, ApplyEvent, SaveState, RepairFails,
   WriteFails, FsyncFails, SaveFails, Kill, Doctor, vars, disk

(* The steps of Store.append, seen from outside, write one well-numbered   *)
(* event, commit what is written, or do nothing; faults lose at most what  *)
(* was not committed.                                                      *)
LEMMA StepSimulates ==
  ASSUME SingleWriter, BenignEnvironment, IInv, [Next]_vars
  PROVE  [Log!Next]_(Log!vars)
<1> USE DEF Log!vars
<1>1. ASSUME NEW p \in Procs, WriteLine(p) PROVE Log!Next
  <2>1. Numbered(p)
    BY <1>1 DEF WriteLine, AtPC, IInv
  <2>2. /\ entry[p].val \in Vals
        /\ entry[p] = [seq |-> Len(file) + 1, val |-> entry[p].val]
    BY <2>1 DEF Numbered, Entry
  <2>3. Log!Write(entry[p].val)
    BY <1>1, <2>2 DEF WriteLine, Log!Write
  <2> QED  BY <2>2, <2>3 DEF Log!Next
<1>2. ASSUME NEW p \in Procs, SyncFile(p) PROVE Log!Next
  BY <1>2 DEF SyncFile, Log!Next, Log!Commit
<1>3. ASSUME PowerLoss PROVE Log!Next
  BY <1>3 DEF PowerLoss, Log!Next, Log!Lose
<1> QED  BY <1>1, <1>2, <1>3, OtherStepsKeepLog DEF Next, AppendStep

(* The journal implements the abstract log.                                *)
THEOREM JournalImplementsEventLog ==
  ASSUME SingleWriter, BenignEnvironment
  PROVE  Spec => ImplementsEventLog
<1>1. Init => Log!Init
  BY DEF Init, Log!Init
<1>2. IInv /\ [Next]_vars => [Log!Next]_(Log!vars)
  BY StepSimulates
<1> QED  BY <1>1, <1>2, Invariance, PTL DEF Spec, ImplementsEventLog, Log!Spec

-----------------------------------------------------------------------------
(* Whatever fails, fsync and a concurrent doctor included, the types are   *)
(* kept, and a process that is about to write has an event.                *)
TypeInv == TypeOK /\ \A p \in Procs : pc[p] \in {"repair", "write", "sync", "apply"}
                                         => entry[p] \in Entry

LEMMA TypeInductive == TypeInv /\ [Next]_vars => TypeInv'
<1> SUFFICES ASSUME TypeInv, [Next]_vars PROVE TypeInv'
  OBVIOUS
<1> USE DEF Unread, NoEntry, PCs
<1> TypeOK /\ synced \in 0..Len(file) /\ Len(file) \in Nat /\ <<>> \in States
  BY LenProperties, EmptySeq DEF TypeInv, TypeOK, States
<1>1. ASSUME NEW p \in Procs, Open(p) PROVE TypeInv'
  <2>1. LoadOrFold \in States
    BY DEF LoadOrFold, TypeOK
  <2> QED  BY <1>1, <2>1 DEF Open, TypeInv, TypeOK, disk, cache
<1>2. ASSUME NEW p \in Procs, NEW v \in Vals, NumberEvent(p, v) PROVE TypeInv'
  <2>1. LastOf(file) \in Nat
    <3>1. file # <<>> => Len(file) \in 1..Len(file)
      BY EmptySeq, LenProperties DEF TypeOK, States
    <3>2. file # <<>> => file[Len(file)] \in Entry
      BY <3>1, ElementOfSeq DEF TypeOK, States
    <3> QED  BY <3>2 DEF LastOf, Entry
  <2>2. lastSeq' \in [Procs -> Nat \cup {Unread}] /\ lastSeq'[p] \in Nat
    BY <1>2, <2>1 DEF NumberEvent, TypeOK
  <2>3. entry' = [entry EXCEPT ![p] = [seq |-> lastSeq'[p] + 1, val |-> v]]
        /\ [seq |-> lastSeq'[p] + 1, val |-> v] \in Entry
    BY <1>2, <2>2 DEF NumberEvent, Entry
  <2>4. TypeOK'
    BY <1>2, <2>2, <2>3 DEF NumberEvent, TypeOK, disk, cache
  <2> QED  BY <1>2, <2>3, <2>4 DEF NumberEvent, TypeInv, TypeOK
<1>3. ASSUME NEW p \in Procs, RepairTail(p) \/ SaveState(p) PROVE TypeInv'
  BY <1>3 DEF RepairTail, SaveState, TypeInv, TypeOK, disk, cache
<1>4. ASSUME NEW p \in Procs, WriteLine(p) PROVE TypeInv'
  <2>1. file' \in States /\ Len(file') = Len(file) + 1
    BY <1>4, AppendKeepsPrefix DEF WriteLine, TypeInv, TypeOK
  <2> QED  BY <1>4, <2>1 DEF WriteLine, TypeInv, TypeOK, cache
<1>5. ASSUME NEW p \in Procs, SyncFile(p) PROVE TypeInv'
  BY <1>5 DEF SyncFile, TypeInv, TypeOK, Entry, cache
<1>6. ASSUME NEW p \in Procs, ApplyEvent(p) PROVE TypeInv'
  <2>1. Append(mem[p], entry[p]) \in States
    BY <1>6, AppendKeepsPrefix DEF ApplyEvent, TypeInv, TypeOK
  <2> QED  BY <1>6, <2>1 DEF ApplyEvent, TypeInv, TypeOK, disk, cache
<1>7. ASSUME NEW p \in Procs,
             RepairFails(p) \/ WriteFails(p) \/ FsyncFails(p) \/ SaveFails(p)
      PROVE  TypeInv'
  <2>1. torn' \in BOOLEAN
    <3>1. torn \in BOOLEAN
      BY DEF TypeOK
    <3>2. CASE RepairFails(p)
      BY <3>1, <3>2, Zenon DEF RepairFails
    <3>3. CASE WriteFails(p)
      BY <3>3, Zenon DEF WriteFails
    <3>4. CASE FsyncFails(p) \/ SaveFails(p)
      BY <3>1, <3>4, Zenon DEF FsyncFails, SaveFails, disk
    <3> QED  BY <1>7, <3>2, <3>3, <3>4, Zenon
  <2>2. faults' \in Nat
    <3>1. \E kind \in EnvEvents : Fault(kind)
      BY <1>7, Zenon DEF RepairFails, WriteFails, FsyncFails, SaveFails, EnvEvents
    <3> QED  BY <3>1 DEF Fault, TypeOK
  <2>3. GiveUp(p) /\ UNCHANGED <<file, synced, cache>>
    BY <1>7, Zenon DEF RepairFails, WriteFails, FsyncFails, SaveFails, disk
  <2> QED  BY <2>1, <2>2, <2>3 DEF GiveUp, TypeInv, TypeOK, cache
<1>8. ASSUME NEW p \in Procs, Kill(p) PROVE TypeInv'
  <2>1. torn' \in BOOLEAN
    BY <1>8, Zenon DEF Kill, TypeOK
  <2> QED  BY <1>8, <2>1 DEF Kill, Fault, TypeInv, TypeOK, cache
<1>9. ASSUME PowerLoss PROVE TypeInv'
  <2>1. PICK n \in synced..Len(file) : file' = SubSeq(file, 1, n) /\ synced' = n
    BY <1>9 DEF PowerLoss
  <2>2. file' \in States /\ Len(file') = n /\ n \in Nat
    BY <2>1, CutKeepsPrefix DEF TypeOK
  <2>3. torn' \in BOOLEAN
    BY <1>9, Zenon DEF PowerLoss
  <2>4. snapshot' \in States \cup {NoState} /\ versions' \subseteq States
    BY <1>9 DEF PowerLoss, TypeOK
  <2>5. /\ pc' = [q \in Procs |-> "down"] /\ lastSeq' = [q \in Procs |-> Unread]
        /\ mem' = [q \in Procs |-> <<>>] /\ entry' = [q \in Procs |-> NoEntry]
        /\ faults' \in Nat
    BY <1>9 DEF PowerLoss, Fault, TypeOK
  <2> QED  BY <2>1, <2>2, <2>3, <2>4, <2>5 DEF TypeInv, TypeOK
<1>10. ASSUME Doctor PROVE TypeInv'
  BY <1>10 DEF Doctor, Fault, TypeInv, TypeOK, disk, procs
<1>11. CASE UNCHANGED vars
  BY <1>11 DEF vars, disk, cache, procs, TypeInv, TypeOK
<1> QED
  BY <1>1, <1>2, <1>3, <1>4, <1>5, <1>6, <1>7, <1>8, <1>9, <1>10, <1>11
     DEF Next, AppendStep

(* Whatever fails, the type invariant and what goes with it hold in every  *)
(* state.                                                                  *)
THEOREM TypeInvariance == Spec => []TypeInv
<1>1. Init => TypeInv
  BY Initially DEF IInv, TypeInv, Init
<1> QED  BY <1>1, TypeInductive, PTL DEF Spec

(* The state has its type in every behaviour.                              *)
THEOREM TypeCorrect == Spec => []TypeOK
<1>1. TypeInv => TypeOK
  BY DEF TypeInv
<1> QED  BY <1>1, TypeInvariance, PTL

LEMMA StepKeepsCommitted ==
  TypeInv /\ [Next]_vars =>
    [/\ synced' >= synced /\ Len(file') >= synced
     /\ \A i \in 1..synced : file'[i] = file[i]]_<<file, synced>>
<1> SUFFICES ASSUME TypeInv, [Next]_vars
             PROVE  \/ UNCHANGED <<file, synced>>
                    \/ /\ synced' >= synced /\ Len(file') >= synced
                       /\ \A i \in 1..synced : file'[i] = file[i]
  OBVIOUS
<1> /\ synced \in 0..Len(file) /\ Len(file) \in Nat /\ synced \in Nat
    /\ synced <= Len(file) /\ file \in States
  BY LenProperties DEF TypeInv, TypeOK, States
<1>1. ASSUME PowerLoss
      PROVE  /\ synced' >= synced /\ Len(file') >= synced
             /\ \A i \in 1..synced : file'[i] = file[i]
  <2>1. PICK n \in synced..Len(file) : file' = SubSeq(file, 1, n) /\ synced' = n
    BY <1>1 DEF PowerLoss
  <2> QED  BY <2>1, CutKeepsPrefix
<1>2. ASSUME NEW p \in Procs, WriteLine(p)
      PROVE  /\ synced' >= synced /\ Len(file') >= synced
             /\ \A i \in 1..synced : file'[i] = file[i]
  <2>1. entry[p] \in Entry
    BY <1>2 DEF WriteLine, TypeInv
  <2> QED  BY <1>2, <2>1, AppendKeepsPrefix DEF WriteLine
<1>3. ASSUME NEW p \in Procs, SyncFile(p)
      PROVE  /\ synced' >= synced /\ Len(file') >= synced
             /\ \A i \in 1..synced : file'[i] = file[i]
  BY <1>3 DEF SyncFile
<1> QED  BY <1>1, <1>2, <1>3, OtherStepsKeepLog DEF Next, AppendStep

(* docs/10 "A committed event is never lost": a single writer keeps every  *)
(* line that reached the disk, whatever fails - fsync, the repair of the   *)
(* tail and a concurrent doctor included, where the numbers go wrong. (It  *)
(* is the module's account of the code that needs the proviso, not the     *)
(* proof: a second writer could cut what the first has committed.)         *)
THEOREM CommittedEventsAreForever ==
  ASSUME SingleWriter
  PROVE  Spec => CommittedIsForever
<1> QED  BY TypeInvariance, StepKeepsCommitted, PTL
         DEF Spec, CommittedIsForever, Log!CommittedIsForever, Log!vars
=============================================================================
