----------------------------- MODULE GraphProofs -----------------------------
(***************************************************************************)
(* What TLAPS proves of a run of the task graph in Runner: a run that ends *)
(* has left nothing that could run; and, as long as the integration branch *)
(* can be moved, every task is branched from a tree that holds all it      *)
(* depends on, and the run, however often it is killed and resumed,        *)
(* implements DagRun. At the end, what holds with one worker, and what     *)
(* holds without a resume.                                                 *)
(***************************************************************************)
EXTENDS RunnerProofs, FiniteSetTheorems

Closed(t) == proj[t].state \in Stalled \cup {"done"}
Active(t) == worker[t].pc \in Trying
NeedsMet(t) == \A d \in DependsOn[t] : Done(d)

Placed(t) ==
  /\ Active(t) => ~Closed(t) /\ NeedsMet(t)
  /\ t \in remaining => ~Closed(t) /\ At(t, "idle")
  /\ t \in verified => Done(t)
  /\ main = "new" => ~Closed(t)

(* The scheduler's sets agree with the journal, and only tasks that are    *)
(* open and have what they need are under way.                             *)
PlacedInv == TypeInv /\ \A t \in Tasks : Placed(t)

LEMMA DependencyIsTask == ASSUME NEW t \in Tasks, NEW d \in DependsOn[t] PROVE d \in Tasks
  BY GraphAssumption

(* Only Record closes a task, and nothing opens it again.                  *)
LEMMA StateStep ==
  ASSUME TypeInv, NEW t \in Tasks, Active(t) => ~Closed(t), WorkerStep(t) \/ Fails(t)
  PROVE  /\ Active(t)' => Active(t) /\ ~Closed(t)'
         /\ Closed(t) => proj' = proj
         /\ Closed(t)' /\ ~Closed(t) => Record(t)
<1>1. CASE Raise(t) \/ Close(t)
  <2>1. proj' = proj /\ worker'[t].pc \in {"raised", "returned"}
    BY <1>1, Transition DEF Raise, Close, journal
  <2> QED  BY <2>1 DEF Active, Closed, Trying, Housed
<1>2. CASE Record(t)
  <2> DEFINE next == NextState(worker[t].outcome, worker[t].attempt)
             m == worker[t].attempt + 1
  <2>1. Active(t)
    BY <1>2 DEF Record, At, Active, Trying
  <2>2. proj'[t].state = next
    BY <1>2 DEF Record, TypeInv, TypeOK
  <2>3. worker'[t].pc = "start" \/ ~Active(t)'
    BY <1>2, Transition DEF Active, Trying, Housed
  <2>4. next # "ready" => worker'[t].pc # "start"
    BY <1>2 DEF Record, Idle, TypeInv, TypeOK
  <2>5. next = "ready" => ~Closed(t)'
    BY <2>2 DEF Closed, Stalled
  <2> QED  BY <1>2, <2>1, <2>3, <2>4, <2>5
<1>3. CASE ~Raise(t) /\ ~Close(t) /\ ~Record(t)
  <2>1. Active(t)
    BY <1>3 DEF WorkerStep, Fails, StartAttempt, Reuse, Open, Dispatch, Prepare, CheckBudget, Launch,
         Agent, ImplementerFinished, RepairFinished, Exited, Verify, PassGate, RepairHandoff, Merge,
         AdvanceIntegration, CommitFails, AdvanceFails, At, Active, Trying, Housed
  <2>2. proj' = proj \/ proj'[t].state \in {"precheck", "running", "executed", "verifying", "repairing"}
    <3>1. \A s \in States : Enter(t, s) => proj'[t].state = s
      BY Entering
    <3>2. {"running", "executed", "verifying", "repairing"} \subseteq States
      BY DEF States, RESUMABLE
    <3>3. CASE Dispatch(t)
      <4>1. worker[t].attempt \in 0..MaxAttempts
        BY <2>1 DEF TypeInv, Fit, Active
      <4> QED  BY <3>3, <4>1, Dispatching DEF Dispatch
    <3>4. CASE Launch(t) \/ ImplementerFinished(t) \/ RepairFinished(t) \/ Verify(t) \/ RepairHandoff(t)
      BY <3>1, <3>2, <3>4 DEF Launch, ImplementerFinished, RepairFinished, Exited, Verify,
                              RepairHandoff
    <3>5. CASE \/ StartAttempt(t) \/ Reuse(t) \/ Open(t) \/ Prepare(t) \/ CheckBudget(t) \/ Agent(t)
               \/ PassGate(t) \/ Merge(t) \/ AdvanceIntegration(t) \/ CommitFails(t) \/ AdvanceFails(t)
      BY <3>5 DEF StartAttempt, Reuse, Open, Prepare, CheckBudget, Agent, PassGate, Merge,
                  AdvanceIntegration, CommitFails, AdvanceFails, journal
    <3> QED  BY <1>3, <3>3, <3>4, <3>5 DEF WorkerStep, Fails
  <2>3. ~Closed(t) /\ ~Closed(t)'
    BY <2>1, <2>2 DEF Closed, Stalled
  <2> QED  BY <2>1, <2>3
<1> QED  BY <1>1, <1>2, <1>3

LEMMA WorkerKeepsPlaces ==
  ASSUME PlacedInv, NEW t \in Tasks, WorkerStep(t) \/ Fails(t)
  PROVE  /\ \A u \in Tasks : Placed(u)'
         /\ main' = main /\ main \in {"select", "unwind"}
         /\ verified' = verified /\ remaining' = remaining /\ t \notin remaining
         /\ \A u \in Tasks : u # t => /\ worker'[u] = worker[u] /\ proj'[u] = proj[u]
                                      /\ work'[u] = work[u] /\ base'[u] = base[u]
         /\ \A u \in Tasks : Done(u) => Done(u)'
<1>1. TypeInv /\ Placed(t) /\ (Active(t) => ~Closed(t)) /\ Others(t)
  BY Attempting, Failing DEF PlacedInv, Placed, Fails
<1>2. /\ main' = main /\ main \in {"select", "unwind"} /\ verified' = verified /\ remaining' = remaining
      /\ \A u \in Tasks : u # t => /\ worker'[u] = worker[u] /\ proj'[u] = proj[u]
                                   /\ work'[u] = work[u] /\ base'[u] = base[u]
  BY <1>1 DEF Others, control, TypeInv, TypeOK
<1>3. \A u \in Tasks : Done(u) => Done(u)'
  <2>1. Done(t) => proj' = proj
    BY <1>1, StateStep DEF Closed, Done
  <2> QED  BY <1>2, <2>1 DEF Done
<1>4. \A u \in Tasks : NeedsMet(u) => NeedsMet(u)'
  BY <1>3, DependencyIsTask DEF NeedsMet
<1>5. t \notin remaining
  <2>1. worker[t].pc # "idle"
    BY DEF WorkerStep, Fails, StartAttempt, Reuse, Open, Dispatch, Prepare, CheckBudget, Launch, Agent,
         ImplementerFinished, RepairFinished, Exited, Verify, PassGate, RepairHandoff, Merge,
         AdvanceIntegration, Record, Close, Raise, CommitFails, AdvanceFails, At
  <2> QED  BY <1>1, <2>1 DEF Placed, At
<1>6. Placed(t)'
  BY <1>1, <1>2, <1>3, <1>4, <1>5, StateStep DEF Placed
<1>7. ASSUME NEW u \in Tasks, u # t PROVE Placed(u)'
  <2>1. Placed(u)
    BY DEF PlacedInv
  <2> QED  BY <1>2, <1>3, <1>4, <1>7, <2>1 DEF Placed, Active, Closed, At
<1> QED  BY <1>2, <1>3, <1>5, <1>6, <1>7

LEMMA MainKeepsPlaces ==
  ASSUME PlacedInv, [Next]_vars, ~\E t \in Tasks : WorkerStep(t) \/ Fails(t), NEW u \in Tasks
  PROVE  Placed(u)'
<1>1. /\ TypeInv /\ \A t \in Tasks : Placed(t)
      /\ UNCHANGED journal
      /\ \A t \in Tasks : Aside(t) \/ worker'[t] = worker[t]
  BY OtherSteps DEF PlacedInv
<1>2. /\ proj' = proj /\ Closed(u)' = Closed(u)
      /\ \A t \in Tasks : Done(t)' = Done(t)
  BY <1>1 DEF journal, Closed, Done
<1>3. NeedsMet(u)' = NeedsMet(u)
  BY <1>2, DependencyIsTask DEF NeedsMet
<1>5. CASE Start \/ Resume
  <2>1. /\ main' = "select" /\ worker' = worker /\ worker[u].pc = "idle"
    BY <1>1, <1>5 DEF Start, Resume, TypeInv, Quiet, At
  <2>2. (u \in verified' => Done(u)) /\ (u \in remaining' => ~Closed(u))
    BY <1>1, <1>5 DEF Start, Resume, ResumeVerified, ResumeRemaining, Done, Closed, Placed
  <2> QED  BY <1>2, <2>1, <2>2 DEF Placed, Active, Trying, Housed, At
<1>6. ASSUME NEW t \in Tasks, Submit(t) PROVE Placed(u)'
  <2>1. /\ main' = "select" /\ verified' = verified /\ remaining' = remaining \ {t}
        /\ t \in remaining /\ DependsOn[t] \subseteq verified
        /\ u # t => worker'[u] = worker[u]
    BY <1>1, <1>6 DEF Submit, Eligible, TypeInv, TypeOK
  <2>2. CASE u # t
    BY <1>1, <1>2, <1>3, <2>1, <2>2 DEF Placed, Active, At
  <2>3. CASE u = t
    <3>1. ~Closed(u) /\ NeedsMet(u)
      BY <1>1, <2>1, <2>3, DependencyIsTask DEF Placed, NeedsMet
    <3> QED  BY <1>1, <1>2, <1>3, <2>1, <2>3, <3>1 DEF Placed
  <2> QED  BY <2>2, <2>3
<1>7. CASE Collect \/ Unwind \/ Kill \/ Finish
  <2>1. /\ worker'[u] = worker[u] \/ worker'[u] = Idle
        /\ main' \in {"select", "unwind", "dead", "finished"}
        /\ remaining' \subseteq remaining
        /\ u \in verified' => u \in verified \/ Done(u)
    BY <1>7 DEF Collect, Unwind, Kill, Finish, Succeeded, Done, Fault
  <2>2. Idle.pc = "idle"
    BY DEF Idle
  <2> QED  BY <1>1, <1>2, <1>3, <2>1, <2>2 DEF Placed, Active, At, Trying, Housed
<1>8. CASE Purge \/ UNCHANGED vars
  <2>1. UNCHANGED <<control, worker>>
    BY <1>8 DEF Purge, vars
  <2> QED  BY <1>1, <1>2, <1>3, <2>1 DEF Placed, Active, At, control
<1> QED  BY <1>5, <1>6, <1>7, <1>8 DEF Next, MainStep, FaultStep, Fails, Over

LEMMA PlacedInductive == PlacedInv /\ [Next]_vars => PlacedInv'
  BY TypeInductive, WorkerKeepsPlaces, MainKeepsPlaces DEF PlacedInv

LEMMA PlacedInitially == Init => PlacedInv
<1> SUFFICES ASSUME Init PROVE PlacedInv
  OBVIOUS
<1>1. \A t \in Tasks : worker[t].pc = "idle" /\ proj[t].state = "pending"
  BY DEF Init, Idle
<1>2. verified = {} /\ remaining = {}
  BY DEF Init
<1> QED  BY <1>1, <1>2, InitiallyTyped
         DEF PlacedInv, Placed, Active, Closed, Stalled, Trying, Housed, At

-----------------------------------------------------------------------------
(* A run that ends has nothing left to do.                                 *)

Settled(t) ==
  /\ main = "select" /\ Done(t) => t \in verified \/ ~At(t, "idle")
  /\ main = "select" /\ t \notin remaining /\ At(t, "idle") => Closed(t)
  /\ worker[t].pc \in {"close", "returned"} => Closed(t)
  /\ proj[t].verdict_attempt = proj[t].attempt /\ ~Closed(t) => proj[t].attempt < MaxAttempts
  /\ main = "finished" => Closed(t) \/ \E d \in DependsOn[t] : ~Done(d)

(* No task gets lost between the scheduler's sets, its workers and the     *)
(* journal, and a task without a verdict has an attempt left.              *)
SettledInv == PlacedInv /\ AttemptInv /\ \A t \in Tasks : Settled(t)

LEMMA SettledStep ==
  ASSUME SettledInv, NEW t \in Tasks, WorkerStep(t) \/ Fails(t)
  PROVE  Settled(t)'
<1>1. /\ TypeInv /\ PlacedInv /\ Placed(t) /\ Settled(t) /\ Numbered(t)
      /\ (Active(t) => ~Closed(t)) /\ main' = main /\ main \in {"select", "unwind"}
      /\ verified' = verified /\ remaining' = remaining /\ Numbered(t)'
  BY WorkerKeepsPlaces, NumberedStep DEF SettledInv, PlacedInv, AttemptInv, Placed
<1>2. worker'[t].pc # "idle"
  BY <1>1, Transition DEF WorkerStep, Fails, Goes, Rejects, Repairs
<1>3. CASE Record(t)
  <2> DEFINE k == worker[t].attempt
             next == NextState(worker[t].outcome, k)
             m == k + 1
  <2>1. k \in 0..MaxAttempts /\ Conclusive(worker[t].outcome)
    BY <1>1, <1>3 DEF Record, At, TypeInv, Fit, Trying
  <2>2. next \in {"done", "ready"} \cup Stalled /\ (next = "ready" => k < MaxAttempts)
    BY <2>1, Concluded
  <2>3. proj'[t].state = next /\ proj'[t].attempt = k
    BY <1>1, <1>3 DEF Record, TypeInv, TypeOK
  <2>4. next = "ready" => worker'[t].pc = "start"
    <3>1. next = "ready" => worker' = [worker EXCEPT ![t] = [Idle EXCEPT !.pc = "start", !.attempt = m]]
      BY <1>3 DEF Record
    <3> HIDE DEF next, m
    <3>2. next = "ready" => worker'[t] = Restart("start", m)
      BY <1>1, <3>1 DEF Idle, Restart, TypeInv, TypeOK
    <3> QED  BY <3>2 DEF Restart
  <2> HIDE DEF k, next
  <2>5. next # "ready" => Closed(t)'
    BY <2>2, <2>3 DEF Closed
  <2> QED  BY <1>1, <1>2, <2>2, <2>3, <2>4, <2>5 DEF Settled, At
<1>4. CASE ~Record(t)
  <2>1. Closed(t)' <=> Closed(t)
    BY <1>1, <1>4, StateStep DEF Closed
  <2>2. worker'[t].pc \in {"close", "returned"} => Closed(t)
    <3>1. worker'[t].pc \in {"close", "returned"} => Close(t)
      BY <1>1, <1>4, Transition DEF WorkerStep, Fails, Goes, Rejects
    <3> QED  BY <1>1, <3>1 DEF Close, Settled, At
  <2>3. (proj[t].verdict_attempt = proj[t].attempt /\ ~Closed(t) => proj[t].attempt < MaxAttempts)'
    <3>1. CASE Dispatch(t)
      <4>1. worker'[t].pc \in Late
        BY <1>1, <3>1, Transition DEF Goes, Late
      <4>2. proj'[t].verdict_attempt < proj'[t].attempt
        BY <1>1, <4>1 DEF Numbered, Current
      <4>3. TypeInv'
        BY <1>1, TypeInductive DEF Next, FaultStep, Fails
      <4>4. (proj[t].attempt \in Int /\ proj[t].verdict_attempt \in Int)'
        <5>1. MaxAttempts \in Int
          BY LimitAssumption
        <5> QED  BY <4>3, <5>1 DEF TypeInv, TypeOK
      <4> QED  BY <4>2, <4>4
    <3>2. CASE Raise(t)
      <4>1. proj' = proj
        BY <3>2 DEF Raise, journal
      <4> QED  BY <1>1, <4>1 DEF Settled, Closed
    <3>3. CASE ~Dispatch(t) /\ ~Raise(t)
      <4>1. SameAttempt(t)
        BY <1>1, <1>4, <3>3, KeepsNumber DEF Fails
      <4> QED  BY <1>1, <2>1, <4>1 DEF Settled, SameAttempt
    <3> QED  BY <3>1, <3>2, <3>3
  <2> QED  BY <1>1, <1>2, <2>1, <2>2, <2>3 DEF Settled, At
<1> QED  BY <1>3, <1>4

LEMMA SettledMain ==
  ASSUME SettledInv, [Next]_vars, ~\E t \in Tasks : WorkerStep(t) \/ Fails(t), NEW u \in Tasks
  PROVE  Settled(u)'
<1>1. /\ TypeInv /\ PlacedInv /\ \A t \in Tasks : Placed(t) /\ Settled(t)
      /\ UNCHANGED journal
  BY OtherSteps DEF SettledInv, PlacedInv
<1>2. /\ proj' = proj /\ Closed(u)' = Closed(u) /\ \A t \in Tasks : Done(t)' = Done(t)
  BY <1>1 DEF journal, Closed, Done
<1>3. (\E d \in DependsOn[u] : ~Done(d))' = (\E d \in DependsOn[u] : ~Done(d))
  BY <1>2, DependencyIsTask
<1>4. Idle.pc = "idle"
  BY DEF Idle
<1>5. CASE Start \/ Resume
  <2>1. /\ main' = "select" /\ worker' = worker /\ worker[u].pc = "idle"
    BY <1>1, <1>5 DEF Start, Resume, TypeInv, Quiet, At
  <2>2. (Done(u) => u \in verified') /\ (u \notin remaining' => Closed(u))
    BY <1>1, <1>5 DEF Start, Resume, ResumeVerified, ResumeRemaining, Done, Closed, Placed
  <2> QED  BY <1>1, <1>2, <2>1, <2>2 DEF Settled, At
<1>6. ASSUME NEW t \in Tasks, Submit(t) PROVE Settled(u)'
  <2>1. /\ main' = "select" /\ main = "select" /\ verified' = verified
        /\ remaining' = remaining \ {t} /\ t \in remaining
        /\ u # t => worker'[u] = worker[u]
    BY <1>1, <1>6 DEF Submit, Eligible, TypeInv, TypeOK
  <2>2. CASE u # t
    BY <1>1, <1>2, <2>1, <2>2 DEF Settled, At
  <2>3. CASE u = t
    <3>1. ~Closed(t)
      BY <1>1, <2>1 DEF Placed
    <3>2. ResumePoint(t).attempt <= MaxAttempts
      <4> DEFINE p == proj[t]
      <4>1. /\ p.verdict_attempt = p.attempt => p.attempt < MaxAttempts
            /\ p.attempt \in 0..MaxAttempts
        BY <1>1, <3>1 DEF Settled, TypeInv, TypeOK
      <4>2. ResumePoint(t).attempt = IF p.verdict_attempt = p.attempt THEN p.attempt + 1 ELSE p.attempt
        BY DEF ResumePoint
      <4> HIDE DEF p
      <4> QED  BY <4>1, <4>2, LimitAssumption
    <3> DEFINE k == ResumePoint(t).attempt
               b == ResumePoint(t).resumed
    <3>3. worker'[t] = [Idle EXCEPT !.pc = "start", !.attempt = k, !.resumed = b]
      BY <1>1, <1>6, <3>2 DEF Submit, TypeInv, TypeOK
    <3> HIDE DEF k, b
    <3>4. worker'[t].pc = "start"
      BY <3>3 DEF Idle
    <3> QED  BY <1>1, <1>2, <2>1, <2>3, <3>4 DEF Settled, At
  <2> QED  BY <2>2, <2>3
<1>7. CASE Collect
  <2>1. /\ worker'[u] = IF u \in Ended THEN Idle ELSE worker[u]
        /\ main' \in {"select", "unwind"} /\ main = "select"
        /\ remaining' = remaining /\ verified' = verified \cup Succeeded
        /\ main' = "select" => \A t \in Ended : worker[t].pc # "raised"
    BY <1>7 DEF Collect
  <2>2. main' = "select" /\ u \in Ended => Closed(u) /\ (Done(u) => u \in Succeeded)
    BY <1>1, <2>1 DEF Ended, Succeeded, Done, Settled
  <2>3. u \in Ended => ~At(u, "idle")
    BY DEF Ended, At
  <2> QED  BY <1>1, <1>2, <1>4, <2>1, <2>2, <2>3 DEF Settled, At
<1>8. CASE Unwind \/ Kill
  <2>1. worker'[u] = Idle /\ main' = "dead"
    BY <1>8 DEF Unwind, Kill
  <2> QED  BY <1>1, <1>2, <1>4, <2>1 DEF Settled, At
<1>9. CASE Finish
  <2>1. /\ main = "select" /\ main' = "finished" /\ worker' = worker
        /\ Eligible = {} /\ Running = {}
    BY <1>9 DEF Finish
  <2>2. \A t \in Tasks : At(t, "idle")
    BY <2>1 DEF Running, At
  <2>3. CASE u \in remaining
    <3>1. Cardinality({}) = 0
      BY FS_EmptySet
    <3>2. Cardinality(Running) < MaxParallel
      BY <2>1, <3>1, LimitAssumption
    <3>3. ~(DependsOn[u] \subseteq verified)
      BY <2>1, <2>3, <3>2 DEF Eligible
    <3>4. \E d \in DependsOn[u] : ~Done(d)
      BY <1>1, <2>1, <2>2, <3>3, DependencyIsTask DEF Settled
    <3> QED  BY <1>1, <1>2, <1>3, <2>1, <3>4 DEF Settled, At
  <2>4. CASE u \notin remaining
    <3>1. Closed(u)
      BY <1>1, <2>1, <2>2, <2>4 DEF Settled
    <3> QED  BY <1>1, <1>2, <2>1, <3>1 DEF Settled, At
  <2> QED  BY <2>3, <2>4
<1>10. CASE Purge \/ UNCHANGED vars
  <2>1. UNCHANGED <<control, worker>>
    BY <1>10 DEF Purge, vars
  <2> QED  BY <1>1, <1>2, <1>3, <2>1 DEF Settled, At, control
<1> QED  BY <1>5, <1>6, <1>7, <1>8, <1>9, <1>10 DEF Next, MainStep, FaultStep, Fails, Over

LEMMA SettledInductive == SettledInv /\ [Next]_vars => SettledInv'
<1> SUFFICES ASSUME SettledInv, [Next]_vars PROVE SettledInv'
  OBVIOUS
<1>1. PlacedInv' /\ AttemptInv' /\ PlacedInv
  BY PlacedInductive, AttemptInductive DEF SettledInv
<1>2. ASSUME NEW t \in Tasks, WorkerStep(t) \/ Fails(t), NEW u \in Tasks PROVE Settled(u)'
  <2>1. CASE u # t
    <3>1. /\ main' = main /\ main \in {"select", "unwind"} /\ verified' = verified
          /\ remaining' = remaining /\ worker'[u] = worker[u] /\ proj'[u] = proj[u]
      BY <1>1, <1>2, <2>1, WorkerKeepsPlaces
    <3>2. Settled(u)
      BY DEF SettledInv
    <3> QED  BY <3>1, <3>2 DEF Settled, Closed, Done, At
  <2> QED  BY <1>2, <2>1, SettledStep
<1> QED  BY <1>1, <1>2, SettledMain DEF SettledInv

(* A run that reaches its end leaves only tasks that are done, that wait   *)
(* for a human, or that depend on one of these: the sets of the loop, the  *)
(* resume sets and the results of the futures lose no task.                *)
THEOREM NothingIsForgotten == Spec => []NothingReadyLeft
<1>1. Init => SettledInv
  <2> SUFFICES ASSUME Init PROVE SettledInv
    OBVIOUS
  <2>1. main = "new" /\ \A t \in Tasks : /\ worker[t].pc = "idle"
                         /\ proj[t].verdict_attempt = 0 /\ proj[t].attempt = 0
    BY DEF Init, Idle
  <2>2. 0 < MaxAttempts
    BY LimitAssumption
  <2> QED  BY <2>1, <2>2, PlacedInitially, AttemptInitially DEF SettledInv, Settled
<1>2. SettledInv => NothingReadyLeft
  BY DEF SettledInv, Settled, NothingReadyLeft, Closed, Done
<1> QED  BY <1>1, <1>2, SettledInductive, PTL DEF Spec

-----------------------------------------------------------------------------
(* Every worktree is branched from what its task depends on.               *)

Rooted(t) ==
  /\ At(t, "dispatch") => \A d \in DependsOn[t] : <<d, "good">> \in work[t]
  /\ base[t] # NoTree => \A d \in DependsOn[t] : <<d, "good">> \in base[t]
  /\ work[t] \subseteq Marks => \A u \in Tasks \ {t} : <<u, "good">> \in work[t] => Integrated(u)

(* A worktree is branched from all its task depends on, and holds no work  *)
(* of another task but from the integration branch.                        *)
GraphInv == EvidenceInv /\ PlacedInv /\ \A t \in Tasks : Rooted(t)

LEMMA RootedStep ==
  ASSUME GraphInv, NEW t \in Tasks, WorkerStep(t) \/ Fails(t)
  PROVE  Rooted(t)'
<1>0. /\ TypeInv /\ Rooted(t) /\ integ \subseteq integ'
      /\ \A d \in DependsOn[t] : d \in Tasks /\ (Done(d) => Integrated(d))
  BY LockStep, DependencyIsTask DEF GraphInv, EvidenceInv, LockInv, DoneMerged
<1>1. CASE Open(t)
  <2>1. /\ work'[t] = integ /\ base' = base /\ integ' = integ
        /\ \A d \in DependsOn[t] : Integrated(d)
    BY <1>0, <1>1 DEF Open, journal, TypeInv, TypeOK, GraphInv, PlacedInv, Placed, NeedsMet, Active, At, Trying
  <2> QED  BY <1>0, <2>1 DEF Rooted, Integrated
<1>2. CASE Dispatch(t)
  <2>1. base'[t] = work[t] /\ work' = work /\ integ' = integ /\ At(t, "dispatch")
    BY <1>0, <1>2 DEF Dispatch, HeadOf, TypeInv, TypeOK
  <2>2. worker'[t].pc = "prepare"
    BY <1>0, <1>2, Transition DEF Goes
  <2> QED  BY <1>0, <2>1, <2>2 DEF Rooted, Integrated, At
<1>3. CASE ~Open(t) /\ ~Dispatch(t)
  <2>1. base' = base /\ worker'[t].pc # "dispatch"
    <3>1. worker'[t].pc # "dispatch"
      BY <1>0, <1>3, Transition DEF WorkerStep, Fails, Goes, Rejects
    <3>2. base' = base
      BY <1>3 DEF WorkerStep, Fails, StartAttempt, Reuse, Prepare, CheckBudget, Launch,
         Agent, ImplementerFinished, RepairFinished, Exited, Verify, PassGate, RepairHandoff, Merge,
         AdvanceIntegration, Record, Close, Raise, CommitFails, AdvanceFails, journal
    <3> QED  BY <3>1, <3>2
  <2>2. work'[t] \subseteq Marks => \A u \in Tasks \ {t} : <<u, "good">> \in work'[t] => Integrated(u)'
    <3>1. CASE Agent(t)
      <4>1. PICK q \in Writes(t) : work'[t] = work[t] \cup Left(t, q)
        BY <1>0, <3>1 DEF Agent, TypeInv, TypeOK
      <4>2. \A u \in Tasks \ {t} : <<u, "good">> \notin Left(t, q)
        BY DEF Left
      <4> QED  BY <1>0, <4>1, <4>2 DEF Rooted, Integrated
    <3>2. CASE Merge(t)
      <4>1. work'[t] = work[t] \cup integ \/ work'[t] = work[t]
        BY <1>0, <3>2 DEF Merge, Merged, TypeInv, TypeOK
      <4> QED  BY <1>0, <4>1 DEF Rooted, Integrated
    <3>3. CASE Close(t)
      <4>1. work'[t] = NoTree
        BY <1>0, <3>3 DEF Close, TypeInv, TypeOK
      <4> QED  BY <4>1, NoTreeHasNoMarks
    <3>4. CASE ~Agent(t) /\ ~Merge(t) /\ ~Close(t)
      <4>1. work' = work
        BY <1>3, <3>4 DEF WorkerStep, Fails, StartAttempt, Reuse, Prepare, CheckBudget, Launch,
           ImplementerFinished, RepairFinished, Exited, Verify, PassGate, RepairHandoff,
           AdvanceIntegration, Record, Raise, CommitFails, AdvanceFails, disk
      <4> QED  BY <1>0, <4>1 DEF Rooted, Integrated
    <3> QED  BY <3>1, <3>2, <3>3, <3>4
  <2> QED  BY <1>0, <2>1, <2>2 DEF Rooted, At
<1> QED  BY <1>1, <1>2, <1>3

LEMMA RootedOtherwise ==
  ASSUME GraphInv, [Next]_vars, NEW u \in Tasks,
         \/ ~\E t \in Tasks : WorkerStep(t) \/ Fails(t)
         \/ \E t \in Tasks : t # u /\ (WorkerStep(t) \/ Fails(t))
  PROVE  Rooted(u)'
<1>1. /\ TypeInv /\ PlacedInv /\ Rooted(u) /\ integ \subseteq integ'
  BY LockInductive DEF GraphInv, PlacedInv, EvidenceInv
<1>2. CASE \E t \in Tasks : t # u /\ (WorkerStep(t) \/ Fails(t))
  <2>1. worker'[u] = worker[u] /\ work'[u] = work[u] /\ base'[u] = base[u]
    BY <1>1, <1>2, WorkerKeepsPlaces
  <2> QED  BY <1>1, <2>1 DEF Rooted, At, Integrated
<1>3. CASE ~\E t \in Tasks : WorkerStep(t) \/ Fails(t)
  <2>1. /\ base' = base /\ integ' = integ
        /\ Aside(u) \/ worker'[u] = worker[u]
        /\ UNCHANGED work \/ worker'[u].pc = "idle"
    BY <1>1, <1>3, OtherSteps DEF journal
  <2>2. work'[u] = work[u] \/ work'[u] = NoTree
    BY <1>3 DEF Next, MainStep, FaultStep, Fails, Over, vars, disk, Start, Resume, Submit, Collect,
           Unwind, Finish, Kill, Purge
  <2>3. At(u, "dispatch")' => At(u, "dispatch") /\ work' = work
    BY <2>1 DEF Aside, At
  <2> QED  BY <1>1, <2>1, <2>2, <2>3, NoTreeHasNoMarks DEF Rooted, Integrated
<1> QED  BY <1>2, <1>3

LEMMA GraphInductive ==
  "advance" \notin Faults => (GraphInv /\ [Next]_vars => GraphInv')
<1> SUFFICES ASSUME "advance" \notin Faults, GraphInv, [Next]_vars PROVE GraphInv'
  OBVIOUS
<1>1. EvidenceInv' /\ PlacedInv'
  BY EvidenceInductive, PlacedInductive DEF GraphInv
<1>2. \A u \in Tasks : Rooted(u)'
  BY RootedStep, RootedOtherwise
<1> QED  BY <1>1, <1>2 DEF GraphInv

LEMMA GraphInitially == Init => GraphInv
<1> SUFFICES ASSUME Init PROVE GraphInv
  OBVIOUS
<1>1. \A t \in Tasks : worker[t].pc = "idle" /\ base[t] = NoTree /\ work[t] = NoTree
  BY DEF Init, Idle
<1> QED  BY <1>1, EvidenceInitially, PlacedInitially, NoTreeHasNoMarks DEF GraphInv, Rooted, At

(* docs/05: the results of the tasks it depends on are in the worktree of  *)
(* every attempt, first or resumed.                                        *)
THEOREM DependenciesAreInTheBase == "advance" \notin Faults => (Spec => []BuiltOnDependencies)
<1> SUFFICES ASSUME "advance" \notin Faults PROVE Spec => []BuiltOnDependencies
  OBVIOUS
<1>1. GraphInv => BuiltOnDependencies
  BY DEF GraphInv, Rooted, BuiltOnDependencies
<1>2. GraphInv /\ [Next]_vars => GraphInv'
  BY GraphInductive
<1> QED  BY <1>1, <1>2, GraphInitially, PTL DEF Spec

-----------------------------------------------------------------------------
(* The run implements DagRun.                                              *)

\* The tasks of the two final kinds, and those that are merged.
DoneTasks == {t \in Tasks : Done(t)}
StalledTasks == {t \in Tasks : proj[t].state \in Stalled}
MergedTasks == {t \in Tasks : Integrated(t)}

(* A step of a worker is a step of DagRun or none: the move of the branch  *)
(* is Merge, the verdict Accept or Stall, all the rest stutters.           *)
LEMMA WorkerRefines ==
  ASSUME GraphInv, EvidenceInv', NEW t \in Tasks, WorkerStep(t) \/ Fails(t)
  PROVE  \/ Abstract!Merge(t) \/ Abstract!Accept(t) \/ Abstract!Stall(t)
         \/ UNCHANGED <<DoneTasks, StalledTasks, MergedTasks>>
<1>1. /\ TypeInv /\ Placed(t) /\ Rooted(t) /\ (Active(t) => ~Closed(t)) /\ Others(t)
      /\ integ \subseteq integ'
  BY LockStep, Attempting, Failing
     DEF GraphInv, PlacedInv, EvidenceInv, LockInv, Placed, Fails
<1>2. \A u \in Tasks : u # t => proj'[u] = proj[u]
  BY <1>1 DEF Others, TypeInv, TypeOK
<1>3. CASE AdvanceIntegration(t)
  <2>1. /\ integ' = work[t] /\ proj' = proj /\ At(t, "advance") /\ work[t] \subseteq Marks
    BY <1>1, <1>3 DEF AdvanceIntegration, journal, TypeInv, Fit, At, Housed
  <2>2. <<t, "good">> \in work[t]
    BY <2>1 DEF GraphInv, EvidenceInv, Proven, Judged, Passes, At
  <2>3. \A u \in Tasks : Integrated(u)' <=> Integrated(u) \/ u = t
    BY <1>1, <2>1, <2>2 DEF Rooted, Integrated
  <2>4. DoneTasks' = DoneTasks /\ StalledTasks' = StalledTasks
        /\ MergedTasks' = MergedTasks \cup {t}
    BY <2>1, <2>3 DEF DoneTasks, StalledTasks, MergedTasks, Done
  <2>5. ~Closed(t) /\ NeedsMet(t)
    BY <1>1, <2>1 DEF Placed, Active, At, Trying, Housed
  <2>6. t \notin DoneTasks \cup StalledTasks /\ DependsOn[t] \subseteq DoneTasks
    BY <2>5, DependencyIsTask DEF Closed, NeedsMet, DoneTasks, StalledTasks, Done
  <2> QED  BY <2>4, <2>6 DEF Abstract!Merge, Abstract!Open, DoneTasks, StalledTasks, MergedTasks
<1>4. CASE ~AdvanceIntegration(t) /\ ~Closed(t)' /\ ~Closed(t)
  <2>1. integ' = integ
    BY <1>4 DEF WorkerStep, Fails, StartAttempt, Reuse, Open, Dispatch, Prepare, CheckBudget, Launch,
         Agent, ImplementerFinished, RepairFinished, Exited, Verify, PassGate, RepairHandoff, Merge,
         Record, Close, Raise, CommitFails, AdvanceFails, disk
  <2>2. \A u \in Tasks : Done(u)' = Done(u) /\ (proj'[u].state \in Stalled <=> proj[u].state \in Stalled)
    BY <1>2, <1>4 DEF Closed, Done
  <2> QED  BY <2>1, <2>2 DEF DoneTasks, StalledTasks, MergedTasks, Integrated
<1>5. CASE ~AdvanceIntegration(t) /\ Closed(t)
  <2>1. integ' = integ
    BY <1>5 DEF WorkerStep, Fails, StartAttempt, Reuse, Open, Dispatch, Prepare, CheckBudget, Launch,
         Agent, ImplementerFinished, RepairFinished, Exited, Verify, PassGate, RepairHandoff, Merge,
         Record, Close, Raise, CommitFails, AdvanceFails, disk
  <2>2. proj' = proj
    BY <1>1, <1>5, StateStep
  <2> QED  BY <2>1, <2>2 DEF DoneTasks, StalledTasks, MergedTasks, Integrated, Done
<1>6. CASE ~AdvanceIntegration(t) /\ Closed(t)' /\ ~Closed(t)
  <2>1. Record(t)
    BY <1>1, <1>6, StateStep
  <2>2. integ' = integ /\ Active(t)
    BY <2>1 DEF Record, disk, Active, At, Trying
  <2>3. t \notin DoneTasks \cup StalledTasks /\ DependsOn[t] \subseteq DoneTasks
    BY <1>1, <1>6, <2>2, DependencyIsTask
       DEF Placed, Closed, NeedsMet, DoneTasks, StalledTasks, Done
  <2>4. MergedTasks' = MergedTasks
    BY <2>2 DEF MergedTasks, Integrated
  <2>5. CASE proj'[t].state = "done"
    <3>1. t \in MergedTasks
      BY <2>2, <2>5 DEF GraphInv, EvidenceInv, DoneMerged, Done, Integrated, MergedTasks
    <3>2. DoneTasks' = DoneTasks \cup {t} /\ StalledTasks' = StalledTasks
      BY <1>2, <2>3, <2>5 DEF DoneTasks, StalledTasks, Done, Stalled
    <3> QED  BY <2>3, <2>4, <3>1, <3>2
             DEF Abstract!Accept, Abstract!Open, DoneTasks, StalledTasks, MergedTasks
  <2>6. CASE proj'[t].state \in Stalled
    <3>1. StalledTasks' = StalledTasks \cup {t} /\ DoneTasks' = DoneTasks
      BY <1>2, <2>3, <2>6 DEF DoneTasks, StalledTasks, Done, Stalled
    <3> QED  BY <2>3, <2>4, <3>1
             DEF Abstract!Stall, Abstract!Open, DoneTasks, StalledTasks, MergedTasks
  <2> QED  BY <1>6, <2>5, <2>6 DEF Closed
<1> QED  BY <1>3, <1>4, <1>5, <1>6

LEMMA Refines ==
  "advance" \notin Faults =>
    (GraphInv /\ [Next]_vars => [Abstract!Next]_(Abstract!vars))
<1> SUFFICES ASSUME "advance" \notin Faults, GraphInv, [Next]_vars
             PROVE  [Abstract!Next]_(Abstract!vars)
  OBVIOUS
<1>1. EvidenceInv'
  BY EvidenceInductive DEF GraphInv
<1>2. CASE \E t \in Tasks : WorkerStep(t) \/ Fails(t)
  BY <1>1, <1>2, WorkerRefines
     DEF Abstract!Next, Abstract!vars, DoneTasks, StalledTasks, MergedTasks
<1>3. CASE ~\E t \in Tasks : WorkerStep(t) \/ Fails(t)
  <2>1. proj' = proj /\ integ' = integ
    BY <1>3, OtherSteps DEF GraphInv, EvidenceInv, LockInv, journal
  <2> QED  BY <2>1 DEF Abstract!vars, Done, Integrated
<1> QED  BY <1>2, <1>3

LEMMA InitiallyRefines == Init => Abstract!Init
  BY DEF Init, Abstract!Init, Done, Integrated, Stalled

(* A run of the graph, with its worktrees, attempts, crashes and resumes,  *)
(* is a DagRun: tasks are merged one at a time on top of what they depend  *)
(* on, accepted only when merged, and nothing is ever taken back.          *)
THEOREM RunIsADagRun == "advance" \notin Faults => (Spec => ImplementsDagRun)
<1> SUFFICES ASSUME "advance" \notin Faults PROVE Spec => ImplementsDagRun
  OBVIOUS
<1>1. GraphInv /\ [Next]_vars => GraphInv'
  BY GraphInductive
<1>2. GraphInv /\ [Next]_vars => [Abstract!Next]_(Abstract!vars)
  BY Refines
<1> QED  BY <1>1, <1>2, GraphInitially, InitiallyRefines, PTL
         DEF Spec, ImplementsDagRun, Abstract!Spec
-----------------------------------------------------------------------------
(* Where Runner is less than its constants allow: with one worker the      *)
(* budget is hard, and where every call leaves the handoff it owes, none   *)
(* that passes the gate is an earlier call's. Without these limits TLC     *)
(* finds violations of both.                                               *)

OneWorker      == MaxParallel = 1
AgentsHandOver == "no_handoff" \notin AgentMay

USE DEF At

LEMMA Underway ==
  ASSUME NEW t \in Tasks, WorkerStep(t) \/ Fails(t)
  PROVE  worker[t].pc # "idle"
  BY DEF WorkerStep, Fails, StartAttempt, Reuse, Open, Dispatch, Prepare, CheckBudget, Launch, Agent,
         ImplementerFinished, RepairFinished, Exited, Verify, PassGate, RepairHandoff, Merge,
         AdvanceIntegration, Record, Close, Raise, CommitFails, AdvanceFails

(* The steps that are no worker's, and not a start of one, only put        *)
(* workers aside.                                                          *)
LEMMA PutAside ==
  ASSUME TypeInv, [Next]_vars, ~\E t \in Tasks : WorkerStep(t) \/ Fails(t) \/ Submit(t), NEW u \in Tasks
  PROVE  worker'[u] = worker[u] \/ worker'[u] = Idle
  BY DEF Next, MainStep, FaultStep, Fails, Over, vars, env, control, journal, disk, Start,
         Resume, Collect, Unwind, Finish, Kill, Purge, TypeInv, TypeOK

-----------------------------------------------------------------------------
(* One worker at a time.                                                   *)

Alone == \A t, u \in Tasks : ~At(t, "idle") /\ ~At(u, "idle") => t = u
Counted == /\ BudgetIsHard
           /\ MaxCalls # NoBudget => \A t \in Tasks : At(t, "launch") => calls < MaxCalls

(* Between the look at the budget and the call nobody else calls.          *)
BudgetInv == TypeInv /\ Alone /\ Counted

LEMMA StartsAlone ==
  ASSUME OneWorker, NEW t \in Tasks, Submit(t)
  PROVE  \A u \in Tasks : At(u, "idle")
<1>1. Cardinality(Running) < 1
  BY DEF OneWorker, Submit, Eligible
<1>2. Running \subseteq Tasks
  BY DEF Running
<1>3. IsFiniteSet(Running)
  BY <1>2, GraphAssumption, FS_Subset
<1>4. Cardinality(Running) \in Nat
  BY <1>3, FS_CardinalityType
<1>5. Running = {}
  BY <1>1, <1>3, <1>4, FS_EmptySet
<1> QED  BY <1>5 DEF Running

LEMMA BudgetStep ==
  ASSUME BudgetInv, NEW t \in Tasks, WorkerStep(t) \/ Fails(t)
  PROVE  Alone' /\ Counted'
<1>1. /\ TypeInv /\ Others(t) /\ worker[t].pc # "idle" /\ calls \in Nat
  BY Attempting, Failing, Underway DEF BudgetInv, Fails, TypeInv, TypeOK
<1>2. \A u \in Tasks : u # t => worker'[u] = worker[u] /\ worker[u].pc = "idle"
  BY <1>1 DEF Others, BudgetInv, Alone, TypeInv, TypeOK
<1>3. Alone'
  BY <1>2 DEF Alone
<1>4. MaxCalls # NoBudget => MaxCalls \in Nat
  BY LimitAssumption
<1>5. CASE Launch(t)
  <2>1. worker'[t].pc = "agent" /\ (MaxCalls # NoBudget => calls' = calls + 1 /\ calls < MaxCalls)
    BY <1>1, <1>5, Transition DEF Goes, Launch, BudgetInv, Counted
  <2>2. BudgetIsHard'
    BY <1>1, <1>4, <2>1 DEF BudgetIsHard
  <2>3. \A u \in Tasks : worker'[u].pc # "launch"
    BY <1>2, <2>1
  <2> QED  BY <1>3, <2>2, <2>3 DEF Counted
<1>6. CASE ~Launch(t)
  <2>1. calls' = calls
    BY <1>6 DEF WorkerStep, Fails, StartAttempt, Reuse, Open, Dispatch, Prepare, CheckBudget, Agent,
         ImplementerFinished, RepairFinished, Exited, Verify, PassGate, RepairHandoff, Merge,
         AdvanceIntegration, Record, Close, Raise, CommitFails, AdvanceFails, journal
  <2>2. worker'[t].pc = "launch" => CheckBudget(t)
    BY <1>1, <1>6, Transition DEF WorkerStep, Fails, Goes, Rejects
  <2>3. worker'[t].pc = "launch" /\ MaxCalls # NoBudget => calls < MaxCalls
    <3> SUFFICES ASSUME worker'[t].pc = "launch", MaxCalls # NoBudget PROVE calls < MaxCalls
      OBVIOUS
    <3>1. ~Conclude(t, "budget_exhausted", "null")
      BY <1>1, Judging DEF Moves, Verdicts
    <3>2. ~OverBudget
      BY <2>2, <3>1 DEF CheckBudget
    <3> QED  BY <1>1, <1>4, <3>2 DEF OverBudget
  <2> QED  BY <1>2, <1>3, <2>1, <2>3 DEF BudgetInv, Counted, BudgetIsHard
<1> QED  BY <1>3, <1>5, <1>6

LEMMA BudgetInductive ==
  ASSUME OneWorker, BudgetInv, [Next]_vars PROVE BudgetInv'
<1>1. TypeInv /\ TypeInv'
  BY TypeInductive DEF BudgetInv
<1>2. CASE \E t \in Tasks : WorkerStep(t) \/ Fails(t)
  BY <1>1, <1>2, BudgetStep DEF BudgetInv
<1>3. CASE ~\E t \in Tasks : WorkerStep(t) \/ Fails(t)
  <2>1. calls' = calls /\ \A u \in Tasks : Aside(u) \/ worker'[u] = worker[u]
    BY <1>1, <1>3, OtherSteps DEF journal
  <2>2. Counted'
    BY <2>1 DEF BudgetInv, Counted, BudgetIsHard, Aside
  <2>3. CASE \E t \in Tasks : Submit(t)
    <3>1. PICK t \in Tasks : Submit(t)
      BY <2>3
    <3>2. \A u \in Tasks \ {t} : At(u, "idle")'
      BY <1>1, <3>1, StartsAlone DEF Submit, TypeInv, TypeOK
    <3> QED  BY <1>1, <2>2, <3>2 DEF BudgetInv, Alone
  <2>4. CASE ~\E t \in Tasks : Submit(t)
    <3>1. \A u \in Tasks : worker'[u] = worker[u] \/ worker'[u].pc = "idle"
      BY <1>1, <1>3, <2>4, PutAside DEF Idle
    <3> QED  BY <1>1, <2>2, <3>1 DEF BudgetInv, Alone
  <2> QED  BY <2>3, <2>4
<1> QED  BY <1>2, <1>3

(* docs/06: the cap on the agent calls is hard. A sequential run keeps it, *)
(* whatever is killed and resumed: it looks at the budget right before the *)
(* call.                                                                   *)
THEOREM BudgetKept == ASSUME OneWorker PROVE Spec => []BudgetIsHard
<1>1. Init => BudgetInv
  <2> SUFFICES ASSUME Init PROVE BudgetInv
    OBVIOUS
  <2>1. \A t \in Tasks : worker[t].pc = "idle"
    BY DEF Init, Idle
  <2>2. calls = 0 /\ (MaxCalls # NoBudget => MaxCalls \in Nat)
    BY LimitAssumption DEF Init
  <2> QED  BY <2>1, <2>2, InitiallyTyped DEF BudgetInv, Alone, Counted, BudgetIsHard
<1>2. BudgetInv => BudgetIsHard
  BY DEF BudgetInv, Counted
<1>3. BudgetInv /\ [Next]_vars => BudgetInv'
  BY BudgetInductive
<1> QED  BY <1>1, <1>2, <1>3, PTL DEF Spec

-----------------------------------------------------------------------------
(* Until the run is first resumed, every attempt starts from scratch.      *)

Unresumed(t) ==
  /\ t \in remaining \/ main = "new" => proj[t].verdict_attempt = proj[t].attempt
  /\ worker[t].pc \in {"start", "open", "dispatch"} => Following(t)

UnresumedInv == PlacedInv /\ AttemptInv /\ \A t \in Tasks : Unresumed(t)

LEMMA Unfinished ==
  ASSUME AttemptInv, NEW t \in Tasks
  PROVE  /\ proj[t].attempt \in Int /\ proj[t].verdict_attempt \in Int
         /\ proj[t].verdict_attempt = proj[t].attempt => ~Current(t)
         /\ worker[t].pc \in Early /\ ~Current(t) => Following(t)
         /\ Following(t) => ~Current(t)
<1>1. TypeInv /\ Numbered(t)
  BY DEF AttemptInv
<1>2. proj[t].attempt \in Int /\ proj[t].verdict_attempt \in Int
  BY <1>1, Numbers
<1> QED  BY <1>1, <1>2 DEF Numbered, Current, Following

LEMMA NeverReused ==
  ASSUME UnresumedInv, NEW t \in Tasks
  PROVE  ~Reuse(t)
<1> SUFFICES ASSUME Reuse(t) PROVE FALSE
  OBVIOUS
<1>1. Current(t) /\ Following(t)
  BY DEF Reuse, UnresumedInv, Unresumed, AttemptInv, Numbered
<1> QED  BY <1>1, Unfinished DEF UnresumedInv

LEMMA UnresumedStep ==
  ASSUME UnresumedInv, AttemptInv', NEW t \in Tasks, WorkerStep(t) \/ Fails(t)
  PROVE  Unresumed(t)'
<1>1. /\ TypeInv /\ Numbered(t) /\ Unresumed(t) /\ Numbered(t)'
      /\ t \notin remaining' /\ main' # "new"
  BY WorkerKeepsPlaces DEF UnresumedInv, AttemptInv
<1>2. (worker[t].pc \in Early /\ ~Current(t) => Following(t))'
  <2>1. (Numbered(t))'
    BY <1>1
  <2> QED  BY <2>1 DEF Numbered
<1>3. CASE StartAttempt(t) \/ Open(t)
  <2>1. Keeps(t) /\ SameAttempt(t)
    BY <1>1, <1>3, KeepsNumber DEF WorkerStep, StartAttempt, Open, Dispatch, Record
  <2>2. Following(t)
    BY <1>1, <1>3 DEF StartAttempt, Open, Unresumed
  <2>3. Following(t)'
    BY <2>1, <2>2 DEF Keeps, SameAttempt, Following
  <2> QED  BY <1>1, <2>3 DEF Unresumed
<1>4. CASE Record(t)
  <2> DEFINE k == worker[t].attempt
             next == NextState(worker[t].outcome, k)
             verdict == worker[t].outcome.verdict
             r == [state |-> next, attempt |-> k, verdict |-> verdict, verdict_attempt |-> k]
  <2>1. proj'[t] = r
    BY <1>1, <1>4 DEF Record, TypeInv, TypeOK
  <2>2. proj'[t].attempt = proj'[t].verdict_attempt
    <3> HIDE DEF k, next, verdict
    <3> QED  BY <2>1
  <2>3. (proj[t].attempt \in Int)'
    <3>1. TypeInv' /\ MaxAttempts \in Int
      BY LimitAssumption DEF AttemptInv
    <3> QED  BY <3>1 DEF TypeInv, TypeOK
  <2>4. ~Current(t)'
    BY <2>2, <2>3 DEF Current
  <2> QED  BY <1>1, <1>2, <2>4 DEF Unresumed, Early
<1>5. CASE ~StartAttempt(t) /\ ~Open(t) /\ ~Record(t)
  <2>1. worker'[t].pc \notin {"start", "open", "dispatch"}
    BY <1>1, <1>5, Transition DEF WorkerStep, Fails, Goes, Rejects
  <2> QED  BY <1>1, <2>1 DEF Unresumed
<1> QED  BY <1>3, <1>4, <1>5

LEMMA UnresumedInductive ==
  ASSUME resumes' = 0, UnresumedInv, [Next]_vars PROVE UnresumedInv'
<1>1. /\ TypeInv /\ PlacedInv' /\ AttemptInv'
      /\ \A u \in Tasks : Unresumed(u)
  BY PlacedInductive, AttemptInductive DEF UnresumedInv, PlacedInv
<1>2. ASSUME NEW t \in Tasks, WorkerStep(t) \/ Fails(t), NEW u \in Tasks
      PROVE  Unresumed(u)'
  <2>1. /\ main' = main /\ remaining' = remaining
        /\ u # t => worker'[u] = worker[u] /\ proj'[u] = proj[u]
    BY <1>2, WorkerKeepsPlaces DEF UnresumedInv
  <2>2. CASE u # t
    BY <1>1, <2>1, <2>2 DEF Unresumed, Following
  <2> QED  BY <1>1, <1>2, <2>2, UnresumedStep
<1>3. ASSUME NEW t \in Tasks, Submit(t), NEW u \in Tasks
      PROVE  Unresumed(u)'
  <2>1. /\ main' = "select" /\ remaining' = remaining \ {t} /\ t \in remaining /\ proj' = proj
        /\ u # t => worker'[u] = worker[u]
    BY <1>1, <1>3 DEF Submit, Eligible, journal, TypeInv, TypeOK
  <2>2. CASE u # t
    BY <1>1, <2>1, <2>2 DEF Unresumed, Following
  <2>3. CASE u = t
    <3>1. /\ proj[t].attempt \in Int /\ proj[t].verdict_attempt = proj[t].attempt
      BY <1>1, <2>1, Unfinished DEF Unresumed, UnresumedInv
    <3>2. ~Current(t)'
      BY <2>1, <3>1 DEF Current
    <3>3. Numbered(t)'
      BY <1>1 DEF AttemptInv
    <3> QED  BY <2>1, <2>3, <3>2, <3>3 DEF Unresumed, Numbered, Early
  <2> QED  BY <2>2, <2>3
<1>4. ASSUME ~\E t \in Tasks : WorkerStep(t) \/ Fails(t) \/ Submit(t), NEW u \in Tasks
      PROVE  Unresumed(u)'
  <2>1. proj' = proj
    BY <1>1, <1>4, OtherSteps DEF journal
  <2>2. worker'[u] = worker[u] \/ worker'[u].pc = "idle"
    BY <1>1, <1>4, PutAside DEF Idle
  <2>3. ~Resume
    BY <1>1, LimitAssumption DEF Resume, TypeInv, TypeOK
  <2>4. \/ main' # "new" /\ remaining' \subseteq remaining
        \/ main' = main /\ remaining' = remaining
        \/ main = "new"
    BY <1>4, <2>3 DEF Next, MainStep, FaultStep, Fails, Over, vars, control, Start, Collect, Unwind,
                      Finish, Kill, Purge
  <2> QED  BY <1>1, <2>1, <2>2, <2>4 DEF Unresumed, Following
<1> QED  BY <1>1, <1>2, <1>3, <1>4 DEF UnresumedInv

LEMMA UnresumedInitially == Init => UnresumedInv
<1> SUFFICES ASSUME Init PROVE UnresumedInv
  OBVIOUS
<1>1. \A t \in Tasks : worker[t].pc = "idle" /\ proj[t].verdict_attempt = proj[t].attempt
  BY DEF Init, Idle
<1> QED  BY <1>1, PlacedInitially, AttemptInitially DEF UnresumedInv, Unresumed

-----------------------------------------------------------------------------
(* Overlapping tasks one after the other.                                  *)

\* Whoever is under way overlaps nobody else who is; what a worktree has of
\* others is merged; what is merged and it has not seen does not overlap it.
Apart == \A t, u \in Tasks : t # u /\ ~At(t, "idle") /\ ~At(u, "idle") => <<t, u>> \notin Overlap
Borrowed(t) == worker[t].pc \in Housed => \A m \in work[t] : m[1] # t => m \in integ
CaughtUp(t) == worker[t].pc \in Housed => ~MayConflict(t)

SerialInv == UnresumedInv /\ LockInv /\ Apart /\ \A t \in Tasks : Borrowed(t) /\ CaughtUp(t)

LEMMA ApartStep ==
  ASSUME TypeInv, Apart, [Next]_vars
  PROVE  Apart'
<1>1. ASSUME NEW t \in Tasks, WorkerStep(t) \/ Fails(t)
      PROVE  \A u \in Tasks : worker'[u] = worker[u] \/ ~At(u, "idle")
  <2>1. Others(t) /\ ~At(t, "idle")
    BY <1>1, Attempting, Failing, Underway DEF Fails
  <2> QED  BY <2>1 DEF Others, TypeInv, TypeOK
<1>2. ASSUME NEW t \in Tasks, Submit(t)
      PROVE  Apart'
  <2>1. \A u \in Tasks : u # t => worker'[u] = worker[u]
    BY <1>2 DEF Submit, TypeInv, TypeOK
  <2>2. \A u \in Tasks : ~At(u, "idle") => <<t, u>> \notin Overlap /\ <<u, t>> \notin Overlap
    BY <1>2, GraphAssumption DEF Submit, Eligible, Running
  <2> QED  BY <2>1, <2>2 DEF Apart
<1>3. ASSUME ~\E t \in Tasks : WorkerStep(t) \/ Fails(t) \/ Submit(t), NEW u \in Tasks
      PROVE  worker'[u] = worker[u] \/ worker'[u].pc = "idle"
  BY <1>3, PutAside DEF Idle
<1>4. CASE \E t \in Tasks : Submit(t)
  BY <1>2, <1>4
<1>5. CASE ~\E t \in Tasks : Submit(t)
  <2>1. \A u \in Tasks : worker'[u].pc # "idle" => ~At(u, "idle")
    BY <1>1, <1>3, <1>5
  <2> QED  BY <2>1 DEF Apart
<1> QED  BY <1>4, <1>5

LEMMA SerialStep ==
  ASSUME SerialInv, integ \subseteq integ', NEW t \in Tasks, WorkerStep(t) \/ Fails(t), NEW u \in Tasks
  PROVE  Borrowed(u)' /\ CaughtUp(u)'
<1>1. /\ TypeInv /\ Others(t) /\ ~At(t, "idle") /\ Borrowed(t) /\ CaughtUp(t)
      /\ Borrowed(u) /\ CaughtUp(u)
  BY Attempting, Failing, Underway DEF SerialInv, LockInv, Fails
<1>2. u # t => worker'[u] = worker[u] /\ work'[u] = work[u]
  BY <1>1 DEF Others, TypeInv, TypeOK
<1>3. CASE AdvanceIntegration(t)
  <2>1. integ' = work[t] /\ work' = work /\ worker'[t].pc \notin Housed /\ worker[t].pc \in Housed
    BY <1>1, <1>3, Transition DEF AdvanceIntegration, Housed
  <2>2. CASE u = t
    BY <2>1, <2>2 DEF Borrowed, CaughtUp
  <2>3. CASE u # t /\ worker[u].pc \in Housed
    <3>1. <<u, t>> \notin Overlap
      BY <1>1, <2>3 DEF SerialInv, Apart, Housed
    <3>2. Borrowed(u)'
      BY <1>1, <1>2, <2>1, <2>3 DEF Borrowed
    <3>3. ASSUME NEW m \in work[t] \ work[u] PROVE <<u, m[1]>> \notin Overlap
      <4>1. m[1] # t => m \in integ
        BY <1>1, <2>1 DEF Borrowed
      <4> QED  BY <1>1, <2>3, <3>1, <3>3, <4>1 DEF CaughtUp, MayConflict
    <3> QED  BY <1>2, <2>1, <2>3, <3>2, <3>3 DEF CaughtUp, MayConflict
  <2>4. CASE u # t /\ worker[u].pc \notin Housed
    BY <1>2, <2>4 DEF Borrowed, CaughtUp
  <2> QED  BY <2>2, <2>3, <2>4
<1>4. CASE ~AdvanceIntegration(t)
  <2>1. integ' = integ
    BY <1>4 DEF WorkerStep, Fails, StartAttempt, Reuse, Open, Dispatch, Prepare, CheckBudget,
                Launch, Agent, ImplementerFinished, RepairFinished, Exited, Verify, PassGate,
                RepairHandoff, Merge, Record, Close, Raise, CommitFails, AdvanceFails, disk
  <2>2. CASE u # t
    BY <1>1, <1>2, <2>1, <2>2 DEF Borrowed, CaughtUp, MayConflict
  <2>3. CASE Open(t)
    <3>1. work'[t] = integ
      BY <1>1, <2>3 DEF Open, TypeInv, TypeOK
    <3> QED  BY <2>1, <2>2, <3>1 DEF Borrowed, CaughtUp, MayConflict
  <2>4. CASE Agent(t)
    <3>1. PICK q : work'[t] = work[t] \cup Left(t, q)
      BY <1>1, <2>4 DEF Agent, TypeInv, TypeOK
    <3>2. \A m \in Left(t, q) : m[1] = t
      BY DEF Left
    <3>3. worker[t].pc \in Housed
      BY <2>4 DEF Agent, Housed
    <3> QED  BY <1>1, <2>1, <2>2, <3>1, <3>2, <3>3 DEF Borrowed, CaughtUp, MayConflict
  <2>5. CASE Merge(t)
    <3>1. work'[t] = work[t] \cup integ \/ work'[t] = work[t]
      BY <1>1, <2>5 DEF Merge, Merged, TypeInv, TypeOK
    <3>2. worker[t].pc \in Housed
      BY <2>5 DEF Merge, Housed
    <3> QED  BY <1>1, <2>1, <2>2, <3>1, <3>2 DEF Borrowed, CaughtUp, MayConflict
  <2>6. CASE ~Open(t) /\ ~Agent(t) /\ ~Merge(t)
    <3>1. worker'[t].pc \in Housed => worker[t].pc \in Housed /\ work' = work
      <4> DEFINE Outside == \/ StartAttempt(t) \/ Record(t) \/ Close(t) \/ Raise(t)
                            \/ CommitFails(t) \/ AdvanceFails(t)
      <4>1. CASE Outside
        BY <1>1, <4>1, Transition DEF Goes, Rejects, Housed
      <4>2. ~Reuse(t)
        BY NeverReused DEF SerialInv
      <4>3. CASE ~Outside
        BY <1>4, <2>6, <4>2, <4>3
           DEF WorkerStep, Fails, Dispatch, Prepare, CheckBudget, Launch, ImplementerFinished,
               RepairFinished, Exited, Verify, PassGate, RepairHandoff, disk, Housed
      <4> QED  BY <4>1, <4>3
    <3> QED  BY <1>1, <2>1, <2>2, <3>1 DEF Borrowed, CaughtUp, MayConflict
  <2> QED  BY <2>2, <2>3, <2>4, <2>5, <2>6
<1> QED  BY <1>3, <1>4

LEMMA SerialInductive ==
  ASSUME resumes' = 0, SerialInv, [Next]_vars PROVE SerialInv'
<1>1. TypeInv /\ UnresumedInv' /\ LockInv' /\ integ \subseteq integ' /\ Apart'
  BY UnresumedInductive, LockInductive, ApartStep DEF SerialInv, LockInv
<1>2. CASE \E t \in Tasks : WorkerStep(t) \/ Fails(t)
  BY <1>1, <1>2, SerialStep DEF SerialInv
<1>3. ASSUME ~\E t \in Tasks : WorkerStep(t) \/ Fails(t), NEW u \in Tasks
      PROVE  Borrowed(u)' /\ CaughtUp(u)'
  <2>1. /\ integ' = integ
        /\ Aside(u) \/ worker'[u] = worker[u]
        /\ work' = work \/ worker'[u].pc = "idle"
    BY <1>1, <1>3, OtherSteps
  <2>2. worker'[u].pc \in Housed => worker'[u] = worker[u] /\ work' = work
    BY <2>1 DEF Aside, Housed
  <2> QED  BY <2>1, <2>2 DEF SerialInv, Borrowed, CaughtUp, MayConflict
<1> QED  BY <1>1, <1>2, <1>3 DEF SerialInv

LEMMA ResumesCount ==
  ASSUME TypeInv, [Next]_vars
  PROVE  resumes' = resumes \/ resumes' # 0
<1>1. CASE Resume
  BY <1>1 DEF Resume, TypeInv, TypeOK
<1>2. CASE ~Resume
  BY <1>2 DEF Next, MainStep, FaultStep, Fault, Over, vars, env, Start, Submit, Collect, Unwind,
              Finish, Kill, Purge, WorkerStep, StartAttempt, Reuse, Open, Dispatch, Prepare,
              CheckBudget, Launch, Agent, ImplementerFinished, RepairFinished, Exited, Verify,
              PassGate, RepairHandoff, Merge, AdvanceIntegration, Record, Close, Raise,
              CommitFails, AdvanceFails
<1> QED  BY <1>1, <1>2

(* The strengthening holds up to the first resume, whatever comes after.   *)
SerialSoFar == TypeInv /\ (resumes = 0 => SerialInv)

(* docs/05 "If they overlap, serialize": until the run is resumed, a task  *)
(* that gets to its merge has seen all merged work it overlaps with,       *)
(* however many workers there are and whatever fails.                      *)
THEOREM OverlapsSerialized == Spec => []OverlapsAreSerial
<1>1. Init => SerialSoFar
  <2> SUFFICES ASSUME Init PROVE SerialInv
    BY InitiallyTyped DEF SerialSoFar
  <2>1. \A t \in Tasks : worker[t].pc = "idle"
    BY DEF Init, Idle
  <2> QED  BY <2>1, UnresumedInitially, LockInitially
           DEF SerialInv, Apart, Borrowed, CaughtUp, Housed
<1>2. SerialSoFar => OverlapsAreSerial
  BY DEF SerialSoFar, SerialInv, CaughtUp, OverlapsAreSerial, Housed
<1>3. SerialSoFar /\ [Next]_vars => SerialSoFar'
  BY TypeInductive, ResumesCount, SerialInductive DEF SerialSoFar
<1> QED  BY <1>1, <1>2, <1>3, PTL DEF Spec

-----------------------------------------------------------------------------
(* The handoff is the call's own.                                          *)

\* What the implementer's outbox holds is not an old handoff where the journal
\* lets a resume go on from verification, nor in a process from the end of
\* the implementer's call on; and what a call hands over it left itself.
Renewed(t) == outbox[t][0] # "old"
Handed(t) ==
  /\ proj[t].state \in RESUMABLE => Renewed(t)
  /\ worker[t].pc \in {"start", "open"} /\ worker[t].resumed => proj[t].state \in RESUMABLE
  /\ worker[t].pc \in {"verify", "gate"} => Renewed(t) /\ worker[t].handoff # "old"
  /\ worker[t].pc \in {"budget", "launch", "agent", "exited"} /\ worker[t].repair # 0
       => Renewed(t)
  /\ At(t, "exited") => outbox[t][worker[t].repair] = "new"
  /\ At(t, "merge") => worker[t].handoff = "new"

HandedInv == /\ TypeInv /\ \A t \in Tasks : Proven(t) /\ FirstCall(t)
             /\ \A t \in RequiresHandoff : Handed(t)

LEMMA HandoffMoves ==
  ASSUME TypeInv, NEW t \in Tasks
  PROVE  /\ \A pc \in PCs : Goto(t, pc) => worker'[t].handoff = worker[t].handoff
         /\ \A pc \in PCs : \A h \in Handoffs :
              worker' = [worker EXCEPT ![t].pc = pc, ![t].handoff = h] => worker'[t].handoff = h
<1> DEFINE w == worker[t]
           v == worker'[t]
<1>1. w \in Worker
  BY DEF TypeInv, TypeOK, Worker
<1>2. ASSUME NEW pc \in PCs, Goto(t, pc) PROVE v = [w EXCEPT !.pc = pc]
  BY <1>2 DEF Goto, TypeInv, TypeOK
<1>3. ASSUME NEW pc \in PCs, NEW h \in Handoffs,
             worker' = [worker EXCEPT ![t].pc = pc, ![t].handoff = h]
      PROVE  v = [w EXCEPT !.pc = pc, !.handoff = h]
  BY <1>3 DEF TypeInv, TypeOK
<1> HIDE DEF w, v
<1>4. \A pc \in PCs : v = [w EXCEPT !.pc = pc] => v.handoff = w.handoff
  BY <1>1 DEF Worker
<1>5. \A pc \in PCs : \A h \in Handoffs : v = [w EXCEPT !.pc = pc, !.handoff = h] => v.handoff = h
  BY <1>1 DEF Worker
<1> QED  BY <1>2, <1>3, <1>4, <1>5 DEF w, v

LEMMA HandedStep ==
  ASSUME AgentsHandOver, HandedInv, NEW t \in RequiresHandoff, WorkerStep(t) \/ Fails(t)
  PROVE  Handed(t)'
<1> DEFINE w == worker[t]
           v == worker'[t]
<1>1. /\ t \in Tasks /\ TypeInv /\ Handed(t) /\ FirstCall(t)
      /\ w \in Worker /\ v \in Worker
      /\ outbox[t] \in [0..MaxRepairs -> Handoffs]
      /\ w.repair \in 0..MaxRepairs /\ 0 \in 0..MaxRepairs
  <2>1. t \in Tasks /\ TypeInv /\ Handed(t) /\ FirstCall(t)
    BY ChoiceAssumption DEF HandedInv
  <2>2. v \in Worker
    BY <2>1, Attempting, Failing DEF Fails, Own
  <2> QED  BY <2>1, <2>2, LimitAssumption DEF TypeInv, TypeOK, Worker
<1>2. /\ {"open", "launch", "agent", "verify", "gate", "merge", "budget"} \subseteq PCs
      /\ {"rejected", "error", "blocked", "budget_exhausted"} \subseteq Verdicts
      /\ {"human_required", "needs_replan"} \subseteq Stalled
      /\ {"running", "executed", "verifying", "repairing"} \subseteq States
  BY DEF PCs, Verdicts, Stalled, States, RESUMABLE
<1>3. \A s \in States : Enter(t, s) => proj'[t].state = s
  BY <1>1, Entering
\* Where the attempt ends, or goes on without a look at its outbox.
<1>4. ASSUME v.pc \in {"dispatch", "prepare", "advance", "record", "close", "returned", "raised"},
             proj'[t].state \in RESUMABLE => Renewed(t)'
      PROVE  Handed(t)'
  BY <1>4 DEF Handed
<1>5. CASE \/ Open(t) \/ Merge(t) \/ AdvanceIntegration(t) \/ Close(t) \/ Fails(t)
  <2>1. /\ v.pc \in {"dispatch", "advance", "record", "returned", "raised"}
    BY <1>1, <1>5, Transition DEF Fails, Goes, Rejects
  <2>2. proj' = proj /\ outbox' = outbox
    BY <1>5 DEF Open, Merge, AdvanceIntegration, Close, Fails, Raise, CommitFails, AdvanceFails,
                journal, disk
  <2> QED  BY <1>1, <1>4, <2>1, <2>2 DEF Handed, Renewed
<1>6. CASE StartAttempt(t)
  <2>1. w.pc = "start" /\ proj' = proj /\ outbox' = outbox
    BY <1>6 DEF StartAttempt, journal, disk
  <2>2. v.pc = "record" \/ (v.pc = "open" /\ v.resumed = w.resumed)
    BY <1>1, <1>2, <1>6, Going, Judging DEF StartAttempt, Moves, Keeps
  <2> QED  BY <1>1, <1>4, <2>1, <2>2 DEF Handed, Renewed
<1>7. CASE Reuse(t)
  <2>1. w.pc = "open" /\ w.resumed /\ proj' = proj /\ outbox' = outbox
    BY <1>7 DEF Reuse, journal, disk
  <2>2. v.pc = "verify" /\ v.handoff = outbox[t][0]
    <3> DEFINE h == outbox[t][0]
    <3>1. worker' = [worker EXCEPT ![t].pc = "verify", ![t].handoff = h] /\ h \in Handoffs
      BY <1>1, <1>7 DEF Reuse
    <3> HIDE DEF h
    <3>2. v.pc = "verify" /\ v.handoff = h
      BY <1>1, <1>2, <1>7, <3>1, Transition, HandoffMoves DEF Goes
    <3> QED  BY <3>2 DEF h
  <2> QED  BY <1>1, <2>1, <2>2 DEF Handed, Renewed
<1>8. CASE Dispatch(t)
  <2>1. v.pc = "prepare"
    BY <1>1, <1>8, Transition DEF Goes
  <2>2. proj'[t].state = "precheck"
    <3>1. w.attempt \in 0..MaxAttempts
      BY <1>1, <1>8 DEF Dispatch, TypeInv, Fit, Trying, Housed
    <3> QED  BY <1>1, <1>8, <3>1, Dispatching DEF Dispatch
  <2> QED  BY <1>4, <2>1, <2>2 DEF RESUMABLE
<1>9. CASE Prepare(t) \/ CheckBudget(t)
  <2>1. proj' = proj /\ outbox' = outbox
    BY <1>9 DEF Prepare, CheckBudget, journal, disk
  <2>2. \/ v.pc = "record"
        \/ w.pc = "prepare" /\ v.pc = "budget" /\ v.repair = w.repair
        \/ w.pc = "budget" /\ v.pc = "launch" /\ v.repair = w.repair
    BY <1>1, <1>9, Transition DEF Prepare, CheckBudget, Goes, Rejects, Repairs
  <2> QED  BY <1>1, <1>4, <2>1, <2>2 DEF Handed, Renewed, FirstCall
<1>10. CASE Launch(t)
  <2>1. v.pc = "agent" /\ v.repair = w.repair /\ w.pc = "launch"
    BY <1>1, <1>10, Transition DEF Launch, Goes, Repairs
  <2>2. proj'[t].state = "running"
    BY <1>2, <1>3, <1>10 DEF Launch
  <2>3. outbox'[t] = [outbox[t] EXCEPT ![w.repair] = IF @ = "new" THEN "old" ELSE @]
    BY <1>1, <1>10 DEF Launch, TypeInv, TypeOK
  <2>4. w.repair # 0 => outbox'[t][0] = outbox[t][0]
    BY <1>1, <2>3
  <2> QED  BY <1>1, <2>1, <2>2, <2>4 DEF Handed, Renewed, RESUMABLE
<1>11. CASE Agent(t)
  <2>1. v.pc = "exited" /\ v.repair = w.repair /\ w.pc = "agent" /\ proj' = proj
    BY <1>1, <1>11, Transition DEF Agent, Goes, Repairs, journal
  <2>2. outbox'[t] = [outbox[t] EXCEPT ![w.repair] = "new"]
    BY <1>1, <1>11 DEF Agent, AgentsHandOver, TypeInv, TypeOK
  <2>3. /\ outbox'[t][w.repair] = "new"
        /\ w.repair # 0 => outbox'[t][0] = outbox[t][0]
    BY <1>1, <2>2
  <2> QED  BY <1>1, <2>1, <2>3 DEF Handed, Renewed
<1>12. CASE ImplementerFinished(t) \/ RepairFinished(t)
  <2>1. w.pc = "exited" /\ outbox' = outbox /\ outbox[t][w.repair] = "new"
    BY <1>1, <1>12 DEF ImplementerFinished, RepairFinished, Exited, disk, Handed
  <2>2. Renewed(t)
    BY <1>1, <2>1 DEF Handed, Renewed
  <2>3. v.pc = "record" \/ (v.pc \in {"verify", "gate"} /\ v.handoff = "new")
    <3>1. \/ Conclude(t, "error", "null") \/ Conclude(t, "rejected", "null")
          \/ \E pc \in {"verify", "gate"} :
               worker' = [worker EXCEPT ![t].pc = pc, ![t].handoff = "new"]
      BY <1>12, <2>1 DEF ImplementerFinished, RepairFinished
    <3>2. CASE Conclude(t, "error", "null") \/ Conclude(t, "rejected", "null")
      BY <1>1, <1>2, <3>2, Judging DEF Moves
    <3>3. CASE \E pc \in {"verify", "gate"} :
                 worker' = [worker EXCEPT ![t].pc = pc, ![t].handoff = "new"]
      <4>1. PICK pc \in {"verify", "gate"} :
              worker' = [worker EXCEPT ![t].pc = pc, ![t].handoff = "new"]
        BY <3>3
      <4>2. "new" \in Handoffs /\ pc \in PCs
        BY <1>2 DEF Handoffs
      <4>3. v.handoff = "new"
        BY <1>1, <4>1, <4>2, HandoffMoves
      <4> QED  BY <1>1, <4>1, <4>2, <4>3, Receiving DEF Moves
    <3> QED  BY <3>1, <3>2, <3>3
  <2> QED  BY <1>4, <2>1, <2>2, <2>3 DEF Handed, Renewed
<1>13. CASE Verify(t)
  <2>1. w.pc = "verify" /\ outbox' = outbox
    BY <1>13 DEF Verify, disk
  <2>2. v.pc = "record" \/ (v.pc = "gate" /\ v.handoff = w.handoff)
    <3>1. \/ Conclude(t, "null", "needs_replan") \/ Conclude(t, "rejected", "null")
          \/ Conclude(t, "blocked", "null") \/ Goto(t, "gate")
      BY <1>13 DEF Verify
    <3> QED  BY <1>1, <1>2, <3>1, HandoffMoves, Going, Judging, Deferring DEF Moves
  <2> QED  BY <1>1, <1>4, <2>1, <2>2 DEF Handed, Renewed
<1>14. CASE PassGate(t)
  <2>1. v.pc = "merge" /\ w.pc = "gate" /\ v.handoff = w.handoff /\ proj' = proj /\ outbox' = outbox
    BY <1>1, <1>2, <1>14, Transition, HandoffMoves DEF PassGate, Goes, journal, disk
  <2>2. w.handoff \in {"old", "new"}
    BY <1>1, <1>14 DEF PassGate, GateOpen, Worker, Handoffs
  <2> QED  BY <1>1, <2>1, <2>2 DEF Handed, Renewed
<1>15. CASE RepairHandoff(t)
  <2>1. w.pc = "gate" /\ outbox' = outbox
    BY <1>15 DEF RepairHandoff, disk
  <2>2. v.pc \in {"record", "budget"}
    BY <1>1, <1>15, Transition DEF Rejects
  <2> QED  BY <1>1, <1>4, <2>1, <2>2 DEF Handed, Renewed
<1>16. CASE Record(t)
  <2> DEFINE k == w.attempt
             next == NextState(w.outcome, k)
             m == k + 1
  <2>1. next \in {"done", "ready"} \cup Stalled
    BY <1>1, <1>16, Concluded DEF Record, TypeInv, Fit, Trying
  <2>2. proj'[t].state = next
    BY <1>1, <1>16 DEF Record, TypeInv, TypeOK
  <2>3. v.pc = "start" => ~v.resumed
    <3>1. next = "ready" => worker' = [worker EXCEPT ![t] = [Idle EXCEPT !.pc = "start", !.attempt = m]]
      BY <1>16 DEF Record
    <3>2. next # "ready" => v.pc # "start"
      BY <1>1, <1>16 DEF Record, Idle, TypeInv, TypeOK
    <3> HIDE DEF next, m
    <3>3. next = "ready" => v = Restart("start", m)
      BY <1>1, <3>1 DEF Idle, Restart, TypeInv, TypeOK
    <3> QED  BY <3>2, <3>3 DEF Restart
  <2> HIDE DEF next
  <2>4. proj'[t].state \notin RESUMABLE
    BY <2>1, <2>2 DEF RESUMABLE, Stalled
  <2>5. v.pc \in {"start", "close", "returned"}
    BY <1>1, <1>16, Transition
  <2> QED  BY <2>3, <2>4, <2>5 DEF Handed
<1> QED
  BY <1>5, <1>6, <1>7, <1>8, <1>9, <1>10, <1>11, <1>12, <1>13, <1>14, <1>15, <1>16 DEF WorkerStep

(* A worker that is started from verification is so on what its journal    *)
(* says.                                                                   *)
LEMMA HandedSubmit ==
  ASSUME TypeInv, NEW t \in Tasks, Submit(t), Handed(t)
  PROVE  Handed(t)'
<1> DEFINE pc == IF ResumePoint(t).attempt <= MaxAttempts THEN "start" ELSE "returned"
           k == ResumePoint(t).attempt
           b == ResumePoint(t).resumed
           v == worker'[t]
<1>1. v = [Idle EXCEPT !.pc = pc, !.attempt = k, !.resumed = b]
  BY DEF Submit, TypeInv, TypeOK
<1>2. b = TRUE => proj[t].state \in RESUMABLE
  BY DEF ResumePoint
<1>3. pc \in {"start", "returned"} /\ proj' = proj /\ outbox' = outbox
  BY DEF Submit, journal, disk
<1> HIDE DEF pc, k, b, v
<1>4. v.pc = pc
  BY <1>1 DEF Idle
<1>5. v.resumed = b
  BY <1>1, Zenon DEF Idle
<1>6. v.pc \in {"start", "returned"} /\ (v.resumed = TRUE => proj[t].state \in RESUMABLE)
  BY <1>2, <1>3, <1>4, <1>5
<1> QED  BY <1>3, <1>6 DEF Handed, Renewed, v

LEMMA HandedInductive ==
  ASSUME AgentsHandOver, HandedInv, [Next]_vars PROVE HandedInv'
<1>1. TypeInv /\ TypeInv'
  BY TypeInductive DEF HandedInv
<1>2. ASSUME NEW t \in Tasks, WorkerStep(t) \/ Fails(t), NEW u \in Tasks
      PROVE  Proven(u)' /\ FirstCall(u)' /\ (u \in RequiresHandoff => Handed(u)')
  <2>1. Others(t)
    BY <1>1, <1>2, Attempting, Failing DEF Fails
  <2>2. u # t => /\ worker'[u] = worker[u] /\ outbox'[u] = outbox[u] /\ work'[u] = work[u]
                 /\ proj'[u] = proj[u]
    BY <1>1, <2>1 DEF Others, TypeInv, TypeOK
  <2>3. CASE u # t
    BY <2>2, <2>3 DEF HandedInv, Handed, Renewed, Proven, Judged, Passes, FirstCall
  <2> QED  BY <1>1, <1>2, <2>3, HandedStep, KeepsPassing DEF HandedInv
<1>3. ASSUME ~\E t \in Tasks : WorkerStep(t) \/ Fails(t), NEW u \in Tasks
      PROVE  Proven(u)' /\ FirstCall(u)'
  <2>1. /\ Aside(u) \/ worker'[u] = worker[u]
        /\ work' = work \/ worker'[u].pc = "idle"
    BY <1>1, <1>3, OtherSteps
  <2> QED  BY <2>1 DEF HandedInv, Aside, Proven, Judged, Passes, FirstCall
<1>4. ASSUME ~\E t \in Tasks : WorkerStep(t) \/ Fails(t), NEW u \in RequiresHandoff
      PROVE  Handed(u)'
  <2>1. u \in Tasks /\ Handed(u) /\ proj' = proj
    BY <1>1, <1>4, ChoiceAssumption, OtherSteps DEF HandedInv, journal
  <2>2. CASE Submit(u)
    BY <1>1, <2>1, <2>2, HandedSubmit
  <2>3. CASE ~Submit(u)
    <3>1. worker'[u] = worker[u] \/ worker'[u].pc = "idle"
      <4>1. ASSUME NEW t \in Tasks, Submit(t) PROVE worker'[u] = worker[u]
        BY <1>1, <2>1, <2>3, <4>1 DEF Submit, TypeInv, TypeOK
      <4> QED  BY <1>1, <1>4, <2>1, <4>1, PutAside DEF Idle
    <3>2. outbox' = outbox \/ Purge
      BY <1>4 DEF Next, MainStep, FaultStep, Fails, Over, vars, disk, Start, Resume, Submit,
                  Collect, Unwind, Finish, Kill
    <3>3. Purge => worker'[u].pc = "idle" /\ outbox'[u][0] = "none"
      BY <1>1, <2>1, LimitAssumption DEF Purge, Empty, TypeInv, Quiet
    <3> QED  BY <2>1, <3>1, <3>2, <3>3 DEF Handed, Renewed
  <2> QED  BY <2>2, <2>3
<1> QED  BY <1>1, <1>2, <1>3, <1>4, ChoiceAssumption DEF HandedInv

(* docs/10: a handoff that passes the gate is the accepted call's own.     *)
(* Nothing in the code empties the outbox of an attempt that starts over,  *)
(* so this rests on every call leaving the handoff it owes; with that, no  *)
(* kill, purge or resume, from verification included, hands on an old one. *)
THEOREM HandoffsAreOwn == ASSUME AgentsHandOver PROVE Spec => []HandoffIsOwn
<1>1. Init => HandedInv
  <2> SUFFICES ASSUME Init PROVE HandedInv
    OBVIOUS
  <2>1. \A t \in Tasks : worker[t].pc = "idle" /\ proj[t].state = "pending"
    BY DEF Init, Idle
  <2> QED  BY <2>1, InitiallyTyped, ChoiceAssumption
           DEF HandedInv, Handed, Proven, Judged, FirstCall, RESUMABLE
<1>2. HandedInv => HandoffIsOwn
  BY ChoiceAssumption DEF HandedInv, Handed, HandoffIsOwn
<1>3. HandedInv /\ [Next]_vars => HandedInv'
  BY HandedInductive
<1> QED  BY <1>1, <1>2, <1>3, PTL DEF Spec
=============================================================================
