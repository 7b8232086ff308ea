---------------------------- MODULE RunnerProofs ----------------------------
(***************************************************************************)
(* What TLAPS proves of Runner: for every task graph, every overlap        *)
(* relation, every number of workers, attempts, repairs, faults and        *)
(* resumes. First the types; then the integration branch and the numbering *)
(* of the attempts: nothing merged is lost, what is verified is merged,    *)
(* what is merged is proven, and each attempt gets one verdict.            *)
(***************************************************************************)
EXTENDS Runner, TLAPS

\* No worker is under way: nothing of it survives its process.
Quiet == main \in {"new", "dead", "finished"} => \A t \in Tasks : At(t, "idle")

\* The points of an attempt, and those at which it has its worktree.
Housed == {"dispatch", "prepare", "budget", "launch", "agent", "exited",
           "verify", "gate", "merge", "advance"}
Trying == Housed \cup {"start", "open", "record"}

\* What an outcome says: a verdict, or the state that takes its place.
Conclusive(outcome) == \/ outcome.verdict \in Verdicts /\ outcome.next = "null"
                       \/ outcome.verdict = "null" /\ outcome.next \in Stalled

Fit(t) ==
  /\ worker[t].pc \in Trying => worker[t].attempt \in 0..MaxAttempts
  /\ worker[t].pc \in Housed \/ (worker[t].pc \in {"start", "open"} /\ worker[t].resumed)
       => work[t] \subseteq Marks
  /\ At(t, "record") => Conclusive(worker[t].outcome)

(* The type invariant is inductive together with this: an attempt has a    *)
(* number within the limit and a worktree of its own, and it ends in a     *)
(* verdict or in a state that waits for a human.                           *)
TypeInv == TypeOK /\ Quiet /\ \A t \in Tasks : Fit(t)

USE DEF PCs, Housed, Trying

-----------------------------------------------------------------------------
(* The type of each variable.                                              *)

Worker == [pc : PCs, attempt : 0..MaxAttempts + 1, resumed : BOOLEAN, repair : 0..MaxRepairs,
           handoff : Handoffs, spoilt : BOOLEAN, outcome : Outcome]
Projection == [state : States, attempt : 0..MaxAttempts,
               verdict : Verdicts \cup {"null"}, verdict_attempt : 0..MaxAttempts]
Trees == (SUBSET Marks) \cup {NoTree}

\* A step of the worker of t, or a fault of it, touches nothing of the other
\* tasks, and what it leaves of its own is well formed.
Others(t) ==
  /\ main \notin {"new", "dead", "finished"} /\ UNCHANGED control
  /\ worker' = [worker EXCEPT ![t] = worker'[t]]
  /\ proj' = [proj EXCEPT ![t] = proj'[t]]
  /\ base' = [base EXCEPT ![t] = base'[t]]
  /\ failed' = [failed EXCEPT ![t] = failed'[t]]
  /\ work' = [work EXCEPT ![t] = work'[t]]
  /\ outbox' = [outbox EXCEPT ![t] = outbox'[t]]
Own(t) ==
  /\ worker'[t] \in Worker /\ proj'[t] \in Projection
  /\ base'[t] \in Trees /\ failed'[t] \in BOOLEAN
  /\ work'[t] \in Trees /\ outbox'[t] \in [0..MaxRepairs -> Handoffs]
  /\ calls' \in Nat /\ integ' \subseteq Marks
  /\ faults' \in 0..MaxFaults /\ resumes' \in 0..MaxResumes
  /\ Fit(t)'

LEMMA OwnStep == ASSUME TypeInv, NEW t \in Tasks, Others(t), Own(t) PROVE TypeInv'
<1>1. TypeOK'
  BY DEF TypeInv, TypeOK, Others, Own, Worker, Projection, Trees, control
<1>2. Quiet'
  BY DEF Quiet, Others, control
<1>3. ASSUME NEW u \in Tasks PROVE Fit(u)'
  <2>1. CASE u = t
    BY <2>1 DEF Own
  <2>2. CASE u # t
    BY <2>2 DEF TypeInv, TypeOK, Others, Fit, At
  <2> QED  BY <2>1, <2>2
<1> QED  BY <1>1, <1>2, <1>3 DEF TypeInv

LEMMA Busy ==
  ASSUME TypeInv, NEW t \in Tasks, worker[t].pc # "idle"
  PROVE  /\ main \notin {"new", "dead", "finished"}
         /\ worker[t] \in Worker /\ proj[t] \in Projection
         /\ base[t] \in Trees /\ failed[t] \in BOOLEAN
         /\ work[t] \in Trees /\ outbox[t] \in [0..MaxRepairs -> Handoffs]
         /\ calls \in Nat /\ integ \subseteq Marks
         /\ faults \in 0..MaxFaults /\ resumes \in 0..MaxResumes
         /\ Fit(t)
  BY DEF TypeInv, TypeOK, Worker, Projection, Trees, Quiet, At

\* The fields a step of a worker may leave alone.
Keeps(t) == /\ worker'[t].attempt = worker[t].attempt
            /\ worker'[t].resumed = worker[t].resumed
Repairs(t) == worker'[t].repair = worker[t].repair
Moves(t, pc) == /\ worker' = [worker EXCEPT ![t] = worker'[t]]
                /\ worker'[t] \in Worker /\ worker'[t].pc = pc /\ Keeps(t)

(* The forms an assignment to worker takes.                                *)
LEMMA Going ==
  ASSUME TypeInv, NEW t \in Tasks, NEW pc \in PCs, Goto(t, pc)
  PROVE  Moves(t, pc) /\ Repairs(t)
<1>1. worker'[t] = [worker[t] EXCEPT !.pc = pc]
  BY DEF Goto, TypeInv, TypeOK
<1>2. worker[t] \in Worker
  BY DEF TypeInv, TypeOK, Worker
<1>3. ASSUME NEW w \in Worker, NEW v, v = [w EXCEPT !.pc = pc]
      PROVE  v \in Worker /\ v.pc = pc /\ v.attempt = w.attempt /\ v.resumed = w.resumed
             /\ v.repair = w.repair
  BY <1>3 DEF Worker
<1> QED  BY <1>1, <1>2, <1>3 DEF Goto, Moves, Keeps, Repairs, TypeInv, TypeOK

LEMMA Concluding ==
  ASSUME TypeInv, NEW t \in Tasks, NEW verdict \in Verdicts \cup {"null"},
         NEW next \in Stalled \cup {"null"}, Conclude(t, verdict, next)
  PROVE  /\ Moves(t, "record") /\ Repairs(t)
         /\ worker'[t].outcome = [verdict |-> verdict, next |-> next]
<1> DEFINE o == [verdict |-> verdict, next |-> next]
           w == worker[t]
           v == worker'[t]
<1>1. v = [w EXCEPT !.pc = "record", !.outcome = o]
  BY DEF Conclude, TypeInv, TypeOK
<1>2. w \in Worker /\ o \in Outcome
  BY DEF TypeInv, TypeOK, Worker, Outcome
<1>3. worker' = [worker EXCEPT ![t] = v]
  BY DEF Conclude, TypeInv, TypeOK
<1> HIDE DEF o, w, v
<1>4. v \in Worker
  BY <1>1, <1>2, Zenon DEF Worker
<1>5. v.pc = "record" /\ v.attempt = w.attempt /\ v.resumed = w.resumed
      /\ v.repair = w.repair /\ v.outcome = o
  BY <1>1, <1>2 DEF Worker
<1> QED  BY <1>3, <1>4, <1>5, Zenon DEF o, w, v, Moves, Keeps, Repairs

LEMMA Judging ==
  ASSUME TypeInv, NEW t \in Tasks, NEW verdict \in Verdicts, Conclude(t, verdict, "null")
  PROVE  /\ Moves(t, "record") /\ Repairs(t)
         /\ worker'[t].outcome = [verdict |-> verdict, next |-> "null"]
         /\ Conclusive(worker'[t].outcome)
  BY Concluding DEF Conclusive

LEMMA Deferring ==
  ASSUME TypeInv, NEW t \in Tasks, NEW next \in Stalled, Conclude(t, "null", next)
  PROVE  /\ Moves(t, "record") /\ Repairs(t)
         /\ worker'[t].outcome = [verdict |-> "null", next |-> next]
         /\ Conclusive(worker'[t].outcome)
  BY Concluding DEF Conclusive

LEMMA Receiving ==
  ASSUME TypeInv, NEW t \in Tasks, NEW pc \in {"verify", "gate"}, NEW h \in Handoffs,
         worker' = [worker EXCEPT ![t].pc = pc, ![t].handoff = h]
  PROVE  Moves(t, pc) /\ Repairs(t)
<1> DEFINE w == worker[t]
           v == worker'[t]
<1>1. v = [w EXCEPT !.pc = pc, !.handoff = h]
  BY DEF TypeInv, TypeOK
<1>2. w \in Worker
  BY DEF TypeInv, TypeOK, Worker
<1>3. worker' = [worker EXCEPT ![t] = v]
  BY DEF TypeInv, TypeOK
<1> HIDE DEF w, v
<1>4. v \in Worker
  BY <1>1, <1>2, Zenon DEF Worker
<1>5. v.pc = pc /\ v.attempt = w.attempt /\ v.resumed = w.resumed
      /\ v.repair = w.repair
  BY <1>1, <1>2 DEF Worker
<1> QED  BY <1>3, <1>4, <1>5, Zenon DEF w, v, Moves, Keeps, Repairs

LEMMA Exiting ==
  ASSUME TypeInv, NEW t \in Tasks, NEW b \in BOOLEAN,
         worker' = [worker EXCEPT ![t].pc = "exited", ![t].spoilt = b]
  PROVE  Moves(t, "exited") /\ Repairs(t)
<1> DEFINE w == worker[t]
           v == worker'[t]
<1>1. v = [w EXCEPT !.pc = "exited", !.spoilt = b]
  BY DEF TypeInv, TypeOK
<1>2. w \in Worker
  BY DEF TypeInv, TypeOK, Worker
<1>3. worker' = [worker EXCEPT ![t] = v]
  BY DEF TypeInv, TypeOK
<1> HIDE DEF w, v
<1>4. v \in Worker
  BY <1>1, <1>2, Zenon DEF Worker
<1>5. v.pc = "exited" /\ v.attempt = w.attempt /\ v.resumed = w.resumed
      /\ v.repair = w.repair
  BY <1>1, <1>2 DEF Worker
<1> QED  BY <1>3, <1>4, <1>5, Zenon DEF w, v, Moves, Keeps, Repairs

LEMMA Repairing ==
  ASSUME TypeInv, NEW t \in Tasks, NEW k \in 0..MaxRepairs,
         worker' = [worker EXCEPT ![t].pc = "budget", ![t].repair = k, ![t].spoilt = FALSE]
  PROVE  Moves(t, "budget") /\ worker'[t].repair = k
<1> DEFINE w == worker[t]
           v == worker'[t]
<1>1. v = [w EXCEPT !.pc = "budget", !.repair = k, !.spoilt = FALSE]
  BY DEF TypeInv, TypeOK
<1>2. w \in Worker
  BY DEF TypeInv, TypeOK, Worker
<1>3. worker' = [worker EXCEPT ![t] = v]
  BY DEF TypeInv, TypeOK
<1> HIDE DEF w, v
<1>4. v \in Worker
  BY <1>1, <1>2, Zenon DEF Worker
<1>5. v.pc = "budget" /\ v.attempt = w.attempt /\ v.resumed = w.resumed
      /\ v.repair = k
  BY <1>1, <1>2 DEF Worker
<1> QED  BY <1>3, <1>4, <1>5, Zenon DEF w, v, Moves, Keeps, Repairs


Restart(pc, k) == [pc |-> pc, attempt |-> k, resumed |-> FALSE, repair |-> 0,
                   handoff |-> "none", spoilt |-> FALSE, outcome |-> NoOutcome]

LEMMA Restarting ==
  ASSUME NEW pc \in PCs, NEW k \in 0..MaxAttempts + 1
  PROVE  LET w == Restart(pc, k) IN
         w \in Worker /\ w.pc = pc /\ w.attempt = k /\ w.repair = 0
<1>1. NoOutcome \in Outcome /\ 0 \in 0..MaxRepairs /\ "none" \in Handoffs
  BY LimitAssumption DEF NoOutcome, Outcome, Handoffs
<1> QED  BY <1>1 DEF Worker, Restart

(* An attempt that is to be repeated is within the limit.                  *)
LEMMA Concluded ==
  ASSUME NEW o, Conclusive(o), NEW k \in 0..MaxAttempts
  PROVE  /\ NextState(o, k) \in {"done", "ready"} \cup Stalled
         /\ NextState(o, k) = "ready" => k < MaxAttempts
         /\ NextState(o, k) = "done" => o.verdict = "verified"
  BY LimitAssumption DEF NextState, Conclusive, Verdicts, Stalled

(* The forms an assignment to proj takes.                                  *)
ProjectsOnly(t) == proj' = [proj EXCEPT ![t] = proj'[t]] /\ proj'[t] \in Projection

LEMMA Entering ==
  ASSUME TypeInv, NEW t \in Tasks, NEW state \in States, Enter(t, state)
  PROVE  /\ ProjectsOnly(t) /\ proj'[t].state = state
         /\ proj'[t].attempt = proj[t].attempt /\ proj'[t].verdict = proj[t].verdict
         /\ proj'[t].verdict_attempt = proj[t].verdict_attempt
<1> DEFINE p == proj[t]
           q == proj'[t]
<1>1. q = [p EXCEPT !.state = state] /\ proj' = [proj EXCEPT ![t] = q]
  BY DEF Enter, TypeInv, TypeOK
<1>2. p \in Projection
  BY DEF TypeInv, TypeOK, Projection
<1> HIDE DEF p, q
<1>3. q \in Projection
  BY <1>1, <1>2, Zenon DEF Projection
<1>4. q.state = state /\ q.attempt = p.attempt /\ q.verdict = p.verdict
      /\ q.verdict_attempt = p.verdict_attempt
  BY <1>1, <1>2 DEF Projection
<1> QED  BY <1>1, <1>3, <1>4, Zenon DEF ProjectsOnly, p, q

LEMMA Dispatching ==
  ASSUME TypeInv, NEW t \in Tasks, NEW k \in 0..MaxAttempts,
         proj' = [proj EXCEPT ![t].state = "precheck", ![t].attempt = k]
  PROVE  /\ ProjectsOnly(t) /\ proj'[t].state = "precheck" /\ proj'[t].attempt = k
         /\ proj'[t].verdict = proj[t].verdict
         /\ proj'[t].verdict_attempt = proj[t].verdict_attempt
<1> DEFINE p == proj[t]
           q == proj'[t]
<1>1. q = [p EXCEPT !.state = "precheck", !.attempt = k] /\ proj' = [proj EXCEPT ![t] = q]
  BY DEF TypeInv, TypeOK
<1>2. p \in Projection /\ "precheck" \in States
  BY DEF TypeInv, TypeOK, Projection, States
<1> HIDE DEF p, q
<1>3. q \in Projection
  BY <1>1, <1>2, Zenon DEF Projection
<1>4. q.state = "precheck" /\ q.attempt = k /\ q.verdict = p.verdict
      /\ q.verdict_attempt = p.verdict_attempt
  BY <1>1, <1>2 DEF Projection
<1> QED  BY <1>1, <1>3, <1>4, Zenon DEF ProjectsOnly, p, q

(* A worker that moves on within its attempt.                              *)
LEMMA Landing ==
  ASSUME TypeInv, NEW t \in Tasks, worker[t].pc \in Trying,
         NEW pc \in Trying \ {"start"}, Moves(t, pc),
         pc = "record" => Conclusive(worker'[t].outcome),
         pc \in Housed => work'[t] \subseteq Marks,
         pc = "open" => worker[t].pc = "start" /\ work'[t] = work[t]
  PROVE  Fit(t)'
<1>1. worker'[t].pc = pc /\ worker'[t].attempt = worker[t].attempt
      /\ worker'[t].resumed = worker[t].resumed
  BY DEF Moves, Keeps
<1>2. Fit(t)
  BY DEF TypeInv
<1> QED  BY <1>1, <1>2 DEF Fit, At

LEMMA Attempting ==
  ASSUME TypeInv, NEW t \in Tasks, WorkerStep(t)
  PROVE  Others(t) /\ Own(t)
<1> USE DEF At
<1> worker[t].pc # "idle"
  BY DEF WorkerStep, StartAttempt, Reuse, Open, Dispatch, Prepare, CheckBudget, Launch, Agent,
         ImplementerFinished, RepairFinished, Exited, Verify, PassGate, RepairHandoff, Merge,
         AdvanceIntegration, Record, Close
<1>a. /\ main \notin {"new", "dead", "finished"}
      /\ worker[t] \in Worker /\ proj[t] \in Projection
      /\ base[t] \in Trees /\ failed[t] \in BOOLEAN
      /\ work[t] \in Trees /\ outbox[t] \in [0..MaxRepairs -> Handoffs]
      /\ calls \in Nat /\ integ \subseteq Marks
      /\ faults \in 0..MaxFaults /\ resumes \in 0..MaxResumes
      /\ Fit(t)
  BY Busy
<1>b. /\ proj = [proj EXCEPT ![t] = proj[t]] /\ base = [base EXCEPT ![t] = base[t]]
      /\ failed = [failed EXCEPT ![t] = failed[t]] /\ work = [work EXCEPT ![t] = work[t]]
      /\ outbox = [outbox EXCEPT ![t] = outbox[t]]
  BY DEF TypeInv, TypeOK
<1>1. CASE StartAttempt(t)
  <2>1. PICK pc \in {"open", "record"} :
          Moves(t, pc) /\ (pc = "record" => Conclusive(worker'[t].outcome))
    BY <1>1, Going, Concluding DEF StartAttempt, Conclusive, Verdicts, Stalled
  <2>2. Fit(t)'
    BY <1>1, <2>1, Landing DEF StartAttempt, disk
  <2> QED  BY <1>1, <1>a, <1>b, <2>1, <2>2
           DEF StartAttempt, Others, Own, Moves, control, journal, disk, env
<1>2. CASE Reuse(t)
  <2>1. Moves(t, "verify")
    <3>1. outbox[t][0] \in Handoffs
      BY <1>a, LimitAssumption
    <3> QED  BY <1>2, <3>1, Receiving DEF Reuse
  <2>2. Fit(t)'
    BY <1>2, <1>a, <2>1, Landing DEF Reuse, Fit, disk
  <2> QED  BY <1>2, <1>a, <1>b, <2>1, <2>2
           DEF Reuse, Others, Own, Moves, control, journal, disk, env
<1>3. CASE Open(t)
  <2>1. Moves(t, "dispatch") /\ work'[t] = integ
    BY <1>3, Going DEF Open, TypeInv, TypeOK
  <2>2. Fit(t)'
    BY <1>3, <1>a, <2>1, Landing DEF Open
  <2> QED  BY <1>3, <1>a, <1>b, <2>1, <2>2
           DEF Open, Others, Own, Moves, Trees, control, journal, disk, env
<1>4. CASE Dispatch(t)
  <2>1. Moves(t, "prepare")
    BY <1>4, Going DEF Dispatch
  <2>2. Fit(t)'
    BY <1>4, <1>a, <2>1, Landing DEF Dispatch, Fit
  <2>3. ProjectsOnly(t)
    <3>1. worker[t].attempt \in 0..MaxAttempts
      BY <1>4, <1>a, LimitAssumption DEF Dispatch, Fit
    <3> QED  BY <1>4, <3>1, Dispatching DEF Dispatch
  <2>4. outbox'[t] \in [0..MaxRepairs -> Handoffs] /\ outbox' = [outbox EXCEPT ![t] = outbox'[t]]
    BY <1>4, <1>a DEF Dispatch, AttemptOutbox, Empty, Handoffs, TypeInv, TypeOK
  <2>5. base'[t] \in Trees /\ base' = [base EXCEPT ![t] = base'[t]]
    BY <1>4, <1>a DEF Dispatch, HeadOf, TypeInv, TypeOK
  <2> QED  BY <1>4, <1>a, <1>b, <2>1, <2>2, <2>3, <2>4, <2>5
           DEF Dispatch, ProjectsOnly, Others, Own, Moves, control, env
<1>5. CASE Prepare(t)
  <2>1. PICK pc \in {"budget", "record"} :
          Moves(t, pc) /\ (pc = "record" => Conclusive(worker'[t].outcome))
    BY <1>5, Going, Concluding DEF Prepare, Conclusive, Verdicts, Stalled
  <2>2. Fit(t)'
    BY <1>5, <1>a, <2>1, Landing DEF Prepare, Fit, disk
  <2> QED  BY <1>5, <1>a, <1>b, <2>1, <2>2
           DEF Prepare, Others, Own, Moves, control, journal, disk, env
<1>6. CASE CheckBudget(t)
  <2>1. PICK pc \in {"launch", "record"} :
          Moves(t, pc) /\ (pc = "record" => Conclusive(worker'[t].outcome))
    BY <1>6, Going, Concluding DEF CheckBudget, Conclusive, Verdicts, Stalled
  <2>2. Fit(t)'
    BY <1>6, <1>a, <2>1, Landing DEF CheckBudget, Fit, disk
  <2> QED  BY <1>6, <1>a, <1>b, <2>1, <2>2
           DEF CheckBudget, Others, Own, Moves, control, journal, disk, env
<1>7. CASE Launch(t)
  <2>1. Moves(t, "agent")
    BY <1>7, Going DEF Launch
  <2>2. Fit(t)'
    BY <1>7, <1>a, <2>1, Landing DEF Launch, Fit
  <2>3. ProjectsOnly(t)
    BY <1>7, Entering DEF Launch, States
  <2>4. outbox'[t] \in [0..MaxRepairs -> Handoffs] /\ outbox' = [outbox EXCEPT ![t] = outbox'[t]]
    BY <1>7, <1>a DEF Launch, TypeInv, TypeOK, Worker, Handoffs
  <2>5. failed'[t] \in BOOLEAN /\ failed' = [failed EXCEPT ![t] = failed'[t]]
    BY <1>7, <1>a, Zenon DEF Launch, TypeInv, TypeOK
  <2>6. UNCHANGED <<control, base, work, integ, env>> /\ calls' \in Nat
    BY <1>7, <1>a DEF Launch
  <2> QED  BY <1>a, <1>b, <2>1, <2>2, <2>3, <2>4, <2>5, <2>6
           DEF ProjectsOnly, Others, Own, Moves, control, env
<1>8. CASE Agent(t)
  <2>1. Moves(t, "exited")
    BY <1>8, Exiting DEF Agent
  <2>2. work' = [work EXCEPT ![t] = work'[t]] /\ work'[t] \subseteq Marks
    <3>1. PICK q \in Writes(t) : work' = [work EXCEPT ![t] = @ \cup Left(t, q)]
      BY <1>8 DEF Agent
    <3>2. Left(t, q) \subseteq Marks
      BY <3>1, ChoiceAssumption DEF Left, Writes, Marks, AgentChoices
    <3>3. work[t] \subseteq Marks
      BY <1>8, <1>a DEF Agent, Fit
    <3> QED  BY <3>1, <3>2, <3>3 DEF TypeInv, TypeOK
  <2>3. Fit(t)'
    BY <1>8, <2>1, <2>2, Landing DEF Agent
  <2>4. outbox'[t] \in [0..MaxRepairs -> Handoffs] /\ outbox' = [outbox EXCEPT ![t] = outbox'[t]]
    BY <1>8, <1>a, <1>b DEF Agent, TypeInv, TypeOK, Worker, Handoffs
  <2>5. /\ UNCHANGED <<control, journal, integ, env>>
    BY <1>8 DEF Agent
  <2> QED  BY <1>a, <1>b, <2>1, <2>2, <2>3, <2>4, <2>5
           DEF Others, Own, Moves, Trees, control, journal, env
<1>9. CASE ImplementerFinished(t)
  <2>1. PICK pc \in {"record", "verify"} :
          Moves(t, pc) /\ (pc = "record" => Conclusive(worker'[t].outcome))
    <3>1. outbox[t][0] \in Handoffs
      BY <1>a, LimitAssumption
    <3>2. CASE Conclude(t, "error", "null")
      BY <3>2, Judging DEF Verdicts
    <3>3. CASE worker' = [worker EXCEPT ![t].pc = "verify", ![t].handoff = outbox[t][0]]
      BY <3>1, <3>3, Receiving
    <3> QED  BY <1>9, <3>2, <3>3 DEF ImplementerFinished
  <2>2. Fit(t)'
    BY <1>9, <1>a, <2>1, Landing DEF ImplementerFinished, Exited, Fit, disk
  <2>3. ProjectsOnly(t)
    BY <1>9, Entering DEF ImplementerFinished, Exited, States, RESUMABLE
  <2>4. failed'[t] \in BOOLEAN /\ failed' = [failed EXCEPT ![t] = failed'[t]]
    BY <1>9, <1>a, Zenon DEF ImplementerFinished, TypeInv, TypeOK, Worker
  <2>5. UNCHANGED <<control, base, calls, disk, env>>
    BY <1>9 DEF ImplementerFinished, Exited
  <2> QED  BY <1>a, <1>b, <2>1, <2>2, <2>3, <2>4, <2>5
           DEF ProjectsOnly, Others, Own, Moves, control, disk, env
<1>10. CASE RepairFinished(t)
  <2>1. PICK pc \in {"record", "gate"} :
          Moves(t, pc) /\ (pc = "record" => Conclusive(worker'[t].outcome))
    <3>1. outbox[t][worker[t].repair] \in Handoffs
      BY <1>a DEF Worker
    <3>2. CASE Conclude(t, "rejected", "null")
      BY <3>2, Judging DEF Verdicts
    <3>3. CASE worker' = [worker EXCEPT ![t].pc = "gate", ![t].handoff = outbox[t][worker[t].repair]]
      BY <3>1, <3>3, Receiving
    <3> QED  BY <1>10, <3>2, <3>3 DEF RepairFinished
  <2>2. Fit(t)'
    BY <1>10, <1>a, <2>1, Landing DEF RepairFinished, Exited, Fit, disk
  <2>3. ProjectsOnly(t)
    BY <1>10, Entering DEF RepairFinished, Exited, States, RESUMABLE
  <2>4. UNCHANGED <<control, base, failed, calls, disk, env>>
    BY <1>10 DEF RepairFinished, Exited
  <2> QED  BY <1>a, <1>b, <2>1, <2>2, <2>3, <2>4
           DEF ProjectsOnly, Others, Own, Moves, control, disk, env
<1>11. CASE Verify(t)
  <2>1. PICK pc \in {"record", "gate"} :
          Moves(t, pc) /\ (pc = "record" => Conclusive(worker'[t].outcome))
    BY <1>11, Going, Concluding DEF Verify, Conclusive, Verdicts, Stalled
  <2>2. Fit(t)'
    BY <1>11, <1>a, <2>1, Landing DEF Verify, Fit, disk
  <2>3. ProjectsOnly(t)
    BY <1>11, Entering DEF Verify, States, RESUMABLE
  <2> QED  BY <1>11, <1>a, <1>b, <2>1, <2>2, <2>3
           DEF Verify, ProjectsOnly, Others, Own, Moves, control, disk, env
<1>12. CASE PassGate(t)
  <2>1. Moves(t, "merge")
    BY <1>12, Going DEF PassGate
  <2>2. Fit(t)'
    BY <1>12, <1>a, <2>1, Landing DEF PassGate, Fit, disk
  <2> QED  BY <1>12, <1>a, <1>b, <2>1, <2>2
           DEF PassGate, Others, Own, Moves, control, journal, disk, env
<1>13. CASE RepairHandoff(t)
  <2>1. PICK pc \in {"record", "budget"} :
          Moves(t, pc) /\ (pc = "record" => Conclusive(worker'[t].outcome))
    <3>1. worker[t].repair + 1 <= MaxRepairs => worker[t].repair + 1 \in 0..MaxRepairs
      BY <1>a, LimitAssumption DEF Worker
    <3>2. CASE Conclude(t, "null", "human_required") \/ Conclude(t, "budget_exhausted", "null")
      BY <3>2, Judging, Deferring DEF Verdicts, Stalled
    <3>3. CASE /\ worker[t].repair + 1 <= MaxRepairs
               /\ worker' = [worker EXCEPT ![t].pc = "budget", ![t].repair = worker[t].repair + 1,
                                           ![t].spoilt = FALSE]
      BY <3>1, <3>3, Repairing
    <3> QED  BY <1>13, <3>2, <3>3 DEF RepairHandoff
  <2>2. Fit(t)'
    BY <1>13, <1>a, <2>1, Landing DEF RepairHandoff, Fit, disk
  <2>3. ProjectsOnly(t)
    BY <1>13, Entering DEF RepairHandoff, States, RESUMABLE
  <2>4. UNCHANGED <<control, base, failed, calls, disk, env>>
    BY <1>13 DEF RepairHandoff
  <2> QED  BY <1>a, <1>b, <2>1, <2>2, <2>3, <2>4
           DEF ProjectsOnly, Others, Own, Moves, control, disk, env
<1>14. CASE Merge(t)
  <2>1. PICK pc \in {"record", "advance"} :
          Moves(t, pc) /\ (pc = "record" => Conclusive(worker'[t].outcome))
    BY <1>14, Going, Concluding DEF Merge, Conclusive, Verdicts, Stalled
  <2>2. work' = [work EXCEPT ![t] = work'[t]] /\ work'[t] \subseteq Marks
    BY <1>14, <1>a, <1>b DEF Merge, Merged, Fit, TypeInv, TypeOK
  <2>3. Fit(t)'
    BY <1>14, <2>1, <2>2, Landing DEF Merge
  <2>4. UNCHANGED <<control, journal, outbox, integ, env>>
    BY <1>14 DEF Merge
  <2> QED  BY <1>a, <1>b, <2>1, <2>2, <2>3, <2>4
           DEF Others, Own, Moves, Trees, control, journal, env
<1>15. CASE AdvanceIntegration(t)
  <2>1. Moves(t, "record") /\ Conclusive(worker'[t].outcome)
    BY <1>15, Judging DEF AdvanceIntegration, Verdicts
  <2>2. Fit(t)'
    BY <1>15, <2>1, Landing DEF AdvanceIntegration
  <2>3. integ' \subseteq Marks
    BY <1>15, <1>a DEF AdvanceIntegration, Fit
  <2>4. UNCHANGED <<control, journal, work, outbox, env>>
    BY <1>15 DEF AdvanceIntegration
  <2> QED  BY <1>a, <1>b, <2>1, <2>2, <2>3, <2>4
           DEF Others, Own, Moves, control, journal, env
<1>16. CASE Record(t)
  <2> DEFINE k == worker[t].attempt
             m == k + 1
             next == NextState(worker[t].outcome, k)
             pc == IF next = "ready" THEN "start" ELSE IF next = "done" THEN "close" ELSE "returned"
  <2>1. k \in 0..MaxAttempts /\ Conclusive(worker[t].outcome) /\ worker[t].outcome \in Outcome
    BY <1>16, <1>a DEF Record, Fit, Worker
  <2>2. next \in {"done", "ready"} \cup Stalled /\ (next = "ready" => k < MaxAttempts)
    BY <2>1, Concluded
  <2>3. /\ next = "ready" => worker' = [worker EXCEPT ![t] = [Idle EXCEPT !.pc = "start", !.attempt = m]]
        /\ next # "ready" => worker' = [worker EXCEPT ![t] = [Idle EXCEPT !.pc = pc]]
    BY <1>16 DEF Record
  <2>4. proj'[t] = [state |-> next, attempt |-> k,
                    verdict |-> worker[t].outcome.verdict, verdict_attempt |-> k]
        /\ proj' = [proj EXCEPT ![t] = proj'[t]]
    BY <1>16 DEF Record, TypeInv, TypeOK
  <2>5. UNCHANGED <<control, base, failed, calls, disk, env>>
    BY <1>16 DEF Record
  <2>6. m \in 0..MaxAttempts + 1 /\ 0 \in 0..MaxAttempts + 1 /\ k \in 0..MaxAttempts
        /\ (next = "ready" => m \in 0..MaxAttempts)
    BY <2>1, <2>2, LimitAssumption
  <2> HIDE DEF k, m, next
  <2>7. /\ worker'[t] = IF next = "ready" THEN Restart("start", m)
                        ELSE IF next = "done" THEN Restart("close", 0) ELSE Restart("returned", 0)
        /\ worker' = [worker EXCEPT ![t] = worker'[t]]
    BY <2>3 DEF Idle, Restart, TypeInv, TypeOK
  <2>10. /\ Restart("start", m) \in Worker /\ Restart("start", m).pc = "start"
         /\ Restart("start", m).attempt = m
    BY <2>6, Restarting
  <2>12. ~Restart("start", m).resumed
    BY DEF Restart
  <2>11. /\ Restart("close", 0) \in Worker /\ Restart("close", 0).pc = "close"
         /\ Restart("returned", 0) \in Worker /\ Restart("returned", 0).pc = "returned"
    BY <2>6, Restarting
  <2>8. Fit(t)'
    BY <2>6, <2>7, <2>10, <2>11, <2>12 DEF Fit
  <2>9. proj'[t] \in Projection
    BY <2>1, <2>2, <2>4, <2>6 DEF Projection, States, Outcome
  <2> QED  BY <1>a, <1>b, <2>4, <2>5, <2>7, <2>8, <2>9, <2>10, <2>11
           DEF Others, Own, control, disk, env
<1>17. CASE Close(t)
  <2>1. Moves(t, "returned") /\ work' = [work EXCEPT ![t] = NoTree] /\ work'[t] = NoTree
    BY <1>17, Going DEF Close, TypeInv, TypeOK
  <2>2. Fit(t)'
    BY <2>1 DEF Fit, Moves
  <2>3. UNCHANGED <<control, journal, outbox, integ, env>>
    BY <1>17 DEF Close
  <2>4. NoTree \in Trees
    BY DEF Trees
  <2> QED  BY <1>a, <1>b, <2>1, <2>2, <2>3, <2>4
           DEF Others, Own, Moves, control, journal, env
<1> QED
  BY <1>1, <1>2, <1>3, <1>4, <1>5, <1>6, <1>7, <1>8, <1>9, <1>10, <1>11, <1>12, <1>13,
     <1>14, <1>15, <1>16, <1>17 DEF WorkerStep

LEMMA Failing ==
  ASSUME TypeInv, NEW t \in Tasks, Raise(t) \/ CommitFails(t) \/ AdvanceFails(t)
  PROVE  Others(t) /\ Own(t)
<1> USE DEF At
<1>1. worker[t].pc # "idle" /\ UNCHANGED <<control, journal, disk, resumes>>
      /\ faults' \in 0..MaxFaults
  BY LimitAssumption DEF Raise, CommitFails, AdvanceFails, Fault, TypeInv, TypeOK
<1>2. /\ main \notin {"new", "dead", "finished"}
      /\ worker[t] \in Worker /\ proj[t] \in Projection
      /\ base[t] \in Trees /\ failed[t] \in BOOLEAN
      /\ work[t] \in Trees /\ outbox[t] \in [0..MaxRepairs -> Handoffs]
      /\ calls \in Nat /\ integ \subseteq Marks
      /\ faults \in 0..MaxFaults /\ resumes \in 0..MaxResumes
      /\ Fit(t)
  BY <1>1, Busy
<1>3. /\ proj = [proj EXCEPT ![t] = proj[t]] /\ base = [base EXCEPT ![t] = base[t]]
      /\ failed = [failed EXCEPT ![t] = failed[t]] /\ work = [work EXCEPT ![t] = work[t]]
      /\ outbox = [outbox EXCEPT ![t] = outbox[t]]
  BY DEF TypeInv, TypeOK
<1>4. /\ worker' = [worker EXCEPT ![t] = worker'[t]] /\ worker'[t] \in Worker /\ Fit(t)'
  <2>1. CASE Raise(t)
    <3>1. worker' = [worker EXCEPT ![t] = worker'[t]]
          /\ worker'[t] = Restart("raised", 0)
      BY <2>1 DEF Raise, Idle, Restart, TypeInv, TypeOK
    <3>2. 0 \in 0..MaxAttempts + 1
      BY LimitAssumption
    <3>3. Restart("raised", 0) \in Worker /\ Restart("raised", 0).pc = "raised"
      BY <3>2, Restarting
    <3> QED  BY <3>1, <3>3 DEF Fit
  <2>2. CASE CommitFails(t)
    <3>1. Moves(t, "record") /\ Conclusive(worker'[t].outcome)
      BY <2>2, Deferring DEF CommitFails, Stalled
    <3> QED  BY <2>2, <3>1, Landing DEF CommitFails, Moves
  <2>3. CASE AdvanceFails(t)
    <3>1. Moves(t, "record") /\ Conclusive(worker'[t].outcome)
      BY <2>3, Judging DEF AdvanceFails, Verdicts
    <3> QED  BY <2>3, <3>1, Landing DEF AdvanceFails, Moves
  <2> QED  BY <2>1, <2>2, <2>3
<1> QED  BY <1>1, <1>2, <1>3, <1>4 DEF Others, Own, control, journal, disk

(* A worker starts where the journal says it is to start.                  *)
LEMMA Submitting == ASSUME TypeInv, NEW t \in Tasks, Submit(t) PROVE TypeInv'
<1> DEFINE p == proj[t]
           k == ResumePoint(t).attempt
           b == ResumePoint(t).resumed
           pc == IF k <= MaxAttempts THEN "start" ELSE "returned"
           v == worker'[t]
<1>1. p \in Projection
  BY DEF TypeInv, TypeOK, Projection
<1>2. k \in 0..MaxAttempts + 1 /\ b \in BOOLEAN /\ (b => work[t] # NoTree)
  <2>1. p.attempt \in 0..MaxAttempts /\ p.attempt + 1 \in 0..MaxAttempts + 1
        /\ p.attempt \in 0..MaxAttempts + 1
    BY <1>1, LimitAssumption DEF Projection
  <2>2. CASE p.verdict_attempt = p.attempt
    <3>1. k = p.attempt + 1 /\ b = FALSE
      BY <2>2 DEF ResumePoint
    <3> HIDE DEF p, k, b
    <3> QED  BY <2>1, <3>1
  <2>3. CASE p.verdict_attempt # p.attempt
    <3>1. k = p.attempt /\ b = (work[t] # NoTree /\ p.state \in RESUMABLE)
      BY <2>3 DEF ResumePoint
    <3> HIDE DEF p, k, b
    <3> QED  BY <2>1, <3>1
  <2> QED  BY <2>2, <2>3
<1>3. worker' = [worker EXCEPT ![t] = v]
      /\ v = [Idle EXCEPT !.pc = pc, !.attempt = k, !.resumed = b]
  BY DEF Submit, TypeInv, TypeOK
<1>4. /\ main \notin {"new", "dead", "finished"} /\ remaining' \subseteq Tasks
      /\ UNCHANGED <<main, verified, journal, disk, env>>
  BY DEF Submit, TypeInv, TypeOK
<1>5. pc \in {"start", "returned"} /\ (pc = "start" => k \in 0..MaxAttempts)
  BY <1>2, LimitAssumption
<1> HIDE DEF p, k, b, pc, v
<1>6. NoOutcome \in Outcome /\ 0 \in 0..MaxRepairs /\ "none" \in Handoffs
  BY LimitAssumption DEF NoOutcome, Outcome, Handoffs
<1>7. v = [pc |-> pc, attempt |-> k, resumed |-> b, repair |-> 0,
           handoff |-> "none", spoilt |-> FALSE, outcome |-> NoOutcome]
  BY <1>3 DEF Idle
<1>8. v.pc = pc /\ v.attempt = k
  BY <1>7
<1>9. v.resumed = b
  BY <1>7, Zenon
<1>10. pc \in PCs
  BY <1>5
<1>11. v \in Worker
  BY <1>2, <1>6, <1>7, <1>10 DEF Worker
<1>12. b => work[t] \subseteq Marks
  BY <1>2 DEF TypeInv, TypeOK
<1>13. TypeOK'
  BY <1>3, <1>4, <1>11 DEF TypeInv, TypeOK, Worker, journal, disk, env
<1>14. Quiet'
  BY <1>4 DEF Quiet
<1>15. ASSUME NEW u \in Tasks PROVE Fit(u)'
  <2>1. CASE u = t
    <3>1. work'[t] = work[t] /\ worker'[t].pc = pc /\ worker'[t].attempt = k
      BY <1>4, <1>8 DEF disk, v
    <3>2. worker'[t].resumed => work[t] \subseteq Marks
      BY <1>9, <1>12 DEF v
    <3> QED  BY <2>1, <3>1, <3>2, <1>5 DEF Fit, At
  <2>2. CASE u # t
    <3>1. worker'[u] = worker[u] /\ work'[u] = work[u]
      BY <1>3, <1>4, <2>2 DEF disk, TypeInv, TypeOK
    <3> QED  BY <3>1 DEF TypeInv, Fit, At
  <2> QED  BY <2>1, <2>2
<1> QED  BY <1>13, <1>14, <1>15 DEF TypeInv

(* The steps that put workers aside keep what the others have.             *)
LEMMA Leaving ==
  ASSUME TypeInv,
         main' \in {"new", "select", "unwind", "dead", "finished"},
         verified' \subseteq Tasks, remaining' \subseteq Tasks,
         NEW S \in SUBSET Tasks,
         worker' = [t \in Tasks |-> IF t \in S THEN Idle ELSE worker[t]],
         main' \in {"new", "dead", "finished"} =>
           S = Tasks \/ \A t \in Tasks : At(t, "idle"),
         UNCHANGED <<journal, disk>>,
         faults' \in 0..MaxFaults, resumes' \in 0..MaxResumes
  PROVE  TypeInv'
<1>1. Idle \in Worker /\ Idle.pc = "idle"
  BY LimitAssumption DEF Idle, Worker, NoOutcome, Outcome, Handoffs
<1>2. TypeOK'
  BY <1>1 DEF TypeInv, TypeOK, Worker, journal, disk
<1>3. Quiet'
  BY <1>1 DEF TypeInv, Quiet, At
<1>4. ASSUME NEW t \in Tasks PROVE Fit(t)'
  <2>1. worker'[t] = Idle \/ worker'[t] = worker[t]
    OBVIOUS
  <2> QED  BY <1>1, <2>1 DEF TypeInv, Fit, At, disk
<1> QED  BY <1>2, <1>3, <1>4 DEF TypeInv

LEMMA TypeInductive == TypeInv /\ [Next]_vars => TypeInv'
<1> SUFFICES ASSUME TypeInv, [Next]_vars PROVE TypeInv'
  OBVIOUS
<1>0. worker = [t \in Tasks |-> IF t \in {} THEN Idle ELSE worker[t]]
      /\ faults \in 0..MaxFaults /\ resumes \in 0..MaxResumes
      /\ main \in {"new", "select", "unwind", "dead", "finished"}
      /\ verified \subseteq Tasks /\ remaining \subseteq Tasks
  BY DEF TypeInv, TypeOK
<1>1. CASE Start \/ Resume
  <2>1. /\ main' = "select" /\ verified' \subseteq Tasks /\ remaining' \subseteq Tasks
        /\ UNCHANGED <<worker, journal, disk, faults>>
    BY <1>1 DEF Start, Resume, ResumeVerified, ResumeRemaining, env
  <2>2. resumes' \in 0..MaxResumes
    BY <1>0, <1>1, LimitAssumption DEF Start, Resume, env
  <2>3. worker' = [t \in Tasks |-> IF t \in {} THEN Idle ELSE worker[t]]
    BY <1>0, <2>1
  <2>4. UNCHANGED <<journal, disk>> /\ faults' \in 0..MaxFaults
    BY <1>0, <2>1
  <2>5. main' \in {"new", "select", "unwind", "dead", "finished"}
        /\ main' \notin {"new", "dead", "finished"}
    BY <2>1
  <2>6. {} \in SUBSET Tasks /\ verified' \subseteq Tasks /\ remaining' \subseteq Tasks
    BY <2>1
  <2> QED  BY <2>2, <2>3, <2>4, <2>5, <2>6, Leaving
<1>2. CASE \E t \in Tasks : Submit(t)
  BY <1>2, Submitting
<1>3. CASE Collect
  <2>1. /\ main' \in {"unwind", "select"} /\ verified' \subseteq Tasks
        /\ worker' = [t \in Tasks |-> IF t \in Ended THEN Idle ELSE worker[t]]
        /\ UNCHANGED <<remaining, journal, disk, env>> /\ Ended \in SUBSET Tasks
    BY <1>0, <1>3 DEF Collect, Succeeded, Ended
  <2> QED  BY <1>0, <2>1, Leaving DEF env
<1>4. CASE Unwind \/ Kill
  <2>1. /\ main' = "dead" /\ verified' = {} /\ remaining' = {}
        /\ worker' = [t \in Tasks |-> IF t \in Tasks THEN Idle ELSE worker[t]]
        /\ UNCHANGED <<journal, disk, resumes>>
    BY <1>4 DEF Unwind, Kill, Fault, env
  <2>2. faults' \in 0..MaxFaults
    BY <1>0, <1>4, LimitAssumption DEF Unwind, Kill, Fault, env
  <2> QED  BY <1>0, <2>1, <2>2, Leaving
<1>5. CASE Finish
  <2>1. /\ main' = "finished" /\ verified' = {} /\ remaining' = {}
        /\ UNCHANGED <<worker, journal, disk, env>> /\ main = "select"
    BY <1>5 DEF Finish
  <2>2. \A t \in Tasks : At(t, "idle")
    BY <1>5 DEF Finish, Running, At
  <2>3. worker' = [t \in Tasks |-> IF t \in {} THEN Idle ELSE worker[t]]
    BY <1>0, <2>1
  <2>4. UNCHANGED <<journal, disk>> /\ faults' = faults /\ resumes' = resumes
    BY <2>1 DEF env
  <2> QED  BY <1>0, <2>1, <2>2, <2>3, <2>4, Leaving
<1>6. CASE \E t \in Tasks : WorkerStep(t)
  BY <1>6, Attempting, OwnStep
<1>7. CASE \E t \in Tasks : Raise(t) \/ CommitFails(t) \/ AdvanceFails(t)
  BY <1>7, Failing, OwnStep
<1>8. CASE Purge
  <2>1. /\ main \in {"dead", "finished"} /\ UNCHANGED <<control, worker, journal, integ, resumes>>
        /\ work' = [t \in Tasks |-> NoTree] /\ outbox' = [t \in Tasks |-> Empty]
    BY <1>8 DEF Purge, Fault
  <2>2. faults' \in 0..MaxFaults
    BY <1>0, <1>8, LimitAssumption DEF Purge, Fault
  <2>3. Empty \in [0..MaxRepairs -> Handoffs]
    BY DEF Empty, Handoffs
  <2>4. TypeOK'
    BY <2>1, <2>2, <2>3 DEF TypeInv, TypeOK, control, journal
  <2>5. Quiet' /\ \A t \in Tasks : worker'[t].pc = "idle"
    BY <2>1 DEF TypeInv, Quiet, At, control
  <2>6. \A t \in Tasks : Fit(t)'
    BY <2>5 DEF Fit, At
  <2> QED  BY <2>4, <2>5, <2>6 DEF TypeInv
<1>9. CASE UNCHANGED vars
  BY <1>9 DEF vars, control, journal, disk, env, TypeInv, TypeOK, Quiet, Fit, At
<1> QED
  BY <1>1, <1>2, <1>3, <1>4, <1>5, <1>6, <1>7, <1>8, <1>9 DEF Next, MainStep, FaultStep, Over

LEMMA InitiallyTyped == Init => TypeInv
<1> SUFFICES ASSUME Init PROVE TypeInv
  OBVIOUS
<1>1. Idle \in Worker
  BY LimitAssumption DEF Idle, Worker, NoOutcome, Outcome, Handoffs
<1>2. TypeOK
  BY <1>1, LimitAssumption DEF Init, TypeOK, Worker, States, Empty, Handoffs
<1> QED  BY <1>2 DEF Init, TypeInv, Quiet, Fit, At, Idle

(* In every behaviour of Runner every variable has its type; in particular *)
(* no attempt goes beyond the limit of attempts.                           *)
THEOREM TypeCorrect == Spec => []TypeOK
<1>1. TypeInv => TypeOK
  BY DEF TypeInv
<1> QED  BY <1>1, InitiallyTyped, TypeInductive, PTL DEF Spec

-----------------------------------------------------------------------------
(* The integration branch.                                                 *)

HIDE DEF PCs, Housed, Trying

-----------------------------------------------------------------------------
(* Where the steps lead.                                                   *)

Goes(t, pc) == worker'[t].pc = pc /\ Repairs(t)
Rejects(t) == worker'[t].pc = "record" /\ worker'[t].outcome.verdict # "verified"
Fails(t) == Raise(t) \/ CommitFails(t) \/ AdvanceFails(t)

(* The control flow of an attempt: only the move of the branch, or its     *)
(* unnoticed failure, yields the verdict verified.                         *)
LEMMA Transition ==
  ASSUME TypeInv, NEW t \in Tasks
  PROVE  /\ StartAttempt(t) => Goes(t, "open") \/ Rejects(t)
         /\ Reuse(t) => Goes(t, "verify")
         /\ Open(t) => Goes(t, "dispatch")
         /\ Dispatch(t) => Goes(t, "prepare")
         /\ Prepare(t) => Goes(t, "budget") \/ Rejects(t)
         /\ CheckBudget(t) => Goes(t, "launch") \/ Rejects(t)
         /\ Launch(t) => Goes(t, "agent")
         /\ Agent(t) => Goes(t, "exited")
         /\ ImplementerFinished(t) => Goes(t, "verify") \/ Rejects(t)
         /\ RepairFinished(t) => Goes(t, "gate") \/ Rejects(t)
         /\ Verify(t) => (Goes(t, "gate") /\ Passes(t) /\ ~Violation(t)) \/ Rejects(t)
         /\ PassGate(t) => Goes(t, "merge")
         /\ RepairHandoff(t) => worker'[t].pc = "budget" \/ Rejects(t)
         /\ Merge(t) => Goes(t, "advance") \/ (Rejects(t) /\ UNCHANGED work)
         /\ AdvanceIntegration(t) \/ AdvanceFails(t) => worker'[t].pc = "record"
         /\ Record(t) => worker'[t].pc \in {"start", "close", "returned"}
                         /\ worker'[t].repair = 0
         /\ Close(t) => worker'[t].pc = "returned"
         /\ Raise(t) => worker'[t].pc = "raised"
         /\ CommitFails(t) => Rejects(t)
<1>0. /\ {"open", "dispatch", "prepare", "budget", "launch", "agent", "gate", "merge", "advance",
          "returned"} \subseteq PCs
      /\ {"rejected", "error", "blocked", "budget_exhausted"} \subseteq Verdicts \ {"verified"}
      /\ {"human_required", "needs_replan", "integration_conflict"} \subseteq Stalled
  BY DEF PCs, Verdicts, Stalled
<1>1. ASSUME NEW v \in Verdicts \ {"verified"}, Conclude(t, v, "null") PROVE Rejects(t)
  <2>1. worker'[t].pc = "record"
    BY <1>1, Judging DEF Moves
  <2>2. worker'[t].outcome = [verdict |-> v, next |-> "null"]
    BY <1>1, Judging
  <2> QED  BY <2>1, <2>2 DEF Rejects
<1>2. ASSUME NEW n \in Stalled, Conclude(t, "null", n) PROVE Rejects(t)
  <2>1. worker'[t].pc = "record"
    BY <1>2, Deferring DEF Moves
  <2>2. worker'[t].outcome = [verdict |-> "null", next |-> n]
    BY <1>2, Deferring
  <2> QED  BY <2>1, <2>2 DEF Rejects
<1>3. ASSUME NEW pc \in PCs, Goto(t, pc) PROVE Goes(t, pc)
  BY <1>3, Going DEF Goes, Moves
<1>4. ASSUME NEW pc \in {"verify", "gate"}, NEW h \in Handoffs,
             worker' = [worker EXCEPT ![t].pc = pc, ![t].handoff = h]
      PROVE  Goes(t, pc)
  BY <1>4, Receiving DEF Goes, Moves
<1>5. outbox[t][0] \in Handoffs /\ outbox[t][worker[t].repair] \in Handoffs
  <2>1. outbox[t] \in [0..MaxRepairs -> Handoffs] /\ worker[t].repair \in 0..MaxRepairs
    BY DEF TypeInv, TypeOK
  <2> QED  BY <2>1, LimitAssumption
<1>6. /\ StartAttempt(t) => Goes(t, "open") \/ Rejects(t)
      /\ Open(t) => Goes(t, "dispatch")
      /\ Dispatch(t) => Goes(t, "prepare")
      /\ CheckBudget(t) => Goes(t, "launch") \/ Rejects(t)
      /\ Launch(t) => Goes(t, "agent")
      /\ PassGate(t) => Goes(t, "merge")
      /\ CommitFails(t) => Rejects(t)
  <2>1. /\ StartAttempt(t) => Goes(t, "open") \/ Rejects(t)
        /\ CheckBudget(t) => Goes(t, "launch") \/ Rejects(t)
    BY <1>0, <1>1, <1>3 DEF StartAttempt, CheckBudget
  <2>2. /\ Open(t) => Goes(t, "dispatch")
        /\ Dispatch(t) => Goes(t, "prepare")
        /\ Launch(t) => Goes(t, "agent")
        /\ PassGate(t) => Goes(t, "merge")
    BY <1>0, <1>3 DEF Open, Dispatch, Launch, PassGate
  <2>3. CommitFails(t) => Rejects(t)
    BY <1>0, <1>2 DEF CommitFails
  <2> QED  BY <2>1, <2>2, <2>3
<1>7. Prepare(t) => Goes(t, "budget") \/ Rejects(t)
  <2>1. ASSUME Prepare(t)
        PROVE  \/ Conclude(t, "blocked", "null") \/ Conclude(t, "error", "null")
               \/ Conclude(t, "null", "needs_replan") \/ Goto(t, "budget")
    BY <2>1 DEF Prepare
  <2> QED  BY <1>0, <1>1, <1>2, <1>3, <2>1
<1>8. Verify(t) => (Goes(t, "gate") /\ Passes(t) /\ ~Violation(t)) \/ Rejects(t)
  <2>1. ASSUME Verify(t)
        PROVE  \/ Conclude(t, "null", "needs_replan") \/ Conclude(t, "rejected", "null")
               \/ Conclude(t, "blocked", "null")
               \/ Passes(t) /\ ~Violation(t) /\ Goto(t, "gate")
    BY <2>1 DEF Verify
  <2> QED  BY <1>0, <1>1, <1>2, <1>3, <2>1
<1>9. /\ Reuse(t) => Goes(t, "verify")
      /\ ImplementerFinished(t) => Goes(t, "verify") \/ Rejects(t)
      /\ RepairFinished(t) => Goes(t, "gate") \/ Rejects(t)
  BY <1>0, <1>1, <1>4, <1>5 DEF Reuse, ImplementerFinished, RepairFinished
<1>10. Agent(t) => Goes(t, "exited")
  BY Exiting DEF Agent, Goes, Moves
<1>11. RepairHandoff(t) => worker'[t].pc = "budget" \/ Rejects(t)
  <2>1. worker[t].repair + 1 <= MaxRepairs => worker[t].repair + 1 \in 0..MaxRepairs
    BY LimitAssumption DEF TypeInv, TypeOK
  <2>2. ASSUME worker[t].repair + 1 <= MaxRepairs,
               worker' = [worker EXCEPT ![t].pc = "budget", ![t].repair = worker[t].repair + 1,
                                        ![t].spoilt = FALSE]
        PROVE  worker'[t].pc = "budget"
    BY <2>1, <2>2, Repairing DEF Moves
  <2> QED  BY <1>0, <1>1, <1>2, <2>2 DEF RepairHandoff
<1>12. Merge(t) => Goes(t, "advance") \/ (Rejects(t) /\ UNCHANGED work)
  <2>1. ASSUME Merge(t)
        PROVE  Goto(t, "advance") \/ (Conclude(t, "null", "integration_conflict") /\ UNCHANGED work)
    BY <2>1 DEF Merge
  <2> QED  BY <1>0, <1>2, <1>3, <2>1
<1>13. AdvanceIntegration(t) \/ AdvanceFails(t) => worker'[t].pc = "record"
  BY Judging DEF AdvanceIntegration, AdvanceFails, Moves, Verdicts
<1>14. Record(t) => worker'[t].pc \in {"start", "close", "returned"} /\ worker'[t].repair = 0
  <2> DEFINE next == NextState(worker[t].outcome, worker[t].attempt)
             m == worker[t].attempt + 1
  <2>1. ASSUME Record(t)
        PROVE  worker' = [worker EXCEPT ![t] =
                 IF next = "ready" THEN [Idle EXCEPT !.pc = "start", !.attempt = m]
                 ELSE [Idle EXCEPT !.pc = IF next = "done" THEN "close" ELSE "returned"]]
    BY <2>1 DEF Record
  <2> HIDE DEF next, m
  <2>2. ASSUME Record(t), next = "ready" PROVE worker'[t].pc = "start" /\ worker'[t].repair = 0
    <3>1. worker'[t] = [Idle EXCEPT !.pc = "start", !.attempt = m]
      BY <2>1, <2>2 DEF TypeInv, TypeOK
    <3> QED  BY <3>1 DEF Idle
  <2>3. ASSUME Record(t), next = "done" PROVE worker'[t].pc = "close" /\ worker'[t].repair = 0
    BY <2>1, <2>3 DEF Idle, TypeInv, TypeOK
  <2>4. ASSUME Record(t), next # "ready", next # "done"
        PROVE  worker'[t].pc = "returned" /\ worker'[t].repair = 0
    BY <2>1, <2>4 DEF Idle, TypeInv, TypeOK
  <2> QED  BY <2>2, <2>3, <2>4
<1>15. Close(t) => worker'[t].pc = "returned"
  BY <1>0, <1>3 DEF Close, Goes
<1>16. Raise(t) => worker'[t].pc = "raised"
  BY DEF Raise, Idle, TypeInv, TypeOK
<1> QED  BY <1>6, <1>7, <1>8, <1>9, <1>10, <1>11, <1>12, <1>13, <1>14, <1>15, <1>16

(* The steps that are no worker's: they only put workers aside or start    *)
(* them, and a worktree is lost only while none is under way.              *)
Aside(t) == worker'[t].pc \in {"idle", "start", "returned"} /\ worker'[t].repair = 0

LEMMA OtherSteps ==
  ASSUME TypeInv, [Next]_vars, ~\E t \in Tasks : WorkerStep(t) \/ Fails(t)
  PROVE  /\ UNCHANGED <<journal, integ>>
         /\ \A t \in Tasks : Aside(t) \/ worker'[t] = worker[t]
         /\ UNCHANGED work \/ \A t \in Tasks : worker'[t].pc = "idle"
<1>0. Idle.pc = "idle" /\ Idle.repair = 0
  BY DEF Idle
<1>1. CASE Start \/ Resume \/ Finish
  BY <1>1 DEF Start, Resume, Finish, disk
<1>2. ASSUME NEW t \in Tasks, Submit(t) PROVE UNCHANGED <<journal, disk>> /\ \A u \in Tasks : Aside(u) \/ worker'[u] = worker[u]
  <2>1. UNCHANGED <<journal, disk>>
    BY <1>2 DEF Submit
  <2>2. \A u \in Tasks : u # t => worker'[u] = worker[u]
    BY <1>2 DEF Submit, TypeInv, TypeOK
  <2>3. Aside(t)
    <3> DEFINE pc == IF ResumePoint(t).attempt <= MaxAttempts THEN "start" ELSE "returned"
               k == ResumePoint(t).attempt
               b == ResumePoint(t).resumed
    <3>1. worker'[t] = [Idle EXCEPT !.pc = pc, !.attempt = k, !.resumed = b]
      BY <1>2 DEF Submit, TypeInv, TypeOK
    <3>2. pc \in {"start", "returned"}
      OBVIOUS
    <3> HIDE DEF pc, k, b
    <3> QED  BY <3>1, <3>2 DEF Idle, Aside
  <2> QED  BY <2>1, <2>2, <2>3
<1>3. CASE Collect \/ Unwind \/ Kill
  <2>1. UNCHANGED <<journal, disk>> /\ \A t \in Tasks : worker'[t] \in {Idle, worker[t]}
    BY <1>3 DEF Collect, Unwind, Kill
  <2> QED  BY <1>0, <2>1 DEF Aside, disk
<1>4. CASE Purge
  <2>1. \A t \in Tasks : worker[t].pc = "idle"
    BY <1>4 DEF Purge, Fault, TypeInv, Quiet, At
  <2> QED  BY <1>4, <2>1 DEF Purge
<1>5. CASE UNCHANGED vars
  BY <1>5 DEF vars, disk
<1> QED  BY <1>1, <1>2, <1>3, <1>4, <1>5 DEF Next, MainStep, FaultStep, Fails, Over, disk

-----------------------------------------------------------------------------
(* What is merged stays merged.                                            *)

\* One worker at most is between its merge and the move of the branch, and
\* the branch has not moved since that merge.
Lock == \A t, u \in Tasks : At(t, "advance") /\ At(u, "advance") => t = u
Fresh == \A t \in Tasks : At(t, "advance") => integ \subseteq work[t]
LockInv == TypeInv /\ Lock /\ Fresh

(* The lock is what makes the blind move of the branch safe: whoever moves *)
(* it has merged the tip it replaces.                                      *)
LEMMA LockStep ==
  ASSUME LockInv, NEW t \in Tasks, WorkerStep(t) \/ Fails(t)
  PROVE  Lock' /\ Fresh' /\ integ \subseteq integ'
<1>1. Others(t)
  BY Attempting, Failing DEF LockInv, Fails
<1>2. \A u \in Tasks : u # t => worker'[u] = worker[u] /\ work'[u] = work[u]
  BY <1>1 DEF Others, LockInv, TypeInv, TypeOK
<1>3. TypeInv
  BY DEF LockInv
<1>4. CASE Merge(t)
  <2>1. integ' = integ /\ \A u \in Tasks : ~At(u, "advance")
    BY <1>4 DEF Merge, LockFree
  <2>2. \A u \in Tasks : At(u, "advance")' => u = t
    BY <1>2, <2>1 DEF At
  <2>3. At(t, "advance")' => work'[t] = work[t] \cup integ
    <3>1. ASSUME Conclude(t, "null", "integration_conflict") PROVE worker'[t].pc = "record"
      BY <1>3, <3>1, Deferring DEF Stalled, Moves
    <3> QED  BY <1>3, <1>4, <3>1 DEF Merge, Merged, At, TypeInv, TypeOK
  <2> QED  BY <2>1, <2>2, <2>3 DEF Lock, Fresh
<1>5. CASE AdvanceIntegration(t)
  <2>1. integ' = work[t] /\ At(t, "advance") /\ worker'[t].pc = "record"
    BY <1>3, <1>5, Transition DEF AdvanceIntegration
  <2>2. \A u \in Tasks : ~At(u, "advance")'
    BY <1>2, <2>1 DEF LockInv, Lock, At
  <2> QED  BY <2>1, <2>2 DEF LockInv, Lock, Fresh
<1>6. CASE ~Merge(t) /\ ~AdvanceIntegration(t)
  <2>1. worker'[t].pc # "advance"
    BY <1>3, <1>6, Transition DEF WorkerStep, Fails, Goes, Rejects
  <2>2. integ' = integ
    BY <1>6 DEF WorkerStep, Fails, StartAttempt, Reuse, Open, Dispatch, Prepare, CheckBudget,
                Launch, Agent, ImplementerFinished, RepairFinished, Exited, Verify, PassGate,
                RepairHandoff, Record, Close, Raise, CommitFails, AdvanceFails, disk
  <2> QED  BY <1>2, <2>1, <2>2 DEF LockInv, Lock, Fresh, At
<1> QED  BY <1>4, <1>5, <1>6

LEMMA LockInductive == LockInv /\ [Next]_vars => LockInv' /\ integ \subseteq integ'
<1> SUFFICES ASSUME LockInv, [Next]_vars PROVE LockInv' /\ integ \subseteq integ'
  OBVIOUS
<1>1. TypeInv /\ TypeInv'
  BY TypeInductive DEF LockInv
<1>2. CASE \E t \in Tasks : WorkerStep(t) \/ Fails(t)
  BY <1>1, <1>2, LockStep DEF LockInv
<1>3. CASE ~\E t \in Tasks : WorkerStep(t) \/ Fails(t)
  <2>1. /\ UNCHANGED integ
        /\ \A t \in Tasks : Aside(t) \/ worker'[t] = worker[t]
        /\ UNCHANGED work \/ \A t \in Tasks : worker'[t].pc = "idle"
    BY <1>1, <1>3, OtherSteps
  <2>2. \A t \in Tasks : At(t, "advance")' => At(t, "advance") /\ work' = work
    BY <2>1 DEF Aside, At
  <2> QED  BY <1>1, <2>1, <2>2 DEF LockInv, Lock, Fresh
<1> QED  BY <1>2, <1>3

LEMMA LockInitially == Init => LockInv
<1> SUFFICES ASSUME Init PROVE LockInv
  OBVIOUS
<1>1. TypeInv
  BY InitiallyTyped
<1> QED  BY <1>1 DEF Init, LockInv, Lock, Fresh, At, Idle

(* Merges of several workers, and a branch that is moved without a look at *)
(* where it was, never lose merged work: docs/05 "integration is always    *)
(* serial".                                                                *)
THEOREM MergedWorkIsKept == Spec => IntegrationKeepsWork
<1>1. LockInv /\ [Next]_vars => LockInv' /\ [integ \subseteq integ']_vars
  BY LockInductive
<1> QED  BY <1>1, LockInitially, PTL DEF Spec, IntegrationKeepsWork

-----------------------------------------------------------------------------
(* What is verified is merged.                                             *)

\* The points after the evidence was judged, a repair of the handoff included.
Judged(t) == \/ worker[t].pc \in {"gate", "merge", "advance"}
             \/ worker[t].pc \in {"budget", "launch", "agent", "exited"} /\ worker[t].repair # 0

Proven(t) == Judged(t) => Passes(t)
FirstCall(t) == worker[t].pc \in {"start", "open", "dispatch", "prepare"} => worker[t].repair = 0
Reported(t) == At(t, "record") /\ worker[t].outcome.verdict = "verified" => Integrated(t)
DoneMerged(t) == Done(t) => Integrated(t)

(* An attempt that passed the judgement keeps a tree that passes: a repair *)
(* only adds, and so does the merge.  So what is recorded as verified is   *)
(* on the branch, and nothing is taken off the branch.                     *)
EvidenceInv == LockInv /\ \A t \in Tasks : Proven(t) /\ FirstCall(t) /\ Reported(t) /\ DoneMerged(t)

LEMMA KeepsPassing ==
  ASSUME TypeInv, NEW t \in Tasks, Proven(t), FirstCall(t), WorkerStep(t) \/ Fails(t)
  PROVE  Proven(t)' /\ FirstCall(t)'
<1>0. TypeInv /\ Proven(t) /\ FirstCall(t)
  OBVIOUS
<1>1. CASE Open(t) \/ Close(t) \/ Record(t) \/ Reuse(t) \/ Raise(t) \/ StartAttempt(t) \/ Dispatch(t)
           \/ Prepare(t) \/ ImplementerFinished(t) \/ AdvanceIntegration(t) \/ AdvanceFails(t)
           \/ CommitFails(t)
  <2>1. worker'[t].pc \in {"dispatch", "returned", "start", "close", "verify", "raised", "open",
                           "prepare", "budget", "record"}
    BY <1>0, <1>1, Transition DEF Goes, Rejects
  <2>2. worker'[t].pc \in {"start", "dispatch", "open", "prepare", "budget"} => worker'[t].repair = 0
    BY <1>0, <1>1, Transition DEF Goes, Rejects, Repairs, FirstCall, Open, StartAttempt, Dispatch,
                                  Prepare, Reuse, At
  <2> QED  BY <2>1, <2>2 DEF Proven, FirstCall, Judged
<1>2. CASE Verify(t)
  <2>1. work' = work /\ ((worker'[t].pc = "gate" /\ Passes(t)) \/ worker'[t].pc = "record")
    BY <1>0, <1>2, Transition DEF Verify, Goes, Rejects, disk
  <2> QED  BY <2>1 DEF Proven, FirstCall, Judged, Passes
<1>3. CASE PassGate(t) \/ RepairHandoff(t)
  <2>1. work' = work /\ worker'[t].pc \in {"merge", "budget", "record"} /\ Passes(t)
    BY <1>0, <1>3, Transition DEF PassGate, RepairHandoff, Goes, Rejects, disk, Proven, Judged, At
  <2> QED  BY <2>1 DEF Proven, FirstCall, Judged, Passes
<1>4. CASE CheckBudget(t) \/ Launch(t) \/ RepairFinished(t)
  <2>1. work' = work /\ (worker[t].repair # 0 => Passes(t))
    BY <1>0, <1>4 DEF CheckBudget, Launch, RepairFinished, Exited, disk, Proven, Judged, At
  <2>2. \/ worker'[t].pc \in {"launch", "agent", "record"} /\ worker'[t].repair = worker[t].repair
        \/ worker'[t].pc = "record"
        \/ worker'[t].pc = "gate" /\ worker[t].repair # 0
    <3>1. RepairFinished(t) => worker[t].repair # 0
      BY DEF RepairFinished
    <3> QED  BY <1>0, <1>4, <3>1, Transition DEF Goes, Rejects, Repairs
  <2> QED  BY <2>1, <2>2 DEF Proven, FirstCall, Judged, Passes
<1>5. CASE Agent(t)
  <2>1. Goes(t, "exited")
    BY <1>0, <1>5, Transition
  <2>2. Passes(t) => Passes(t)'
    BY <1>0, <1>5 DEF Agent, Passes, TypeInv, TypeOK
  <2>3. worker[t].repair # 0 => Passes(t)
    BY <1>0, <1>5 DEF Agent, Proven, Judged, At
  <2> QED  BY <2>1, <2>2, <2>3 DEF Goes, Repairs, Proven, FirstCall, Judged
<1>6. CASE Merge(t)
  <2>1. worker'[t].pc \in {"advance", "record"}
    BY <1>0, <1>6, Transition DEF Goes, Rejects
  <2>2. Passes(t)
    BY <1>0, <1>6 DEF Merge, Proven, Judged, At
  <2>3. Passes(t)'
    BY <1>0, <1>6, <2>2 DEF Merge, Merged, Passes, TypeInv, TypeOK
  <2> QED  BY <2>1, <2>3 DEF Proven, FirstCall, Judged
<1> QED  BY <1>1, <1>2, <1>3, <1>4, <1>5, <1>6 DEF WorkerStep, Fails

LEMMA ReportsMerged ==
  ASSUME EvidenceInv, "advance" \notin Faults, NEW t \in Tasks, WorkerStep(t) \/ Fails(t)
  PROVE  Reported(t)' /\ DoneMerged(t)'
<1>0. /\ TypeInv /\ Proven(t) /\ Reported(t) /\ DoneMerged(t) /\ integ \subseteq integ'
      /\ ~AdvanceFails(t)
  BY LockStep DEF EvidenceInv, LockInv, AdvanceFails, Fault
<1>1. CASE AdvanceIntegration(t)
  <2>1. <<t, "good">> \in integ' /\ proj' = proj
    BY <1>0, <1>1 DEF AdvanceIntegration, Proven, Judged, Passes, At, journal
  <2> QED  BY <2>1 DEF Reported, DoneMerged, Integrated
<1>2. CASE Record(t)
  <2> DEFINE next == NextState(worker[t].outcome, worker[t].attempt)
  <2>1. proj'[t].state = next /\ At(t, "record") /\ integ' = integ
        /\ worker'[t].pc \in {"start", "close", "returned"}
    BY <1>0, <1>2, Transition DEF Record, TypeInv, TypeOK, disk
  <2>2. next = "done" => worker[t].outcome.verdict = "verified"
    <3>1. Conclusive(worker[t].outcome) /\ worker[t].attempt \in 0..MaxAttempts
      BY <1>0, <2>1 DEF TypeInv, Fit, At, Trying
    <3> QED  BY <3>1, Concluded
  <2> HIDE DEF next
  <2>3. Done(t)' => Integrated(t)'
    BY <1>0, <2>1, <2>2 DEF Done, Reported, Integrated
  <2>4. ~At(t, "record")'
    BY <2>1 DEF At
  <2> QED  BY <2>3, <2>4 DEF Reported, DoneMerged
<1>3. CASE ~AdvanceIntegration(t) /\ ~Record(t)
  <2>1. At(t, "record")' => worker'[t].outcome.verdict # "verified"
    BY <1>0, <1>3, Transition DEF WorkerStep, Fails, Goes, Rejects, At
  <2>2. Done(t)' => Done(t)
    <3>1. \A s \in States : Enter(t, s) => proj'[t].state = s
      BY <1>0, Entering
    <3>2. {"running", "executed", "verifying", "repairing"} \subseteq States \ {"done"}
      BY DEF States, RESUMABLE
    <3>3. CASE Dispatch(t)
      BY <1>0, <3>3 DEF Dispatch, Done, TypeInv, TypeOK
    <3>4. CASE Launch(t) \/ ImplementerFinished(t) \/ RepairFinished(t) \/ Verify(t) \/ RepairHandoff(t)
      BY <3>1, <3>2, <3>4 DEF Launch, ImplementerFinished, RepairFinished, Exited, Verify,
                              RepairHandoff, Done
    <3>5. CASE \/ StartAttempt(t) \/ Reuse(t) \/ Open(t) \/ Prepare(t) \/ CheckBudget(t) \/ Agent(t)
               \/ PassGate(t) \/ Merge(t) \/ Close(t) \/ Raise(t) \/ CommitFails(t)
      BY <3>5 DEF StartAttempt, Reuse, Open, Prepare, CheckBudget, Agent, PassGate, Merge, Close,
                  Raise, CommitFails, Done, journal
    <3> QED  BY <1>0, <1>3, <3>3, <3>4, <3>5 DEF WorkerStep, Fails
  <2> QED  BY <1>0, <2>1, <2>2 DEF Reported, DoneMerged, Integrated
<1> QED  BY <1>1, <1>2, <1>3

LEMMA EvidenceInductive ==
  "advance" \notin Faults => (EvidenceInv /\ [Next]_vars => EvidenceInv')
<1> SUFFICES ASSUME "advance" \notin Faults, EvidenceInv, [Next]_vars PROVE EvidenceInv'
  OBVIOUS
<1>1. LockInv' /\ integ \subseteq integ' /\ TypeInv
  BY LockInductive DEF EvidenceInv, LockInv
<1>2. ASSUME NEW t \in Tasks, WorkerStep(t) \/ Fails(t), NEW u \in Tasks
      PROVE  Proven(u)' /\ FirstCall(u)' /\ Reported(u)' /\ DoneMerged(u)'
  <2>1. CASE u = t
    BY <1>1, <1>2, <2>1, KeepsPassing, ReportsMerged DEF EvidenceInv
  <2>2. CASE u # t
    <3>1. worker'[u] = worker[u] /\ work'[u] = work[u] /\ proj'[u] = proj[u]
      BY <1>1, <1>2, <2>2, Attempting, Failing DEF Fails, Others, TypeInv, TypeOK
    <3>2. Proven(u) /\ FirstCall(u) /\ Reported(u) /\ DoneMerged(u)
      BY DEF EvidenceInv
    <3> QED  BY <1>1, <3>1, <3>2 DEF Proven, FirstCall, Reported, DoneMerged, Judged, Passes, At,
                                     Done, Integrated
  <2> QED  BY <2>1, <2>2
<1>3. ASSUME ~\E t \in Tasks : WorkerStep(t) \/ Fails(t), NEW u \in Tasks
      PROVE  Proven(u)' /\ FirstCall(u)' /\ Reported(u)' /\ DoneMerged(u)'
  <2>1. /\ proj' = proj /\ integ' = integ
        /\ Aside(u) \/ worker'[u] = worker[u]
        /\ work' = work \/ worker'[u].pc = "idle"
    BY <1>1, <1>3, OtherSteps DEF journal
  <2>2. Proven(u) /\ FirstCall(u) /\ Reported(u) /\ DoneMerged(u)
    BY DEF EvidenceInv
  <2> QED  BY <2>1, <2>2 DEF Proven, FirstCall, Reported, DoneMerged, Judged, Passes, At, Aside,
                             Done, Integrated
<1> QED  BY <1>1, <1>2, <1>3 DEF EvidenceInv

LEMMA EvidenceInitially == Init => EvidenceInv
<1> SUFFICES ASSUME Init PROVE EvidenceInv
  OBVIOUS
<1>1. \A t \in Tasks : worker[t].pc = "idle" /\ proj[t].state = "pending"
  BY DEF Init, Idle
<1> QED  BY <1>1, LockInitially DEF EvidenceInv, Proven, FirstCall, Reported, DoneMerged, Judged,
                                    At, Done

(* As long as the branch can be moved, no crash, retry or resume makes a   *)
(* task verified whose work is not merged: docs/05 "verdict verified is    *)
(* recorded only after the merge succeeds".                                *)
THEOREM VerifiedIsMerged == "advance" \notin Faults => (Spec => []DoneIsIntegrated)
<1> SUFFICES ASSUME "advance" \notin Faults PROVE Spec => []DoneIsIntegrated
  OBVIOUS
<1>1. EvidenceInv => DoneIsIntegrated
  BY DEF EvidenceInv, DoneMerged, DoneIsIntegrated
<1> QED  BY <1>1, EvidenceInitially, EvidenceInductive, PTL DEF Spec

-----------------------------------------------------------------------------
(* What is merged is proven.                                               *)

\* Every mark of the tree is of a task whose criteria pass in it, and none
\* lies outside the allowed paths.
Sound(tree) == \A m \in tree : m[2] \in {"good", "late"} /\ <<m[1], "good">> \in tree

\* What is not the task's own is sound, and its own work is not both.
Clean(t) == /\ \A m \in work[t] : m[1] # t => m[2] \in {"good", "late"}
                                              /\ <<m[1], "good">> \in work[t]
            /\ ~(<<t, "good">> \in work[t] /\ <<t, "bad">> \in work[t])

Whole(t) == worker[t].pc \in {"dispatch", "prepare", "budget", "launch", "agent"} \/ Judged(t)
              => Sound(work[t])
Untouched(t) == worker[t].pc \in {"budget", "launch", "agent"} /\ worker[t].repair = 0
                  => <<t, "good">> \notin work[t]
Branched(t) == /\ base[t] \subseteq Marks => Sound(base[t])
               /\ work[t] \subseteq Marks => Clean(t)
Vetted(t) == Proven(t) /\ FirstCall(t) /\ Whole(t) /\ Untouched(t) /\ Branched(t)

(* A tree is sound when it is branched, spoilt at most by the one call of  *)
(* the implementer, and sound again once the attempt passes the judgement. *)
VettedInv == TypeInv /\ Sound(integ) /\ \A t \in Tasks : Vetted(t)

LEMMA NoTreeHasNoMarks == ~(NoTree \subseteq Marks)
  BY DEF NoTree, Marks

LEMMA Union == ASSUME NEW S, NEW T, Sound(S), Sound(T) PROVE Sound(S \cup T)
  BY DEF Sound

LEMMA SoundIsClean == ASSUME NEW t \in Tasks, Sound(work[t]) PROVE Clean(t)
<1>1. <<t, "bad">> \notin work[t]
  BY DEF Sound
<1> QED  BY <1>1 DEF Sound, Clean

(* The judgement: with a sound base, no path outside the allowed ones in   *)
(* the diff and criteria that pass, the tree is sound.                     *)
LEMMA JudgedIsSound ==
  ASSUME NEW t \in Tasks, work[t] \subseteq Marks, Branched(t), base[t] \in Trees,
         Passes(t), ~Violation(t)
  PROVE  Sound(work[t])
<1>1. Clean(t)
  BY DEF Branched
<1>2. SUFFICES ASSUME NEW m \in work[t] PROVE m[2] \in {"good", "late"} /\ <<m[1], "good">> \in work[t]
  BY DEF Sound
<1>3. m \in Tasks \X {"good", "bad", "out", "late"}
  BY DEF Marks
<1>4. m = <<m[1], m[2]>> /\ m[2] \in {"good", "bad", "out", "late"}
  BY <1>3
<1>5. CASE m[1] # t
  BY <1>1, <1>5 DEF Clean
<1>6. CASE m[1] = t
  <2>1. <<m[1], "good">> \in work[t]
    BY <1>6 DEF Passes
  <2>2. m[2] # "bad"
    BY <1>1, <1>4, <1>6, <2>1 DEF Clean
  <2>3. m[2] # "out"
    <3>1. CASE m \in base[t]
      <4>1. base[t] # NoTree => Sound(base[t])
        BY DEF Branched, Trees
      <4>2. base[t] # NoTree
        <5>1. NoTree = {<<>>} /\ <<>> \notin Marks
          BY NoTreeHasNoMarks DEF NoTree
        <5> QED  BY <3>1, <5>1
      <4> QED  BY <3>1, <4>1, <4>2 DEF Sound
    <3>2. CASE m \notin base[t]
      BY <3>2 DEF Violation, Diff
    <3> QED  BY <3>1, <3>2
  <2> QED  BY <1>4, <2>1, <2>2, <2>3
<1> QED  BY <1>5, <1>6

LEMMA VettedStep ==
  ASSUME VettedInv, NEW t \in Tasks, WorkerStep(t) \/ Fails(t)
  PROVE  Sound(integ)' /\ Vetted(t)'
<1>0. /\ TypeInv /\ TypeInv' /\ Sound(integ) /\ Vetted(t)
      /\ base[t] \in Trees /\ Proven(t)' /\ FirstCall(t)'
  BY TypeInductive, KeepsPassing DEF VettedInv, Vetted, Next, FaultStep, Fails, TypeInv, TypeOK, Trees
<1>1. CASE Raise(t) \/ Close(t) \/ Record(t)
  <2>1. worker'[t].pc \in {"raised", "returned", "start", "close"} /\ base' = base /\ integ' = integ
    BY <1>0, <1>1, Transition DEF Raise, Close, Record, journal, disk
  <2>2. work'[t] = work[t] \/ work'[t] = NoTree
    BY <1>0, <1>1 DEF Raise, Close, Record, disk, TypeInv, TypeOK
  <2>3. Branched(t)'
    BY <1>0, <2>1, <2>2, NoTreeHasNoMarks DEF Vetted, Branched, Clean
  <2> QED  BY <1>0, <2>1, <2>3 DEF Vetted, Whole, Untouched, Judged
<1>2. CASE Open(t)
  <2>1. worker'[t].pc = "dispatch" /\ work'[t] = integ /\ base' = base /\ integ' = integ
    BY <1>0, <1>2, Transition DEF Open, Goes, journal, TypeInv, TypeOK
  <2>2. Sound(work[t])'
    BY <1>0, <2>1 DEF Sound
  <2>3. Clean(t)'
    <3>1. <<t, "bad">> \notin integ
      BY <1>0 DEF Sound
    <3> QED  BY <1>0, <2>1, <3>1 DEF Sound, Clean
  <2> QED  BY <1>0, <2>1, <2>2, <2>3 DEF Vetted, Whole, Untouched, Branched, Judged
<1>3. CASE Dispatch(t)
  <2>1. /\ worker'[t].pc = "prepare" /\ work' = work /\ integ' = integ
        /\ base'[t] = work[t] /\ Sound(work[t])
    BY <1>0, <1>3, Transition DEF Dispatch, HeadOf, Goes, Vetted, Whole, At, TypeInv, TypeOK
  <2> QED  BY <1>0, <2>1 DEF Vetted, Whole, Untouched, Branched, Judged, Clean, Sound
<1>4. CASE Agent(t)
  <2>1. worker'[t].pc = "exited" /\ worker'[t].repair = worker[t].repair
        /\ base' = base /\ integ' = integ /\ Sound(work[t]) /\ work[t] \subseteq Marks
    BY <1>0, <1>4, Transition DEF Agent, Goes, Repairs, Vetted, Whole, At, journal, TypeInv, Fit, Housed
  <2>2. PICK q \in Writes(t) : work'[t] = work[t] \cup Left(t, q)
    BY <1>0, <1>4 DEF Agent, TypeInv, TypeOK
  <2>3. CASE worker[t].repair = 0
    <3>1. <<t, "good">> \notin work[t]
      BY <1>0, <1>4, <2>3 DEF Agent, Vetted, Untouched, At
    <3>2. \A m \in Left(t, q) : m[1] = t
      BY DEF Left
    <3>3. <<t, "good">> \notin Left(t, q) \/ <<t, "bad">> \notin Left(t, q)
      BY DEF Left
    <3>4. <<t, "bad">> \notin work[t]
      BY <2>1 DEF Sound
    <3>5. Clean(t)'
      BY <2>1, <2>2, <3>1, <3>2, <3>3, <3>4 DEF Clean, Sound
    <3> QED  BY <1>0, <2>1, <2>3, <3>5 DEF Vetted, Whole, Untouched, Branched, Judged
  <2>4. CASE worker[t].repair # 0
    <3>1. <<t, "good">> \in work[t]
      BY <1>0, <1>4, <2>4 DEF Agent, Vetted, Proven, Judged, Passes, At
    <3>2. Left(t, q) \subseteq {<<t, "late">>}
      <4>1. q = "nothing" \/ q = "late"
        BY <2>2, <2>4 DEF Writes
      <4> QED  BY <4>1 DEF Left
    <3>3. Sound(work[t])'
      <4>1. work'[t] \subseteq work[t] \cup {<<t, "late">>} /\ work[t] \subseteq work'[t]
        BY <2>2, <3>2
      <4>2. \A m \in work[t] \cup {<<t, "late">>} :
              m[2] \in {"good", "late"} /\ <<m[1], "good">> \in work[t]
        <5>1. ASSUME NEW m \in work[t] PROVE m[2] \in {"good", "late"} /\ <<m[1], "good">> \in work[t]
          BY <2>1 DEF Sound
        <5>2. <<t, "late">>[1] = t /\ <<t, "late">>[2] = "late"
          OBVIOUS
        <5> QED  BY <3>1, <5>1, <5>2
      <4> QED  BY <4>1, <4>2 DEF Sound
    <3>4. Clean(t)'
      BY <3>3 DEF Clean, Sound
    <3> QED  BY <1>0, <2>1, <3>3, <3>4 DEF Vetted, Whole, Untouched, Branched
  <2> QED  BY <2>3, <2>4
<1>5. CASE Merge(t)
  <2>1. /\ base' = base /\ integ' = integ /\ worker'[t].pc \in {"advance", "record"}
        /\ work[t] \subseteq Marks /\ Sound(work[t])
    BY <1>0, <1>5, Transition DEF Merge, Goes, Rejects, Vetted, Whole, Judged, At, journal, TypeInv,
                                  Fit, Housed
  <2>2. work'[t] = work[t] \cup integ \/ work'[t] = work[t]
    BY <1>0, <1>5 DEF Merge, Merged, TypeInv, TypeOK
  <2>3. Sound(work[t])'
    BY <1>0, <2>1, <2>2, Union DEF Sound
  <2>4. Clean(t)'
    BY <2>3 DEF Clean, Sound
  <2> QED  BY <1>0, <2>1, <2>3, <2>4 DEF Vetted, Whole, Untouched, Branched
<1>6. CASE AdvanceIntegration(t)
  <2>1. /\ base' = base /\ work' = work /\ integ' = work[t] /\ worker'[t].pc = "record"
        /\ Sound(work[t])
    BY <1>0, <1>6, Transition DEF AdvanceIntegration, Vetted, Whole, Judged, At, journal
  <2> QED  BY <1>0, <2>1 DEF Vetted, Whole, Untouched, Branched, Judged, Clean, Sound
<1>7. CASE \/ StartAttempt(t) \/ Reuse(t) \/ Prepare(t) \/ CheckBudget(t) \/ Launch(t)
           \/ ImplementerFinished(t) \/ RepairFinished(t) \/ Verify(t) \/ PassGate(t)
           \/ RepairHandoff(t) \/ CommitFails(t) \/ AdvanceFails(t)
  <2>1. base' = base /\ work' = work /\ integ' = integ
    BY <1>7 DEF StartAttempt, Reuse, Prepare, CheckBudget, Launch, ImplementerFinished,
         RepairFinished, Exited, Verify, PassGate, RepairHandoff, CommitFails, AdvanceFails,
         journal, disk
  <2>2. Branched(t)'
    BY <1>0, <2>1 DEF Vetted, Branched, Clean
  <2>3. Whole(t)'
    <3>1. CASE Verify(t)
      <4>1. work[t] \subseteq Marks
        BY <1>0, <3>1 DEF Verify, At, TypeInv, Fit, Housed
      <4>2. worker'[t].pc = "record" \/ (Passes(t) /\ ~Violation(t))
        BY <1>0, <3>1, Transition DEF Rejects
      <4> QED  BY <1>0, <2>1, <4>1, <4>2, JudgedIsSound DEF Vetted, Whole, Judged
    <3>2. CASE StartAttempt(t) \/ Reuse(t) \/ ImplementerFinished(t) \/ CommitFails(t) \/ AdvanceFails(t)
      <4>1. worker'[t].pc \in {"open", "verify", "record"}
        BY <1>0, <3>2, Transition DEF Goes, Rejects
      <4> QED  BY <4>1 DEF Whole, Judged
    <3>3. CASE Prepare(t) \/ CheckBudget(t) \/ Launch(t) \/ PassGate(t) \/ RepairHandoff(t)
      <4>1. Sound(work[t])
        BY <1>0, <3>3 DEF Prepare, CheckBudget, Launch, PassGate, RepairHandoff, At, Vetted, Whole, Judged
      <4> QED  BY <2>1, <4>1 DEF Whole
    <3>4. CASE RepairFinished(t)
      <4>1. worker[t].repair # 0 => Sound(work[t])
        BY <1>0, <3>4 DEF RepairFinished, Exited, At, Vetted, Whole, Judged
      <4>2. worker[t].repair > 0
        BY <3>4 DEF RepairFinished
      <4>3. Sound(work[t])
        BY <4>1, <4>2
      <4> QED  BY <2>1, <4>3 DEF Whole
    <3> QED  BY <1>7, <3>1, <3>2, <3>3, <3>4
  <2>4. Untouched(t)'
    <3>1. CASE Prepare(t)
      <4>1. <<t, "good">> \notin work[t] \/ worker'[t].pc = "record"
        <5>1. ASSUME <<t, "good">> \in work[t]
              PROVE  \/ Conclude(t, "blocked", "null") \/ Conclude(t, "error", "null")
                     \/ Conclude(t, "null", "needs_replan")
          BY <3>1, <5>1 DEF Prepare, Discriminating
        <5>2. "blocked" \in Verdicts /\ "error" \in Verdicts /\ "needs_replan" \in Stalled
          BY DEF Verdicts, Stalled
        <5> QED  BY <1>0, <5>1, <5>2, Judging, Deferring DEF Moves
      <4> QED  BY <2>1, <4>1 DEF Untouched
    <3>2. CASE CheckBudget(t) \/ Launch(t)
      <4>1. worker'[t].pc = "record" \/ worker'[t].repair = worker[t].repair
        BY <1>0, <3>2, Transition DEF Goes, Rejects, Repairs
      <4>2. worker[t].repair = 0 => <<t, "good">> \notin work[t]
        BY <1>0, <3>2 DEF CheckBudget, Launch, At, Vetted, Untouched
      <4> QED  BY <2>1, <4>1, <4>2 DEF Untouched
    <3>3. CASE RepairHandoff(t)
      <4>1. worker[t].repair + 1 <= MaxRepairs =>
              worker[t].repair + 1 \in 0..MaxRepairs /\ worker[t].repair + 1 # 0
        BY <1>0, LimitAssumption DEF TypeInv, TypeOK
      <4>2. ASSUME worker[t].repair + 1 <= MaxRepairs,
                   worker' = [worker EXCEPT ![t].pc = "budget", ![t].repair = worker[t].repair + 1,
                                            ![t].spoilt = FALSE]
            PROVE  worker'[t].repair # 0
        BY <1>0, <4>1, <4>2, Repairing
      <4>3. "budget_exhausted" \in Verdicts /\ "human_required" \in Stalled
        BY DEF Verdicts, Stalled
      <4>4. worker'[t].repair # 0 \/ worker'[t].pc = "record"
        BY <1>0, <3>3, <4>2, <4>3, Judging, Deferring DEF RepairHandoff, Moves
      <4> QED  BY <4>4 DEF Untouched
    <3>4. CASE ~Prepare(t) /\ ~CheckBudget(t) /\ ~Launch(t) /\ ~RepairHandoff(t)
      <4>1. worker'[t].pc \in {"open", "verify", "gate", "merge", "record"}
        BY <1>0, <1>7, <3>4, Transition DEF Goes, Rejects
      <4> QED  BY <4>1 DEF Untouched
    <3> QED  BY <3>1, <3>2, <3>3, <3>4
  <2> QED  BY <1>0, <2>1, <2>2, <2>3, <2>4 DEF Vetted
<1> QED  BY <1>1, <1>2, <1>3, <1>4, <1>5, <1>6, <1>7 DEF WorkerStep, Fails

LEMMA VettedInductive == VettedInv /\ [Next]_vars => VettedInv'
<1> SUFFICES ASSUME VettedInv, [Next]_vars PROVE VettedInv'
  OBVIOUS
<1>1. TypeInv /\ TypeInv' /\ Sound(integ) /\ \A u \in Tasks : Vetted(u)
  BY TypeInductive DEF VettedInv
<1>2. ASSUME NEW t \in Tasks, WorkerStep(t) \/ Fails(t), NEW u \in Tasks
      PROVE  Vetted(u)' /\ Sound(integ)'
  <2>1. CASE u = t
    BY <1>2, <2>1, VettedStep
  <2>2. CASE u # t
    <3>1. Others(t)
      BY <1>1, <1>2, Attempting, Failing DEF Fails
    <3>2. worker'[u] = worker[u] /\ work'[u] = work[u] /\ base'[u] = base[u]
      BY <1>1, <2>2, <3>1 DEF Others, TypeInv, TypeOK
    <3>3. Vetted(u)'
      BY <1>1, <3>2 DEF Vetted, Proven, FirstCall, Whole, Untouched, Branched, Judged, Passes, Clean
    <3> QED  BY <1>2, <3>3, VettedStep
  <2> QED  BY <2>1, <2>2
<1>3. ASSUME ~\E t \in Tasks : WorkerStep(t) \/ Fails(t), NEW u \in Tasks
      PROVE  Vetted(u)'
  <2>1. /\ base' = base /\ integ' = integ
        /\ Aside(u) \/ worker'[u] = worker[u]
        /\ work' = work \/ worker'[u].pc = "idle"
    BY <1>1, <1>3, OtherSteps DEF journal
  <2>2. work'[u] = work[u] \/ work'[u] = NoTree
    BY <1>1, <1>3 DEF Next, MainStep, FaultStep, Fails, Over, vars, disk, Start, Resume, Submit, Collect,
                      Unwind, Finish, Kill, Purge
  <2>3. Branched(u)'
    BY <1>1, <2>1, <2>2, NoTreeHasNoMarks DEF Vetted, Branched, Clean
  <2>4. Proven(u)' /\ FirstCall(u)' /\ Whole(u)' /\ Untouched(u)'
    BY <1>1, <2>1 DEF Vetted, Proven, FirstCall, Whole, Untouched, Judged, Passes, Aside
  <2> QED  BY <2>3, <2>4 DEF Vetted
<1>4. Sound(integ)'
  <2>1. CASE \E t \in Tasks : WorkerStep(t) \/ Fails(t)
    BY <1>2, <2>1
  <2>2. CASE ~\E t \in Tasks : WorkerStep(t) \/ Fails(t)
    BY <1>1, <2>2, OtherSteps DEF Sound
  <2> QED  BY <2>1, <2>2
<1> QED  BY <1>1, <1>2, <1>3, <1>4 DEF VettedInv

(* Evidence decides, whatever the agents do and however the run is killed, *)
(* purged and resumed: nothing whose criteria fail and nothing outside the *)
(* allowed paths reaches the integration branch (judge and integrate).     *)
THEOREM MergedWorkIsProven == Spec => []OnlyProvenWorkIntegrated
<1>1. Init => VettedInv
  <2> SUFFICES ASSUME Init PROVE VettedInv
    OBVIOUS
  <2>1. \A t \in Tasks : worker[t].pc = "idle" /\ base[t] = NoTree /\ work[t] = NoTree
    BY DEF Init, Idle
  <2>2. integ = {}
    BY DEF Init
  <2> QED  BY <2>1, <2>2, InitiallyTyped, NoTreeHasNoMarks
           DEF VettedInv, Vetted, Sound, Proven, FirstCall, Whole, Untouched, Branched, Judged
<1>2. VettedInv => OnlyProvenWorkIntegrated
  BY DEF VettedInv, Sound, OnlyProvenWorkIntegrated
<1> QED  BY <1>1, <1>2, VettedInductive, PTL DEF Spec
-----------------------------------------------------------------------------
(* The numbering of attempts: however often a run is killed and resumed,   *)
(* an attempt is adjudicated at most once, and the next one starts only    *)
(* after that.                                                             *)

\* The attempt under way is the one last dispatched and has no verdict, or
\* is the one that follows it.
Current(t) == /\ worker[t].attempt = proj[t].attempt
              /\ proj[t].verdict_attempt < proj[t].attempt
Following(t) == /\ worker[t].attempt = proj[t].attempt + 1
                /\ proj[t].verdict_attempt = proj[t].attempt

Early == {"start", "open", "dispatch", "record"}
Late == {"prepare", "budget", "launch", "agent", "exited", "verify", "gate", "merge", "advance"}

Numbered(t) ==
  /\ proj[t].verdict_attempt <= proj[t].attempt
  /\ worker[t].pc \in Early => Current(t) \/ Following(t)
  /\ worker[t].pc \in {"start", "open"} /\ worker[t].resumed => Current(t)
  /\ worker[t].pc \in Late => Current(t)

(* The invariant ties the attempt a worker holds in memory to the one the  *)
(* journal last dispatched, at every point where a process can die.        *)
AttemptInv == TypeInv /\ \A t \in Tasks : Numbered(t)

\* What a step may do to the record of attempts and verdicts.
Adjudicates(t) ==
  LET p == proj[t]  q == proj'[t] IN
  /\ q.attempt # p.attempt => q.attempt = p.attempt + 1 /\ p.verdict_attempt = p.attempt
  /\ <<q.verdict, q.verdict_attempt>> # <<p.verdict, p.verdict_attempt>>
       => q.verdict_attempt = q.attempt /\ p.verdict_attempt < q.verdict_attempt
SameAttempt(t) == /\ proj'[t].attempt = proj[t].attempt
                  /\ proj'[t].verdict = proj[t].verdict
                  /\ proj'[t].verdict_attempt = proj[t].verdict_attempt

LEMMA Numbers ==
  ASSUME TypeInv, NEW t \in Tasks
  PROVE  /\ proj[t].attempt \in Int /\ proj[t].verdict_attempt \in Int
         /\ worker[t].attempt \in Int
<1>1. MaxAttempts \in Int
  BY LimitAssumption
<1> QED  BY <1>1 DEF TypeInv, TypeOK

(* Within an attempt its number stays, in the worker and in the journal.   *)
LEMMA KeepsNumber ==
  ASSUME TypeInv, NEW t \in Tasks, WorkerStep(t) \/ CommitFails(t) \/ AdvanceFails(t),
         ~Dispatch(t), ~Record(t)
  PROVE  Keeps(t) /\ SameAttempt(t)
<1>0. /\ {"open", "dispatch", "prepare", "budget", "launch", "agent", "gate", "merge", "advance",
          "returned"} \subseteq PCs
      /\ {"rejected", "error", "blocked", "budget_exhausted", "verified"} \subseteq Verdicts
      /\ {"human_required", "needs_replan", "integration_conflict"} \subseteq Stalled
      /\ {"running", "executed", "verifying", "repairing"} \subseteq States
  BY DEF PCs, Verdicts, Stalled, States, RESUMABLE
<1>1. ASSUME NEW pc \in PCs, Goto(t, pc) PROVE Keeps(t)
  BY <1>1, Going DEF Moves
<1>2. ASSUME NEW v \in Verdicts, Conclude(t, v, "null") PROVE Keeps(t)
  BY <1>2, Judging DEF Moves
<1>3. ASSUME NEW n \in Stalled, Conclude(t, "null", n) PROVE Keeps(t)
  BY <1>3, Deferring DEF Moves
<1>4. ASSUME NEW pc \in {"verify", "gate"}, NEW h \in Handoffs,
             worker' = [worker EXCEPT ![t].pc = pc, ![t].handoff = h]
      PROVE  Keeps(t)
  BY <1>4, Receiving DEF Moves
<1>5. outbox[t][0] \in Handoffs /\ outbox[t][worker[t].repair] \in Handoffs
  <2>1. outbox[t] \in [0..MaxRepairs -> Handoffs] /\ worker[t].repair \in 0..MaxRepairs
    BY DEF TypeInv, TypeOK
  <2> QED  BY <2>1, LimitAssumption
<1>6. ASSUME NEW s \in States, Enter(t, s) PROVE SameAttempt(t)
  BY <1>6, Entering DEF SameAttempt
<1>7. proj' = proj => SameAttempt(t)
  BY DEF SameAttempt
<1>8. CASE StartAttempt(t) \/ Open(t) \/ CheckBudget(t) \/ PassGate(t) \/ Close(t)
           \/ AdvanceIntegration(t) \/ AdvanceFails(t) \/ CommitFails(t)
  <2>1. proj' = proj
    BY <1>8 DEF StartAttempt, Open, CheckBudget, PassGate, Close, AdvanceIntegration, AdvanceFails,
                CommitFails, journal
  <2>2. Keeps(t)
    BY <1>0, <1>1, <1>2, <1>3, <1>8 DEF StartAttempt, Open, CheckBudget, PassGate, Close,
                AdvanceIntegration, AdvanceFails, CommitFails
  <2> QED  BY <1>7, <2>1, <2>2
<1>9. CASE Prepare(t) \/ Merge(t)
  <2>1. proj' = proj
    BY <1>9 DEF Prepare, Merge, journal
  <2>2. \/ Conclude(t, "blocked", "null") \/ Conclude(t, "error", "null")
        \/ Conclude(t, "null", "needs_replan") \/ Conclude(t, "null", "integration_conflict")
        \/ Goto(t, "budget") \/ Goto(t, "advance")
    BY <1>9 DEF Prepare, Merge
  <2> QED  BY <1>0, <1>1, <1>2, <1>3, <1>7, <2>1, <2>2
<1>10. CASE Reuse(t) \/ ImplementerFinished(t) \/ RepairFinished(t)
  <2>1. Keeps(t)
    BY <1>0, <1>2, <1>4, <1>5, <1>10 DEF Reuse, ImplementerFinished, RepairFinished
  <2>2. proj' = proj \/ Enter(t, "executed")
    BY <1>10 DEF Reuse, ImplementerFinished, RepairFinished, Exited, journal
  <2> QED  BY <1>0, <1>6, <1>7, <2>1, <2>2
<1>11. CASE Agent(t)
  BY <1>7, <1>11, Exiting DEF Agent, Moves, journal
<1>12. CASE Launch(t)
  BY <1>0, <1>1, <1>6, <1>12 DEF Launch
<1>13. CASE Verify(t)
  <2>1. \/ Conclude(t, "null", "needs_replan") \/ Conclude(t, "rejected", "null")
        \/ Conclude(t, "blocked", "null") \/ Goto(t, "gate")
    BY <1>13 DEF Verify
  <2>2. Enter(t, "verifying")
    BY <1>13 DEF Verify
  <2> QED  BY <1>0, <1>1, <1>2, <1>3, <1>6, <2>1, <2>2
<1>14. CASE RepairHandoff(t)
  <2>1. Enter(t, "repairing")
    BY <1>14 DEF RepairHandoff
  <2>2. worker[t].repair + 1 <= MaxRepairs => worker[t].repair + 1 \in 0..MaxRepairs
    BY LimitAssumption DEF TypeInv, TypeOK
  <2>3. ASSUME worker[t].repair + 1 <= MaxRepairs,
               worker' = [worker EXCEPT ![t].pc = "budget", ![t].repair = worker[t].repair + 1,
                                        ![t].spoilt = FALSE]
        PROVE  Keeps(t)
    BY <2>2, <2>3, Repairing DEF Moves
  <2>4. Keeps(t)
    BY <1>0, <1>2, <1>3, <1>14, <2>3 DEF RepairHandoff
  <2> QED  BY <1>0, <1>6, <2>1, <2>4
<1> QED
  BY <1>8, <1>9, <1>10, <1>11, <1>12, <1>13, <1>14 DEF WorkerStep

LEMMA NumberedStep ==
  ASSUME AttemptInv, NEW t \in Tasks, WorkerStep(t) \/ Fails(t)
  PROVE  Numbered(t)' /\ Adjudicates(t)
<1>0. TypeInv /\ Numbered(t)
  BY DEF AttemptInv
<1>1. /\ proj[t].attempt \in Int /\ proj[t].verdict_attempt \in Int
      /\ worker[t].attempt \in Int
  BY <1>0, Numbers
<1>2. CASE Raise(t) \/ Close(t)
  <2>1. proj' = proj /\ worker'[t].pc \in {"raised", "returned"}
    BY <1>0, <1>2, Transition DEF Raise, Close, journal
  <2> QED  BY <1>0, <2>1 DEF Numbered, Adjudicates, Early, Late
<1>3. CASE Dispatch(t)
  <2>1. worker[t].attempt \in 0..MaxAttempts /\ worker[t].pc \in Early
    BY <1>0, <1>3 DEF Dispatch, At, TypeInv, Fit, Trying, Housed, Early
  <2>2. /\ proj'[t].attempt = worker[t].attempt /\ proj'[t].verdict = proj[t].verdict
        /\ proj'[t].verdict_attempt = proj[t].verdict_attempt
    BY <1>0, <1>3, <2>1, Dispatching DEF Dispatch
  <2>3. worker'[t].pc = "prepare"
    BY <1>0, <1>3, Transition DEF Goes
  <2>4. worker'[t].attempt = worker[t].attempt
    BY <1>0, <1>3, Going DEF Dispatch, Moves, Keeps, PCs
  <2>5. Current(t) \/ Following(t)
    BY <1>0, <2>1 DEF Numbered
  <2> QED  BY <1>0, <1>1, <2>2, <2>3, <2>4, <2>5
           DEF Numbered, Adjudicates, Current, Following, Early, Late
<1>4. CASE Record(t)
  <2> DEFINE k == worker[t].attempt
             next == NextState(worker[t].outcome, k)
             m == k + 1
             verdict == worker[t].outcome.verdict
             r == [state |-> next, attempt |-> k, verdict |-> verdict, verdict_attempt |-> k]
  <2>1. worker[t].pc \in Early /\ (Current(t) \/ Following(t))
    BY <1>0, <1>4 DEF Record, At, Numbered, Early
  <2>2. proj'[t] = r
    BY <1>0, <1>4 DEF Record, TypeInv, TypeOK
  <2>3. proj'[t].attempt = k /\ proj'[t].verdict_attempt = k
    <3> HIDE DEF k, next, verdict
    <3> QED  BY <2>2
  <2>4. worker'[t].pc \in {"start", "close", "returned"}
    BY <1>0, <1>4, Transition
  <2>5. worker'[t].pc = "start" => worker'[t].attempt = m /\ ~worker'[t].resumed
    <3>1. next = "ready" => worker' = [worker EXCEPT ![t] = [Idle EXCEPT !.pc = "start", !.attempt = m]]
      BY <1>4 DEF Record
    <3>2. next # "ready" => worker'[t].pc # "start"
      BY <1>0, <1>4 DEF Record, Idle, TypeInv, TypeOK
    <3> HIDE DEF next, m
    <3>3. next = "ready" => worker'[t] = Restart("start", m)
      BY <1>0, <3>1 DEF Idle, Restart, TypeInv, TypeOK
    <3>4. Restart("start", m).attempt = m /\ ~Restart("start", m).resumed
      BY DEF Restart
    <3> QED  BY <3>2, <3>3, <3>4
  <2>6. Adjudicates(t)
    <3> HIDE DEF k, m
    <3>1. k \in Int /\ k = worker[t].attempt
      BY <1>1 DEF k
    <3> QED  BY <1>1, <2>1, <2>3, <3>1 DEF Adjudicates, Current, Following
  <2>7. Numbered(t)'
    BY <1>1, <2>3, <2>4, <2>5 DEF Numbered, Current, Following, Early, Late
  <2> QED  BY <2>6, <2>7
<1>5. CASE ~Raise(t) /\ ~Close(t) /\ ~Dispatch(t) /\ ~Record(t)
  <2>1. Keeps(t) /\ SameAttempt(t)
    BY <1>0, <1>5, KeepsNumber DEF Fails
  <2>2. worker'[t].pc \notin {"start", "idle"}
    BY <1>0, <1>5, Transition DEF WorkerStep, Fails, Goes, Rejects
  <2>3. worker'[t].pc \in {"open", "dispatch"} => worker[t].pc \in {"start", "open"}
    BY <1>0, <1>5, Transition DEF WorkerStep, Fails, Goes, Rejects, StartAttempt, Open, At
  <2>4. worker'[t].pc \in Late => Current(t)
    <3>1. CASE Reuse(t)
      BY <1>0, <3>1 DEF Reuse, Numbered, At
    <3>2. CASE StartAttempt(t) \/ Open(t)
      BY <1>0, <3>2, Transition DEF Goes, Rejects, Late
    <3>3. CASE ~Reuse(t) /\ ~StartAttempt(t) /\ ~Open(t)
      <4>1. worker[t].pc \in Late
        BY <1>5, <3>3 DEF WorkerStep, Fails, Prepare, CheckBudget, Launch, Agent,
             ImplementerFinished, RepairFinished, Exited, Verify, PassGate, RepairHandoff, Merge,
             AdvanceIntegration, CommitFails, AdvanceFails, At, Late
      <4> QED  BY <1>0, <4>1 DEF Numbered
    <3> QED  BY <3>1, <3>2, <3>3
  <2>5. Current(t) \/ Following(t)
    <3>1. worker[t].pc \in Late \cup Early
      BY <1>5 DEF WorkerStep, Fails, StartAttempt, Reuse, Open, Prepare, CheckBudget, Launch, Agent,
             ImplementerFinished, RepairFinished, Exited, Verify, PassGate, RepairHandoff, Merge,
             AdvanceIntegration, CommitFails, AdvanceFails, At, Late, Early
    <3> QED  BY <1>0, <3>1 DEF Numbered
  <2>6. worker'[t].pc = "open" => worker[t].pc = "start"
    BY <1>0, <1>5, Transition DEF WorkerStep, Fails, Goes, Rejects, StartAttempt, At
  <2>7. /\ Current(t)' <=> Current(t)
        /\ Following(t)' <=> Following(t)
        /\ Adjudicates(t)
        /\ (proj[t].verdict_attempt <= proj[t].attempt)'
    BY <1>0, <2>1 DEF Keeps, SameAttempt, Current, Following, Adjudicates, Numbered
  <2>8. worker'[t].pc \in {"start", "open"} /\ worker'[t].resumed => Current(t)
    <3>1. worker'[t].resumed = worker[t].resumed
      BY <2>1 DEF Keeps
    <3>2. worker[t].pc \in {"start", "open"} /\ worker[t].resumed => Current(t)
      BY <1>0 DEF Numbered
    <3> QED  BY <2>2, <2>6, <3>1, <3>2, Zenon
  <2> QED  BY <2>4, <2>5, <2>7, <2>8 DEF Numbered
<1> QED  BY <1>2, <1>3, <1>4, <1>5 DEF Fails

(* The resume table hands out the number that the invariant asks for.      *)
LEMMA ResumedNumber ==
  ASSUME AttemptInv, NEW t \in Tasks, Submit(t)
  PROVE  Numbered(t)'
<1> DEFINE p == proj[t]
           k == ResumePoint(t).attempt
           b == ResumePoint(t).resumed
           pc == IF k <= MaxAttempts THEN "start" ELSE "returned"
           v == worker'[t]
<1>0. TypeInv /\ proj' = proj /\ p.verdict_attempt <= p.attempt
      /\ p.attempt \in Int /\ p.verdict_attempt \in Int
  BY Numbers DEF AttemptInv, Numbered, Submit, journal
<1>1. v = [Idle EXCEPT !.pc = pc, !.attempt = k, !.resumed = b]
  BY <1>0 DEF Submit, TypeInv, TypeOK
<1>2. \/ k = p.attempt + 1 /\ b = FALSE /\ p.verdict_attempt = p.attempt
      \/ k = p.attempt /\ p.verdict_attempt # p.attempt
  BY DEF ResumePoint
<1>3. pc \in {"start", "returned"}
  OBVIOUS
<1> HIDE DEF p, k, b, pc, v
<1>4. v.pc = pc /\ v.attempt = k
  BY <1>1 DEF Idle
<1>5. v.resumed = b
  BY <1>1, Zenon DEF Idle
<1>6. p.verdict_attempt # p.attempt => p.verdict_attempt < p.attempt
  BY <1>0
<1>7. CASE k = p.attempt + 1 /\ b = FALSE /\ p.verdict_attempt = p.attempt
  <2>1. ~v.resumed
    BY <1>5, <1>7
  <2>2. Following(t)'
    BY <1>0, <1>4, <1>7 DEF Following, p, v
  <2> QED  BY <1>0, <1>3, <1>4, <2>1, <2>2 DEF Numbered, Late, p, v
<1>8. CASE k = p.attempt /\ p.verdict_attempt # p.attempt
  <2>1. Current(t)'
    BY <1>0, <1>4, <1>6, <1>8 DEF Current, p, v
  <2> QED  BY <1>0, <1>3, <1>4, <2>1 DEF Numbered, Late, p, v
<1> QED  BY <1>2, <1>7, <1>8

LEMMA AttemptInductive ==
  AttemptInv /\ [Next]_vars => AttemptInv' /\ \A t \in Tasks : Adjudicates(t)
<1> SUFFICES ASSUME AttemptInv, [Next]_vars PROVE AttemptInv' /\ \A t \in Tasks : Adjudicates(t)
  OBVIOUS
<1>1. TypeInv /\ TypeInv' /\ \A u \in Tasks : Numbered(u)
  BY TypeInductive DEF AttemptInv
<1>2. ASSUME NEW u \in Tasks, worker'[u] = worker[u], proj'[u] = proj[u]
      PROVE  Numbered(u)' /\ Adjudicates(u)
  BY <1>1, <1>2 DEF Numbered, Current, Following, Adjudicates
<1>3. ASSUME NEW t \in Tasks, WorkerStep(t) \/ Fails(t), NEW u \in Tasks
      PROVE  Numbered(u)' /\ Adjudicates(u)
  <2>1. CASE u = t
    BY <1>3, <2>1, NumberedStep
  <2>2. CASE u # t
    <3>1. worker'[u] = worker[u] /\ proj'[u] = proj[u]
      <4>1. Others(t)
        BY <1>1, <1>3, Attempting, Failing DEF Fails
      <4> QED  BY <1>1, <2>2, <4>1 DEF Others, TypeInv, TypeOK
    <3> QED  BY <1>2, <3>1
  <2> QED  BY <2>1, <2>2
<1>4. ASSUME NEW t \in Tasks, Submit(t), NEW u \in Tasks
      PROVE  Numbered(u)' /\ Adjudicates(u)
  <2>1. proj' = proj /\ (u # t => worker'[u] = worker[u])
    BY <1>1, <1>4 DEF Submit, journal, TypeInv, TypeOK
  <2>2. Adjudicates(u)
    BY <2>1 DEF Adjudicates
  <2> QED  BY <1>2, <1>4, <2>1, <2>2, ResumedNumber
<1>5. ASSUME ~\E t \in Tasks : WorkerStep(t) \/ Fails(t) \/ Submit(t), NEW u \in Tasks
      PROVE  Numbered(u)' /\ Adjudicates(u)
  <2>1. proj' = proj
    BY <1>1, <1>5, OtherSteps DEF journal
  <2>2. worker'[u] = worker[u] \/ worker'[u] = Idle
    BY <1>1, <1>5 DEF Next, MainStep, FaultStep, Fails, Over, vars, env, control, journal, disk, Start,
                      Resume, Collect, Unwind, Finish, Kill, Purge, TypeInv, TypeOK
  <2>3. CASE worker'[u] = Idle
    <3>1. worker'[u].pc = "idle" /\ proj[u].verdict_attempt <= proj[u].attempt
      BY <1>1, <2>3 DEF Idle, Numbered
    <3> QED  BY <2>1, <3>1 DEF Numbered, Adjudicates, Early, Late
  <2> QED  BY <1>2, <2>1, <2>2, <2>3
<1> QED  BY <1>1, <1>3, <1>4, <1>5 DEF AttemptInv

LEMMA AttemptInitially == Init => AttemptInv
<1> SUFFICES ASSUME Init PROVE AttemptInv
  OBVIOUS
<1>1. \A t \in Tasks : /\ worker[t].pc = "idle"
                       /\ proj[t].verdict_attempt = 0 /\ proj[t].attempt = 0
  BY DEF Init, Idle
<1> QED  BY <1>1, InitiallyTyped DEF AttemptInv, Numbered, Early, Late

(* No interleaving of retries, crashes and resumes adjudicates an attempt  *)
(* twice or skips one: docs/03 "verdict_assigned: at most once per         *)
(* attempt".                                                               *)
THEOREM OneVerdict == Spec => OneVerdictPerAttempt
<1>1. AttemptInv /\ [Next]_vars
        => AttemptInv' /\ [\A t \in Tasks : Adjudicates(t)]_vars
  BY AttemptInductive
<1>2. [\A t \in Tasks : Adjudicates(t)]_vars
        => [\A t \in Tasks :
              LET p == proj[t]  q == proj'[t] IN
              /\ q.attempt # p.attempt => q.attempt = p.attempt + 1 /\ p.verdict_attempt = p.attempt
              /\ <<q.verdict, q.verdict_attempt>> # <<p.verdict, p.verdict_attempt>>
                   => q.verdict_attempt = q.attempt /\ p.verdict_attempt < q.verdict_attempt]_vars
  BY DEF Adjudicates
<1> QED  BY <1>1, <1>2, AttemptInitially, PTL DEF Spec, OneVerdictPerAttempt
=============================================================================
