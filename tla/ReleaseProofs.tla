--------------------------- MODULE ReleaseProofs ---------------------------
(***************************************************************************)
(* Release proved: for every set of tasks, commands and work of agents,    *)
(* every number of attempts, and every interleaving of workers, converge,  *)
(* ship, kills and the user.                                               *)
(***************************************************************************)
EXTENDS Release, TLAPS

JournalType == proj \in Projections /\ open \subseteq Cmds /\ waiveds \in [Cmds -> Nat]

WorkerType ==
  worker \in [Tasks -> [pc : {"open", "baseline", "agent", "post", "judge", "record", "ended"},
                        before : SUBSET Cmds, after : SUBSET Cmds]]
RunType == WorkerType /\ work \in [Tasks -> Trees] /\ integ \in Trees

UserType == head \in Trees /\ edits \in Inputs /\ waivers \subseteq Cmds

ConvType ==
  /\ record = NoRecord \/ record \in [ok : {TRUE}, stamp : Stamps]
  /\ conv = NoConverge \/ conv = FailedConverge
       \/ conv \in [pc : {"inspect", "union", "write"}, stamp : Stamps]
ShipType ==
  /\ shipping \in [pc : {"idle", "waive", "merge"}, tip : Trees, waived : SUBSET Cmds]
  /\ shipped = NoTree \/ shipped \in Trees
  /\ kills \in 0..MaxKills

AttemptsLeft == \A t \in Tasks : worker[t].pc = "open" => proj[t].attempt < MaxAttempts

TypeInv == JournalType /\ RunType /\ UserType /\ ConvType /\ ShipType /\ AttemptsLeft

-----------------------------------------------------------------------------
(* The gates do not touch the run, nor the run the gates.                  *)

Others == UserCommits \/ UserEdits \/ Waive \/ Converge \/ Ship \/ Kill

LEMMA OthersKeepTheRun == Others => UNCHANGED <<proj, open, run>>
  BY DEF Others, UserCommits, UserEdits, Waive, Converge, ConvergeStart, ConvergeInspect,
         ConvergeUnion, ConvergeWrite, Ship, ShipStart, ShipWaive, ShipMerge, Kill,
         journal, run

LEMMA RunsKeepTheGates ==
  ASSUME NEW t \in Tasks, Run(t) PROVE UNCHANGED <<waiveds, user, gates>>
<1>1. CASE Open(t) BY <1>1 DEF Open
<1>2. CASE Baseline(t) BY <1>2 DEF Baseline
<1>3. CASE Agent(t) BY <1>3 DEF Agent, journal
<1>4. CASE Post(t) BY <1>4 DEF Post
<1>5. CASE Integrate(t) BY <1>5 DEF Integrate, journal
<1>6. CASE Record(t) BY <1>6 DEF Record
<1>7. CASE Reject(t) BY <1>7 DEF Reject
<1>. QED BY <1>1, <1>2, <1>3, <1>4, <1>5, <1>6, <1>7 DEF Run

\* The two kinds of steps, and the one that changes nothing.
LEMMA StepsAreOfTwoKinds == [Next]_vars => (\E t \in Tasks : Run(t)) \/ Others \/ UNCHANGED vars
  BY DEF Next, Others

-----------------------------------------------------------------------------
(* Types.                                                                  *)

LEMMA RunTypeStep ==
  ASSUME TypeInv, NEW t \in Tasks, Run(t)
  PROVE  proj' \in Projections /\ open' \subseteq Cmds /\ RunType' /\ AttemptsLeft'
<1>. DEFINE Worker == [pc : {"open", "baseline", "agent", "post", "judge", "record", "ended"},
                       before : SUBSET Cmds, after : SUBSET Cmds]
            Task == [state : {"pending", "running", "ready", "verified", "stalled"},
                     attempt : 0..MaxAttempts]
<1>a. worker \in [Tasks -> Worker] /\ proj \in [Tasks -> Task] /\ work \in [Tasks -> Trees]
      /\ integ \in Trees /\ open \subseteq Cmds /\ Acceptance[t] \subseteq Cmds
  BY CommandAssumption DEF TypeInv, JournalType, RunType, WorkerType, Projections
<1>b. SUFFICES /\ worker' \in [Tasks -> Worker] /\ proj' \in [Tasks -> Task]
               /\ work' \in [Tasks -> Trees] /\ integ' \in Trees /\ open' \subseteq Cmds
               /\ AttemptsLeft'
  BY DEF RunType, WorkerType, Projections
<1>c. worker[t] \in Worker /\ proj[t] \in Task /\ work[t] \in Trees
  BY <1>a
<1>d. \A pc \in {"open", "baseline", "agent", "post", "judge", "record", "ended"},
         x, y \in SUBSET Cmds : [pc |-> pc, before |-> x, after |-> y] \in Worker
  OBVIOUS
<1>e. \A s \in {"pending", "running", "ready", "verified", "stalled"}, n \in 0..MaxAttempts :
         [state |-> s, attempt |-> n] \in Task
  OBVIOUS
<1>f. \A pc \in {"open", "baseline", "agent", "post", "judge", "record", "ended"} :
         [worker[t] EXCEPT !.pc = pc] \in Worker
  BY <1>c
<1>g. \A s \in {"pending", "running", "ready", "verified", "stalled"} :
         [proj[t] EXCEPT !.state = s] \in Task /\ [proj[t] EXCEPT !.state = s].attempt = proj[t].attempt
  BY <1>c
<1>h. \A w \in Worker : [worker EXCEPT ![t] = w] \in [Tasks -> Worker]
  BY <1>a
<1>i. \A p \in Task : [proj EXCEPT ![t] = p] \in [Tasks -> Task]
  BY <1>a
<1>j. \A w \in Trees : [work EXCEPT ![t] = w] \in [Tasks -> Trees]
  BY <1>a
<1>k. \A tree \in Trees : RedIn(Acceptance[t], tree) \subseteq Cmds
  BY <1>a DEF RedIn
<1>l. {} \in Trees /\ proj[t].attempt \in Nat /\ proj[t].attempt <= MaxAttempts
  BY <1>c, TaskAssumption DEF Trees
<1>m. AttemptsLeft
  BY DEF TypeInv
<1>. HIDE DEF Worker, Task
<1>p. ASSUME NEW pc, worker' = [worker EXCEPT ![t].pc = pc],
             pc \in {"baseline", "agent", "post", "judge", "record", "ended"},
             \A u \in Tasks \ {t} : proj'[u] = proj[u]
      PROVE  worker' \in [Tasks -> Worker] /\ AttemptsLeft'
  <2>1. worker' = [worker EXCEPT ![t] = [worker[t] EXCEPT !.pc = pc]]
    BY <1>p
  <2>2. worker'[t].pc = pc /\ \A u \in Tasks \ {t} : worker'[u] = worker[u]
    BY <2>1, <1>a, <1>c DEF Worker
  <2>. QED BY <2>1, <2>2, <1>f, <1>h, <1>m, <1>p DEF AttemptsLeft
<1>q. ASSUME NEW w \in Worker, worker' = [worker EXCEPT ![t] = w],
             w.pc = "open" => proj'[t].attempt < MaxAttempts,
             \A u \in Tasks \ {t} : proj'[u] = proj[u]
      PROVE  worker' \in [Tasks -> Worker] /\ AttemptsLeft'
  BY <1>h, <1>m, <1>q, <1>a DEF AttemptsLeft
<1>s. ASSUME Stall(t)
      PROVE  /\ worker' \in [Tasks -> Worker] /\ proj' \in [Tasks -> Task]
             /\ work' \in [Tasks -> Trees] /\ AttemptsLeft'
  <2>1. /\ proj' = [proj EXCEPT ![t] = [proj[t] EXCEPT !.state = "stalled"]]
        /\ work' = [work EXCEPT ![t] = {}]
        /\ worker' = [worker EXCEPT ![t] = [pc |-> "ended", before |-> {}, after |-> {}]]
    BY <1>s DEF Stall, Leave
  <2>2. [pc |-> "ended", before |-> {}, after |-> {}] \in Worker
    BY <1>d
  <2>3. \A u \in Tasks \ {t} : proj'[u] = proj[u]
    BY <2>1, <1>a
  <2>. QED BY <2>1, <2>2, <2>3, <1>q, <1>g, <1>i, <1>j, <1>l
<1>1. CASE Open(t)
  <2>1. proj' = [proj EXCEPT ![t] = [state |-> "running", attempt |-> proj[t].attempt + 1]]
    BY <1>1 DEF Open
  <2>2. proj[t].attempt + 1 \in 0..MaxAttempts
    BY <1>1, <1>l, <1>m, TaskAssumption DEF Open, AttemptsLeft
  <2>3. \A u \in Tasks \ {t} : proj'[u] = proj[u]
    BY <2>1, <1>a
  <2>4. worker' \in [Tasks -> Worker] /\ AttemptsLeft'
    BY <1>1, <2>3, <1>p DEF Open, Goto
  <2>5. proj' \in [Tasks -> Task]
    BY <2>1, <2>2, <1>e, <1>i
  <2>. QED BY <1>1, <2>4, <2>5, <1>j, <1>a DEF Open
<1>2. CASE Baseline(t)
  <2>1. CASE Stall(t) /\ UNCHANGED open
    BY <1>2, <2>1, <1>s, <1>a DEF Baseline
  <2>2. CASE ~Stall(t) \/ ~UNCHANGED open
    <3>. DEFINE before == RedIn(Acceptance[t], work[t])
    <3>1. /\ open' = open \cup PreExisting(t, before)
          /\ worker' = [worker EXCEPT ![t] = [pc |-> "agent", before |-> before, after |-> {}]]
          /\ UNCHANGED <<proj, work, integ>>
      BY <1>2, <2>2 DEF Baseline
    <3>2. before \in SUBSET Cmds /\ PreExisting(t, before) \subseteq Cmds
      BY <1>k, <1>c DEF PreExisting
    <3>3. [pc |-> "agent", before |-> before, after |-> {}] \in Worker
      BY <3>2, <1>d
    <3>. HIDE DEF before
    <3>. QED BY <3>1, <3>2, <3>3, <1>q, <1>a
  <2>. QED BY <2>1, <2>2
<1>3. CASE Agent(t)
  <2>1. PICK q \in AgentMay[t] :
          work' = [work EXCEPT ![t] = work[t] \cup
                     {[by |-> t, fixes |-> q.fixes, breaks |-> q.breaks, clashes |-> FALSE]}]
    BY <1>3 DEF Agent
  <2>2. q \in [fixes : SUBSET Cmds, breaks : SUBSET Cmds]
    BY CommandAssumption
  <2>3. [by |-> t, fixes |-> q.fixes, breaks |-> q.breaks, clashes |-> FALSE] \in Patches
    BY <2>2 DEF Patches
  <2>4. work' \in [Tasks -> Trees]
    BY <2>1, <2>3, <1>c, <1>j DEF Trees
  <2>. QED BY <1>3, <2>4, <1>p, <1>a DEF Agent, Goto, journal
<1>4. CASE Post(t)
  <2>. DEFINE after == RedIn(Acceptance[t], work[t])
  <2>1. worker' = [worker EXCEPT ![t] = [pc |-> "judge", before |-> worker[t].before, after |-> after]]
    BY <1>4 DEF Post
  <2>2. [pc |-> "judge", before |-> worker[t].before, after |-> after] \in Worker
    BY <1>k, <1>c, <1>d DEF Worker
  <2>. QED BY <1>4, <2>1, <2>2, <1>q, <1>a DEF Post
<1>5. CASE Integrate(t)
  <2>1. [pc |-> "record", before |-> {}, after |-> {}] \in Worker
    BY <1>d
  <2>. QED BY <1>5, <2>1, <1>q, <1>a, <1>c, <1>j, <1>l DEF Integrate, Leave, journal, Trees
<1>6. CASE Record(t)
  <2>1. proj' = [proj EXCEPT ![t] = [proj[t] EXCEPT !.state = "verified"]]
    BY <1>6 DEF Record
  <2>2. \A u \in Tasks \ {t} : proj'[u] = proj[u]
    BY <2>1, <1>a
  <2>. QED BY <1>6, <2>1, <2>2, <1>p, <1>g, <1>i, <1>a DEF Record, Goto
<1>7. CASE Reject(t)
  <2>1. CASE Stall(t)
    BY <1>7, <2>1, <1>s, <1>a DEF Reject
  <2>2. CASE ~Stall(t)
    <3>1. /\ MayRetry(t)
          /\ proj' = [proj EXCEPT ![t] = [proj[t] EXCEPT !.state = "ready"]]
          /\ work' = [work EXCEPT ![t] = {}]
          /\ worker' = [worker EXCEPT ![t] = [pc |-> "open", before |-> {}, after |-> {}]]
          /\ UNCHANGED <<open, integ>>
      BY <1>7, <2>2 DEF Reject, Leave
    <3>2. [pc |-> "open", before |-> {}, after |-> {}] \in Worker
      BY <1>d
    <3>3. (\A u \in Tasks \ {t} : proj'[u] = proj[u]) /\ proj'[t].attempt = proj[t].attempt
      BY <3>1, <1>a, <1>g
    <3>. QED BY <3>1, <3>2, <3>3, <1>q, <1>g, <1>i, <1>j, <1>l, <1>a DEF MayRetry
  <2>. QED BY <2>1, <2>2
<1>. QED BY <1>1, <1>2, <1>3, <1>4, <1>5, <1>6, <1>7 DEF Run

LEMMA OthersTypeStep ==
  ASSUME TypeInv, Others
  PROVE  waiveds' \in [Cmds -> Nat] /\ UserType' /\ ConvType' /\ ShipType'
<1>. DEFINE Shipping == [pc : {"idle", "waive", "merge"}, tip : Trees, waived : SUBSET Cmds]
<1>a. /\ waiveds \in [Cmds -> Nat] /\ UserType /\ ConvType /\ ShipType
      /\ integ \in Trees /\ open \subseteq Cmds
  BY DEF TypeInv, JournalType, RunType
<1>b. Freshness \in Stamps
  BY <1>a DEF TypeInv, JournalType, UserType, Freshness, Stamps
<1>c. NoShip \in Shipping
  BY DEF NoShip, Trees
<1>d. \A x \in SUBSET Cmds, tree \in Trees, pc \in {"idle", "waive", "merge"} :
         [pc |-> pc, tip |-> tree, waived |-> x] \in Shipping
  OBVIOUS
<1>1. CASE UserCommits
  <2>1. PICK q \in UserMay \cap {"commit", "break", "clash"} :
          \E breaks \in IF q = "break" THEN SUBSET Checks ELSE {{}} :
            head' = head \cup {[by |-> User, fixes |-> {}, breaks |-> breaks, clashes |-> q = "clash"]}
    BY <1>1 DEF UserCommits
  <2>2. PICK breaks \in IF q = "break" THEN SUBSET Checks ELSE {{}} :
          head' = head \cup {[by |-> User, fixes |-> {}, breaks |-> breaks, clashes |-> q = "clash"]}
    BY <2>1
  <2>3. breaks \subseteq Cmds
    BY <2>2, CommandAssumption DEF Checks
  <2>4. (q = "clash") \in BOOLEAN
    OBVIOUS
  <2>5. [by |-> User, fixes |-> {}, breaks |-> breaks, clashes |-> q = "clash"] \in Patches
    BY <2>3, <2>4 DEF Patches
  <2>. QED BY <1>1, <1>a, <2>2, <2>5
       DEF UserCommits, UserType, ConvType, ShipType, journal, gates, Trees
<1>2. CASE UserEdits
  BY <1>2, <1>a DEF UserEdits, UserType, ConvType, ShipType, journal, gates, Inputs
<1>3. CASE Waive
  BY <1>3, <1>a DEF Waive, UserType, ConvType, ShipType, journal, gates
<1>4. CASE ConvergeStart
  <2>1. conv' \in [pc : {"inspect", "union", "write"}, stamp : Stamps]
    BY <1>4, <1>b DEF ConvergeStart
  <2>. QED BY <1>4, <1>a, <2>1 DEF ConvergeStart, UserType, ConvType, ShipType, journal, user
<1>5. ASSUME NEW pc \in {"union", "write"}, conv.pc \in {"inspect", "union"},
             conv' = [conv EXCEPT !.pc = pc] \/ conv' = FailedConverge,
             UNCHANGED <<journal, user, record, shipping, shipped, kills>>
      PROVE  waiveds' \in [Cmds -> Nat] /\ UserType' /\ ConvType' /\ ShipType'
  <2>1. conv \in [pc : {"inspect", "union", "write"}, stamp : Stamps]
    BY <1>a, <1>5 DEF ConvType, NoConverge, FailedConverge
  <2>2. [conv EXCEPT !.pc = pc] \in [pc : {"inspect", "union", "write"}, stamp : Stamps]
    BY <2>1
  <2>. QED BY <1>a, <1>5, <2>2 DEF UserType, ConvType, ShipType, journal, user
<1>6. CASE ConvergeInspect
  BY <1>6, <1>5 DEF ConvergeInspect
<1>7. CASE ConvergeUnion
  BY <1>7, <1>5 DEF ConvergeUnion
<1>8. CASE ConvergeWrite
  <2>1. record' = NoRecord \/ record' \in [ok : {TRUE}, stamp : Stamps]
    BY <1>8, <1>b DEF ConvergeWrite
  <2>. QED BY <1>8, <1>a, <2>1 DEF ConvergeWrite, UserType, ConvType, ShipType, journal, user
<1>9. CASE ShipStart
  <2>1. shipping' \in Shipping
    BY <1>9, <1>a, <1>d DEF ShipStart
  <2>. QED BY <1>9, <1>a, <2>1 DEF ShipStart, UserType, ConvType, ShipType, journal, user
<1>10. CASE ShipWaive
  <2>1. waiveds' \in [Cmds -> Nat]
    BY <1>10, <1>a DEF ShipWaive
  <2>2. shipping' \in Shipping
    BY <1>10, <1>a DEF ShipWaive, ShipType
  <2>. QED BY <1>10, <1>a, <2>1, <2>2 DEF ShipWaive, UserType, ConvType, ShipType, user
<1>11. CASE ShipMerge
  <2>1. head' \in Trees /\ (shipped' = NoTree \/ shipped' \in Trees)
    BY <1>11, <1>a DEF ShipMerge, UserType, ShipType, Trees
  <2>. QED BY <1>11, <1>a, <1>c, <2>1 DEF ShipMerge, UserType, ConvType, ShipType, journal
<1>12. CASE Kill
  <2>1. kills' \in 0..MaxKills
    BY <1>12, <1>a, TaskAssumption DEF Kill, ShipType
  <2>. QED BY <1>12, <1>a, <1>c, <2>1 DEF Kill, UserType, ConvType, ShipType, journal, user
<1>. QED BY <1>1, <1>2, <1>3, <1>4, <1>6, <1>7, <1>8, <1>9, <1>10, <1>11, <1>12
         DEF Others, Converge, Ship

LEMMA TypeInit == Init => TypeInv
<1>. SUFFICES ASSUME Init PROVE TypeInv
  OBVIOUS
<1>1. JournalType
  BY TaskAssumption DEF Init, JournalType, Projections
<1>2. RunType
  BY DEF Init, RunType, WorkerType, Trees
<1>3. UserType
  BY DEF Init, UserType, Trees, Inputs
<1>4. ConvType
  BY DEF Init, ConvType
<1>5. ShipType
  BY TaskAssumption DEF Init, ShipType, NoShip, Trees
<1>6. AttemptsLeft
  BY TaskAssumption DEF Init, AttemptsLeft
<1>. QED BY <1>1, <1>2, <1>3, <1>4, <1>5, <1>6 DEF TypeInv

LEMMA TypeStep == TypeInv /\ [Next]_vars => TypeInv'
<1>. SUFFICES ASSUME TypeInv, [Next]_vars PROVE TypeInv'
  OBVIOUS
<1>1. CASE \E t \in Tasks : Run(t)
  <2>1. PICK t \in Tasks : Run(t)
    BY <1>1
  <2>2. proj' \in Projections /\ open' \subseteq Cmds /\ RunType' /\ AttemptsLeft'
    BY <2>1, RunTypeStep
  <2>3. UNCHANGED <<waiveds, user, gates>>
    BY <2>1, RunsKeepTheGates
  <2>. QED BY <2>2, <2>3
       DEF TypeInv, JournalType, UserType, ConvType, ShipType, user, gates
<1>2. CASE Others
  <2>1. waiveds' \in [Cmds -> Nat] /\ UserType' /\ ConvType' /\ ShipType'
    BY <1>2, OthersTypeStep
  <2>2. UNCHANGED <<proj, open, run>>
    BY <1>2, OthersKeepTheRun
  <2>. QED BY <2>1, <2>2 DEF TypeInv, JournalType, RunType, WorkerType, AttemptsLeft, run
<1>3. CASE UNCHANGED vars
  BY <1>3 DEF TypeInv, JournalType, RunType, WorkerType, UserType, ConvType, ShipType, AttemptsLeft,
              vars, journal, run, user, gates
<1>. QED BY <1>1, <1>2, <1>3, StepsAreOfTwoKinds

LEMMA TypeInvariant == Spec => []TypeInv
  BY TypeInit, TypeStep, PTL DEF Spec

\* Whatever the workers, the gates and the user do, the state has its type: in
\* particular no attempt is begun beyond the limit, and what a gate reads back
\* is a record or none (exec/runner.py attempts, converge.py).
THEOREM TypeCorrect == Spec => []TypeOK
<1>1. TypeInv => TypeOK
  BY DEF TypeInv, TypeOK, JournalType, RunType, WorkerType, UserType, ConvType, ShipType
<1>. QED BY <1>1, TypeInvariant, PTL

-----------------------------------------------------------------------------
(* What the run knows.                                                     *)

HasWorkOf(t, tree) == \E p \in tree : p.by = t

\* A verdict is given once the work is merged, and ends the task.
Merged == \A t \in Tasks :
  /\ worker[t].pc \in {"post", "judge"} => HasWorkOf(t, work[t])
  /\ worker[t].pc = "record" => HasWorkOf(t, integ)
  /\ proj[t].state = "verified" => worker[t].pc = "ended" /\ HasWorkOf(t, integ)

\* What the worker holds is what it saw.
Seen == \A t \in Tasks :
  /\ worker[t].pc = "baseline" => work[t] \subseteq integ
  /\ worker[t].before \subseteq Acceptance[t]
  /\ worker[t].pc = "judge" => worker[t].after = RedIn(Acceptance[t], work[t])

\* A command that is red from the start and that no merged work fixes has a
\* debt, or one of the tasks that watch it has yet to open it, to fix it or to
\* be given up.
Fixed(c, tree) == \E p \in tree : c \in p.fixes
Pending(t, c) ==
  /\ c \in Acceptance[t]
  /\ \/ worker[t].pc \in {"open", "baseline"}
     \/ worker[t].pc \in {"agent", "post", "judge"} /\ c \in Proves[t]
     \/ worker[t].pc = "judge" /\ Fixed(c, work[t])
     \/ worker[t].pc = "ended" /\ proj[t].state # "verified"
Owed(c) == c \in open \/ Fixed(c, integ) \/ \E t \in Tasks : Pending(t, c)
Ledger == \A c \in Broken \cap UNION {Acceptance[t] : t \in Tasks} : Owed(c)

RunInv == Merged /\ Seen /\ Ledger

\* What a step of one worker leaves of the others.
LEMMA RunStep ==
  ASSUME TypeInv, NEW t \in Tasks, Run(t)
  PROVE  /\ \A u \in Tasks \ {t} : worker'[u] = worker[u] /\ work'[u] = work[u] /\ proj'[u] = proj[u]
         /\ integ \subseteq integ'
         /\ proj[t].state # "verified" \/ worker[t].pc # "ended"
         /\ integ' # integ => worker[t].pc = "judge"
<1>a. /\ DOMAIN worker = Tasks /\ DOMAIN work = Tasks /\ DOMAIN proj = Tasks
  BY DEF TypeInv, RunType, WorkerType, JournalType, Projections
<1>1. CASE Open(t) BY <1>1, <1>a DEF Open, Goto
<1>2. CASE Baseline(t) BY <1>2, <1>a DEF Baseline, Stall, Leave
<1>3. CASE Agent(t) BY <1>3, <1>a DEF Agent, Goto, journal
<1>4. CASE Post(t) BY <1>4, <1>a DEF Post
<1>5. CASE Integrate(t) BY <1>5, <1>a DEF Integrate, Leave, journal
<1>6. CASE Record(t) BY <1>6, <1>a DEF Record, Goto
<1>7. CASE Reject(t) BY <1>7, <1>a DEF Reject, Stall, Leave
<1>. QED BY <1>1, <1>2, <1>3, <1>4, <1>5, <1>6, <1>7 DEF Run

\* Where a step leaves the worker that makes it.
LEMMA RunLeavesAt ==
  ASSUME TypeInv, NEW t \in Tasks
  PROVE  /\ Open(t) => /\ worker'[t].pc = "baseline" /\ worker'[t].before = worker[t].before
                       /\ work'[t] = integ /\ integ' = integ /\ open' = open
                       /\ proj'[t].state = "running"
         /\ Stall(t) => /\ worker'[t].pc = "ended" /\ worker'[t].before = {}
                        /\ proj'[t].state = "stalled"
         /\ Agent(t) => /\ worker'[t].pc = "post" /\ worker'[t].before = worker[t].before
                        /\ HasWorkOf(t, work'[t]) /\ proj'[t].state = proj[t].state
                        /\ integ' = integ /\ open' = open
         /\ Post(t) => /\ worker'[t].pc = "judge" /\ worker'[t].before = worker[t].before
                       /\ worker'[t].after = RedIn(Acceptance[t], work[t])
                       /\ work'[t] = work[t] /\ proj'[t].state = proj[t].state /\ integ' = integ
         /\ Integrate(t) => /\ worker'[t].pc = "record" /\ worker'[t].before = {}
                            /\ proj'[t].state = proj[t].state
                            /\ integ' = integ \cup work[t] /\ open' = open
         /\ Record(t) => /\ worker'[t].pc = "ended" /\ worker'[t].before = worker[t].before
                         /\ proj'[t].state = "verified" /\ integ' = integ /\ open' = open
         /\ Reject(t) => /\ \/ Stall(t)
                            \/ /\ worker'[t].pc = "open" /\ worker'[t].before = {}
                               /\ proj'[t].state = "ready"
                         /\ integ' = integ /\ open' = open
<1>a. /\ worker \in [Tasks -> [pc : {"open", "baseline", "agent", "post", "judge", "record", "ended"},
                                before : SUBSET Cmds, after : SUBSET Cmds]]
      /\ DOMAIN work = Tasks
      /\ proj \in [Tasks -> [state : {"pending", "running", "ready", "verified", "stalled"},
                             attempt : 0..MaxAttempts]]
  BY DEF TypeInv, RunType, WorkerType, JournalType, Projections
<1>1. ASSUME NEW pc, Goto(t, pc)
      PROVE  worker'[t].pc = pc /\ worker'[t].before = worker[t].before
  BY <1>1, <1>a DEF Goto
<1>2. ASSUME NEW s, proj' = [proj EXCEPT ![t].state = s]
      PROVE  proj'[t].state = s
  BY <1>2, <1>a
<1>3. ASSUME NEW pc, Leave(t, pc)
      PROVE  worker'[t].pc = pc /\ worker'[t].before = {}
  BY <1>3, <1>a DEF Leave
<1>4. ASSUME Open(t)
      PROVE  /\ worker'[t].pc = "baseline" /\ worker'[t].before = worker[t].before
             /\ work'[t] = integ /\ integ' = integ /\ open' = open /\ proj'[t].state = "running"
  BY <1>4, <1>1, <1>a DEF Open
<1>5. ASSUME Stall(t)
      PROVE  worker'[t].pc = "ended" /\ worker'[t].before = {} /\ proj'[t].state = "stalled"
  BY <1>5, <1>2, <1>3 DEF Stall
<1>6. ASSUME Agent(t)
      PROVE  /\ worker'[t].pc = "post" /\ worker'[t].before = worker[t].before
             /\ HasWorkOf(t, work'[t]) /\ proj'[t].state = proj[t].state
             /\ integ' = integ /\ open' = open
  <2>1. HasWorkOf(t, work'[t])
    <3>1. PICK q \in AgentMay[t] :
            work' = [work EXCEPT ![t] = work[t] \cup
                       {[by |-> t, fixes |-> q.fixes, breaks |-> q.breaks, clashes |-> FALSE]}]
      BY <1>6 DEF Agent
    <3>2. [by |-> t, fixes |-> q.fixes, breaks |-> q.breaks, clashes |-> FALSE] \in work'[t]
      BY <3>1, <1>a
    <3>. QED BY <3>2 DEF HasWorkOf
  <2>. QED BY <1>6, <2>1, <1>1 DEF Agent, journal
<1>7. ASSUME Post(t)
      PROVE  /\ worker'[t].pc = "judge" /\ worker'[t].before = worker[t].before
             /\ worker'[t].after = RedIn(Acceptance[t], work[t])
             /\ work'[t] = work[t] /\ proj'[t].state = proj[t].state /\ integ' = integ
  BY <1>7, <1>a DEF Post
<1>8. ASSUME Integrate(t)
      PROVE  /\ worker'[t].pc = "record" /\ worker'[t].before = {} /\ proj'[t].state = proj[t].state
             /\ integ' = integ \cup work[t] /\ open' = open
  BY <1>8, <1>3 DEF Integrate, journal
<1>9. ASSUME Record(t)
      PROVE  /\ worker'[t].pc = "ended" /\ worker'[t].before = worker[t].before
             /\ proj'[t].state = "verified" /\ integ' = integ /\ open' = open
  BY <1>9, <1>1, <1>2 DEF Record
<1>10. ASSUME Reject(t)
       PROVE  /\ \/ Stall(t)
                 \/ worker'[t].pc = "open" /\ worker'[t].before = {} /\ proj'[t].state = "ready"
              /\ integ' = integ /\ open' = open
  <2>0. integ' = integ /\ open' = open
    BY <1>10 DEF Reject
  <2>1. CASE Stall(t)
    BY <2>0, <2>1
  <2>2. CASE Leave(t, "open") /\ proj' = [proj EXCEPT ![t].state = "ready"]
    <3>1. worker'[t].pc = "open" /\ worker'[t].before = {}
      BY <2>2, <1>3
    <3>2. proj'[t].state = "ready"
      BY <2>2, <1>2
    <3>. QED BY <2>0, <3>1, <3>2
  <2>. QED BY <1>10, <2>1, <2>2 DEF Reject
<1>. QED BY <1>4, <1>5, <1>6, <1>7, <1>8, <1>9, <1>10

\* Baseline, when it does not stop the attempt.
LEMMA BaselineLeavesAt ==
  ASSUME TypeInv, NEW t \in Tasks, Baseline(t)
  PROVE  /\ integ' = integ
         /\ \/ Stall(t) /\ open' = open
            \/ /\ worker'[t].pc = "agent" /\ worker'[t].before = RedIn(Acceptance[t], work[t])
               /\ open' = open \cup (RedIn(Acceptance[t], work[t]) \ Proves[t])
               /\ work' = work /\ proj' = proj
  BY DEF Baseline, PreExisting, TypeInv, RunType, WorkerType

LEMMA MergedStep ==
  ASSUME TypeInv, Merged, NEW t \in Tasks, Run(t)
  PROVE  Merged'
<1>. DEFINE At(u) == /\ worker[u].pc \in {"post", "judge"} => HasWorkOf(u, work[u])
                     /\ worker[u].pc = "record" => HasWorkOf(u, integ)
                     /\ proj[u].state = "verified" => worker[u].pc = "ended" /\ HasWorkOf(u, integ)
<1>a. \A u \in Tasks : At(u)
  BY DEF Merged
<1>b. SUFFICES \A u \in Tasks : At(u)'
  BY DEF Merged
<1>c. \A u \in Tasks \ {t} : At(u)'
  BY <1>a, RunStep DEF HasWorkOf
<1>d. proj[t].state # "verified" \/ worker[t].pc # "ended"
  BY RunStep
<1>1. CASE Open(t)
  BY <1>1, <1>c, RunLeavesAt
<1>2. ASSUME Stall(t) PROVE At(t)'
  BY <1>2, RunLeavesAt
<1>3. CASE Baseline(t)
  <2>1. CASE Stall(t)
    BY <2>1, <1>c, <1>2
  <2>2. CASE worker'[t].pc = "agent" /\ proj' = proj
    BY <1>3, <2>2, <1>a, <1>c DEF Baseline
  <2>. QED BY <1>3, <2>1, <2>2, BaselineLeavesAt
<1>4. CASE Agent(t)
  <2>1. worker[t].pc = "agent"
    BY <1>4 DEF Agent
  <2>2. worker'[t].pc = "post" /\ HasWorkOf(t, work'[t]) /\ proj'[t].state = proj[t].state
    BY <1>4, RunLeavesAt
  <2>3. HasWorkOf(t, work[t])' <=> HasWorkOf(t, work'[t])
    BY DEF HasWorkOf
  <2>. QED BY <2>1, <2>2, <2>3, <1>a, <1>c
<1>5. CASE Post(t)
  BY <1>5, <1>a, <1>c, RunLeavesAt DEF Post, HasWorkOf
<1>6. CASE Integrate(t)
  BY <1>6, <1>a, <1>c, RunLeavesAt DEF Integrate, HasWorkOf
<1>7. CASE Record(t)
  <2>1. worker[t].pc = "record"
    BY <1>7 DEF Record
  <2>2. worker'[t].pc = "ended" /\ integ' = integ
    BY <1>7, RunLeavesAt
  <2>3. HasWorkOf(t, integ)'
    BY <2>1, <2>2, <1>a DEF HasWorkOf
  <2>. QED BY <2>2, <2>3, <1>c
<1>8. CASE Reject(t)
  <2>1. CASE Stall(t)
    BY <2>1, <1>c, <1>2
  <2>2. CASE worker'[t].pc = "open" /\ proj'[t].state = "ready"
    BY <2>2, <1>c
  <2>. QED BY <1>8, <2>1, <2>2, RunLeavesAt
<1>. QED BY <1>1, <1>3, <1>4, <1>5, <1>6, <1>7, <1>8 DEF Run

LEMMA SeenStep ==
  ASSUME TypeInv, Seen, NEW t \in Tasks, Run(t)
  PROVE  Seen'
<1>. DEFINE At(u) == /\ worker[u].pc = "baseline" => work[u] \subseteq integ
                     /\ worker[u].before \subseteq Acceptance[u]
                     /\ worker[u].pc = "judge" => worker[u].after = RedIn(Acceptance[u], work[u])
<1>a. \A u \in Tasks : At(u)
  BY DEF Seen
<1>b. SUFFICES \A u \in Tasks : At(u)'
  BY DEF Seen
<1>c. \A u \in Tasks \ {t} : At(u)'
  BY <1>a, RunStep DEF RedIn, Red
<1>1. CASE Open(t)
  BY <1>1, <1>a, <1>c, RunLeavesAt
<1>2. ASSUME Stall(t) PROVE At(t)'
  BY <1>2, RunLeavesAt
<1>3. CASE Baseline(t)
  <2>1. CASE Stall(t)
    BY <2>1, <1>c, <1>2
  <2>2. CASE worker'[t].pc = "agent" /\ worker'[t].before = RedIn(Acceptance[t], work[t])
    BY <2>2, <1>c DEF RedIn
  <2>. QED BY <1>3, <2>1, <2>2, BaselineLeavesAt
<1>4. CASE Agent(t)
  BY <1>4, <1>a, <1>c, RunLeavesAt
<1>5. CASE Post(t)
  BY <1>5, <1>a, <1>c, RunLeavesAt DEF RedIn, Red
<1>6. CASE Integrate(t)
  BY <1>6, <1>c, RunLeavesAt
<1>7. CASE Record(t)
  BY <1>7, <1>a, <1>c, RunLeavesAt
<1>8. CASE Reject(t)
  <2>1. CASE Stall(t)
    BY <2>1, <1>c, <1>2
  <2>2. CASE worker'[t].pc = "open" /\ worker'[t].before = {}
    BY <2>2, <1>c
  <2>. QED BY <1>8, <2>1, <2>2, RunLeavesAt
<1>. QED BY <1>1, <1>3, <1>4, <1>5, <1>6, <1>7, <1>8 DEF Run

LEMMA LedgerStep ==
  ASSUME TypeInv, RunInv, NEW t \in Tasks, Run(t)
  PROVE  Ledger'
<1>. SUFFICES ASSUME NEW c \in Broken \cap UNION {Acceptance[u] : u \in Tasks}
              PROVE  Owed(c)'
  BY DEF Ledger
<1>a. Owed(c)
  BY DEF RunInv, Ledger
<1>b. integ \subseteq integ' /\ (Fixed(c, integ) => Fixed(c, integ'))
  BY RunStep DEF Fixed
<1>c. \A u \in Tasks \ {t} : Pending(u, c) => Pending(u, c)'
  BY RunStep DEF Pending, Fixed
<1>d. ASSUME Pending(t, c) => Pending(t, c)' \/ c \in open' \/ Fixed(c, integ'),
             c \in open => c \in open' \/ Pending(t, c)'
      PROVE  Owed(c)'
  <2>1. CASE c \in open
    BY <2>1, <1>d DEF Owed
  <2>2. CASE Fixed(c, integ)
    BY <2>2, <1>b DEF Owed, Fixed
  <2>3. CASE \E u \in Tasks : Pending(u, c)
    BY <2>3, <1>c, <1>d DEF Owed, Fixed
  <2>. QED BY <1>a, <2>1, <2>2, <2>3 DEF Owed
<1>1. CASE Open(t)
  <2>1. worker'[t].pc = "baseline" /\ open' = open
    BY <1>1, RunLeavesAt
  <2>. QED BY <2>1, <1>d DEF Pending
<1>2. ASSUME Stall(t), Pending(t, c) PROVE Pending(t, c)'
  <2>1. worker'[t].pc = "ended" /\ proj'[t].state = "stalled"
    BY <1>2, RunLeavesAt
  <2>. QED BY <2>1, <1>2 DEF Pending
<1>3. CASE Baseline(t)
  <2>1. CASE Stall(t) /\ open' = open
    BY <2>1, <1>2, <1>d
  <2>2. CASE /\ worker'[t].pc = "agent"
             /\ open' = open \cup (RedIn(Acceptance[t], work[t]) \ Proves[t])
    <3>1. ASSUME c \in Acceptance[t], ~Red(c, work[t]) PROVE Fixed(c, integ')
      <4>1. PICK p \in work[t] : c \in p.fixes
        BY <3>1 DEF Red
      <4>2. p \in integ'
        BY <4>1, <1>3, <1>b DEF Baseline, RunInv, Seen
      <4>. QED BY <4>1, <4>2 DEF Fixed
    <3>2. ASSUME c \in Acceptance[t], Red(c, work[t]) PROVE c \in open' \/ Pending(t, c)'
      BY <2>2, <3>2 DEF RedIn, Pending
    <3>. QED BY <2>2, <3>1, <3>2, <1>d DEF Pending
  <2>. QED BY <1>3, <2>1, <2>2, BaselineLeavesAt
<1>4. CASE Agent(t)
  <2>1. worker'[t].pc = "post" /\ open' = open
    BY <1>4, RunLeavesAt
  <2>. QED BY <2>1, <1>4, <1>d DEF Pending, Agent
<1>5. CASE Post(t)
  <2>1. worker'[t].pc = "judge" /\ work'[t] = work[t]
    BY <1>5, RunLeavesAt
  <2>2. Pending(t, c) => Pending(t, c)'
    BY <2>1, <1>5 DEF Pending, Post
  <2>3. ASSUME c \in open, c \notin open' PROVE Pending(t, c)'
    <3>1. c \in worker[t].before /\ ~(c \in Acceptance[t] /\ Red(c, work[t]))
      BY <1>5, <2>3 DEF Post, Closes, RedIn
    <3>2. c \in Acceptance[t]
      BY <3>1 DEF RunInv, Seen
    <3>3. Fixed(c, work[t])
      BY <3>1, <3>2 DEF Red, Fixed
    <3>4. Fixed(c, work'[t])
      BY <3>3, <2>1
    <3>. QED BY <2>1, <3>2, <3>4 DEF Pending, Fixed
  <2>. QED BY <2>2, <2>3, <1>d
<1>6. CASE Integrate(t)
  <2>1. integ' = integ \cup work[t] /\ open' = open
    BY <1>6, RunLeavesAt
  <2>2. ASSUME Pending(t, c) PROVE Fixed(c, work[t])
    <3>1. CASE c \in Proves[t]
      <4>1. ~(c \in RedIn(Acceptance[t], work[t]))
        BY <1>6, <3>1 DEF Integrate, Unmet, RunInv, Seen
      <4>. QED BY <4>1, <2>2 DEF RedIn, Red, Pending, Fixed
    <3>. QED BY <3>1, <2>2, <1>6 DEF Pending, Integrate
  <2>. QED BY <2>1, <2>2, <1>d DEF Fixed
<1>7. CASE Record(t)
  <2>1. open' = open /\ ~Pending(t, c)
    BY <1>7, RunLeavesAt DEF Record, Pending
  <2>. QED BY <2>1, <1>d
<1>8. CASE Reject(t)
  <2>1. open' = open
    BY <1>8, RunLeavesAt
  <2>2. CASE Stall(t)
    BY <2>1, <2>2, <1>2, <1>d
  <2>3. CASE worker'[t].pc = "open"
    BY <2>1, <2>3, <1>d DEF Pending
  <2>. QED BY <1>8, <2>2, <2>3, RunLeavesAt
<1>. QED BY <1>1, <1>3, <1>4, <1>5, <1>6, <1>7, <1>8 DEF Run

LEMMA RunInvInit == Init => RunInv
<1>. SUFFICES ASSUME Init PROVE RunInv
  OBVIOUS
<1>1. Merged
  BY DEF Init, Merged
<1>2. Seen
  BY DEF Init, Seen
<1>3. Ledger
  BY DEF Init, Ledger, Owed, Pending
<1>. QED BY <1>1, <1>2, <1>3 DEF RunInv

LEMMA RunInvStep == TypeInv /\ RunInv /\ [Next]_vars => RunInv'
<1>. SUFFICES ASSUME TypeInv, RunInv, [Next]_vars PROVE RunInv'
  OBVIOUS
<1>1. CASE \E t \in Tasks : Run(t)
  BY <1>1, MergedStep, SeenStep, LedgerStep DEF RunInv
<1>2. CASE UNCHANGED <<proj, open, run>>
  BY <1>2 DEF RunInv, Merged, Seen, Ledger, Owed, Pending, Fixed, HasWorkOf, RedIn, Red, run
<1>3. CASE UNCHANGED vars
  BY <1>2, <1>3 DEF vars, journal
<1>. QED BY <1>1, <1>2, <1>3, StepsAreOfTwoKinds, OthersKeepTheRun

LEMMA RunInvariant == Spec => []RunInv
  BY RunInvInit, RunInvStep, TypeInvariant, PTL DEF Spec

\* Although an attempt closes debts before it is judged, and others' attempts
\* are rejected, retried or given up beside it: once all tasks are verified the
\* ledger has every criterion that was red at the start, that nobody fixed and
\* nobody broke (exec/runner.py _baseline and _post, exec/verify.py _outcome).
THEOREM LedgerMakesUp == Spec => []LedgerIsComplete
<1>1. ASSUME RunInv PROVE LedgerIsComplete
  <2>. SUFFICES ASSUME AllVerified, NEW c \in UNION {Acceptance[t] : t \in Tasks},
                       Red(c, integ), \A p \in integ : c \notin p.breaks
                PROVE  c \in open
    BY DEF LedgerIsComplete
  <2>1. c \in Broken /\ ~Fixed(c, integ)
    BY DEF Red, Fixed
  <2>2. \A t \in Tasks : ~Pending(t, c)
    BY DEF AllVerified, Pending
  <2>. QED BY <1>1, <2>1, <2>2 DEF RunInv, Ledger, Owed
<1>. QED BY <1>1, RunInvariant, PTL

-----------------------------------------------------------------------------
(* What the gates know.  A stamp is what a converge read when it started.  *)

Vouched(stamp) == Covered(stamp) /\ "spec" \notin stamp.inputs

\* What was read later is worth something only as long as nothing moved.
Validating == conv.stamp \in Stamps =>
  /\ conv.pc # "idle" => conv.stamp.integration \subseteq integ /\ conv.stamp.inputs \subseteq edits
  /\ conv.pc \in {"union", "write"} => Vouched(conv.stamp)
  /\ conv.pc = "write" /\ integ = conv.stamp.integration =>
       RedIn(Checks, integ) \subseteq conv.stamp.open

Recorded == record.ok =>
  /\ record.stamp \in Stamps /\ Vouched(record.stamp)
  /\ RedIn(Checks, record.stamp.integration) \subseteq record.stamp.open

GateInv == Validating /\ Recorded

LEMMA NoStampIsNoStamp == NoStamp \notin Stamps
<1>1. \A s \in Stamps : "open" \in DOMAIN s
  BY DEF Stamps
<1>2. DOMAIN NoStamp = {}
  BY DEF NoStamp
<1>. QED BY <1>1, <1>2

LEMMA BranchAndEditsGrow ==
  ASSUME TypeInv, [Next]_vars
  PROVE  integ \subseteq integ' /\ edits \subseteq edits'
<1>1. CASE \E t \in Tasks : Run(t)
  BY <1>1, RunStep, RunsKeepTheGates DEF user
<1>2. CASE Others
  <2>1. edits \subseteq edits'
    BY <1>2 DEF Others, UserCommits, UserEdits, Waive, Converge, ConvergeStart, ConvergeInspect,
                ConvergeUnion, ConvergeWrite, Ship, ShipStart, ShipWaive, ShipMerge, Kill, user
  <2>. QED BY <1>2, <2>1, OthersKeepTheRun DEF run
<1>3. CASE UNCHANGED vars
  BY <1>3 DEF vars, run, user
<1>. QED BY <1>1, <1>2, <1>3, StepsAreOfTwoKinds

LEMMA GateInvInit == Init => GateInv
  BY NoStampIsNoStamp DEF Init, GateInv, Validating, Recorded, NoConverge, NoRecord

LEMMA GateInvStep == TypeInv /\ GateInv /\ [Next]_vars => GateInv'
<1>. SUFFICES ASSUME TypeInv, GateInv, [Next]_vars PROVE GateInv'
  OBVIOUS
<1>a. integ \subseteq integ' /\ edits \subseteq edits'
  BY BranchAndEditsGrow
<1>b. integ \in Trees /\ ConvType /\ Freshness \in Stamps
  BY DEF TypeInv, RunType, JournalType, UserType, Freshness, Stamps
<1>1. CASE UNCHANGED <<record, conv>>
  <2>1. ASSUME conv.stamp.integration \subseteq integ, integ' = conv.stamp.integration
        PROVE  integ' = integ
    BY <2>1, <1>a
  <2>2. ASSUME integ' = integ PROVE RedIn(Checks, integ)' = RedIn(Checks, integ)
    BY <2>2 DEF RedIn, Red, Checks
  <2>. QED BY <1>1, <1>a, <2>1, <2>2
       DEF GateInv, Validating, Recorded, Vouched, Covered, VerifiedIn, RedIn, Red, Checks
<1>2. CASE record' = record /\ conv'.stamp = NoStamp
  <2>1. Validating'
    BY <1>2, NoStampIsNoStamp DEF Validating
  <2>. QED BY <1>2, <2>1 DEF GateInv, Recorded, Vouched, Covered, VerifiedIn, RedIn, Red, Checks
<1>3. CASE ConvergeStart
  <2>1. conv' = [pc |-> "inspect", stamp |-> Freshness] /\ record' = record
    BY <1>3 DEF ConvergeStart
  <2>2. Validating'
    BY <2>1, <1>a DEF Validating, Freshness
  <2>. QED BY <2>1, <2>2 DEF GateInv, Recorded, Vouched, Covered, VerifiedIn, RedIn, Red, Checks
<1>4. CASE ConvergeInspect /\ conv' # FailedConverge
  <2>1. /\ conv.pc = "inspect" /\ Covered(conv.stamp) /\ "spec" \notin edits
        /\ conv' = [conv EXCEPT !.pc = "union"] /\ record' = record
    BY <1>4 DEF ConvergeInspect, Drift
  <2>2. conv \in [pc : {"inspect", "union", "write"}, stamp : Stamps]
    BY <1>b, <2>1 DEF ConvType, NoConverge, FailedConverge
  <2>3. conv'.stamp = conv.stamp /\ conv'.pc = "union"
    BY <2>1, <2>2
  <2>4. Vouched(conv.stamp)
    BY <2>1, <2>2 DEF GateInv, Validating, Vouched
  <2>5. Validating'
    BY <2>1, <2>2, <2>3, <2>4, <1>a DEF GateInv, Validating, Vouched, Covered, VerifiedIn
  <2>. QED BY <2>1, <2>5 DEF GateInv, Recorded, Vouched, Covered, VerifiedIn, RedIn, Red, Checks
<1>5. CASE ConvergeUnion /\ conv' # FailedConverge
  <2>1. /\ conv.pc = "union" /\ RedIn(Checks, integ) \subseteq conv.stamp.open
        /\ conv' = [conv EXCEPT !.pc = "write"] /\ record' = record /\ integ' = integ
    BY <1>5 DEF ConvergeUnion, UnownedRed, run
  <2>2. conv \in [pc : {"inspect", "union", "write"}, stamp : Stamps]
    BY <1>b, <2>1 DEF ConvType, NoConverge, FailedConverge
  <2>3. conv'.stamp = conv.stamp /\ conv'.pc = "write"
    BY <2>1, <2>2
  <2>4. RedIn(Checks, integ)' = RedIn(Checks, integ)
    BY <2>1 DEF RedIn, Red, Checks
  <2>5. Validating'
    BY <2>1, <2>2, <2>3, <2>4, <1>a DEF GateInv, Validating, Vouched, Covered, VerifiedIn
  <2>. QED BY <2>1, <2>5 DEF GateInv, Recorded, Vouched, Covered, VerifiedIn, RedIn, Red, Checks
<1>6. CASE ConvergeWrite
  <2>1. Validating'
    BY <1>6, NoStampIsNoStamp DEF ConvergeWrite, Validating, NoConverge
  <2>2. CASE conv.stamp = Freshness
    <3>1. record' = [ok |-> TRUE, stamp |-> conv.stamp] /\ conv.pc = "write"
      BY <1>6, <2>2 DEF ConvergeWrite
    <3>2. conv.stamp \in Stamps /\ conv.stamp.integration = integ
      BY <2>2, <1>b DEF Freshness
    <3>3. Vouched(conv.stamp) /\ RedIn(Checks, conv.stamp.integration) \subseteq conv.stamp.open
      BY <3>1, <3>2 DEF GateInv, Validating
    <3>4. record'.ok /\ record'.stamp = conv.stamp
      BY <3>1
    <3>. QED BY <2>1, <3>2, <3>3, <3>4
         DEF GateInv, Recorded, Vouched, Covered, VerifiedIn, RedIn, Red, Checks
  <2>3. CASE conv.stamp # Freshness
    BY <1>6, <2>1, <2>3 DEF ConvergeWrite, GateInv, Recorded, NoRecord
  <2>. QED BY <2>2, <2>3
<1>7. ASSUME Others
      PROVE  \/ ConvergeStart \/ ConvergeInspect \/ ConvergeUnion \/ ConvergeWrite
             \/ UNCHANGED <<record, conv>>
             \/ record' = record /\ conv' = NoConverge
  BY <1>7 DEF Others, UserCommits, UserEdits, Waive, Converge, Ship, ShipStart, ShipWaive, ShipMerge,
              Kill, gates
<1>8. (ConvergeInspect \/ ConvergeUnion => record' = record) /\ NoConverge.stamp = NoStamp
      /\ FailedConverge.stamp = NoStamp
  BY DEF ConvergeInspect, ConvergeUnion, NoConverge, FailedConverge
<1>9. CASE Others
  BY <1>1, <1>2, <1>3, <1>4, <1>5, <1>6, <1>7, <1>8, <1>9
<1>10. CASE \E t \in Tasks : Run(t)
  BY <1>1, <1>10, RunsKeepTheGates DEF gates
<1>11. CASE UNCHANGED vars
  BY <1>1, <1>11 DEF vars, gates
<1>. QED BY <1>9, <1>10, <1>11, StepsAreOfTwoKinds

LEMMA GateInvariant == Spec => []GateInv
  BY GateInvInit, GateInvStep, TypeInvariant, PTL DEF Spec

\* What holds when ship lets a run pass.
LEMMA ShipPasses ==
  ASSUME TypeInv, GateInv, ShipStart
  PROVE  /\ Required \subseteq {t \in Tasks : proj[t].state = "verified"}
         /\ ~Drift /\ RedIn(Checks, integ) \subseteq open /\ open \subseteq waivers
         /\ shipping' = [pc |-> "waive", tip |-> integ, waived |-> open]
<1>1. record.ok /\ record.stamp = Freshness /\ open \ waivers = {}
  BY DEF ShipStart, Converged, Remaining
<1>2. Vouched(Freshness) /\ RedIn(Checks, Freshness.integration) \subseteq Freshness.open
  BY <1>1 DEF GateInv, Recorded
<1>3. /\ Freshness.proj = proj /\ Freshness.inputs = edits /\ Freshness.integration = integ
      /\ Freshness.open = open
  BY DEF Freshness
<1>4. open \cap waivers = open
  BY <1>1
<1>5. shipping' = [pc |-> "waive", tip |-> integ, waived |-> open]
  BY <1>4 DEF ShipStart
<1>. QED BY <1>1, <1>2, <1>3, <1>5 DEF Vouched, Covered, VerifiedIn, Drift

\* The four conditions of the ship gate hold together at the moment ship passes
\* it, although converge read them one after the other, while workers, users
\* and an earlier gate went on (converge.py).
THEOREM GateIsSound == Spec => ShipConditionsHold
<1>1. ASSUME TypeInv, RunInv, GateInv, [Next]_vars
      PROVE  [shipping.pc = "idle" /\ shipping'.pc = "waive" =>
                /\ \A t \in Required : proj[t].state = "verified" /\ \E p \in integ : p.by = t
                /\ ~Drift
                /\ RedIn(Checks, integ) \subseteq open /\ open \subseteq waivers]_vars
  <2>. SUFFICES ASSUME shipping.pc = "idle", shipping'.pc = "waive"
                PROVE  /\ \A t \in Required : proj[t].state = "verified" /\ \E p \in integ : p.by = t
                       /\ ~Drift
                       /\ RedIn(Checks, integ) \subseteq open /\ open \subseteq waivers
    OBVIOUS
  <2>1. shipping' # shipping
    OBVIOUS
  <2>2. ~(\E t \in Tasks : Run(t)) /\ ~UNCHANGED vars
    BY <2>1, RunsKeepTheGates DEF gates, vars
  <2>3. Others
    BY <1>1, <2>2, StepsAreOfTwoKinds
  <2>4. ShipStart
    BY <2>1, <2>3 DEF Others, UserCommits, UserEdits, Waive, Converge, ConvergeStart, ConvergeInspect,
                      ConvergeUnion, ConvergeWrite, Ship, ShipWaive, ShipMerge, Kill, gates, NoShip
  <2>. QED BY <1>1, <2>4, ShipPasses DEF RunInv, Merged, HasWorkOf
<1>. QED BY <1>1, TypeInvariant, RunInvariant, GateInvariant, PTL DEF Spec, ShipConditionsHold

-----------------------------------------------------------------------------
(* What ship does.                                                         *)

\* Every red of the checked tip is waived before the merge, once.
Waiving ==
  /\ shipping.pc = "waive" => RedIn(Checks, shipping.tip) \subseteq shipping.waived
  /\ shipping.pc = "merge" => \A c \in RedIn(Checks, shipping.tip) : waiveds[c] > 0
  /\ WaivedOnce

\* Where every task satisfies a requirement, a ship has no worker beside it.
EveryTaskIsRequired == Required = Tasks
Frozen == shipping.pc # "idle" =>
            integ = shipping.tip /\ \A t \in Tasks : proj[t].state = "verified"

\* Where the user breaks nothing, what is on the user's branch beyond the
\* integration branch decides nothing.
UserIsHarmless == "break" \notin UserMay
HeadIsKnown == \A p \in head : p \in integ \/ (p.fixes = {} /\ p.breaks = {})

LEMMA OthersButShip ==
  ASSUME Others, ~ShipStart, ~ShipWaive, ~ShipMerge
  PROVE  /\ shipping' = shipping \/ shipping'.pc = "idle"
         /\ waiveds' = waiveds /\ shipped' = shipped /\ (head' = head \/ UserCommits)
<1>1. UserCommits => UNCHANGED <<waiveds, shipping, shipped>>
  BY DEF UserCommits, journal, gates
<1>2. UserEdits \/ Waive => UNCHANGED <<waiveds, head, shipping, shipped>>
  BY DEF UserEdits, Waive, journal, gates
<1>3. Converge => UNCHANGED <<waiveds, head, shipping, shipped>>
  BY DEF Converge, ConvergeStart, ConvergeInspect, ConvergeUnion, ConvergeWrite, journal, user
<1>4. Kill => UNCHANGED <<waiveds, head, shipped>> /\ (shipping' = shipping \/ shipping'.pc = "idle")
  BY DEF Kill, journal, user, NoShip
<1>. QED BY <1>1, <1>2, <1>3, <1>4 DEF Others, Ship

LEMMA WaivingStep == TypeInv /\ GateInv /\ Waiving /\ [Next]_vars => Waiving'
<1>. SUFFICES ASSUME TypeInv, GateInv, Waiving, [Next]_vars PROVE Waiving'
  OBVIOUS
<1>a. /\ waiveds \in [Cmds -> Nat] /\ Checks \subseteq Cmds
      /\ shipping \in [pc : {"idle", "waive", "merge"}, tip : Trees, waived : SUBSET Cmds]
  BY CommandAssumption DEF TypeInv, JournalType, ShipType, Checks
<1>1. CASE UNCHANGED <<shipping, waiveds>>
  BY <1>1 DEF Waiving, WaivedOnce, RedIn, Red, Checks
<1>2. CASE shipping'.pc = "idle" /\ waiveds' = waiveds
  BY <1>2 DEF Waiving, WaivedOnce
<1>3. CASE ShipStart
  <2>1. shipping' = [pc |-> "waive", tip |-> integ, waived |-> open]
        /\ RedIn(Checks, integ) \subseteq open
    BY <1>3, ShipPasses
  <2>2. shipping'.pc = "waive" /\ shipping'.tip = integ /\ shipping'.waived = open
    BY <2>1
  <2>3. waiveds' = waiveds
    BY <1>3 DEF ShipStart, journal
  <2>4. RedIn(Checks, shipping'.tip) \subseteq shipping'.waived
    BY <2>1, <2>2
  <2>. QED BY <2>2, <2>3, <2>4 DEF Waiving, WaivedOnce, RedIn, Red, Checks
<1>4. CASE ShipWaive
  <2>1. shipping.pc = "waive" /\ shipping' = [shipping EXCEPT !.pc = "merge"]
    BY <1>4 DEF ShipWaive
  <2>2. shipping'.pc = "merge" /\ shipping'.tip = shipping.tip
    BY <2>1, <1>a
  <2>3. \A c \in Cmds : waiveds'[c] = waiveds[c] + (IF c \in shipping.waived \ Already THEN 1 ELSE 0)
    BY <1>4 DEF ShipWaive
  <2>4. \A c \in Cmds : waiveds'[c] <= 1
    BY <2>3, <1>a DEF Waiving, WaivedOnce, Already
  <2>5. \A c \in shipping.waived : waiveds'[c] > 0
    BY <2>3, <1>a DEF Already
  <2>6. \A c \in RedIn(Checks, shipping'.tip) : waiveds'[c] > 0
    BY <2>1, <2>2, <2>5 DEF Waiving
  <2>. QED BY <2>2, <2>4, <2>6 DEF Waiving, WaivedOnce, RedIn, Red, Checks
<1>5. CASE ShipMerge
  <2>1. shipping'.pc = "idle" /\ waiveds' = waiveds
    BY <1>5 DEF ShipMerge, NoShip, journal
  <2>. QED BY <2>1, <1>2
<1>6. CASE Others
  BY <1>1, <1>2, <1>3, <1>4, <1>5, <1>6, OthersButShip
<1>7. CASE \E t \in Tasks : Run(t)
  BY <1>1, <1>7, RunsKeepTheGates DEF gates
<1>8. CASE UNCHANGED vars
  BY <1>1, <1>8 DEF vars, gates, journal
<1>. QED BY <1>6, <1>7, <1>8, StepsAreOfTwoKinds

LEMMA WaivingInvariant == Spec => []Waiving
<1>1. Init => Waiving
  BY DEF Init, Waiving, WaivedOnce, NoShip
<1>. QED BY <1>1, WaivingStep, TypeInvariant, GateInvariant, PTL DEF Spec

\* However often a ship is killed, meets a conflict and is run again, a debt is
\* waived in the journal at most once (converge.py ship).
THEOREM WaivedOnlyOnce == Spec => []WaivedOnce
<1>1. Waiving => WaivedOnce
  BY DEF Waiving
<1>. QED BY <1>1, WaivingInvariant, PTL

LEMMA FrozenStep ==
  ASSUME EveryTaskIsRequired
  PROVE  TypeInv /\ RunInv /\ GateInv /\ Frozen /\ [Next]_vars => Frozen'
<1>. SUFFICES ASSUME TypeInv, RunInv, GateInv, Frozen, [Next]_vars PROVE Frozen'
  OBVIOUS
<1>1. CASE \E t \in Tasks : Run(t)
  <2>1. PICK t \in Tasks : Run(t)
    BY <1>1
  <2>2. ~(proj[t].state = "verified" /\ worker[t].pc = "ended")
    BY <2>1, RunStep
  <2>3. proj[t].state # "verified"
    BY <2>2 DEF RunInv, Merged
  <2>4. shipping.pc = "idle" /\ shipping' = shipping
    BY <2>1, <2>3, RunsKeepTheGates DEF Frozen, gates
  <2>. QED BY <2>4 DEF Frozen
<1>2. CASE Others
  <2>1. integ' = integ /\ proj' = proj
    BY <1>2, OthersKeepTheRun DEF run
  <2>2. CASE ShipStart
    <3>1. shipping'.tip = integ /\ Required \subseteq {t \in Tasks : proj[t].state = "verified"}
      BY <2>2, ShipPasses
    <3>. QED BY <2>1, <3>1, EveryTaskIsRequired DEF Frozen, EveryTaskIsRequired
  <2>3. CASE ShipWaive
    <3>1. shipping.pc = "waive" /\ shipping'.tip = shipping.tip
      BY <2>3 DEF ShipWaive, TypeInv, ShipType
    <3>. QED BY <2>1, <3>1 DEF Frozen
  <2>4. CASE shipping' = shipping
    BY <2>1, <2>4 DEF Frozen
  <2>5. CASE shipping'.pc = "idle"
    BY <2>5 DEF Frozen
  <2>6. ShipMerge => shipping'.pc = "idle"
    BY DEF ShipMerge, NoShip
  <2>. QED BY <1>2, <2>2, <2>3, <2>4, <2>5, <2>6, OthersButShip
<1>3. CASE UNCHANGED vars
  BY <1>3 DEF Frozen, vars, journal, run, gates
<1>. QED BY <1>1, <1>2, <1>3, StepsAreOfTwoKinds

LEMMA FrozenInvariant ==
  ASSUME EveryTaskIsRequired PROVE Spec => []Frozen
<1>1. Init => Frozen
  BY DEF Init, Frozen, NoShip
<1>2. TypeInv /\ RunInv /\ GateInv /\ Frozen /\ [Next]_vars => Frozen'
  BY EveryTaskIsRequired, FrozenStep
<1>. QED BY <1>1, <1>2, TypeInvariant, RunInvariant, GateInvariant, PTL DEF Spec

\* Only a ship changes what was shipped.
LEMMA OnlyMergeShips ==
  ASSUME [Next]_vars, shipped' # shipped
  PROVE  ShipMerge
<1>1. ~(\E t \in Tasks : Run(t)) /\ ~UNCHANGED vars
  BY RunsKeepTheGates DEF gates, vars
<1>2. Others
  BY <1>1, StepsAreOfTwoKinds
<1>. QED BY <1>2, OthersButShip DEF ShipStart, ShipWaive

\* Where every task satisfies a requirement, the branch is the one whose tip
\* ship read when it validated, although it is merged by name and later and no
\* lock keeps the workers from moving it (converge.py ship).
THEOREM CheckedTipIsMerged ==
  ASSUME EveryTaskIsRequired PROVE Spec => MergesTheCheckedTip
<1>1. ASSUME Frozen, [Next]_vars PROVE [shipped' # shipped => integ = shipping.tip]_vars
  BY <1>1, OnlyMergeShips DEF ShipMerge, Frozen
<1>. QED BY <1>1, FrozenInvariant, PTL DEF Spec, MergesTheCheckedTip

LEMMA HeadStep ==
  ASSUME UserIsHarmless
  PROVE  TypeInv /\ HeadIsKnown /\ [Next]_vars => HeadIsKnown'
<1>. SUFFICES ASSUME TypeInv, HeadIsKnown, [Next]_vars PROVE HeadIsKnown'
  OBVIOUS
<1>a. integ \subseteq integ'
  BY BranchAndEditsGrow
<1>1. CASE head' = head
  BY <1>1, <1>a DEF HeadIsKnown
<1>2. CASE UserCommits
  <2>1. PICK q \in UserMay \cap {"commit", "break", "clash"} :
          \E breaks \in IF q = "break" THEN SUBSET Checks ELSE {{}} :
            head' = head \cup {[by |-> User, fixes |-> {}, breaks |-> breaks, clashes |-> q = "clash"]}
    BY <1>2 DEF UserCommits
  <2>2. head' = head \cup {[by |-> User, fixes |-> {}, breaks |-> {}, clashes |-> q = "clash"]}
    BY <2>1 DEF UserIsHarmless
  <2>. QED BY <2>2, <1>a DEF HeadIsKnown
<1>3. CASE ShipMerge
  BY <1>3, <1>a DEF ShipMerge, HeadIsKnown
<1>4. ShipStart \/ ShipWaive => head' = head
  BY DEF ShipStart, ShipWaive, user
<1>5. CASE Others
  BY <1>1, <1>2, <1>3, <1>4, <1>5, OthersButShip
<1>6. CASE \E t \in Tasks : Run(t)
  BY <1>1, <1>6, RunsKeepTheGates DEF user
<1>7. CASE UNCHANGED vars
  BY <1>1, <1>7 DEF vars, user
<1>. QED BY <1>5, <1>6, <1>7, StepsAreOfTwoKinds

LEMMA WaiversStay ==
  ASSUME TypeInv, [Next]_vars PROVE \A c \in Cmds : waiveds[c] > 0 => waiveds'[c] > 0
<1>1. CASE waiveds' = waiveds
  BY <1>1
<1>2. CASE ShipWaive
  BY <1>2 DEF ShipWaive, TypeInv, JournalType
<1>3. ShipStart \/ ShipMerge => waiveds' = waiveds
  BY DEF ShipStart, ShipMerge, journal
<1>4. CASE Others
  BY <1>1, <1>2, <1>3, <1>4, OthersButShip
<1>5. CASE \E t \in Tasks : Run(t)
  BY <1>1, <1>5, RunsKeepTheGates
<1>6. CASE UNCHANGED vars
  BY <1>1, <1>6 DEF vars, journal
<1>. QED BY <1>4, <1>5, <1>6, StepsAreOfTwoKinds

LEMMA BrokenStep ==
  ASSUME EveryTaskIsRequired, UserIsHarmless
  PROVE  TypeInv /\ Waiving /\ Frozen /\ HeadIsKnown /\ NothingBrokenShips /\ [Next]_vars
           => NothingBrokenShips'
<1>. SUFFICES ASSUME TypeInv, Waiving, Frozen, HeadIsKnown, NothingBrokenShips, [Next]_vars
              PROVE  NothingBrokenShips'
  OBVIOUS
<1>a. Checks \subseteq Cmds
  BY CommandAssumption DEF Checks
<1>1. CASE shipped' = shipped
  BY <1>1, <1>a, WaiversStay DEF NothingBrokenShips, Red, Checks
<1>2. CASE shipped' # shipped
  <2>1. /\ shipping.pc = "merge" /\ shipped' = head \cup integ /\ waiveds' = waiveds
    BY <1>2, OnlyMergeShips DEF ShipMerge, journal
  <2>2. ASSUME NEW c \in Checks, Red(c, head \cup integ) PROVE Red(c, integ)
    BY <2>2 DEF Red, HeadIsKnown
  <2>3. integ = shipping.tip
    BY <2>1 DEF Frozen
  <2>4. \A c \in Checks : Red(c, integ) => waiveds[c] > 0
    BY <2>1, <2>3 DEF Waiving, RedIn
  <2>5. \A c \in Checks : Red(c, head \cup integ) => waiveds[c] > 0
    BY <2>2, <2>4
  <2>. QED BY <2>1, <2>5 DEF NothingBrokenShips, Red, Checks
<1>. QED BY <1>1, <1>2

\* Where every task satisfies a requirement and the user's own commits break
\* nothing, what ship leaves on the user's branch passes every criterion of every
\* task and the health commands, or a waiver for it is in the journal: tasks
\* judged by difference, merged without being verified again, and a ledger that
\* is written attempt by attempt add up to an absolute guarantee (docs/08).
THEOREM WhatShipsIsWaived ==
  ASSUME EveryTaskIsRequired, UserIsHarmless PROVE Spec => []NothingBrokenShips
<1>1. Init => HeadIsKnown /\ NothingBrokenShips
  BY DEF Init, HeadIsKnown, NothingBrokenShips
<1>2. TypeInv /\ HeadIsKnown /\ [Next]_vars => HeadIsKnown'
  BY UserIsHarmless, HeadStep
<1>3. TypeInv /\ Waiving /\ Frozen /\ HeadIsKnown /\ NothingBrokenShips /\ [Next]_vars
        => NothingBrokenShips'
  BY EveryTaskIsRequired, UserIsHarmless, BrokenStep
<1>4. Spec => []Frozen
  BY EveryTaskIsRequired, FrozenInvariant
<1>. QED BY <1>1, <1>2, <1>3, <1>4, TypeInvariant, WaivingInvariant, PTL DEF Spec
=============================================================================
