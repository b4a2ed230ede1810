------------------------- MODULE JobFrameworkProofs -------------------------
(***************************************************************************)
(* Proofs about JobFramework, for any jobs, workers, priorities, slots and *)
(* attempts and any number of failing handlers.                            *)
(*                                                                         *)
(* The steps of the workflow preserve Inv for one common reason            *)
(* (FlowStep), the ends of engine.run for another (OutcomeStep); the other *)
(* actions are taken one by one.                                           *)
(***************************************************************************)
EXTENDS JobFramework, FiniteSetTheorems, TLAPS

\* The workers that have a slot.
SlotHolders == {w \in Workers : worker[w].at \in Holding}

\* They are finitely many.
LEMMA HoldersFinite ==
  /\ IsFiniteSet(SlotHolders) /\ Cardinality(SlotHolders) \in Nat
  /\ IsFiniteSet(SlotHolders') /\ Cardinality(SlotHolders)' \in Nat
<1>1. SlotHolders \in SUBSET Workers /\ SlotHolders' \in SUBSET Workers
  BY DEF SlotHolders
<1> QED BY <1>1, JobsAssumption, FS_Subset, FS_CardinalityType

\* A step that moves no worker into or out of the semaphore, and leaves its
\* value alone, keeps the account.
LEMMA SlotsKept ==
  ASSUME SlotsAccounted, slots' = slots,
         \A w \in Workers :
            worker'[w].at \in Holding <=> worker[w].at \in Holding
  PROVE  SlotsAccounted'
<1>1. SlotHolders' = SlotHolders
  BY DEF SlotHolders
<1> QED BY <1>1 DEF SlotsAccounted, SlotHolders

\* A worker enters the semaphore (dispatch's async with).
LEMMA SlotTaken ==
  ASSUME SlotsAccounted, slots \in Int, slots' = slots - 1,
         NEW u \in Workers,
         worker[u].at \notin Holding, worker'[u].at \in Holding,
         \A w \in Workers \ {u} : worker'[w] = worker[w]
  PROVE  SlotsAccounted'
<1>1. SlotHolders' = SlotHolders \cup {u} /\ u \notin SlotHolders
  BY DEF SlotHolders
<1>2. Cardinality(SlotHolders') = Cardinality(SlotHolders) + 1
  BY <1>1, HoldersFinite, FS_AddElement
<1>3. slots + Cardinality(SlotHolders) = Slots
  BY DEF SlotsAccounted, SlotHolders
<1>4. slots' + Cardinality(SlotHolders') = Slots
  BY <1>2, <1>3, HoldersFinite, BoundsAssumption
<1> QED BY <1>4 DEF SlotsAccounted, SlotHolders

\* A worker leaves it.
LEMMA SlotReturned ==
  ASSUME SlotsAccounted, slots \in Int, slots' = slots + 1,
         NEW u \in Workers,
         worker[u].at \in Holding, worker'[u].at \notin Holding,
         \A w \in Workers \ {u} : worker'[w] = worker[w]
  PROVE  SlotsAccounted' /\ slots' <= Slots
<1>1. SlotHolders' = SlotHolders \ {u} /\ u \in SlotHolders
  BY DEF SlotHolders
<1>2. Cardinality(SlotHolders') = Cardinality(SlotHolders) - 1
  BY <1>1, HoldersFinite, FS_RemoveElement
<1>3. slots + Cardinality(SlotHolders) = Slots
  BY DEF SlotsAccounted, SlotHolders
<1>4. slots' + Cardinality(SlotHolders') = Slots
  BY <1>2, <1>3, HoldersFinite, BoundsAssumption
<1>5. slots' <= Slots
  BY <1>4, HoldersFinite, BoundsAssumption
<1> QED BY <1>4, <1>5 DEF SlotsAccounted, SlotHolders

-----------------------------------------------------------------------------
\* The initial state satisfies the invariant.
LEMMA InitInv == Init => Inv
<1> SUFFICES ASSUME Init PROVE Inv
  OBVIOUS
<1>1. TypeOK
  <2>1. /\ job \in [Jobs -> [st : Status, token : BOOLEAN, runs : Nat]]
        /\ worker \in [Workers -> [at : WorkerAt, job : Jobs \cup {NULL}]]
    BY DEF Init, Status, WorkerAt
  <2>2. flow \in [Jobs -> [at : FlowAt, step : 0 .. LastStep,
                          attempt : 0 .. MaxAttempts]]
    BY BoundsAssumption DEF Init, FlowAt, Off, LastStep
  <2>3. /\ client \in [Jobs -> {"new", "submitting", "accepted", "refused"}]
        /\ ticket \in [Jobs -> Nat] /\ persisted \in [Jobs -> Nat]
    BY DEF Init
  <2>4. /\ queue \subseteq Jobs /\ sequence \in Nat
        /\ slots \in 0 .. Slots /\ faults \in 0 .. MaxFaults
    BY BoundsAssumption DEF Init
  <2>5. stop \in BOOLEAN
    BY DEF Init
  <2> QED BY <2>1, <2>2, <2>3, <2>4, <2>5 DEF TypeOK
<1>2. Places /\ Marked /\ NoneLeftRunning /\ CompletedIsPersisted
  BY DEF Init, Places, Busy, Marked, NoneLeftRunning, CompletedIsPersisted
<1>3. Unstarted /\ Progress
  BY DEF Init, Unstarted, Progress, Off
<1>4. SlotsAccounted
  <2>1. {w \in Workers : worker[w].at \in Holding} = {}
    BY DEF Init, Holding
  <2> QED BY <2>1, FS_EmptySet, BoundsAssumption DEF Init, SlotsAccounted
<1> QED BY <1>1, <1>2, <1>3, <1>4 DEF Inv

\* A step of the workflow that worker u runs: only the position of its own
\* job's workflow changes and, with the last step, what it has persisted.
LEMMA FlowStep ==
  ASSUME Inv,
         NEW u \in Workers, worker[u].at = "running",
         flow[worker[u].job].at # "off",
         NEW f \in [at : FlowAt, step : 0 .. LastStep,
                    attempt : 0 .. MaxAttempts],
         flow' = [flow EXCEPT ![worker[u].job] = f],
         f.at # "started",
         f.at = "delay" => f.attempt < MaxAttempts,
         persisted' \in [Jobs -> Nat],
         \A j \in Jobs : persisted'[j] >= persisted[j],
         \/ f.at \in {"final", "succeeded"}
         \/ f.at = "after" /\ f.step = LastStep
         => persisted'[worker[u].job] > 0,
         faults' \in 0 .. MaxFaults, faults' = 0 => faults = 0,
         UNCHANGED <<job, client, queue, ticket, sequence, worker, slots,
                     stop>>
  PROVE  Inv'
<1> DEFINE j == worker[u].job
<1>1. j \in Jobs
  BY DEF Inv, Places, Busy
<1>2. TypeOK'
  BY <1>1 DEF Inv, TypeOK
<1>3. Places' /\ Marked' /\ NoneLeftRunning'
  BY DEF Inv, Places, Marked, NoneLeftRunning
<1>4. SlotsAccounted'
  BY DEF Inv, SlotsAccounted
<1>5. Unstarted'
  <2>1. job[j].runs # 0
    BY <1>1 DEF Inv, Unstarted, Off
  <2> QED BY <1>1, <2>1 DEF Inv, TypeOK, Unstarted, Places, Busy
<1>6. ASSUME NEW i \in Jobs, persisted[i] > 0
      PROVE  persisted'[i] > 0
  <2>1. persisted[i] \in Nat /\ persisted'[i] \in Nat
    BY DEF Inv, TypeOK
  <2> QED BY <1>6, <2>1
<1>7. Progress'
  <2> SUFFICES ASSUME NEW i \in Jobs
               PROVE  /\ flow'[i].at = "started" => flow'[i].attempt = 0
                      /\ flow'[i].at = "delay" => flow'[i].attempt < MaxAttempts
                      /\ \/ flow'[i].at \in {"final", "succeeded"}
                         \/ flow'[i].at = "after" /\ flow'[i].step = LastStep
                         => persisted'[i] > 0
    BY DEF Progress
  <2>1. CASE i = j
    BY <1>1, <2>1 DEF Inv, TypeOK
  <2>2. CASE i # j
    BY <1>1, <1>6, <2>2 DEF Inv, TypeOK, Progress
  <2> QED BY <2>1, <2>2
<1>8. CompletedIsPersisted'
  BY <1>6 DEF Inv, CompletedIsPersisted
<1> QED BY <1>2, <1>3, <1>4, <1>5, <1>7, <1>8 DEF Inv

\* The same for a step that only moves the workflow within its step.
LEMMA MoveStep ==
  ASSUME Inv,
         NEW u \in Workers, worker[u].at = "running",
         flow[worker[u].job].at # "off",
         NEW p \in FlowAt \ {"started"}, Move(worker[u].job, p),
         p = "delay" => flow[worker[u].job].attempt < MaxAttempts,
         p \in {"final", "succeeded"} => persisted[worker[u].job] > 0,
         p # "after",
         faults' \in 0 .. MaxFaults, faults' = 0 => faults = 0,
         Unmoved, UNCHANGED persisted
  PROVE  Inv'
<1> DEFINE j == worker[u].job
           f == [flow[j] EXCEPT !.at = p]
<1>1. j \in Jobs
  BY DEF Inv, Places, Busy
<1>2. /\ f \in [at : FlowAt, step : 0 .. LastStep, attempt : 0 .. MaxAttempts]
      /\ f.at = p /\ f.attempt = flow[j].attempt
  BY <1>1 DEF Inv, TypeOK
<1>3. flow' = [flow EXCEPT ![j] = f]
  BY DEF Move
<1>4. persisted' \in [Jobs -> Nat] /\ \A i \in Jobs : persisted'[i] >= persisted[i]
  BY DEF Inv, TypeOK
<1> QED BY <1>2, <1>3, <1>4, FlowStep DEF Unmoved

\* The same for a step on the way to f that may find the job cancelled.
LEMMA UnlessStep ==
  ASSUME Inv,
         NEW u \in Workers, worker[u].at = "running",
         flow[worker[u].job].at # "off",
         NEW f \in [at : FlowAt, step : 0 .. LastStep,
                    attempt : 0 .. MaxAttempts],
         Unless(worker[u].job, f),
         f.at \in {"before", "after"},
         persisted' \in [Jobs -> Nat],
         \A j \in Jobs : persisted'[j] >= persisted[j],
         f.at = "after" /\ f.step = LastStep => persisted'[worker[u].job] > 0,
         faults' \in 0 .. MaxFaults, faults' = 0 => faults = 0,
         Unmoved
  PROVE  Inv'
<1> DEFINE j == worker[u].job
           g == [f EXCEPT !.at = "cancelled"]
<1>1. j \in Jobs
  BY DEF Inv, Places, Busy
<1>2. CASE job[j].token
  <2>1. /\ g \in [at : FlowAt, step : 0 .. LastStep, attempt : 0 .. MaxAttempts]
        /\ g.at = "cancelled"
    BY DEF FlowAt
  <2>2. flow' = [flow EXCEPT ![j] = g]
    BY <1>2 DEF Unless
  <2> QED BY <2>1, <2>2, FlowStep DEF Unmoved
<1>3. CASE ~ job[j].token
  <2>1. flow' = [flow EXCEPT ![j] = f]
    BY <1>3 DEF Unless
  <2> QED BY <2>1, FlowStep DEF Unmoved
<1> QED BY <1>2, <1>3

\* A step has been executed, with the commit of _persist if it is the last.
LEMMA ExecutedStep ==
  ASSUME Inv,
         NEW u \in Workers, worker[u].at = "running",
         flow[worker[u].job].at # "off",
         Executed(worker[u].job), UNCHANGED faults, Unmoved
  PROVE  Inv'
<1> DEFINE j == worker[u].job
           f == [flow[j] EXCEPT !.at = "after"]
<1>1. j \in Jobs
  BY DEF Inv, Places, Busy
<1>2. /\ f \in [at : FlowAt, step : 0 .. LastStep, attempt : 0 .. MaxAttempts]
      /\ f.at = "after" /\ f.step = flow[j].step
  BY <1>1 DEF Inv, TypeOK, FlowAt
<1>3. persisted \in [Jobs -> Nat] /\ faults \in 0 .. MaxFaults
  BY DEF Inv, TypeOK
<1>4. /\ persisted' \in [Jobs -> Nat]
      /\ \A i \in Jobs : persisted'[i] >= persisted[i]
      /\ f.step = LastStep => persisted'[j] > 0
  BY <1>1, <1>2, <1>3 DEF Executed
<1>5. Unless(j, f)
  BY DEF Executed
<1> QED BY <1>2, <1>3, <1>4, <1>5, UnlessStep

\* An attempt raises.
LEMMA RaiseStep ==
  ASSUME Inv,
         NEW u \in Workers, worker[u].at = "running",
         flow[worker[u].job].at # "off",
         Raise(worker[u].job),
         faults' \in 0 .. MaxFaults, faults' = 0 => faults = 0,
         Unmoved, UNCHANGED persisted
  PROVE  Inv'
<1> DEFINE j == worker[u].job
<1>1. CASE flow[j].attempt < MaxAttempts
  <2>1. Move(j, "delay") /\ "delay" \in FlowAt \ {"started"}
    BY <1>1 DEF Raise, FlowAt
  <2> QED BY <1>1, <2>1, MoveStep
<1>2. CASE ~ flow[j].attempt < MaxAttempts
  <2>1. Move(j, "failed") /\ "failed" \in FlowAt \ {"started"}
    BY <1>2 DEF Raise, FlowAt
  <2> QED BY <2>1, MoveStep
<1> QED BY <1>1, <1>2

\* The beginning of a step is a position of the workflow.
LEMMA StepType ==
  ASSUME NEW f \in [at : FlowAt, step : 0 .. LastStep,
                    attempt : 0 .. MaxAttempts],
         NEW n \in 0 .. LastStep
  PROVE  /\ Step(f, n) \in [at : FlowAt, step : 0 .. LastStep,
                             attempt : 0 .. MaxAttempts]
         /\ Step(f, n).at = "before"
<1>1. "before" \in FlowAt
  BY DEF FlowAt
<1> QED BY <1>1 DEF Step

\* The workflow preserves the invariant (WorkflowEngine.execute).
LEMMA WorkflowKeeps ==
  ASSUME Inv, NEW w \in Workers,
         \/ Attempt(w) \/ Execute(w) \/ Return(w) \/ Advance(w)
         \/ Complete(w) \/ ProgressFails(w)
  PROVE  Inv'
<1> DEFINE j == worker[w].job
<1>1. faults \in 0 .. MaxFaults /\ persisted \in [Jobs -> Nat]
  BY DEF Inv, TypeOK
<1>2. /\ worker[w].at = "running" /\ flow[j].at # "off" /\ Unmoved
      /\ j \in Jobs
  BY DEF Inv, Places, Busy, At, Attempt, Execute, Return, Advance, Complete,
         ProgressFails
<1>3. /\ flow[j] \in [at : FlowAt, step : 0 .. LastStep,
                      attempt : 0 .. MaxAttempts]
  BY <1>2 DEF Inv, TypeOK
<1>4. CASE Attempt(w)
  <2> DEFINE f == Step([flow[j] EXCEPT !.attempt = @ + 1], 1)
  <2>1. flow[j].attempt + 1 \in 0 .. MaxAttempts
    BY <1>2, <1>3, <1>4, BoundsAssumption DEF Attempt, At, Inv, Progress
  <2>2. /\ f \in [at : FlowAt, step : 0 .. LastStep, attempt : 0 .. MaxAttempts]
        /\ f.at = "before"
    <3>1. [flow[j] EXCEPT !.attempt = @ + 1] \in
             [at : FlowAt, step : 0 .. LastStep, attempt : 0 .. MaxAttempts]
      BY <1>3, <2>1
    <3>2. 1 \in 0 .. LastStep
      BY DEF LastStep
    <3> QED BY <3>1, <3>2, StepType
  <2>3. Unless(j, f) /\ UNCHANGED <<faults, persisted>>
    BY <1>4 DEF Attempt, Published
  <2>4. \A i \in Jobs : persisted'[i] >= persisted[i]
    BY <1>1, <2>3
  <2> HIDE DEF f
  <2> QED BY <1>1, <1>2, <2>2, <2>3, <2>4, UnlessStep
<1>5. CASE Execute(w)
  <2>1. UNCHANGED faults
    BY <1>5 DEF Execute, Published
  <2>2. CASE Move(j, "operation") /\ UNCHANGED persisted
    <3>1. "operation" \in FlowAt \ {"started"}
      BY DEF FlowAt
    <3> QED BY <1>1, <1>2, <2>1, <2>2, <3>1, MoveStep
  <2>3. CASE Executed(j)
    BY <1>2, <2>1, <2>3, ExecutedStep
  <2>4. CASE Raise(j) /\ UNCHANGED persisted
    BY <1>1, <1>2, <2>1, <2>4, RaiseStep
  <2> QED BY <1>5, <2>2, <2>3, <2>4 DEF Execute
<1>6. CASE Return(w)
  <2>1. CASE Executed(j)
    BY <1>2, <1>6, <2>1, ExecutedStep DEF Return
  <2>2. CASE Raise(j) /\ UNCHANGED persisted
    BY <1>1, <1>2, <1>6, <2>2, RaiseStep DEF Return
  <2> QED BY <1>6, <2>1, <2>2 DEF Return
<1>7. CASE Advance(w)
  <2>1. UNCHANGED <<faults, persisted>>
    BY <1>7 DEF Advance, Published
  <2>2. CASE flow[j].step < LastStep /\ Unless(j, Step(flow[j], flow[j].step + 1))
    <3> DEFINE f == Step(flow[j], flow[j].step + 1)
    <3>1. /\ f \in [at : FlowAt, step : 0 .. LastStep,
                     attempt : 0 .. MaxAttempts]
          /\ f.at = "before"
      <4>1. flow[j].step + 1 \in 0 .. LastStep
        BY <1>3, <2>2 DEF LastStep
      <4> QED BY <1>3, <4>1, StepType
    <3>2. Unless(j, f) /\ \A i \in Jobs : persisted'[i] >= persisted[i]
      BY <1>1, <2>1, <2>2
    <3> HIDE DEF f
    <3> QED BY <1>1, <1>2, <2>1, <3>1, <3>2, UnlessStep
  <2>3. CASE flow[j].step = LastStep /\ Move(j, "final")
    <3>1. persisted[j] > 0 /\ "final" \in FlowAt \ {"started"}
      BY <1>2, <1>7, <2>3 DEF Advance, At, Inv, Progress, FlowAt
    <3> QED BY <1>1, <1>2, <2>1, <2>3, <3>1, MoveStep
  <2> QED BY <1>7, <2>2, <2>3 DEF Advance
<1>8. CASE Complete(w)
  <2>1. /\ UNCHANGED <<faults, persisted>> /\ Move(j, "succeeded")
        /\ persisted[j] > 0 /\ "succeeded" \in FlowAt \ {"started"}
    BY <1>2, <1>8 DEF Complete, Published, At, Inv, Progress, FlowAt
  <2> QED BY <1>1, <1>2, <2>1, MoveStep
<1>9. CASE ProgressFails(w)
  <2>1. faults' \in 0 .. MaxFaults /\ faults' # 0
    BY <1>1, <1>9, BoundsAssumption DEF ProgressFails, PublishFails
  <2> QED BY <1>2, <1>9, <2>1, RaiseStep DEF ProgressFails
<1> QED BY <1>4, <1>5, <1>6, <1>7, <1>8, <1>9

-----------------------------------------------------------------------------
\* A job enters the semaphore and is started (JobDispatcher.dispatch).
LEMMA StartStep ==
  ASSUME Inv,
         NEW u \in Workers, worker[u].at \in {"announcing", "waiting"},
         slots > 0, Start(u, worker[u].job),
         UNCHANGED <<client, queue, ticket, sequence, flow, persisted, stop,
                     faults>>
  PROVE  Inv'
<1> DEFINE j == worker[u].job
<1>1. /\ j \in Jobs /\ j \notin queue /\ client[j] = "accepted"
      /\ job[j].runs = 0 /\ flow[j] = Off
  BY DEF Inv, Places, Busy, Unstarted
<1>2. /\ worker' = [worker EXCEPT ![u].at = "starting"]
      /\ slots' = slots - 1
      /\ job' = [job EXCEPT ![j].st = "running", ![j].runs = @ + 1]
  BY DEF Start, Go
<1>3. /\ worker'[u].at = "starting" /\ worker'[u].job = j
      /\ \A w \in Workers \ {u} : worker'[w] = worker[w]
  BY <1>2 DEF Inv, TypeOK
<1>4. /\ job'[j].runs = 1 /\ job'[j].st = "running"
      /\ \A i \in Jobs \ {j} : job'[i] = job[i]
  BY <1>1, <1>2 DEF Inv, TypeOK
<1>5. TypeOK'
  <2>1. job' \in [Jobs -> [st : Status, token : BOOLEAN, runs : Nat]]
    BY <1>1, <1>2 DEF Inv, TypeOK, Status
  <2>2. worker' \in [Workers -> [at : WorkerAt, job : Jobs \cup {NULL}]]
    BY <1>2 DEF Inv, TypeOK, WorkerAt
  <2>3. slots' \in 0 .. Slots
    BY <1>2, BoundsAssumption DEF Inv, TypeOK
  <2> QED BY <2>1, <2>2, <2>3 DEF Inv, TypeOK
<1>6. Places'
  BY <1>1, <1>3 DEF Inv, Places, Busy
<1>7. Unstarted'
  BY <1>1, <1>3, <1>4 DEF Inv, Unstarted, Places, Busy
<1>8. SlotsAccounted'
  <2>1. worker[u].at \notin Holding /\ worker'[u].at \in Holding
    BY <1>3 DEF Holding
  <2> QED BY <1>2, <1>3, <2>1, SlotTaken DEF Inv, TypeOK
<1>9. Marked'
  BY <1>1, <1>3, <1>4 DEF Inv, Marked, Places, Busy
<1>10. NoneLeftRunning'
  BY <1>1, <1>3, <1>4 DEF Inv, NoneLeftRunning, Holding
<1>11. Progress' /\ CompletedIsPersisted'
  BY <1>1, <1>4 DEF Inv, Progress, CompletedIsPersisted
<1> QED BY <1>5, <1>6, <1>7, <1>8, <1>9, <1>10, <1>11 DEF Inv

\* engine.run ends with outcome s (JobDispatcher.dispatch).
LEMMA OutcomeStep ==
  ASSUME Inv,
         NEW u \in Workers, worker[u].at = "running",
         NEW s \in Ended, Outcome(u, s),
         s = "completed" => persisted[worker[u].job] > 0,
         faults' \in 0 .. MaxFaults, faults' = 0 => faults = 0,
         UNCHANGED <<client, queue, ticket, sequence, slots, persisted, stop>>
  PROVE  Inv'
<1> DEFINE j == worker[u].job
<1>1. j \in Jobs /\ j \notin queue /\ client[j] = "accepted"
  BY DEF Inv, Places, Busy
<1>2. /\ worker' = [worker EXCEPT ![u].at = "reporting"]
      /\ job' = [job EXCEPT ![j].st = s]
      /\ flow' = [flow EXCEPT ![j] = Off]
  BY DEF Outcome, Mark, Go
<1>3. /\ worker'[u].at = "reporting" /\ worker'[u].job = j
      /\ \A w \in Workers \ {u} : worker'[w] = worker[w]
  BY <1>2 DEF Inv, TypeOK
<1>4. /\ job'[j].runs = job[j].runs /\ job'[j].st = s
      /\ \A i \in Jobs \ {j} : job'[i] = job[i]
      /\ flow'[j] = Off
      /\ \A i \in Jobs \ {j} : flow'[i] = flow[i]
  BY <1>1, <1>2 DEF Inv, TypeOK
<1>5. TypeOK'
  <2>1. job' \in [Jobs -> [st : Status, token : BOOLEAN, runs : Nat]]
    BY SMTT(30), <1>1, <1>2 DEF Inv, TypeOK, Status
  <2>2. worker' \in [Workers -> [at : WorkerAt, job : Jobs \cup {NULL}]]
    BY <1>2 DEF Inv, TypeOK, WorkerAt
  <2>3. Off \in [at : FlowAt, step : 0 .. LastStep, attempt : 0 .. MaxAttempts]
    BY BoundsAssumption DEF Off, FlowAt, LastStep
  <2>4. flow' \in [Jobs -> [at : FlowAt, step : 0 .. LastStep,
                           attempt : 0 .. MaxAttempts]]
    BY <1>1, <1>2, <2>3 DEF Inv, TypeOK
  <2> QED BY <2>1, <2>2, <2>4 DEF Inv, TypeOK
<1>6. Places'
  BY <1>1, <1>3 DEF Inv, Places, Busy
<1>7. Unstarted'
  BY <1>1, <1>3, <1>4 DEF Inv, Unstarted, Places, Busy
<1>8. SlotsAccounted'
  BY <1>3, SlotsKept DEF Inv, Holding
<1>9. Marked'
  BY <1>1, <1>3, <1>4 DEF Inv, Marked, Places, Busy, Ended
<1>10. NoneLeftRunning'
  BY <1>1, <1>3, <1>4 DEF Inv, NoneLeftRunning, Holding, Ended
<1>11. Progress'
  BY <1>1, <1>4 DEF Inv, Progress, Off
<1>12. CompletedIsPersisted'
  BY <1>1, <1>4 DEF Inv, CompletedIsPersisted
<1> QED BY <1>5, <1>6, <1>7, <1>8, <1>9, <1>10, <1>11, <1>12 DEF Inv

\* The requests of clients and operators preserve the invariant (JobManager).
LEMMA ClientKeeps ==
  ASSUME Inv, NEW j \in Jobs,
         Submit(j) \/ Enqueue(j) \/ SubmitFails(j) \/ Cancel(j) \/ Shutdown
  PROVE  Inv'
<1>1. CASE Submit(j) \/ SubmitFails(j)
  <2>1. /\ client[j] # "accepted"
        /\ \E c \in {"submitting", "refused"} : client' = [client EXCEPT ![j] = c]
        /\ UNCHANGED <<job, queue, ticket, sequence, worker, slots, flow,
                       persisted, stop>>
        /\ faults' = faults \/ (faults < MaxFaults /\ faults' = faults + 1)
    BY <1>1 DEF Submit, SubmitFails, PublishFails
  <2>2. faults' \in 0 .. MaxFaults /\ (faults' = 0 => faults = 0)
    BY <2>1, BoundsAssumption DEF Inv, TypeOK
  <2>3. TypeOK'
    BY <2>1, <2>2 DEF Inv, TypeOK
  <2>4. \A i \in Jobs : client[i] = "accepted" <=> client'[i] = "accepted"
    BY <2>1 DEF Inv, TypeOK
  <2>5. Places' /\ Unstarted'
    BY <2>1, <2>4 DEF Inv, TypeOK, Places, Unstarted
  <2>6. SlotsAccounted' /\ Marked' /\ Progress' /\ CompletedIsPersisted'
    BY <2>1 DEF Inv, SlotsAccounted, Marked, Progress, CompletedIsPersisted
  <2>7. NoneLeftRunning'
    BY <2>1, <2>2 DEF Inv, NoneLeftRunning
  <2> QED BY <2>3, <2>5, <2>6, <2>7 DEF Inv
<1>2. CASE Enqueue(j)
  <2>1. /\ client[j] = "submitting"
        /\ client' = [client EXCEPT ![j] = "accepted"]
        /\ job' = [job EXCEPT ![j].st = "queued"]
        /\ queue' = queue \cup {j}
        /\ ticket' = [ticket EXCEPT ![j] = sequence]
        /\ sequence' = sequence + 1
        /\ UNCHANGED <<worker, slots, flow, persisted, stop, faults>>
    BY <1>2 DEF Enqueue, Put, Mark, Published
  <2>2. TypeOK'
    <3>1. job' \in [Jobs -> [st : Status, token : BOOLEAN, runs : Nat]]
      BY <2>1 DEF Inv, TypeOK, Status
    <3> QED BY <2>1, <3>1 DEF Inv, TypeOK
  <2>3. /\ job'[j].st = "queued" /\ job'[j].runs = job[j].runs
        /\ \A i \in Jobs \ {j} : job'[i] = job[i] /\ client'[i] = client[i]
        /\ client'[j] = "accepted"
    BY <2>1 DEF Inv, TypeOK
  <2>4. \A w \in Workers : worker[w].at \in Busy => worker[w].job \in Jobs \ {j}
    BY <2>1 DEF Inv, Places
  <2>5. Places'
    BY <2>1, <2>3, <2>4 DEF Inv, TypeOK, Places
  <2>6. Unstarted'
    BY <2>1, <2>3, <2>4 DEF Inv, Unstarted, Busy
  <2>7. SlotsAccounted' /\ Progress'
    BY <2>1 DEF Inv, SlotsAccounted, Progress
  <2>8. Marked' /\ NoneLeftRunning' /\ CompletedIsPersisted'
    BY <2>1, <2>3, <2>4
    DEF Inv, Marked, NoneLeftRunning, CompletedIsPersisted, Busy
  <2> QED BY <2>2, <2>5, <2>6, <2>7, <2>8 DEF Inv
<1>3. CASE Cancel(j)
  <2>1. /\ job' = [job EXCEPT ![j].token = TRUE, ![j].st = "cancelled"]
        /\ UNCHANGED <<client, queue, ticket, sequence, worker, slots, flow,
                       persisted, stop, faults>>
    BY <1>3 DEF Cancel
  <2>2. /\ job'[j].st = "cancelled"
        /\ \A i \in Jobs : job'[i].runs = job[i].runs
        /\ \A i \in Jobs \ {j} : job'[i] = job[i]
    BY <2>1 DEF Inv, TypeOK
  <2>3. TypeOK'
    <3>1. job' \in [Jobs -> [st : Status, token : BOOLEAN, runs : Nat]]
      BY ZenonT(60), <2>1 DEF Inv, TypeOK, Status, Ended
    <3> QED BY <2>1, <3>1 DEF Inv, TypeOK
  <2>4. Places' /\ SlotsAccounted' /\ Progress'
    BY <2>1 DEF Inv, Places, SlotsAccounted, Progress
  <2>5. Unstarted'
    BY ZenonT(60), <2>1, <2>2 DEF Inv, Unstarted, Places, Busy
  <2>6. Marked'
    <3> SUFFICES ASSUME NEW w \in Workers, worker[w].at = "reporting"
                 PROVE  job'[worker[w].job].st # "running"
      BY <2>1 DEF Marked
    <3>1. worker[w].job \in Jobs /\ job[worker[w].job].st # "running"
      BY DEF Inv, Marked, Places, Busy
    <3>2. CASE worker[w].job = j
      BY <2>2, <3>2
    <3>3. CASE worker[w].job # j
      BY <2>2, <3>1, <3>3
    <3> QED BY <3>2, <3>3
  <2>7. NoneLeftRunning'
    <3> SUFFICES ASSUME faults = 0, NEW i \in Jobs, job'[i].st = "running"
                 PROVE  \E w \in Workers :
                           worker[w].job = i /\ worker[w].at \in Holding
      BY <2>1 DEF NoneLeftRunning
    <3>1. job[i].st = "running"
      BY <2>2
    <3> QED BY <3>1 DEF Inv, NoneLeftRunning
  <2>8. CompletedIsPersisted'
    BY <2>1, <2>2 DEF Inv, CompletedIsPersisted
  <2> QED BY <2>3, <2>4, <2>5, <2>6, <2>7, <2>8 DEF Inv
<1>4. CASE Shutdown
  BY <1>4 DEF Shutdown, Inv, TypeOK, Places, Unstarted, SlotsAccounted, Marked,
              NoneLeftRunning, Progress, CompletedIsPersisted
<1> QED BY <1>1, <1>2, <1>3, <1>4

\* Taking a job from the queue, announcing and dispatching it preserves the
\* invariant (JobWorker.run, JobDispatcher.dispatch).
LEMMA TakeKeeps ==
  ASSUME Inv, NEW u \in Workers,
         Get(u) \/ GetFails(u) \/ Dispatch(u) \/ Acquire(u)
  PROVE  Inv'
<1>1. CASE Get(u)
  <2>1. PICK j \in queue :
           /\ queue' = queue \ {j}
           /\ worker' = [worker EXCEPT ![u] = [at |-> "announcing", job |-> j]]
    BY <1>1 DEF Get
  <2>2. /\ worker[u].at = "idle"
        /\ UNCHANGED <<job, client, ticket, sequence, slots, flow, persisted,
                       stop, faults>>
    BY <1>1 DEF Get
  <2>3. /\ j \in Jobs /\ client[j] = "accepted" /\ job[j].runs = 0
        /\ \A w \in Workers : worker[w].at \in Busy => worker[w].job # j
    BY DEF Inv, TypeOK, Places, Unstarted
  <2>4. /\ worker'[u].at = "announcing" /\ worker'[u].job = j
        /\ \A w \in Workers \ {u} : worker'[w] = worker[w]
    BY <2>1 DEF Inv, TypeOK
  <2>5. TypeOK'
    <3>1. worker' \in [Workers -> [at : WorkerAt, job : Jobs \cup {NULL}]]
      BY <2>1, <2>3 DEF Inv, TypeOK, WorkerAt
    <3> QED BY <2>1, <2>2, <3>1 DEF Inv, TypeOK
  <2>6. Places'
    BY <2>1, <2>2, <2>3, <2>4 DEF Inv, TypeOK, Places, Busy
  <2>7. Unstarted'
    BY <2>1, <2>2, <2>3, <2>4 DEF Inv, TypeOK, Unstarted
  <2>8. SlotsAccounted'
    BY <2>2, <2>4, SlotsKept DEF Inv, Holding
  <2>9. Marked' /\ NoneLeftRunning'
    BY <2>2, <2>4 DEF Inv, Marked, NoneLeftRunning, Holding
  <2>10. Progress' /\ CompletedIsPersisted'
    BY <2>2 DEF Inv, Progress, CompletedIsPersisted
  <2> QED BY <2>5, <2>6, <2>7, <2>8, <2>9, <2>10 DEF Inv
<1>2. CASE GetFails(u)
  <2>1. /\ worker[u].at = "announcing"
        /\ worker' = [worker EXCEPT ![u] = [at |-> "dead", job |-> NULL]]
        /\ faults < MaxFaults /\ faults' = faults + 1
        /\ UNCHANGED <<job, client, queue, ticket, sequence, slots, flow,
                       persisted, stop>>
    BY <1>2 DEF GetFails, PublishFails
  <2>2. /\ worker'[u].at = "dead"
        /\ \A w \in Workers \ {u} : worker'[w] = worker[w]
    BY <2>1 DEF Inv, TypeOK
  <2>3. faults' \in 0 .. MaxFaults /\ faults' # 0
    BY <2>1, BoundsAssumption DEF Inv, TypeOK
  <2>4. TypeOK'
    <3>1. worker' \in [Workers -> [at : WorkerAt, job : Jobs \cup {NULL}]]
      BY <2>1 DEF Inv, TypeOK, WorkerAt
    <3> QED BY <2>1, <2>3, <3>1 DEF Inv, TypeOK
  <2>5. Places' /\ Unstarted'
    BY <2>1, <2>2 DEF Inv, Places, Unstarted, Busy
  <2>6. SlotsAccounted'
    BY <2>1, <2>2, SlotsKept DEF Inv, Holding
  <2>7. Marked' /\ NoneLeftRunning' /\ Progress' /\ CompletedIsPersisted'
    BY <2>1, <2>2, <2>3
    DEF Inv, Marked, NoneLeftRunning, Progress, CompletedIsPersisted
  <2> QED BY <2>4, <2>5, <2>6, <2>7 DEF Inv
<1>3. CASE Dispatch(u)
  <2> DEFINE j == worker[u].job
  <2>1. /\ worker[u].at = "announcing"
        /\ UNCHANGED <<client, queue, ticket, sequence, flow, persisted, stop,
                       faults>>
    BY <1>3 DEF Dispatch, Published
  <2>2. j \in Jobs
    BY <2>1 DEF Inv, Places, Busy
  <2>3. CASE Mark(j, "cancelled") /\ Go(u, "dropping") /\ UNCHANGED slots
    <3>1. /\ worker' = [worker EXCEPT ![u].at = "dropping"]
          /\ job' = [job EXCEPT ![j].st = "cancelled"]
      BY <2>3 DEF Mark, Go
    <3>2. /\ worker'[u].at = "dropping" /\ worker'[u].job = j
          /\ \A w \in Workers \ {u} : worker'[w] = worker[w]
      BY <3>1 DEF Inv, TypeOK
    <3>3. /\ job'[j].st = "cancelled" /\ job'[j].runs = job[j].runs
          /\ \A i \in Jobs \ {j} : job'[i] = job[i]
      BY <2>2, <3>1 DEF Inv, TypeOK
    <3>4. TypeOK'
      <4>1. job' \in [Jobs -> [st : Status, token : BOOLEAN, runs : Nat]]
        BY <2>2, <3>1 DEF Inv, TypeOK, Status, Ended
      <4>2. worker' \in [Workers -> [at : WorkerAt, job : Jobs \cup {NULL}]]
        BY <3>1 DEF Inv, TypeOK, WorkerAt
      <4> QED BY <2>1, <2>3, <4>1, <4>2 DEF Inv, TypeOK
    <3>5. Places'
      BY <2>1, <3>2 DEF Inv, Places, Busy
    <3>6. Unstarted'
      BY <2>1, <2>2, <3>2, <3>3 DEF Inv, Unstarted, Places, Busy
    <3>7. SlotsAccounted'
      BY <2>1, <2>3, <3>2, SlotsKept DEF Inv, Holding
    <3>8. Marked'
      BY <2>1, <2>2, <3>2, <3>3 DEF Inv, Marked, Places, Busy
    <3>9. NoneLeftRunning'
      BY <2>1, <2>2, <3>2, <3>3 DEF Inv, NoneLeftRunning, Holding
    <3>10. Progress' /\ CompletedIsPersisted'
      BY <2>1, <2>2, <3>3 DEF Inv, Progress, CompletedIsPersisted
    <3> QED BY <3>4, <3>5, <3>6, <3>7, <3>8, <3>9, <3>10 DEF Inv
  <2>4. CASE slots > 0 /\ Start(u, j)
    BY <2>1, <2>4, StartStep
  <2>5. CASE Go(u, "waiting") /\ UNCHANGED <<job, slots>>
    <3>1. worker' = [worker EXCEPT ![u].at = "waiting"]
      BY <2>5 DEF Go
    <3>2. /\ worker'[u].at = "waiting" /\ worker'[u].job = j
          /\ \A w \in Workers \ {u} : worker'[w] = worker[w]
      BY <3>1 DEF Inv, TypeOK
    <3>3. TypeOK'
      <4>1. worker' \in [Workers -> [at : WorkerAt, job : Jobs \cup {NULL}]]
        BY <3>1 DEF Inv, TypeOK, WorkerAt
      <4> QED BY <2>1, <2>5, <4>1 DEF Inv, TypeOK
    <3>4. Places'
      BY <2>1, <3>2 DEF Inv, Places, Busy
    <3>5. Unstarted'
      BY <2>1, <2>5, <3>2 DEF Inv, Unstarted
    <3>6. SlotsAccounted'
      BY <2>1, <2>5, <3>2, SlotsKept DEF Inv, Holding
    <3>7. Marked' /\ NoneLeftRunning'
      BY <2>1, <2>5, <3>2 DEF Inv, Marked, NoneLeftRunning, Holding
    <3>8. Progress' /\ CompletedIsPersisted'
      BY <2>1, <2>5 DEF Inv, Progress, CompletedIsPersisted
    <3> QED BY <3>3, <3>4, <3>5, <3>6, <3>7, <3>8 DEF Inv
  <2> QED BY <1>3, <2>3, <2>4, <2>5 DEF Dispatch
<1>4. CASE Acquire(u)
  BY <1>4, StartStep DEF Acquire
<1> QED BY <1>1, <1>2, <1>3, <1>4

\* Running a job and letting go of it preserves the invariant
\* (JobDispatcher.dispatch, JobWorker.run).
LEMMA RunKeeps ==
  ASSUME Inv, NEW u \in Workers,
         \/ EngineRun(u) \/ StartFails(u) \/ Timeout(u) \/ Conclude(u)
         \/ ConcludeFails(u) \/ Report(u) \/ WorkerStops(u)
  PROVE  Inv'
<1> DEFINE j == worker[u].job
<1>1. CASE EngineRun(u)
  <2>1. /\ worker[u].at = "starting"
        /\ worker' = [worker EXCEPT ![u].at = "running"]
        /\ flow' = [flow EXCEPT ![j].at = "started"]
        /\ UNCHANGED <<job, client, queue, ticket, sequence, slots, persisted,
                       stop, faults>>
    BY <1>1 DEF EngineRun, Go, Published
  <2>2. /\ j \in Jobs /\ j \notin queue /\ client[j] = "accepted"
        /\ flow[j] = Off /\ job[j].runs = 1
    BY <2>1 DEF Inv, Places, Busy, Unstarted
  <2>3. /\ worker'[u].at = "running" /\ worker'[u].job = j
        /\ \A w \in Workers \ {u} : worker'[w] = worker[w]
    BY <2>1 DEF Inv, TypeOK
  <2>4. /\ flow'[j].at = "started" /\ flow'[j].attempt = 0
        /\ \A i \in Jobs \ {j} : flow'[i] = flow[i]
    BY <2>1, <2>2 DEF Inv, TypeOK, Off
  <2>5. TypeOK'
    <3>1. worker' \in [Workers -> [at : WorkerAt, job : Jobs \cup {NULL}]]
      BY <2>1 DEF Inv, TypeOK, WorkerAt
    <3>2. flow' \in [Jobs -> [at : FlowAt, step : 0 .. LastStep,
                             attempt : 0 .. MaxAttempts]]
      BY <2>1, <2>2 DEF Inv, TypeOK, FlowAt
    <3> QED BY <2>1, <3>1, <3>2 DEF Inv, TypeOK
  <2>6. Places'
    BY <2>1, <2>3 DEF Inv, Places, Busy
  <2>7. Unstarted'
    BY <2>1, <2>2, <2>3, <2>4 DEF Inv, Unstarted, Places, Busy
  <2>8. SlotsAccounted'
    BY <2>1, <2>3, SlotsKept DEF Inv, Holding
  <2>9. Marked' /\ NoneLeftRunning' /\ CompletedIsPersisted'
    BY <2>1, <2>3
    DEF Inv, Marked, NoneLeftRunning, CompletedIsPersisted, Holding
  <2>10. Progress'
    BY <2>1, <2>2, <2>4 DEF Inv, Progress
  <2> QED BY <2>5, <2>6, <2>7, <2>8, <2>9, <2>10 DEF Inv
<1>2. CASE StartFails(u) \/ (Report(u) /\ worker[u].at = "reporting")
  <2>1. /\ worker[u].at \in {"starting", "reporting"}
        /\ worker' = [worker EXCEPT ![u] = [at |-> "idle", job |-> NULL]]
        /\ slots' = slots + 1
        /\ UNCHANGED <<job, client, queue, ticket, sequence, flow, persisted,
                       stop>>
        /\ \/ faults < MaxFaults /\ faults' = faults + 1
           \/ faults' = faults /\ worker[u].at = "reporting"
    BY <1>2 DEF StartFails, Report, PublishFails, Idle
  <2>2. /\ worker'[u].at = "idle"
        /\ \A w \in Workers \ {u} : worker'[w] = worker[w]
    BY <2>1 DEF Inv, TypeOK
  <2>3. SlotsAccounted' /\ slots' <= Slots
    <3>1. worker[u].at \in Holding /\ worker'[u].at \notin Holding
      BY <2>1, <2>2 DEF Holding
    <3> QED BY <2>1, <2>2, <3>1, SlotReturned DEF Inv, TypeOK
  <2>4. /\ faults' \in 0 .. MaxFaults
        /\ faults' = 0 => faults = 0 /\ worker[u].at = "reporting"
    BY <2>1, BoundsAssumption DEF Inv, TypeOK
  <2>5. TypeOK'
    <3>1. worker' \in [Workers -> [at : WorkerAt, job : Jobs \cup {NULL}]]
      BY <2>1 DEF Inv, TypeOK, WorkerAt
    <3>2. slots' \in 0 .. Slots
      BY <2>1, <2>3, BoundsAssumption DEF Inv, TypeOK
    <3> QED BY <2>1, <2>4, <3>1, <3>2 DEF Inv, TypeOK
  <2>6. Places' /\ Unstarted'
    BY <2>1, <2>2 DEF Inv, Places, Unstarted, Busy
  <2>7. Marked' /\ Progress' /\ CompletedIsPersisted'
    BY <2>1, <2>2 DEF Inv, Marked, Progress, CompletedIsPersisted
  <2>8. NoneLeftRunning'
    <3> SUFFICES ASSUME faults' = 0, NEW i \in Jobs, job[i].st = "running"
                 PROVE  \E w \in Workers :
                           worker'[w].job = i /\ worker'[w].at \in Holding
      BY <2>1 DEF NoneLeftRunning
    <3>1. PICK w \in Workers : worker[w].job = i /\ worker[w].at \in Holding
      BY <2>4 DEF Inv, NoneLeftRunning
    <3>2. w # u
      BY <2>4, <3>1 DEF Inv, Marked
    <3> QED BY <2>2, <3>1, <3>2
  <2> QED BY <2>3, <2>5, <2>6, <2>7, <2>8 DEF Inv
<1>3. CASE (Report(u) /\ worker[u].at = "dropping") \/ WorkerStops(u)
  <2>1. /\ worker[u].at \in {"dropping", "idle"}
        /\ \/ worker' = [worker EXCEPT ![u] = [at |-> "idle", job |-> NULL]]
           \/ worker' = [worker EXCEPT ![u].at = "stopped"]
        /\ UNCHANGED <<job, client, queue, ticket, sequence, slots, flow,
                       persisted, stop, faults>>
    BY <1>3 DEF Report, WorkerStops, Idle, Go
  <2>2. /\ worker'[u].at \in {"idle", "stopped"}
        /\ \A w \in Workers \ {u} : worker'[w] = worker[w]
    BY <2>1 DEF Inv, TypeOK
  <2>3. TypeOK'
    <3>1. worker' \in [Workers -> [at : WorkerAt, job : Jobs \cup {NULL}]]
      <4>1. {"idle", "stopped"} \subseteq WorkerAt
        BY DEF WorkerAt
      <4> QED BY <2>1, <4>1 DEF Inv, TypeOK
    <3> QED BY <2>1, <3>1 DEF Inv, TypeOK
  <2>4. Places' /\ Unstarted'
    BY <2>1, <2>2 DEF Inv, Places, Unstarted, Busy
  <2>5. SlotsAccounted'
    BY <2>1, <2>2, SlotsKept DEF Inv, Holding
  <2>6. Marked' /\ NoneLeftRunning' /\ Progress' /\ CompletedIsPersisted'
    BY <2>1, <2>2 DEF Inv, Marked, NoneLeftRunning, Progress,
                      CompletedIsPersisted, Holding
  <2> QED BY <2>3, <2>4, <2>5, <2>6 DEF Inv
<1>4. CASE Timeout(u)
  <2>1. "timed_out" \in Ended /\ faults \in 0 .. MaxFaults
    BY DEF Ended, Inv, TypeOK
  <2> QED BY <1>4, <2>1, OutcomeStep DEF Timeout
<1>5. CASE Conclude(u)
  <2>1. PICK p \in DOMAIN Returned : At(u, p) /\ Outcome(u, Returned[p])
    BY <1>5 DEF Conclude
  <2>2. /\ worker[u].at = "running" /\ flow[j].at = p
        /\ UNCHANGED <<client, queue, ticket, sequence, slots, persisted, stop,
                       faults>>
    BY <1>5, <2>1 DEF Conclude, At, Published
  <2>3. Returned[p] \in Ended /\ (Returned[p] = "completed" => p = "succeeded")
    BY DEF Returned, Ended
  <2>4. Returned[p] = "completed" => persisted[j] > 0
    BY <2>2, <2>3 DEF Inv, Progress, Places, Busy
  <2>5. faults' \in 0 .. MaxFaults /\ (faults' = 0 => faults = 0)
    BY <2>2 DEF Inv, TypeOK
  <2> QED BY <2>1, <2>2, <2>3, <2>4, <2>5, OutcomeStep
<1>6. CASE ConcludeFails(u)
  <2>1. /\ worker[u].at = "running" /\ Outcome(u, "failed")
        /\ faults < MaxFaults /\ faults' = faults + 1
        /\ UNCHANGED <<client, queue, ticket, sequence, slots, persisted, stop>>
    BY <1>6 DEF ConcludeFails, At, PublishFails
  <2>2. faults' \in 0 .. MaxFaults /\ faults' # 0
    BY <2>1, BoundsAssumption DEF Inv, TypeOK
  <2>3. "failed" \in Ended /\ "failed" # "completed"
    BY DEF Ended
  <2> QED BY <2>1, <2>2, <2>3, OutcomeStep
<1> QED BY <1>1, <1>2, <1>3, <1>4, <1>5, <1>6 DEF Report

\* Every step preserves the invariant.
LEMMA NextInv == Inv /\ [Next]_vars => Inv'
<1> SUFFICES ASSUME Inv, [Next]_vars PROVE Inv'
  OBVIOUS
<1>1. CASE \E j \in Jobs : Submit(j) \/ Enqueue(j) \/ SubmitFails(j) \/ Cancel(j)
  BY <1>1, ClientKeeps
<1>2. CASE Shutdown
  BY <1>2 DEF Shutdown, Inv, TypeOK, Places, Unstarted, SlotsAccounted, Marked,
              NoneLeftRunning, Progress, CompletedIsPersisted
<1>3. CASE \E w \in Workers : Works(w) \/ Fails(w) \/ Timeout(w)
  <2>1. PICK w \in Workers : Works(w) \/ Fails(w) \/ Timeout(w)
    BY <1>3
  <2>2. CASE \/ Attempt(w) \/ Execute(w) \/ Return(w) \/ Advance(w)
             \/ Complete(w) \/ ProgressFails(w)
    BY <2>2, WorkflowKeeps
  <2>3. CASE Get(w) \/ GetFails(w) \/ Dispatch(w) \/ Acquire(w)
    BY <2>3, TakeKeeps
  <2>4. CASE \/ EngineRun(w) \/ StartFails(w) \/ Timeout(w) \/ Conclude(w)
             \/ ConcludeFails(w) \/ Report(w) \/ WorkerStops(w)
    BY <2>4, RunKeeps
  <2> QED BY <2>1, <2>2, <2>3, <2>4 DEF Works, Fails
<1>4. CASE UNCHANGED vars
  BY <1>4 DEF vars, Inv, TypeOK, Places, Unstarted, SlotsAccounted, Marked,
              NoneLeftRunning, Progress, CompletedIsPersisted
<1> QED BY <1>1, <1>2, <1>3, <1>4 DEF Next

-----------------------------------------------------------------------------
\* The framework keeps its invariant, whatever clients, operators, steps,
\* timeouts and event handlers do (JobManager, JobWorker, JobDispatcher,
\* WorkflowEngine).
THEOREM Invariance == Spec => []Inv
BY InitInv, NextInv, PTL DEF Spec

\* Every job is in one place and starts at most once (JobWorker.run).
THEOREM RunsOnceHolds == Spec => []RunsOnce
<1>1. Inv => RunsOnce
  <2> SUFFICES ASSUME Inv, NEW j \in Jobs
               PROVE  /\ job[j].runs <= 1
                      /\ Cardinality(Holders(j)) <= 1
                      /\ j \in queue => Holders(j) = {} /\ job[j].runs = 0
    BY DEF RunsOnce
  <2>1. job[j].runs <= 1 /\ (j \in queue => job[j].runs = 0)
    BY DEF Inv, Unstarted
  <2>2. j \in queue => Holders(j) = {}
    BY DEF Inv, Places, Holders
  <2>3. Cardinality(Holders(j)) <= 1
    <3>1. CASE Holders(j) = {}
      <4>1. Cardinality(Holders(j)) = 0
        BY <3>1, FS_EmptySet
      <4> QED BY <4>1
    <3>2. CASE Holders(j) # {}
      <4>1. PICK w \in Workers : Holders(j) = {w}
        BY <3>2 DEF Inv, Places, Holders
      <4>2. Cardinality(Holders(j)) = 1
        BY <4>1, FS_Singleton
      <4> QED BY <4>2
    <3> QED BY <3>1, <3>2
  <2> QED BY <2>1, <2>2, <2>3
<1> QED BY <1>1, Invariance, PTL

\* No path through dispatch loses a slot or gives one back twice
\* (JobDispatcher.dispatch).
THEOREM SlotsHold == Spec => []SlotsAccounted
<1>1. Inv => SlotsAccounted
  BY DEF Inv
<1> QED BY <1>1, Invariance, PTL

\* With event handlers that succeed no job is left running without a worker
\* (JobDispatcher.dispatch).
THEOREM NoneLeftRunningHolds == Spec => []NoneLeftRunning
<1>1. Inv => NoneLeftRunning
  BY DEF Inv
<1> QED BY <1>1, Invariance, PTL

\* A completed job has been persisted (WorkflowEngine._run_once).
THEOREM CompletedIsPersistedHolds == Spec => []CompletedIsPersisted
<1>1. Inv => CompletedIsPersisted
  BY DEF Inv
<1> QED BY <1>1, Invariance, PTL

\* A step by which a job starts finds its token unset or its worker waiting
\* (JobDispatcher.dispatch).
LEMMA StartsUncancelled ==
  ASSUME Inv, [Next]_vars, NEW j \in Jobs, job[j].token,
         \A w \in Holders(j) : worker[w].at # "waiting"
  PROVE  job'[j].runs = job[j].runs
<1>1. CASE \E i \in Jobs : Submit(i) \/ Enqueue(i) \/ SubmitFails(i) \/ Cancel(i)
  BY <1>1 DEF Inv, TypeOK, Submit, Enqueue, SubmitFails, Cancel, Put, Mark
<1>2. CASE Shutdown \/ UNCHANGED vars
  BY <1>2 DEF Shutdown, vars
<1>3. CASE \E w \in Workers : Works(w) \/ Fails(w) \/ Timeout(w)
  <2>1. PICK w \in Workers : Works(w) \/ Fails(w) \/ Timeout(w)
    BY <1>3
  <2>2. CASE \/ Get(w) \/ EngineRun(w) \/ Report(w) \/ Attempt(w)
             \/ Execute(w) \/ Return(w) \/ Advance(w) \/ Complete(w)
             \/ WorkerStops(w) \/ GetFails(w) \/ StartFails(w)
             \/ ProgressFails(w)
    BY <2>2 DEF Get, EngineRun, Report, Attempt, Execute, Return, Advance,
                Complete, WorkerStops, GetFails, StartFails, ProgressFails,
                Unmoved
  <2>3. CASE Conclude(w) \/ ConcludeFails(w) \/ Timeout(w)
    <3>1. \E s : job' = [job EXCEPT ![worker[w].job].st = s]
      BY <2>3 DEF Conclude, ConcludeFails, Timeout, Outcome, Mark
    <3> QED BY <3>1 DEF Inv, TypeOK
  <2>4. CASE Dispatch(w)
    <3>1. CASE Mark(worker[w].job, "cancelled")
      BY <3>1 DEF Mark, Inv, TypeOK
    <3>2. CASE ~ job[worker[w].job].token /\ Start(w, worker[w].job)
      <4>1. job' = [job EXCEPT ![worker[w].job].st = "running",
                               ![worker[w].job].runs = @ + 1]
        BY <3>2 DEF Start
      <4> QED BY <3>2, <4>1 DEF Inv, TypeOK
    <3>3. CASE UNCHANGED job
      BY <3>3
    <3> QED BY <2>4, <3>1, <3>2, <3>3 DEF Dispatch
  <2>5. CASE Acquire(w)
    <3>1. /\ worker[w].job # j
          /\ job' = [job EXCEPT ![worker[w].job].st = "running",
                                ![worker[w].job].runs = @ + 1]
      BY <2>5 DEF Acquire, Start, Holders, Busy
    <3> QED BY <3>1 DEF Inv, TypeOK
  <2> QED BY <2>1, <2>2, <2>3, <2>4, <2>5 DEF Works, Fails
<1> QED BY <1>1, <1>2, <1>3 DEF Next

\* A job cancelled before it starts does not start, unless it already waits
\* for a slot (JobDispatcher.dispatch).
THEOREM CancelledNeverStartsHolds == Spec => CancelledNeverStarts
<1>1. Inv /\ [Next]_vars =>
        [\A j \in Jobs :
            /\ job[j].token
            /\ \A w \in Holders(j) : worker[w].at # "waiting"
            => job'[j].runs = job[j].runs]_vars
  BY StartsUncancelled
<1> QED BY <1>1, Invariance, PTL DEF Spec, CancelledNeverStarts
=============================================================================
