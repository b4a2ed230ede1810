---------------------------- MODULE JobFramework ----------------------------
(***************************************************************************)
(* The in-memory job framework (backend/app/jobs) and the orchestration    *)
(* workflow it runs (backend/app/orchestration): JobManager submits jobs   *)
(* to a priority queue, JobWorkers take them, JobDispatcher runs them      *)
(* under a semaphore and an optional timeout, WorkflowEngine executes five *)
(* steps with retries and cooperative cancellation.                        *)
(*                                                                         *)
(* Everything runs on one event loop: an action is the code between two    *)
(* awaits that can suspend.  Those are the publications of events (their   *)
(* handlers may be coroutines, and a handler that raises makes publish     *)
(* raise EventError), the two asynchronous steps, the retry delay and the  *)
(* semaphore.  A job is one object that client, worker and operator share; *)
(* InMemoryJobRepository.save stores the reference, so saving changes      *)
(* nothing but that the job can be found.                                  *)
(***************************************************************************)
EXTENDS Integers, FiniteSets

CONSTANTS
    Jobs,         \* the requests that clients submit
    Workers,      \* the worker tasks of start_workers
    NULL,         \* no job
    Priority,     \* job -> its priority, the lowest first
    Timed,        \* the jobs submitted with timeout_seconds
    Slots,        \* max_concurrent_jobs
    MaxAttempts,  \* OrchestrationContext.max_attempts
    MaxFaults     \* bound: how many publications fail

ASSUME JobsAssumption ==
    /\ IsFiniteSet(Workers) /\ NULL \notin Jobs
    /\ Priority \in [Jobs -> Int]
ASSUME BoundsAssumption ==
    /\ Slots \in Nat /\ MaxAttempts \in Nat \ {0} /\ MaxFaults \in Nat

VARIABLES
    job,        \* job -> [st, token, runs]: JobState.status, the cancellation
                \* token that framework and workflow share, JobState.attempts
    client,     \* job -> where its submit_job is
    queue,      \* the jobs in the priority queue ...
    ticket,     \* ... job -> its sequence number
    sequence,   \* the next one
    worker,     \* worker -> [at, job]
    slots,      \* the semaphore's value
    flow,       \* job -> [at, step, attempt]: where its workflow is
    persisted,  \* job -> how many runs _persist has committed for it
    stop,       \* the lifecycle manager's stop_event
    faults

vars == <<job, client, queue, ticket, sequence, worker, slots, flow,
          persisted, stop, faults>>

Ended == {"completed", "failed", "cancelled", "timed_out"}
Status == {"pending", "queued", "running"} \cup Ended

\* Where a worker is: idle; publishing JOB_QUEUED; waiting for the semaphore;
\* publishing JOB_STARTED; in engine.run; publishing the outcome, with or
\* without having had a slot; gone by shutdown or by an exception.
WorkerAt == {"idle", "announcing", "waiting", "starting", "running",
             "reporting", "dropping", "stopped", "dead"}
Busy == {"announcing", "waiting", "starting", "running", "reporting",
         "dropping"}
Holding == {"starting", "running", "reporting"}

\* The steps of _run_once, of which the first two are asynchronous.
LastStep == 5
Asynchronous == {1, 2}

\* Where a workflow is: not running; publishing RUN_STARTED; publishing the
\* progress before a step; in an asynchronous step; publishing the progress
\* after it, or after the last; in the retry delay; publishing the outcome.
FlowAt == {"off", "started", "before", "operation", "after", "final",
           "delay", "succeeded", "failed", "cancelled"}
Off == [at |-> "off", step |-> 0, attempt |-> 0]

Init ==
    /\ job = [j \in Jobs |-> [st |-> "pending", token |-> FALSE, runs |-> 0]]
    /\ client = [j \in Jobs |-> "new"]
    /\ queue = {} /\ ticket = [j \in Jobs |-> 0] /\ sequence = 0
    /\ worker = [w \in Workers |-> [at |-> "idle", job |-> NULL]]
    /\ slots = Slots
    /\ flow = [j \in Jobs |-> Off]
    /\ persisted = [j \in Jobs |-> 0]
    /\ stop = FALSE
    /\ faults = 0

\* A publication succeeds, or one of its handlers raises and so does publish.
Published == UNCHANGED faults
PublishFails == faults < MaxFaults /\ faults' = faults + 1

Mark(j, s) == job' = [job EXCEPT ![j].st = s]

-----------------------------------------------------------------------------
(* JobManager.  Clients and operators are requests of the API.             *)

\* submit_job up to the publication of JOB_SUBMITTED.
Submit(j) ==
    /\ client[j] = "new"
    /\ client' = [client EXCEPT ![j] = "submitting"]
    /\ UNCHANGED <<job, queue, ticket, sequence, worker, slots, flow,
                   persisted, stop, faults>>

Put(j) ==
    /\ Mark(j, "queued")
    /\ queue' = queue \cup {j}
    /\ ticket' = [ticket EXCEPT ![j] = sequence]
    /\ sequence' = sequence + 1

\* The rest of submit_job: JobQueue.put, whatever happened to the job since.
Enqueue(j) ==
    /\ client[j] = "submitting"
    /\ Published
    /\ Put(j)
    /\ client' = [client EXCEPT ![j] = "accepted"]
    /\ UNCHANGED <<worker, slots, flow, persisted, stop>>

\* A handler of JOB_SUBMITTED raises: the client gets the error, the job
\* stays pending in the repository.
SubmitFails(j) ==
    /\ client[j] = "submitting"
    /\ PublishFails
    /\ client' = [client EXCEPT ![j] = "refused"]
    /\ UNCHANGED <<job, queue, ticket, sequence, worker, slots, flow,
                   persisted, stop>>

\* cancel_job, of any job that was ever saved and in any status.
Cancel(j) ==
    /\ client[j] # "new"
    /\ job' = [job EXCEPT ![j].token = TRUE, ![j].st = "cancelled"]
    /\ UNCHANGED <<client, queue, ticket, sequence, worker, slots, flow,
                   persisted, stop, faults>>

Shutdown ==
    /\ ~ stop
    /\ stop' = TRUE
    /\ UNCHANGED <<job, client, queue, ticket, sequence, worker, slots, flow,
                   persisted, faults>>

-----------------------------------------------------------------------------
(* JobWorker and JobDispatcher.                                            *)

Go(w, at) == worker' = [worker EXCEPT ![w].at = at]
Idle(w) == worker' = [worker EXCEPT ![w] = [at |-> "idle", job |-> NULL]]

\* The order of the priority queue.
Before(i, j) ==
    \/ Priority[i] < Priority[j]
    \/ Priority[i] = Priority[j] /\ ticket[i] < ticket[j]

\* Mutant: the job is taken without leaving the queue.
GetPeeks(w) ==
    /\ worker[w].at = "idle" /\ ~ stop
    /\ \E j \in queue :
          /\ \A i \in queue \ {j} : Before(j, i)
          /\ worker' = [worker EXCEPT ![w] = [at |-> "announcing", job |-> j]]
    /\ UNCHANGED <<job, client, queue, ticket, sequence, slots, flow,
                   persisted, stop, faults>>

\* Mutant: the last job of the queue is left there.
GetLeavesLast(w) ==
    /\ worker[w].at = "idle" /\ ~ stop
    /\ Cardinality(queue) > 1
    /\ \E j \in queue :
          /\ \A i \in queue \ {j} : Before(j, i)
          /\ queue' = queue \ {j}
          /\ worker' = [worker EXCEPT ![w] = [at |-> "announcing", job |-> j]]
    /\ UNCHANGED <<job, client, ticket, sequence, slots, flow, persisted,
                   stop, faults>>

\* The queue is not empty: take the first job, publish JOB_QUEUED.
Get(w) ==
    /\ worker[w].at = "idle" /\ ~ stop
    /\ \E j \in queue :
          /\ \A i \in queue \ {j} : Before(j, i)
          /\ queue' = queue \ {j}
          /\ worker' = [worker EXCEPT ![w] = [at |-> "announcing", job |-> j]]
    /\ UNCHANGED <<job, client, ticket, sequence, slots, flow, persisted,
                   stop, faults>>

\* EventError out of run: the task is over, and the job out of the queue.
GetFails(w) ==
    /\ worker[w].at = "announcing"
    /\ PublishFails
    /\ worker' = [worker EXCEPT ![w] = [at |-> "dead", job |-> NULL]]
    /\ UNCHANGED <<job, client, queue, ticket, sequence, slots, flow,
                   persisted, stop>>

\* Inside the semaphore, up to the publication of JOB_STARTED.
Start(w, j) ==
    /\ slots' = slots - 1
    /\ job' = [job EXCEPT ![j].st = "running", ![j].runs = @ + 1]
    /\ Go(w, "starting")

\* Mutant: dispatch does not look at the token.
DispatchUnchecked(w) ==
    LET j == worker[w].job IN
    /\ worker[w].at = "announcing"
    /\ Published
    /\ \/ /\ slots > 0 /\ \A v \in Workers : worker[v].at # "waiting"
          /\ Start(w, j)
       \/ /\ slots = 0 \/ \E v \in Workers : worker[v].at = "waiting"
          /\ Go(w, "waiting") /\ UNCHANGED <<job, slots>>
    /\ UNCHANGED <<client, queue, ticket, sequence, flow, persisted, stop>>

\* dispatch looks at the token once, then takes a slot or waits in line.
Dispatch(w) ==
    LET j == worker[w].job IN
    /\ worker[w].at = "announcing"
    /\ Published
    /\ \/ /\ job[j].token
          /\ Mark(j, "cancelled") /\ Go(w, "dropping") /\ UNCHANGED slots
       \/ /\ ~ job[j].token
          /\ slots > 0 /\ \A v \in Workers : worker[v].at # "waiting"
          /\ Start(w, j)
       \/ /\ ~ job[j].token
          /\ slots = 0 \/ \E v \in Workers : worker[v].at = "waiting"
          /\ Go(w, "waiting") /\ UNCHANGED <<job, slots>>
    /\ UNCHANGED <<client, queue, ticket, sequence, flow, persisted, stop>>

\* A waiter gets its slot; the token is not looked at again.
Acquire(w) ==
    /\ worker[w].at = "waiting" /\ slots > 0
    /\ Start(w, worker[w].job)
    /\ UNCHANGED <<client, queue, ticket, sequence, flow, persisted, stop,
                   faults>>

EngineRun(w) ==
    /\ worker[w].at = "starting"
    /\ Published
    /\ Go(w, "running")
    /\ flow' = [flow EXCEPT ![worker[w].job].at = "started"]
    /\ UNCHANGED <<job, client, queue, ticket, sequence, slots, persisted,
                   stop>>

\* A handler of JOB_STARTED raises outside dispatch's try: the slot is given
\* back, the worker logs and goes on, the job's status stays as it is.
StartFails(w) ==
    /\ worker[w].at = "starting"
    /\ PublishFails
    /\ slots' = slots + 1
    /\ Idle(w)
    /\ UNCHANGED <<job, client, queue, ticket, sequence, flow, persisted,
                   stop>>

\* engine.run is over: mark the job, then publish the outcome.
Outcome(w, s) ==
    /\ Mark(worker[w].job, s)
    /\ Go(w, "reporting")
    /\ flow' = [flow EXCEPT ![worker[w].job] = Off]

\* wait_for gives up, wherever the workflow is suspended.
Timeout(w) ==
    /\ worker[w].at = "running" /\ worker[w].job \in Timed
    /\ Outcome(w, "timed_out")
    /\ UNCHANGED <<client, queue, ticket, sequence, slots, persisted, stop,
                   faults>>

\* Mutant: the semaphore is not released.
ReportLeaks(w) ==
    /\ worker[w].at \in {"reporting", "dropping"}
    /\ Idle(w)
    /\ UNCHANGED <<job, client, queue, ticket, sequence, slots, flow,
                   persisted, stop, faults>>

\* The outcome is published, or its handlers fail and the worker logs that:
\* either way it saves the job and goes on.
Report(w) ==
    /\ worker[w].at \in {"reporting", "dropping"}
    /\ slots' = IF worker[w].at = "reporting" THEN slots + 1 ELSE slots
    /\ Idle(w)
    /\ UNCHANGED <<job, client, queue, ticket, sequence, flow, persisted,
                   stop, faults>>

WorkerStops(w) ==
    /\ worker[w].at = "idle" /\ stop
    /\ Go(w, "stopped")
    /\ UNCHANGED <<job, client, queue, ticket, sequence, slots, flow,
                   persisted, stop, faults>>

-----------------------------------------------------------------------------
(* WorkflowEngine.execute, inside engine.run.                              *)

Unmoved == UNCHANGED <<job, client, queue, ticket, sequence, worker, slots,
                       stop>>
At(w, at) == worker[w].at = "running" /\ flow[worker[w].job].at = at

Move(j, at) == flow' = [flow EXCEPT ![j].at = at]

\* _raise_if_cancelled, on the way to f: a cancelled run goes on to publish RUN_CANCELLED.
Unless(j, f) ==
    flow' = [flow EXCEPT ![j] =
                IF job[j].token THEN [f EXCEPT !.at = "cancelled"] ELSE f]

Step(f, n) == [f EXCEPT !.at = "before", !.step = n]

\* Mutant: one attempt too many.
RaiseOnceMore(j) ==
    Move(j, IF flow[j].attempt <= MaxAttempts THEN "delay" ELSE "failed")

\* An attempt raises: the next one after the retry delay, or RUN_FAILED.
Raise(j) ==
    Move(j, IF flow[j].attempt < MaxAttempts THEN "delay" ELSE "failed")

\* RUN_STARTED is published, or the delay (which may be none) is over: the next
\* attempt begins with the cancellation check of its first step.
Attempt(w) ==
    LET j == worker[w].job
        f == [flow[j] EXCEPT !.attempt = @ + 1]
    IN  /\ At(w, "started") \/ At(w, "delay")
        /\ Published
        /\ Unless(j, Step(f, 1))
        /\ Unmoved /\ UNCHANGED persisted

\* A step has been executed: a synchronous one by the code right after the
\* publication, an asynchronous one after its own await.  The last one is
\* _persist, whose unit of work commits before the cancellation check.
Executed(j) ==
    /\ Unless(j, [flow[j] EXCEPT !.at = "after"])
    /\ persisted' = IF flow[j].step = LastStep
                    THEN [persisted EXCEPT ![j] = @ + 1]
                    ELSE persisted

Execute(w) ==
    LET j == worker[w].job IN
    /\ At(w, "before")
    /\ Published
    /\ \/ /\ flow[j].step \in Asynchronous
          /\ Move(j, "operation") /\ UNCHANGED persisted
       \/ flow[j].step \notin Asynchronous /\ Executed(j)
       \/ /\ flow[j].step \notin Asynchronous
          /\ Raise(j) /\ UNCHANGED persisted
    /\ Unmoved

Return(w) ==
    LET j == worker[w].job IN
    /\ At(w, "operation")
    /\ Executed(j) \/ (Raise(j) /\ UNCHANGED persisted)
    /\ Unmoved /\ UNCHANGED faults

\* The progress after a step is published: the next step, or the last report.
Advance(w) ==
    LET j == worker[w].job IN
    /\ At(w, "after")
    /\ Published
    /\ \/ /\ flow[j].step < LastStep
          /\ Unless(j, Step(flow[j], flow[j].step + 1))
       \/ flow[j].step = LastStep /\ Move(j, "final")
    /\ Unmoved /\ UNCHANGED persisted

Complete(w) ==
    /\ At(w, "final")
    /\ Published
    /\ Move(worker[w].job, "succeeded")
    /\ Unmoved /\ UNCHANGED persisted

\* A publication of progress fails: the attempt has raised.
ProgressFails(w) ==
    /\ \E p \in {"before", "after", "final"} : At(w, p)
    /\ PublishFails
    /\ Raise(worker[w].job)
    /\ Unmoved /\ UNCHANGED persisted

\* The outcome is published and returned to dispatch.
Returned ==
    [succeeded |-> "completed", failed |-> "failed", cancelled |-> "cancelled"]

Conclude(w) ==
    /\ \E p \in DOMAIN Returned : At(w, p) /\ Outcome(w, Returned[p])
    /\ Published
    /\ UNCHANGED <<client, queue, ticket, sequence, slots, persisted, stop>>

\* A publication outside the attempts fails: EventError out of engine.run,
\* which dispatch turns into a failed job, whatever the outcome was.
ConcludeFails(w) ==
    /\ \E p \in DOMAIN Returned \cup {"started"} : At(w, p)
    /\ PublishFails
    /\ Outcome(w, "failed")
    /\ UNCHANGED <<client, queue, ticket, sequence, slots, persisted, stop>>

-----------------------------------------------------------------------------
\* What the worker's own task does next.
Works(w) ==
    \/ Get(w) \/ Dispatch(w) \/ Acquire(w) \/ EngineRun(w) \/ Report(w)
    \/ Attempt(w) \/ Execute(w) \/ Return(w) \/ Advance(w) \/ Complete(w)
    \/ Conclude(w) \/ WorkerStops(w)

Fails(w) ==
    GetFails(w) \/ StartFails(w) \/ ProgressFails(w) \/ ConcludeFails(w)

Next ==
    \/ \E j \in Jobs : Submit(j) \/ Enqueue(j) \/ SubmitFails(j) \/ Cancel(j)
    \/ Shutdown
    \/ \E w \in Workers : Works(w) \/ Fails(w) \/ Timeout(w)

Spec == Init /\ [][Next]_vars

\* The event loop runs every task that can run.  The asynchronous steps end,
\* since the NetBox and device calls they wait for have timeouts; handlers are
\* assumed to return or raise.
Fairness ==
    /\ \A j \in Jobs : WF_vars(Enqueue(j))
    /\ \A w \in Workers : WF_vars(Works(w))

FairSpec == Spec /\ Fairness

-----------------------------------------------------------------------------
(* Correctness.                                                            *)

TypeOK ==
    /\ job \in [Jobs -> [st : Status, token : BOOLEAN, runs : Nat]]
    /\ client \in [Jobs -> {"new", "submitting", "accepted", "refused"}]
    /\ queue \subseteq Jobs
    /\ ticket \in [Jobs -> Nat] /\ sequence \in Nat
    /\ worker \in [Workers -> [at : WorkerAt, job : Jobs \cup {NULL}]]
    /\ slots \in 0 .. Slots
    /\ flow \in [Jobs -> [at : FlowAt, step : 0 .. LastStep,
                          attempt : 0 .. MaxAttempts]]
    /\ persisted \in [Jobs -> Nat]
    /\ stop \in BOOLEAN /\ faults \in 0 .. MaxFaults

Holders(j) == {w \in Workers : worker[w].at \in Busy /\ worker[w].job = j}

\* A job has one place at a time, the queue or one worker, and starts at most
\* once: nothing that fails or is cancelled brings it back (JobWorker.run).
RunsOnce ==
    \A j \in Jobs :
        /\ job[j].runs <= 1
        /\ Cardinality(Holders(j)) <= 1
        /\ j \in queue => Holders(j) = {} /\ job[j].runs = 0

\* Every path out of dispatch gives its slot back (JobDispatcher.dispatch).
SlotsAccounted ==
    slots + Cardinality({w \in Workers : worker[w].at \in Holding}) = Slots

\* A job is shown as running only while a worker runs it, as long as every
\* event handler succeeds: no timeout, failure, cancellation or shutdown
\* leaves one behind (JobDispatcher.dispatch).
NoneLeftRunning ==
    faults = 0 => \A j \in Jobs : job[j].st = "running" =>
        \E w \in Workers : worker[w].job = j /\ worker[w].at \in Holding

\* A completed job has its results in the database
\* (WorkflowEngine._run_once).
CompletedIsPersisted ==
    \A j \in Jobs : job[j].st = "completed" => persisted[j] > 0

\* A job that is cancelled before it has started does not start, unless it
\* is already waiting for its slot (JobDispatcher.dispatch).
CancelledNeverStarts ==
    [][\A j \in Jobs :
          /\ job[j].token
          /\ \A w \in Holders(j) : worker[w].at # "waiting"
          => job'[j].runs = job[j].runs]_vars

\* Without failing handlers and without a shutdown every job that is accepted
\* ends, whichever steps fail or time out (JobWorker.run).
AcceptedJobsEnd ==
    [](faults = 0 /\ ~ stop) =>
        \A j \in Jobs : (client[j] = "accepted") ~> (job[j].st \in Ended)

\* shutdown returns: every worker leaves its loop or has died of an exception
\* (JobLifecycleManager.shutdown).
ShutdownReturns ==
    stop ~> \A w \in Workers : worker[w].at \in {"stopped", "dead"}

-----------------------------------------------------------------------------
(* The inductive invariant.                                                *)

\* A job that is queued or held was accepted, is in no second place, and each
\* worker inside its loop holds one job.
Places ==
    /\ \A j \in queue : client[j] = "accepted"
    /\ \A w \in Workers : worker[w].at \in Busy =>
          /\ worker[w].job \in Jobs
          /\ worker[w].job \notin queue
          /\ client[worker[w].job] = "accepted"
          /\ \A v \in Workers :
                worker[v].at \in Busy /\ worker[v].job = worker[w].job => v = w

\* Until a worker starts it a job has no run behind it; a job without a run
\* has no workflow, nor has one that has just started.
Unstarted ==
    /\ \A j \in Jobs :
          /\ job[j].runs <= 1
          /\ client[j] # "accepted" \/ j \in queue => job[j].runs = 0
          /\ job[j].runs = 0 => flow[j] = Off
    /\ \A w \in Workers :
          /\ worker[w].at \in {"announcing", "waiting"} =>
                job[worker[w].job].runs = 0
          /\ worker[w].at = "starting" =>
                flow[worker[w].job] = Off /\ job[worker[w].job].runs = 1

\* An outcome that is being published has been marked.
Marked ==
    \A w \in Workers :
        worker[w].at = "reporting" => job[worker[w].job].st # "running"

\* A workflow in its first publication has not begun an attempt, one in the
\* retry delay has attempts left, and one behind the last step has persisted.
Progress ==
    \A j \in Jobs :
        /\ flow[j].at = "started" => flow[j].attempt = 0
        /\ flow[j].at = "delay" => flow[j].attempt < MaxAttempts
        /\ \/ flow[j].at \in {"final", "succeeded"}
           \/ flow[j].at = "after" /\ flow[j].step = LastStep
           => persisted[j] > 0

\* The inductive invariant: its parts are what JobQueue, JobWorker.run,
\* dispatch and execute rely on of one another.
Inv ==
    /\ TypeOK /\ Places /\ Unstarted /\ SlotsAccounted /\ Marked
    /\ NoneLeftRunning /\ Progress /\ CompletedIsPersisted
=============================================================================
