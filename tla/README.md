# Network Operations Platform: TLA+ models and proofs

The platform discovers network devices over several management transports, synchronises
an inventory from NetBox, compares the two, evaluates the differences against policies and
shows the history of all that. This directory models what it does to its records:
durable discovery jobs and their fan-out over address ranges, the discovery of one device,
the in-memory job framework, the scheduler, transport sessions and credentials, the NetBox
synchronisation, and the algorithms that turn inventories into findings, decisions and
figures. Paths below are relative to `src/backend/app/` unless they say otherwise.

## 1. Inventory

`PROJECT.json` lists every component with its files. The ones that keep state or compute
something that can be wrong:

| component | state | operations | talks to | what makes it correct |
|---|---|---|---|---|
| Discovery jobs (`discovery/worker.py`, `leases.py`, `persistence/discovery_repositories.py`) | rows of `discovery_jobs`: status, owner token, lease, cancellation request, attempts | create, claim, renew, transition, request and resolve a cancellation, recover an expired lease | worker processes through the database; operators through the API | a terminal job is final; a job is executed at most once; no live execution loses its job; every job ends |
| Fan-out (`discovery/fanout.py`) | parent and child rows, device results, run report | expand, create children, run them under a semaphore, reconcile, report | the execution of each child, recovery, cancellation | an ended tree is complete, its report counts what is there |
| Discovery of a device (`discovery/execution.py`, `multi_transport.py`, `transport_policy.py`) | device result, attempt, evidence and snapshot rows, pending and committed | plan a chain of transports, try, fall back, classify, store, fail, cancel | transports, parsers, the job row, operators | the stored attempts explain the stored result; a success is complete; a chain tries only permitted transports |
| Job framework and workflow (`jobs/`, `orchestration/`, `events/`) | in-memory jobs, priority queue, semaphore, worker tasks, attempt and step of a run | submit, cancel, take, dispatch, time out, retry, shut down | event handlers, unit of work | a job runs once, slots are given back, accepted jobs end |
| Scheduler (`scheduler/`) | schedules, executions | create, update, pause, resume, delete, dispatch what is due | the job framework | no recurring schedule runs twice in its period, unless a pass failed between its two commits; one that is due has its turn; a deleted one stays deleted |
| Collector runtime and transports (`collectors/`, `transports/`) | collector jobs, pooled sessions, locks per key, circuit breaker | run with attempts and a time-out, open, reuse, close, admit, record | devices | one connection per target; the breaker closes again; every job ends with one result |
| Credentials and targets (`api/v1/credentials.py`, `transports/credentials.py`, `collectors/cisco/`) | profiles, targets, what an attempt has read of them | create, change, delete, test, attach, resolve, collect | operators, secrets | a revoked profile gives no credentials; no session gets another target's; what a job opens, the profile's test accepts |
| NetBox synchronisation (`api/v1/integrations.py`, `integrations/`, `cache/`, `audit/`) | sync job rows, an advisory lock on a pooled connection, background tasks | request, fetch pages with retries, cache, store, audit, recover at start-up | NetBox, Redis, the database | one synchronisation at a time; the recorded outcome is true; none stuck for ever |
| Normalisation, comparison, policies, evaluation, decision | none | pure functions over inventories and policies | the workflow | agreement with a reference definition |
| Dashboard, history, reports, views of a job | stored snapshots and comparisons | aggregate, list, filter, drill down, report | everything that stores | every record is accounted for once, and two views of one record agree |
| Authentication (`auth/`) | users, roles, signed tokens | log in, refresh, look up | API | not modelled: nothing is revoked, locked or counted |

What is hard here, and listed line by line under `hazards`: several processes and operators
writing one row; statements that read in one transaction and write in a later one; a
worker that crashes, stops or is frozen past its lease between any two transactions;
children that raise out of `asyncio.gather` while their siblings run; a time-out or a
cancellation that meets a coroutine at any of its awaits; event handlers that raise;
whole rows written back from a copy that has grown old; locks that belong to a pooled
connection; and figures computed from records stored in another order than they were made.

## 2. Modules

| module | models | extends / refines |
|---|---|---|
| `JobLifecycle` | abstract: which status may follow which, terminal is final (`discovery/contracts.py`) | |
| `LeasedJobs` | the job table, worker processes, poll loops, leases and heartbeats, executions, operators | `JobContract`: implements `JobLifecycle` |
| `Fanout` | one range job: parent, children, results, report; its worker, a recovering worker, operators | `ParentContract`: the parent's row implements `JobLifecycle` |
| `DeviceDiscovery` | one execution of one device: transport chain, attempts, result, evidence, snapshot, handlers and rollbacks | |
| `JobFramework` | `jobs/` and `orchestration/`, with event handlers that may raise | |
| `Scheduler` | schedules, API requests and passes of the dispatcher | |
| `CollectorRuntime` | collector jobs, connection pool, circuit breaker | |
| `Credentials` | profiles and targets under edits, and the attempt that uses them | |
| `NetBoxSync` | sync requests, advisory lock, tasks, processes | |
| `Inventory`, `Comparison`, `Policies`, `Assessment` | normalisation and merge; matching and differences; packages, inheritance, rules, scores and decisions; the run of all of them with reference definitions | each extends the one before |
| `Reporting`, `History`, `JobViews` | report sections and statistics; the stored history with dashboard, listings and drill-down; the views of a range job | each extends the one before; `Reporting` extends `Comparison` |
| `MC*` | the instances TLC checks | |
| `LeasedJobsProofs`, `FanoutProofs`, `DeviceDiscoveryProofs`, `JobFrameworkProofs`, `SchedulerProofs`, `CollectorRuntimeProofs`, `NetBoxSyncProofs`, `CredentialsProofs` | theorems about the module of that name | each extends it |

Some definitions are deliberately wrong variants of the one below them (most say `Mutant:`),
one for each property; no specification uses them. Each shows that the property would
notice such a bug.

### LeasedJobs

One action is one committed transaction, together with the coroutine code before it.
`state`, `owner`, `lease`, `cancelReq`, `attempts` are columns of the row. `pc`, `rjob`,
`home`, `lost`, `beat`, `age` describe one execution for each claim token
(`_run_owned_job` and its heartbeat task); `proc`, `phase`, `todo`, `reading` one worker
process and its poll loop; `evidence` and `snapshot` what executions leave behind.

The repository writes with conditional UPDATEs, each of which is atomic. Where the code
reads in one statement and writes in a later one that does not check again what was read
(recovery reads `lease_expires_at`, its UPDATE compares state and owner only), read and
write are two actions. Coroutines of one process interleave only at awaits (`LoopFree`);
processes interleave at every transaction. Time is relative: `lease[j]` is the time left,
in ticks; a tick may pass at any moment, except that a process which is up and running
sends a due heartbeat first. A process that does not is "stalled".

### Fanout

`parent`, `child` and `run` are the rows of the tree; a child is named by its address and
by whether the fan-out or a reconciliation created it, and its record holds the job and
its device result. `pc` is where `execute_discovery_job` is, `cpc` where each `run_child`
coroutine is; `stale` are the children whose copy in the worker's session is out of date,
which is what `reconcile_parent_job` decides from. `good` is the set of rows whose lease
has not expired: instead of ticks, expiry is one action, allowed when nobody renews or,
with `CanStall`, when the worker is stuck without an await for longer than its lease
(creating up to 4096 children runs without one). A child without a credential profile
stores snapshot, result and status in one transaction (`ChildSucceed`). With a profile the
verdict "discovered" is committed with the evidence while the job still runs
(`ChildNoted`), the success follows in another one (`ChildProcessed`), and an error between
the two falls through to step 7 (`ChildStep7`). `rival` is what the recovering worker
has read of the tree and not yet acted on. Owner tokens are not repeated: `LeasedJobs`
shows that a row is running exactly while it has its owner.

### DeviceDiscovery

The job is claimed already. `db` are the committed rows, `view` the same rows as the
execution's session sees them, flushed but uncommitted ones included; a commit copies
`view` to `db`, a rollback `db` to `view`. Operators update or delete the target, cancel
the job, and another worker recovers it between any two steps. The worker may
lose its lease while the job still runs, because it stops or its renewal fails, and any
step may meet an error of the database, the failure handlers included: such an error comes
before the step's statement, whose transaction then is not committed. Every transport
answers with any of the outcomes `classify_transport_failure` tells apart. The chain comes from
`resolve_transport_policy`; targets are records that the API accepts, and may be updated
field by field afterwards.

### JobFramework

Everything runs on one event loop, so an action is the code between two awaits that can
suspend: publications of events, the two asynchronous steps, the retry delay and the
semaphore. `job` is the shared `JobState` object with its cancellation token, `worker`
where each `JobWorker` is (in `run` or inside `dispatch`), `flow` where the workflow of a
job is. The time-out of `dispatch` may strike at any await (`Timeout`); one that strikes
while the collectors run is converted into an error of that step, which is `Raise` in
`Return` (section 5). A publication succeeds or, at most `MaxFaults` times, raises; where
the exception goes from there is what the model follows: out of `submit_job` to the client,
out of `JobWorker.run` (the task is over), out of `dispatch`, into a retry, or into a
failed job.

### Scheduler

One event loop. An API request reads and writes its schedule without an await;
`dispatch_due_jobs` awaits `submit_job` between the copies it read (`todo`) and the copy it
writes back (`sent`), and everything else may happen meanwhile. Every save stores a whole
row. A run is two commits without an await between them, the execution (`AppendExecution`)
and the copy (`SaveDispatched`); a pass may fail, or its process stop, before, between or
after them. Cron expressions are periods; intervals may be zero or negative, as the API
allows.

### CollectorRuntime

Jobs are coroutines that are interrupted where they await: the lock of their pool key,
`session.open` (in a thread that a time-out abandons), the device's answers, the retry
delay. `live` are the connections a device has open, `pool` and `lock` the connection pool,
`breaker` the circuit breaker all targets share. Devices drop connections at any time.

### Credentials

A request that checks one row and writes another has two steps, its reads and its commit;
two requests, edits and an attempt interleave. The attempt reads target and profile when it
plans, loads the profile again when it needs the secret, then opens or reuses a session
and sends its commands one by one. With a profile the transport of the session is looked up
by the names of the chain, without one by the selector. Two tenants, whose targets may have
one identifier; a partial update writes omitted fields as
null, as the route does.

### NetBoxSync

Each process has an event loop, a pool of connections and at most one request in the
handler. Code that does not await keeps the loop. The advisory lock belongs to a connection
(`holder`, with its `depth`); a commit returns the connection to the pool and the next
statement takes one from it, first in first out. The task fetches pages with attempts,
caches, stores and audits in three transactions. `postgres` is fixed at the start: on
SQLite there is no lock. A start-up reads the unfinished jobs (`ReadStuckJobs`) and then
fails them by id, whatever they have become since (`Start`); `starting` and `stuck` are
what it has read. `disowned` records that it failed a job of a live process, or one that
had succeeded.

### Assessment and History

`Assessment` runs the workflow's computation once per input (`Cases`): normalise and merge,
compare, compile, evaluate, decide, each step raising where the code raises. A text is a
member of a small set; `Strip` and `Fold` are what `str.strip` and `str.casefold` do to it.
VLANs are compared by number, name and status, interfaces by their description too.
`History` adds snapshots and comparisons one by one, in any order of their time stamps, at
distinct times, and without VLANs and NetBox interfaces (the mapper leaves those empty);
the dashboard, the listings, the drill-down and the reports are functions of what is stored.
`JobViews` adds the variance of a range against NetBox.

## 3. Runs

| run | instance | shows |
|---|---|---|
| `leases_expiry` | 3 jobs on 2 targets, one unowned from before leases existed, 2 workers that claim up to 2, 1 fault, no freezing | `Inv` (leases follow their heartbeats), `NeverResumed`, `CancelNeverSucceeds`; recovery and forced cancellation end only expired leases |
| `leases_live` | 1 job, 2 workers, 2 faults, freezes | `SnapshotsAreBacked`; the workers implement `JobLifecycle`; with one worker that stays up every job ends |
| `fanout_safety` | 2 addresses, 1 slot, single cancellations, freezes, 1 fault | a success is backed by a child's (`Inv`); the parent implements `JobLifecycle`; a complete result that says "discovered" keeps saying so (`DiscoveriesAreKept`) |
| `fanout_settled` | 2 addresses, 2 slots, 2 faults, no freezing, no single cancellations | an ended tree is complete and its report agrees with its results; everything ends |
| `device` | 6 kinds of target, 1 update, 2 faults (database errors, failing renewals, a stop), cancellation, recovery, deletion | attempts survive rollbacks, every outcome is reported, deleted rows stay deleted (`Inv`); `SuccessIsComplete`, `TriedTransportsAreAllowed`, `VerdictIsExplained`, `ExecutionEnds` |
| `jobs` | 2 jobs of different priority, one with a time-out, 2 workers, 1 slot, 2 attempts, 1 failing handler | `Inv` (slots, nothing left running, completed is persisted), `RunsOnce`, `CancelledNeverStarts`, `AcceptedJobsEnd`, `ShutdownReturns` |
| `scheduler` | a recurring and a one-time schedule, starts before and after now, time to 3, 2 runs each, 1 failing pass | `Inv` (enabled is active, rate respected but for a failure between the two commits), `DeletedStaysDeleted`, `DueSchedulesRun` |
| `collectors` | 3 jobs, 2 on one target, one retried, one timed; pool of 1, breaker threshold 2, one `close_all` | `Inv` (one connection per key, pool and breaker sound), `SavedIffSucceeded`, `JobsEnd` |
| `credentials` | 2 profiles, 3 targets of 2 tenants, two with one identifier, 2 requests, 3 edits | `CollectingIsSound`, `OpenedProfilesPass`, `RevokedProfilesAreRefused` |
| `netbox` | 2 processes, 2 jobs, 2 connections each, 2 pages, 2 attempts, 1 crash of one of the processes, 1 failing transaction | `OneSyncAtATime`, `OutcomeIsTrue`, `EverySyncEnds` |
| `assessment` | inventories of up to 2 devices on each side, 3 policies, scopes, exceptions, raising rules | `DriftIsDetected`, `RulesAreInherited`, `VerdictIsJustified` |
| `history` | 3 snapshots, 2 comparisons, 3 instants across a week and a month boundary | `AggregatesAreComplete`, `ReportsAgree`, `ViewsAgree` |

### Bounds, and why they are enough

* Lease 3 ticks, heartbeat 1: the smallest lengths that `DiscoveryJobWorker.__post_init__`
  accepts. Every order of heartbeat, expiry, recovery read and write occurs; the proofs
  cover all other lengths.
* Two workers or processes: one that works and one that interferes. Two or three jobs: one
  that is claimed while another is executed, recovered or refused because of its target.
* Two addresses: a child that fails and a sibling that is left behind. One slot makes the
  sibling wait, two make the coroutines run side by side.
* `MaxFaults`, `MaxErrors`, `MaxCrashes` count crashes, stops, freezes, database errors and
  failing handlers. One suffices for the atomicity questions, two for a fault during the
  recovery from another.
* Two attempts have both a retry and a last attempt; two pages a first and a last one; a
  pool of one session, or of two connections, is full and has one to confuse with another.
* Three edits: create a profile, attach it, change or delete it under an attempt.
* Two devices on each side: two that compete for one name or serial. Three policies: a
  diamond, a circle, a parent that is missing. Two comparisons: two in one bucket or on
  both sides of its boundary. A month of 6 days puts one inside the instants.
* One process of two may crash (`Fragile`): the processes are alike, and the other one is
  there to be interfered with.
* `MaxTime` and `MaxRuns` let each schedule become due, run and become due again.
* Symmetry is declared over interchangeable tokens, workers, addresses and requests, only
  in runs without liveness properties.

Deadlock is checked for `LeasedJobs`, where time can always pass. The other modules follow
one tree, one batch of jobs, one execution or a bounded number of edits, and stop when
that has ended.

### Fairness

* `LeasedJobs`: poll loops, executions and heartbeats of a process that is up (asyncio
  runs every ready coroutine, every transport call has a time-out), the end of a stopping
  process, and time. `EventuallyTerminal` assumes besides that some worker stays up.
* `Fanout`: the parent, each coroutine, the second worker's poll, expiry of leases that
  nobody renews, and the end of other users' jobs.
* `DeviceDiscovery`: the execution itself; transport calls and statements return.
* `JobFramework`: the tasks of the event loop. `AcceptedJobsEnd` is stated for
  runs without shutdown and without a failing handler, whose exception may end the last
  worker; `ShutdownReturns` for all. The
  asynchronous steps wait for NetBox and
  for devices, whose calls have time-outs; the one handler the program subscribes (audit)
  writes to the database without waiting for anything else.
* `Scheduler`: the pass. The timer that calls it is outside the repository and assumed to
  call it again.
* `CollectorRuntime`: each job and `close_all`; connection attempts and commands return or
  raise in the end, and locks are granted in turn.
* `NetBoxSync`: handlers that can go on, the restart of a crashed process through its two
  steps (weak), and the
  tasks (strong: a task is disabled again and again while a handler keeps the event loop,
  which asyncio shares in turn). `EverySyncEnds` excepts PostgreSQL, where the lock may be
  left behind, and failing transactions: what it shows of the end of a synchronisation is
  shown for SQLite only, where nothing waits for a lock. Section 5 says why.

Operators, faults, and the resumption of a frozen process are never fair. `Credentials`,
`Assessment` and `History` have no liveness property.

## 4. Proofs

`tlapm` checks every proof module to the last leaf. What is proved of a module holds for
all values of its constants: any jobs, processes, targets, addresses or profiles, any
number of faults and crashes, chains and lists of any length. The assumptions are the
`ASSUME`s of the modules, which TLC evaluates in the runs too:

* bounds are natural numbers, and those the code checks or divides by are not zero; twice
  the heartbeat is below the lease (`DiscoveryJobWorker.__post_init__`). The periods of
  schedules are any integers;
* `NullAssumption`: `NULL` stands for Python's `None`, which is no row, job, name or number;
* `NetBoxSync`: there are finitely many processes, so that they can be counted;
* `Credentials`: what operators stored before belongs to known targets, and a platform
  family is registered once. Identifiers are unique per tenant only, as in the table.

Every safety invariant and action property of the runs is a theorem, with the exceptions at
the end of this section. Each theorem rests on an inductive invariant, which TLC checked on
the instance of the run before it was proved. A proof has one lemma per action; what
several actions share (a row that is written, an execution that goes on) is a lemma of its
own.

**LeasedJobs.** `Invariance` proves `Inv`. The properties are not inductive alone. That a
late success cannot overwrite a recovered job needs that a row points back to the one
token that claimed it (`TokenRecords`) and that claimed jobs never wait again
(`ClaimedJobs`). That recovery spares good leases needs the lease to be what the age of
the heartbeat leaves of it (`LeaseTracksBeat`), no overdue heartbeats (`BeatOnTime`), and
what recovery has read to stay true until it acts (`ReadingStale`); the last two need
`~CanStall`: a heartbeat that comes late makes recovery act on a lease renewed meanwhile.
Actions are proved by kind: `LoopStep`, `RunStep`, `RowStep`. From `Inv` follow
`LeaseColumnsHold`, `NeverResumedHolds`, `SnapshotsHold`, `CancellationHolds`, the
refinement of `JobLifecycle` (`Refinement`), and `RecoverySparesGoodLeases` for
`~CanStall`.

**Fanout.** `FanoutInvariance` proves `Inv`: a parent that succeeded has a child that did.
The parent decides from the results of its children, so until it has ended a result that
says "succeeded" must belong to a child that succeeded (`ResultsAreTrue`). What could take
that back is the closing reconciliation, which writes children from stale copies: those
belong to coroutines that have returned without success (`StaleIsOver`). The recovering
worker acts on what it read, and finds the parent no longer running if it succeeded
meanwhile. `ReconcileFacts`, `TreeRowsFacts` and `EndTreeFacts` say what the two
reconciliations may do to rows; `RowChanges` reduces every other action to the one row it
writes. `ParentRefinement` shows that the parent's row implements `JobLifecycle`.

`DiscoveriesStay` is the action property `DiscoveriesAreKept`, without further hypotheses:
freezes, single cancellations and any reported addresses are allowed. It speaks of complete
results, those with a terminal state. It needs `DiscoveredIsOver`: such a result with the
verdict "discovered" belongs to a job that has ended, so that no reconciliation takes it for
incomplete, and to a coroutine that gives no verdict any more; and a result is complete only
when its job has ended or nobody executes it, so that the verdict that `ChildNoted` commits
while the job runs is none of them. Only the status of such a child may still change, and a
noted verdict may be taken back (section 5).

`WorkersKeepTheirRanges`, for `~CanStall`, says that recovery and operators never end a
range that its worker executes; it is to ranges what `RecoverySparesGoodLeases` is to
leases. The invariant (`LeaseIsKept`) is that the lease of such a range is good and that no
other worker has read its tree.

`TreesAreSettled` proves `EndedTreeIsSettled` from `SInv`, under three hypotheses, each of
which TLC shows to be needed: `~CanStall`, `~SingleCancels`, and that a device reports its
own address or one outside the scope. `SInv` says of the rows that each is found under its
address, unless it is complete (`RowsSound`), so that a reconciliation that picks one result
per address misses none; of each coroutine what it may still write (`CoroutineSound`): as
long as the tree has not ended it finds its row as it left it, and after that it runs only
for a worker that has lost its lease or stops, which makes it return without a verdict of
its own; of the lease that an answer of a device is stored only while nobody else may end
the tree (`LeaseSound`); and of the tree that it is settled once the parent has ended or is
about to (`TreeSettled`). `ReconcileSettles` says that a reconciliation of sound rows that
knows of all active ones settles the tree; `EndSettles` reduces the six ways to end a tree
to it, and `RowMoves` the fifteen coroutine steps to the row they write: in an ended tree the
row must count for the report as before.

**DeviceDiscovery.** `ExecutionInvariance` proves `Inv`, `SuccessIsComplete` and
`VerdictIsExplained` together. They need what the session has pending at each place in the
code (`Beginning`, `Trying`, `Collecting`, `Completing`): that a chain's rows are
uncommitted while it is tried, and the target therefore cannot be deleted, that they are
never changed after their commit, and that the classification in memory is the one the
attempts give. `OnlyAllowedTransports` holds for any lists of transports. Its first part
(`ChainedAreAllowed`) speaks of the chain; its second (`SingleIsPermitted`) of jobs without
one, whose attempt row names the transport: it is one the target permits as long as nobody
has updated the target, for what no policy checks at execution only `create_target` has
checked (section 5). The first part is proved by induction over the list, in set form:
among the positions of a counterexample `WellFoundedInduction`'s minimal element theorem
picks the first. This works where the model folds with `FlattenSeq`, whose library
definition is a recursive function.

**JobFramework.** `Invariance` proves `Inv`. `Places` says that a job is in the queue or
with one worker; `Unstarted` that it has no run and no workflow before `dispatch` starts
it, without which a second start could not be excluded; `Marked` that an outcome under
publication has been marked, without which `Report` could leave a job running; `Progress`
that a workflow behind its last step has persisted and one in the retry delay has attempts
left. The slots are counted with the cardinality of the set of workers inside the
semaphore. Workflow steps share `FlowStep`, the ends of a run `OutcomeStep`. From `Inv`
follow `RunsOnceHolds`, `SlotsHold`, `NoneLeftRunningHolds`, `CompletedIsPersistedHolds`
and, with one look at every action, the action property `CancelledNeverStartsHolds`.

**Scheduler.** `Inv` is inductive as it stands (`SchedulerInvariance`). That a recurring
schedule respects its rate after every run whose copy was saved (`unsaved` are the others)
needs the next run of every copy, in the table and in the pass, to be a period behind each
of those runs (`NextIsSpaced`), because a pass writes back whole rows that have grown old,
and its copies to be due at the time the pass began (`PassIsCurrent`). Only a failing pass
leaves an unsaved run (`GapsAreFailures`), so that without one any two executions lie a
period apart (`RateIsAlwaysRespected`). Periods may be zero or negative.
`DeletionIsFinal` is the action property `DeletedStaysDeleted`.

**CollectorRuntime.** `CollectorInvariance` proves `Inv`. One connection per key needs to
know who holds the lock of a key and why (`LocksAreHeld`), and that an abandoned opening
belongs to an attempt that is over (`AbandonedIsOver`): its session is named by job and
attempt, and must not be taken for the one that is opened next. `SavesOnce` is
`SavedIffSucceeded`.

**NetBoxSync.** `SyncInvariance` proves `IInv`. `OnlyOneSync` follows from `CheckIsFresh`: a
handler about to insert its job is right that there is no active one. On PostgreSQL that
needs the connection of a handler to have the lock from its check to its commit
(`LockIsHeld`), wherever earlier locks were left; with one process it needs only the event
loop. `OutcomesAreTrue` needs to know who owns a job: first its request (`Requested`), then
its task (`TaskIsTrue`), never both, and nobody for an id that is not used (`Unused`); and
that a start-up has read only rows that exist (`StartsOK`). It excepts what the code does
with a success that an earlier reading or a raising audit turns into a failure (section 5),
and says that nothing else does.

**Credentials.** `IInv` (`CredentialsInvariance`) says that a session in the pool was opened
for a tenant that has a target with the identifier in its key, and that there is one session
per key (`PoolOK`); that what an attempt selected fits its platform (`SelectionOK`, from
`SelectFacts`); and that ids of deleted profiles are not used again (`TablesOK`).
`CollectingStaysSound` follows: it promises a session of the target's own tenant only where
no other tenant uses the identifier. So do the action properties: `RevokedAreRefused`, and
`OpenedPass`, which follows what a job opens through platform, selection, registry and
resolution, and compares it with the answer of the profile's test.

Only model-checked:

* the liveness properties (`EventuallyTerminal`, `EverythingEnds` and their like): the
  prover does not reason about fairness;
* `Assessment`, `History` and `JobViews`. Their properties compare a computation over whole
  inventories, policies and histories, folded over sequences, with a reference definition;
  what such a fold computes for every input needs an induction whose theorems take an
  operator as their parameter, which the installed provers cannot instantiate. The rules
  that `VerdictIsJustified` and `RulesAreInherited` speak of come from the recursive walk
  over the parents of a policy, which the prover cannot expand.

## 5. Observations

Behaviours that the models show or that reading the code for them turned up. They are
behaviours of the code as it is. The properties of section 3 are stated so that they hold
with them, or, where a run's constants or a theorem's hypotheses leave one out (no freezing,
no single cancellations, no device that claims another's address, no failing handler, no
PostgreSQL), section 3 or 4 says so.

Discovery jobs and fan-out:

* `recover_expired_owned_job` reads the lease and then updates by state and owner only
  (`persistence/discovery_repositories.py:1033`). A heartbeat that arrives late, in between,
  renews a lease whose job is failed all the same. Without frozen processes this cannot
  happen (`RecoverySparesGoodLeases`).
* A child whose failure meets its own cancellation raises out of `asyncio.gather`; with the
  parent's cancellation requested, `execute_discovery_job` finishes the parent without
  `reconcile_parent_job`, and queued siblings stay queued (`discovery/worker.py:396`).
* `_reconcile_owned_tree` and `reconcile_parent_job` update queued children by id alone: one
  that was cancelled meanwhile becomes failed (`persistence/discovery_repositories.py:1109`).
* A worker stuck past its lease before it creates the children creates them under a parent
  that was recovered; if it then dies nobody recovers them, since recovery lists root jobs
  (`persistence/discovery_repositories.py:1002`).
* A successful discovery replaces the address of its result by the device's own; the
  reconciliation then finds no result for the scanned address and adds an interrupted one
  (`discovery/fanout.py:375`). When the address is another one of the same scope, two results
  have it, the reconciliation looks at one of them, and a tree that is ended by recovery or
  by a failing heartbeat may keep a child without verdict. `TreesAreSettled` excludes this.
* A worker that was frozen and resumes may complete a child that recovery has read as queued;
  recovery then writes "failed" over the status of a child whose device stays "discovered".
* With a credential profile the result of a job says "discovered" before the job has
  succeeded (`discovery/execution.py:510`, committed at 551). An error in what follows takes
  it back through step 7 and `_ensure_device_result_for_failure`
  (`discovery/execution.py:1180`), a crash or a cancelled range through
  `reconcile_parent_job`, which takes the result for incomplete.
* A child cancelled while it collects is reported as `reachable_no_management`.
* A result may be `unreachable` although an attempt reached the host: when processing fails
  after a successful fallback, or a circuit breaker kept one transport from being tried.
* One attempt that is refused for its credentials makes the result
  `authentication_failed`, whatever the other transports met (`any_auth_failed` in
  `discovery/multi_transport.py`), while `discovery/result_states.py:39` and the message at
  `discovery/execution.py:662` say that authentication failed for all applicable ones.
  `VerdictIsExplained` states what the code does.
* A job without a chain asks no transport policy: it takes the target's preferred transport
  (`discovery/execution.py:805`, `collectors/cisco/base.py:118`). `create_target` validates
  it against the flags, a later update of the target does not: telnet is then attempted
  although `allow_insecure_telnet` is false, which the comment at
  `discovery/execution.py:124` excludes.
* An error of the database within step 7 leads to the general handler, which stores the
  result of `DISCOVERY_FAILED` in place of the chain's, and leaves the run as started.

Job framework and scheduler:

* A handler that raises on the progress event behind the persistence step makes the
  workflow try again and persist the run twice (`orchestration/workflow.py:215`;
  `docs/orchestration-engine.md:59` says once).
* `dispatch` marks a job `completed` when its workflow returns, although `cancel_job` has
  answered "cancelled" meanwhile.
* A time-out that strikes while the collectors run is caught as a cancellation by
  `collectors/runtime/executor.py:87-92` and raised as an ordinary error, which
  `orchestration/workflow.py:89-96` retries: the job is then not timed out but goes on, and
  may complete.
* A one-time schedule keeps its `next_run_at` and stays due after it was dispatched; a
  submission that raises ends the pass.
* The execution and the schedule are two commits (`scheduler/service.py:163` and 188): an
  error or a stop between them leaves `next_run_at` as it was, and the next pass dispatches
  a recurring schedule twice within its interval. A schedule with an interval of zero or
  less, which the API accepts, is due in every pass. Nothing in production calls
  `dispatch_due_jobs`; the timer of the model is outside the repository.

Collectors and transports:

* `run_job` leaves its job in the queue; a cancellation in the retry delay leaves it
  `retrying`.
* A pooled session that the device dropped is returned again and again; nothing in
  production calls `close_all`, so the pool fills up and stays full. Concurrent openings
  exceed `max_size`. The connection of an abandoned opening is never closed.
* One breaker is shared by all targets of a transport; a late success in `open` resets its
  count; time-outs and cancellations are not reported to it.
* Transports are registered as netmiko, paramiko, telnet, pysnmp and httpx, while the
  fallback chain names ssh, snmp, http and https, which the selector looks up as they are:
  of the attempts of a chain only telnet finds its transport. Automatic selection lists
  "telnetlib", and catches `KeyError` where the registry raises `TransportUnavailableError`.
  It may choose HTTP without `allow_insecure_http`.
* No collector advertises a transport capability: unless one is named, the first registered
  one is chosen.

Credentials and targets:

* PATCH of a profile writes omitted fields as null: a missing name, reference or flag is an
  integrity error, a missing type or user is cleared, missing transport types are stored as
  JSON null, on which the response and every later use of the profile fail.
* Deleting a profile while a request attaches it leaves its id in the target. Resolution
  loads the profile again and refuses, so this does no harm.
* Three tables of compatible transports disagree: `ssh_password` is planned for HTTP and
  refused on resolution, `telnet_password` the other way round for SSH, the profile test
  refuses `ssh_password` over telnet and accepts an HTTPS-only profile that cannot be
  resolved. The test looks at neither `enabled` nor the user name.
* A profile that passes its test need not work in a job: of the transports that the test
  accepts a chain finds only telnet registered.
* The pool's key has neither tenant nor credentials (`transports/manager.py:151`): a target
  that was given another profile reuses the old one's session, and so does a target of
  another tenant with the same identifier, which is unique per tenant only
  (`persistence/models.py:146-150`).

NetBox synchronisation:

* The commit returns the connection that has the advisory lock; with another idle
  connection the unlock runs on that one, and the lock stays with the pool
  (`api/v1/integrations.py:361`). The next request waits for it inside an async handler.
* A process that starts fails the unfinished jobs of live processes too, whose tasks then
  mark them running or succeeded, with the error message left. It reads them first and
  updates them by id later (`core/application.py:298-307`): a job that succeeded and was
  audited in between becomes failed.
* The audit of a success inside the `try` turns a stored synchronisation into a failed one
  when it raises, also when it has committed and only reading its record again fails
  (`audit/infrastructure/repositories.py:45-46`): a failed job is then audited as a
  success; when the audit of the submission raises, the job stays queued, and when the last
  commit raises, running, until a restart.
* On SQLite nothing excludes two processes. After a switch to memory, a restart serves
  what Redis still has.

Inventory, comparison, policies:

* `NetBoxInventoryMapper.device` leaves a device's interfaces empty
  (`integrations/netbox/mapper.py:169`): every live interface of a matched device is
  unexpected, and none is ever missing. A NetBox address has its prefix length, a live one
  has not.
* Two NetBox devices may match one live device by serial; a device matched by serial under
  another name is no difference; a serial of blanks matches a device without one. VLANs are
  compared by number over all devices. A failed collection makes its devices missing.
* The validator finds only a policy that inherits from itself. Parents are looked up in the
  last listed version, while the highest is in force. Of two assignments of one scope the
  last wins; building, floor, rack, organisation and device are ignored.
* A rule shared by two policies counts for the first. `non_compliant` with a score of 100
  is possible. One rule that raises ends the evaluation; the registry raises
  `RuleRegistrationError` where `KeyError` is caught.
* `bump_version(MAJOR)` keeps the major number; the in-memory repository overwrites a
  published policy with a stale copy. `SnapshotComparisonService` does not check the tenant
  of the expected snapshot.

Dashboard and views:

* `list_by_source` has no order, so that the "latest" live snapshot of `current_kpis` is any
  one (`docs/milestone-25-dashboard-contract.md` says latest). `netbox_accuracy_pct` divides
  by the live devices there and by the NetBox devices in a report.
* The date window applies to the snapshot and not to the comparison; filters look at the
  run of the NetBox snapshot, which has none, so that every filter finds nothing.
* Weeks and months begin at the time of day of the comparison, and weeks are numbered from
  Sunday but begin on Monday: one week or month may be several buckets.
* The drill-down matches a blank serial with any device without one, and falls back to any
  live snapshot, of any tenant.
* In the variance of a range two NetBox devices with one address count twice and appear
  once, one malformed address empties the expected list, and results in other states
  appear in no category. `get_job_devices` looks models up by the exact address.

## 6. Not modelled, and abstractions

* What a parser, a vendor catalogue or a network library computes: it returns or raises.
* Address arithmetic and the scope limit: the expansion is a set of addresses.
* Cron expressions, time zones and real dates: periods, and days in short months.
* Metrics, history records and log messages of the job framework, which nothing reads;
  the worker registry of the scheduler; the rate limiter, which only delays.
* Cached values and their expiry; service probing, which is switched off.
* Paging and filters of the job list, response models, rendering and exporters of reports.
* The authoring life cycle of policies, whose repository lives in memory and is not wired
  to the API; the analytics engine, which production does not use.
* Authentication: hashing, signed tokens without server-side state, look-ups.
* The protected job id of the recovery code is a constant, outside the instances.

## 7. What is left

* `Assessment`, `History` and `JobViews` have no theorems, for the reasons section 4 gives.
  The parts of `Assessment` that are no folds (the matching of devices, the decision for a
  given set of rules) could be proved with the evaluation in a module of its own, without
  the recursive walk.
* `Fanout`: a report for devices that claim each other's addresses needs a change of the
  code, which looks results up by address instead of by child, before `EndedTreeIsSettled`
  can hold without the third hypothesis.
* Liveness stays with TLC.
