----------------------------- MODULE LeasedJobs -----------------------------
(***************************************************************************)
(* Durable single-device discovery jobs: the job table, the workers that   *)
(* claim, lease, heartbeat and execute jobs, and the operators that create *)
(* and cancel them (discovery/worker.py, discovery/execution.py,           *)
(* persistence/discovery_repositories.py, api/v1/discovery.py).            *)
(*                                                                         *)
(* One action is one committed database transaction, or the stretch of     *)
(* coroutine code up to it.  Every write of the repository is a conditional *)
(* UPDATE, atomic on its row; where the code reads in one statement and    *)
(* writes in a later one whose WHERE does not re-check what was read, the  *)
(* read and the write are separate actions.                                *)
(*                                                                         *)
(* Time is relative: lease[j] is lease_expires_at minus the current time,  *)
(* in ticks, and stays at -1 once it is past.                              *)
(***************************************************************************)
EXTENDS Integers, FiniteSets

CONSTANTS
    Jobs,          \* job ids, numbered in the order of requested_at
    TargetOf,      \* TargetOf[j]: the target job j is about
    Legacy,        \* jobs that were running, unowned, before leases existed
    ProtectedJob,  \* PROTECTED_DISCOVERY_JOB_ID (0: not in this table)
    Workers,       \* worker processes
    Owners,        \* uuid4 owner tokens, one drawn per successful claim
    NULL,          \* SQL NULL / None
    ClaimLimit,    \* DISCOVERY_JOB_CLAIM_LIMIT
    LeaseTicks,    \* DISCOVERY_JOB_LEASE_SECONDS
    BeatTicks,     \* DISCOVERY_JOB_HEARTBEAT_INTERVAL_SECONDS
    CanStall,      \* whether a process may freeze and later resume
    MaxFaults      \* bound: crashes, stalls and database errors in a behaviour

ASSUME JobsAssumption == Jobs \subseteq Nat /\ Legacy \subseteq Jobs
ASSUME NullAssumption ==
    NULL \notin Owners /\ NULL \notin Int /\ NULL \notin Workers
\* DiscoveryJobWorker.__post_init__ refuses any other configuration.
ASSUME LeaseAssumption ==
    /\ LeaseTicks \in Nat /\ BeatTicks \in Nat
    /\ BeatTicks > 0 /\ BeatTicks * 2 < LeaseTicks
ASSUME BoundAssumption ==
    ClaimLimit \in Nat /\ MaxFaults \in Nat /\ CanStall \in BOOLEAN

VARIABLES
    \* the discovery_jobs table
    state, owner, lease, cancelReq, attempts,
    \* what executions leave behind
    evidence,   \* raw evidence rows
    snapshot,   \* live inventory snapshots
    \* one execution per owner token: _run_owned_job and its heartbeat task
    pc, rjob, home, lost, beat, age,
    \* worker processes: the poll loop of DiscoveryJobWorker.run
    proc, phase, todo, reading,
    faults      \* faults so far (bound only)

table  == <<state, owner, lease, cancelReq, attempts>>
output == <<evidence, snapshot>>
runs   == <<pc, rjob, home, lost, beat, age>>
loops  == <<proc, phase, todo, reading>>
vars   == <<table, output, runs, loops, faults>>

LC == INSTANCE JobLifecycle WITH status <- state

-----------------------------------------------------------------------------
\* The position of an execution.  At "begin", "collecting" and "closing" its
\* coroutine is suspended at an await; in between it runs without yielding.
PC == {"unused", "begin", "collecting", "storing", "process", "failing",
       "marking", "cancelling", "raised", "closing", "ended"}
Suspended == {"unused", "begin", "collecting", "closing", "ended"}

Lease == -1 .. LeaseTicks

TypeOK ==
    /\ state \in [Jobs -> LC!Status]
    /\ owner \in [Jobs -> Owners \cup {NULL}]
    /\ lease \in [Jobs -> Lease \cup {NULL}]
    /\ cancelReq \in [Jobs -> BOOLEAN]
    /\ attempts \in [Jobs -> Nat]
    /\ evidence \in [Jobs -> BOOLEAN]
    /\ snapshot \in [Jobs -> BOOLEAN]
    /\ pc \in [Owners -> PC]
    /\ rjob \in [Owners -> Jobs \cup {NULL}]
    /\ home \in [Owners -> Workers \cup {NULL}]
    /\ lost \in [Owners -> BOOLEAN]
    /\ beat \in [Owners -> BOOLEAN]
    /\ age \in [Owners -> 0 .. LeaseTicks + 1]
    /\ proc \in [Workers -> {"up", "stalled", "stopping", "down"}]
    /\ phase \in [Workers -> {"await", "recover", "claim"}]
    /\ todo \in [Workers -> SUBSET Jobs]
    /\ reading \in [Workers ->
          {NULL} \cup [job : Jobs, owner : Owners, cancel : BOOLEAN]]
    /\ faults \in 0 .. MaxFaults

Init ==
    /\ state = [j \in Jobs |-> IF j \in Legacy THEN "running" ELSE "absent"]
    /\ owner = [j \in Jobs |-> NULL]
    /\ lease = [j \in Jobs |-> NULL]
    /\ cancelReq = [j \in Jobs |-> FALSE]
    /\ attempts = [j \in Jobs |-> 0]
    /\ evidence = [j \in Jobs |-> FALSE]
    /\ snapshot = [j \in Jobs |-> FALSE]
    /\ pc = [o \in Owners |-> "unused"]
    /\ rjob = [o \in Owners |-> NULL]
    /\ home = [o \in Owners |-> NULL]
    /\ lost = [o \in Owners |-> FALSE]
    /\ beat = [o \in Owners |-> FALSE]
    /\ age = [o \in Owners |-> 0]
    /\ proc = [w \in Workers |-> "up"]
    /\ phase = [w \in Workers |-> "await"]
    /\ todo = [w \in Workers |-> {}]
    /\ reading = [w \in Workers |-> NULL]
    /\ faults = 0

-----------------------------------------------------------------------------
(* The repository.                                                         *)

\* The UPDATE of transition() to a terminal state: the lease columns go too.
Finish(j, s) ==
    /\ state' = [state EXCEPT ![j] = s]
    /\ owner' = [owner EXCEPT ![j] = NULL]
    /\ lease' = [lease EXCEPT ![j] = NULL]
    /\ UNCHANGED <<cancelReq, attempts>>

\* The WHERE of every owner-fenced write: running, and still leased to o.
Holds(o, j) == state[j] = "running" /\ owner[j] = o

\* cancellation_requested()
CancellationRequested(j) == cancelReq[j] \/ state[j] = "cancelled"

\* The SELECT of list_queued_roots(): what a worker may try to claim.
Claimable(j) ==
    /\ state[j] = "queued" /\ j # ProtectedJob
    /\ owner[j] = NULL /\ lease[j] = NULL

\* The SELECT of recover_expired_owned_jobs().
Expired(j) ==
    /\ state[j] = "running" /\ j # ProtectedJob
    /\ owner[j] # NULL /\ lease[j] # NULL /\ lease[j] < 0

\* abandon_owned_job() through _reconcile_owned_tree(): terminal, and
\* cancelled rather than failed when the operator had asked for it.
AbandonIfOwned(o, j) ==
    IF Holds(o, j) /\ j # ProtectedJob
    THEN Finish(j, IF CancellationRequested(j) THEN "cancelled" ELSE "failed")
    ELSE UNCHANGED table

Fault == faults < MaxFaults /\ faults' = faults + 1
NoFault == UNCHANGED faults

-----------------------------------------------------------------------------
(* Operators (API requests).                                               *)

\* POST /jobs: one active job per target, enforced by the advisory lock, the
\* check and the partial unique index.
CreateJob(j) ==
    /\ state[j] = "absent"
    /\ \A i \in Jobs : i < j => state[i] # "absent"
    /\ \A i \in Jobs : state[i] \in {"queued", "running"} =>
                          TargetOf[i] # TargetOf[j]
    /\ state' = [state EXCEPT ![j] = "queued"]
    /\ UNCHANGED <<owner, lease, cancelReq, attempts, output, runs, loops>>
    /\ NoFault

\* POST /jobs/{id}/cancel: a queued job is cancelled at once, a running one
\* is only asked to stop.
RequestCancellation(j) ==
    /\ state[j] \in {"queued", "running"} /\ ~cancelReq[j]
    /\ cancelReq' = [cancelReq EXCEPT ![j] = TRUE]
    /\ IF state[j] = "queued"
       THEN /\ state' = [state EXCEPT ![j] = "cancelled"]
            /\ owner' = [owner EXCEPT ![j] = NULL]
            /\ lease' = [lease EXCEPT ![j] = NULL]
       ELSE UNCHANGED <<state, owner, lease>>
    /\ UNCHANGED <<attempts, output, runs, loops>>
    /\ NoFault

\* Mutant: the forced resolution does not look at the lease.
ResolveLiveCancellation(j) ==
    /\ state[j] = "running" /\ cancelReq[j]
    /\ Finish(j, "cancelled")
    /\ UNCHANGED <<output, runs, loops>>
    /\ NoFault

\* POST /jobs/{id}/cancel/force: only when no worker holds a valid lease; the
\* UPDATE itself re-checks the lease.
ResolveStaleCancellation(j) ==
    /\ state[j] = "running" /\ cancelReq[j]
    /\ owner[j] # NULL /\ lease[j] # NULL => lease[j] <= 0
    /\ Finish(j, "cancelled")
    /\ UNCHANGED <<output, runs, loops>>
    /\ NoFault

-----------------------------------------------------------------------------
(* The poll loop of a worker process: recover, then claim, then wait for    *)
(* the claimed executions.  Recovery and claiming block the event loop.     *)

LiveRuns(w) == {o \in Owners : home[o] = w /\ pc[o] \notin {"unused", "ended"}}

\* No coroutine of w is between two awaits: another one may be scheduled.
LoopFree(w) ==
    /\ phase[w] = "await"
    /\ \A o \in LiveRuns(w) : pc[o] \in Suspended

\* Mutant: the poll loop only claims, nobody recovers.
PollWithoutRecovery(w) ==
    /\ proc[w] = "up" /\ phase[w] = "await" /\ LiveRuns(w) = {}
    /\ phase' = [phase EXCEPT ![w] = "recover"]
    /\ UNCHANGED <<table, output, runs, proc, todo, reading>> /\ NoFault

\* run(): next iteration; recover_expired_jobs() lists what has expired.
Poll(w) ==
    /\ proc[w] = "up" /\ phase[w] = "await" /\ LiveRuns(w) = {}
    /\ phase' = [phase EXCEPT ![w] = "recover"]
    /\ todo' = [todo EXCEPT ![w] = {j \in Jobs : Expired(j)}]
    /\ UNCHANGED <<table, output, runs, proc, reading>> /\ NoFault

\* recover_expired_owned_job(), first half: re-read the row and its lease.
RecoverRead(w) ==
    /\ proc[w] = "up" /\ phase[w] = "recover" /\ reading[w] = NULL
    /\ \E j \in todo[w] :
          /\ todo' = [todo EXCEPT ![w] = @ \ {j}]
          /\ reading' = [reading EXCEPT ![w] =
                IF Expired(j)
                THEN [job |-> j, owner |-> owner[j],
                      cancel |-> CancellationRequested(j)]
                ELSE NULL]
    /\ UNCHANGED <<table, output, runs, proc, phase>> /\ NoFault

\* Mutant: recovery puts the job back in the queue.
RecoverRequeues(w) ==
    /\ proc[w] = "up" /\ reading[w] # NULL
    /\ LET r == reading[w] IN
          IF Holds(r.owner, r.job)
          THEN Finish(r.job, "queued")
          ELSE UNCHANGED table
    /\ reading' = [reading EXCEPT ![w] = NULL]
    /\ UNCHANGED <<output, runs, proc, phase, todo>> /\ NoFault

\* Mutant: the recovering UPDATE re-checks nothing.
RecoverUnfenced(w) ==
    /\ proc[w] = "up" /\ reading[w] # NULL
    /\ LET r == reading[w] IN
          Finish(r.job, IF r.cancel THEN "cancelled" ELSE "failed")
    /\ reading' = [reading EXCEPT ![w] = NULL]
    /\ UNCHANGED <<output, runs, proc, phase, todo>> /\ NoFault

\* Second half, _reconcile_owned_tree(): the UPDATE re-checks the state and
\* the owner that were read, but not the lease.
RecoverApply(w) ==
    /\ proc[w] = "up" /\ reading[w] # NULL
    /\ LET r == reading[w] IN
          IF Holds(r.owner, r.job)
          THEN Finish(r.job, IF r.cancel THEN "cancelled" ELSE "failed")
          ELSE UNCHANGED table
    /\ reading' = [reading EXCEPT ![w] = NULL]
    /\ UNCHANGED <<output, runs, proc, phase, todo>> /\ NoFault

\* Its database error: logged, and the loop goes on with the next job.
RecoverError(w) ==
    /\ proc[w] = "up" /\ reading[w] # NULL
    /\ reading' = [reading EXCEPT ![w] = NULL]
    /\ UNCHANGED <<table, output, runs, proc, phase, todo>> /\ Fault

\* claim_queued_jobs(): the oldest claimable jobs, at most ClaimLimit.
ClaimList(w) ==
    /\ proc[w] = "up" /\ phase[w] = "recover"
    /\ todo[w] = {} /\ reading[w] = NULL
    /\ phase' = [phase EXCEPT ![w] = "claim"]
    /\ todo' = [todo EXCEPT ![w] =
          {j \in Jobs : Claimable(j) /\
              Cardinality({i \in Jobs : Claimable(i) /\ i < j}) < ClaimLimit}]
    /\ UNCHANGED <<table, output, runs, proc, reading>> /\ NoFault

\* The candidate claim_queued_jobs() is at.
Candidate(w, j) ==
    /\ proc[w] = "up" /\ phase[w] = "claim"
    /\ j \in todo[w] /\ \A i \in todo[w] : j <= i

\* claim(), committed: the row is running and leased to a fresh token.
Claim(w, j, o) ==
    /\ Candidate(w, j) /\ Claimable(j) /\ pc[o] = "unused"
    /\ state' = [state EXCEPT ![j] = "running"]
    /\ owner' = [owner EXCEPT ![j] = o]
    /\ lease' = [lease EXCEPT ![j] = LeaseTicks]
    /\ attempts' = [attempts EXCEPT ![j] = @ + 1]
    /\ pc' = [pc EXCEPT ![o] = "begin"]
    /\ rjob' = [rjob EXCEPT ![o] = j]
    /\ home' = [home EXCEPT ![o] = w]
    /\ beat' = [beat EXCEPT ![o] = TRUE]
    /\ todo' = [todo EXCEPT ![w] = @ \ {j}]
    /\ UNCHANGED <<cancelReq, output, lost, age, proc, phase, reading>>
    /\ NoFault

\* claim() finds the row taken or cancelled meanwhile, or raises.
ClaimMissed(w, j) ==
    /\ Candidate(w, j)
    /\ \/ ~Claimable(j) /\ NoFault
       \/ Claimable(j) /\ Fault
    /\ todo' = [todo EXCEPT ![w] = @ \ {j}]
    /\ UNCHANGED <<table, output, runs, proc, phase, reading>>

\* run(): asyncio.gather starts the executions, or the loop sleeps.
EndClaim(w) ==
    /\ proc[w] = "up" /\ phase[w] = "claim" /\ todo[w] = {}
    /\ phase' = [phase EXCEPT ![w] = "await"]
    /\ UNCHANGED <<table, output, runs, proc, todo, reading>> /\ NoFault

-----------------------------------------------------------------------------
(* One execution: _run_owned_job() around DiscoveryExecutionService.execute *)

\* The lease_lost callback: the heartbeat gave up, or the worker is stopping.
Lost(o) == lost[o] \/ proc[home[o]] = "stopping"

\* The coroutine of o may run: its process is alive and, if o is suspended,
\* no other coroutine holds the event loop.
Runs(o) ==
    /\ pc[o] \notin {"unused", "ended"}
    /\ proc[home[o]] \in {"up", "stopping"}
    /\ pc[o] \in Suspended => LoopFree(home[o])

\* Continue at l; execute() returning or raising cancels the heartbeat.
Goto(o, l) ==
    /\ pc' = [pc EXCEPT ![o] = l]
    /\ beat' = [beat EXCEPT ![o] = @ /\ l # "closing"]
    /\ age' = [age EXCEPT ![o] = IF l = "closing" THEN 0 ELSE @]
    /\ UNCHANGED <<rjob, home, lost>>

\* _raise_if_cancelled(): a lost lease ends the execution, leaving the row
\* alone; a cancellation request is finalised; otherwise continue at l.
CheckRaises(o) ==
    \/ Lost(o) /\ Goto(o, "closing")
    \/ ~Lost(o) /\ CancellationRequested(rjob[o]) /\ Goto(o, "cancelling")
Clear(o) == ~Lost(o) /\ ~CancellationRequested(rjob[o])
CheckThen(o, l) == CheckRaises(o) \/ (Clear(o) /\ Goto(o, l))

\* execute() up to its first await: re-check ownership, then the checks; a
\* disabled target is a failure.
Begin(o) ==
    /\ Runs(o) /\ pc[o] = "begin"
    /\ IF ~Holds(o, rjob[o])
       THEN Goto(o, "closing")
       ELSE \E l \in {"collecting", "failing"} : CheckThen(o, l)
    /\ UNCHANGED <<table, output, loops>> /\ NoFault

\* health_check() and collect() return; record_selection() wants a running
\* row.
Collected(o) ==
    /\ Runs(o) /\ pc[o] = "collecting"
    /\ Goto(o, IF state[rjob[o]] = "running" THEN "storing" ELSE "failing")
    /\ UNCHANGED <<table, output, loops>> /\ NoFault

\* They raise, or see the lost lease or the cancellation on their way.
CollectRaised(o) ==
    /\ Runs(o) /\ pc[o] = "collecting"
    /\ CheckRaises(o) \/ Goto(o, "failing")
    /\ UNCHANGED <<table, output, loops>> /\ NoFault

\* Raw evidence is committed before parsing.
StoreEvidence(o) ==
    /\ Runs(o) /\ pc[o] = "storing"
    /\ CheckThen(o, "process")
    /\ evidence' = [evidence EXCEPT ![rjob[o]] = @ \/ Clear(o)]
    /\ UNCHANGED <<table, snapshot, loops>> /\ NoFault

\* Parsing or normalisation fails, or a check stops the execution first.
ProcessRaised(o) ==
    /\ Runs(o) /\ pc[o] = "process"
    /\ CheckRaises(o) \/ Goto(o, "failing")
    /\ UNCHANGED <<table, output, loops>> /\ NoFault

\* Mutant: the snapshot is committed before the fenced UPDATE.
SucceedSnapshotFirst(o) ==
    /\ Runs(o) /\ pc[o] = "process" /\ ~Lost(o)
    /\ snapshot' = [snapshot EXCEPT ![rjob[o]] = TRUE]
    /\ IF Holds(o, rjob[o]) /\ ~cancelReq[rjob[o]]
       THEN Finish(rjob[o], "succeeded") /\ Goto(o, "closing")
       ELSE UNCHANGED table /\ Goto(o, "failing")
    /\ UNCHANGED <<evidence, loops>> /\ NoFault

\* Mutant: without require_no_cancellation.
SucceedDespiteCancel(o) ==
    /\ Runs(o) /\ pc[o] = "process" /\ ~Lost(o)
    /\ IF Holds(o, rjob[o])
       THEN /\ Finish(rjob[o], "succeeded")
            /\ snapshot' = [snapshot EXCEPT ![rjob[o]] = TRUE]
            /\ Goto(o, "closing")
       ELSE /\ UNCHANGED <<table, snapshot>>
            /\ Goto(o, "failing")
    /\ UNCHANGED <<evidence, loops>> /\ NoFault

\* The snapshot and the transition to SUCCEEDED commit together; the UPDATE
\* wants this owner and no cancellation, otherwise everything rolls back.
Succeed(o) ==
    /\ Runs(o) /\ pc[o] = "process" /\ ~Lost(o)
    /\ IF Holds(o, rjob[o]) /\ ~cancelReq[rjob[o]]
       THEN /\ Finish(rjob[o], "succeeded")
            /\ snapshot' = [snapshot EXCEPT ![rjob[o]] = TRUE]
            /\ Goto(o, "closing")
       ELSE /\ UNCHANGED <<table, snapshot>>
            /\ Goto(o, "failing")
    /\ UNCHANGED <<evidence, loops>> /\ NoFault

\* except Exception: a requested cancellation wins over the failure.
Failing(o) ==
    /\ Runs(o) /\ pc[o] = "failing"
    /\ Goto(o, IF CancellationRequested(rjob[o]) THEN "cancelling"
                                                 ELSE "marking")
    /\ UNCHANGED <<table, output, loops>> /\ NoFault

\* mark_failed_after_rollback(): refused, and re-raised, when the lease has
\* moved or a cancellation came in since.
FailMark(o) ==
    /\ Runs(o) /\ pc[o] = "marking"
    /\ IF Holds(o, rjob[o]) /\ ~cancelReq[rjob[o]]
       THEN Finish(rjob[o], "failed") /\ Goto(o, "closing")
       ELSE UNCHANGED table /\ Goto(o, "raised")
    /\ UNCHANGED <<output, loops>> /\ NoFault

\* finalise_cancellation(): a row that is cancelled already is returned.
Cancelling(o) ==
    /\ Runs(o) /\ pc[o] = "cancelling"
    /\ \/ /\ state[rjob[o]] = "cancelled"
          /\ UNCHANGED table /\ Goto(o, "closing")
       \/ /\ Holds(o, rjob[o]) /\ cancelReq[rjob[o]]
          /\ Finish(rjob[o], "cancelled") /\ Goto(o, "closing")
       \/ /\ state[rjob[o]] # "cancelled"
          /\ ~(Holds(o, rjob[o]) /\ cancelReq[rjob[o]])
          /\ UNCHANGED table /\ Goto(o, "raised")
    /\ UNCHANGED <<output, loops>> /\ NoFault

\* The check before the last UPDATE, or the UPDATE that finds the row cancelled:
\* snapshot and result are in the session by then, and finalising the
\* cancellation commits them with it.
CancelLate(o) ==
    /\ Runs(o) /\ pc[o] = "process" /\ ~Lost(o) /\ CancellationRequested(rjob[o])
    /\ IF (Holds(o, rjob[o]) /\ cancelReq[rjob[o]]) \/ state[rjob[o]] = "cancelled"
       THEN /\ snapshot' = [snapshot EXCEPT ![rjob[o]] = TRUE]
            /\ IF state[rjob[o]] = "cancelled" THEN UNCHANGED table
                                               ELSE Finish(rjob[o], "cancelled")
            /\ Goto(o, "closing")
       ELSE UNCHANGED <<table, snapshot>> /\ Goto(o, "raised")
    /\ UNCHANGED <<evidence, loops>> /\ NoFault

\* A database error anywhere in execute() leaves it with an exception.
ExecuteError(o) ==
    /\ Runs(o) /\ pc[o] \in {"storing", "process", "failing", "marking",
                             "cancelling"}
    /\ Goto(o, "raised")
    /\ UNCHANGED <<table, output, loops>> /\ Fault

\* _fail_owned_job(): only while the lease is not known to be lost, and then
\* whether or not a cancellation was requested; it may fail itself.
Raised(o) ==
    /\ Runs(o) /\ pc[o] = "raised"
    /\ Goto(o, "closing")
    /\ \/ /\ IF ~lost[o] /\ Holds(o, rjob[o])
             THEN Finish(rjob[o], "failed")
             ELSE UNCHANGED table
          /\ NoFault
       \/ UNCHANGED table /\ Fault
    /\ UNCHANGED <<output, loops>>

\* finally: the heartbeat is gone; a lost lease is abandoned once more.
Close(o) ==
    /\ Runs(o) /\ pc[o] = "closing"
    /\ IF lost[o] THEN AbandonIfOwned(o, rjob[o]) ELSE UNCHANGED table
    /\ Goto(o, "ended")
    /\ UNCHANGED <<output, loops>> /\ NoFault

\* Mutant: the heartbeat stamps last_heartbeat_at but not lease_expires_at.
HeartbeatWithoutRenewal(o) ==
    /\ beat[o] /\ proc[home[o]] = "up" /\ LoopFree(home[o])
    /\ age[o] >= BeatTicks
    /\ age' = [age EXCEPT ![o] = 0]
    /\ IF Holds(o, rjob[o])
       THEN UNCHANGED <<lost, beat>>
       ELSE /\ lost' = [lost EXCEPT ![o] = TRUE]
            /\ beat' = [beat EXCEPT ![o] = FALSE]
    /\ UNCHANGED <<table, output, pc, rjob, home, loops>> /\ NoFault

\* _heartbeat(): renew, or learn that the lease is gone and give up.
Heartbeat(o) ==
    /\ beat[o] /\ proc[home[o]] = "up" /\ LoopFree(home[o])
    /\ age[o] >= BeatTicks
    /\ age' = [age EXCEPT ![o] = 0]
    /\ IF Holds(o, rjob[o])
       THEN /\ lease' = [lease EXCEPT ![rjob[o]] = LeaseTicks]
            /\ UNCHANGED <<lost, beat>>
       ELSE /\ lost' = [lost EXCEPT ![o] = TRUE]
            /\ beat' = [beat EXCEPT ![o] = FALSE]
            /\ UNCHANGED lease
    /\ UNCHANGED <<state, owner, cancelReq, attempts, output, pc, rjob, home>>
    /\ UNCHANGED loops /\ NoFault

\* The renewal raises: the lease counts as lost, and the job is abandoned at
\* once if the database lets it.
HeartbeatError(o) ==
    /\ beat[o] /\ proc[home[o]] = "up" /\ LoopFree(home[o])
    /\ age[o] >= BeatTicks
    /\ lost' = [lost EXCEPT ![o] = TRUE]
    /\ beat' = [beat EXCEPT ![o] = FALSE]
    /\ age' = [age EXCEPT ![o] = 0]
    /\ AbandonIfOwned(o, rjob[o]) \/ UNCHANGED table
    /\ UNCHANGED <<output, pc, rjob, home, loops>> /\ Fault

-----------------------------------------------------------------------------
(* Time and processes.                                                     *)

\* A tick passes.  A process that is up runs a due heartbeat before it.
Tick ==
    /\ \A o \in Owners :
          beat[o] /\ proc[home[o]] = "up" => age[o] < BeatTicks
    /\ lease' = [j \in Jobs |->
          IF lease[j] = NULL \/ lease[j] = -1 THEN lease[j] ELSE lease[j] - 1]
    /\ age' = [o \in Owners |->
          IF beat[o] /\ age[o] <= LeaseTicks THEN age[o] + 1 ELSE age[o]]
    /\ UNCHANGED <<state, owner, cancelReq, attempts, output>>
    /\ UNCHANGED <<pc, rjob, home, lost, beat, loops>> /\ NoFault

\* The process freezes (host paused, event loop blocked), and resumes.
Stall(w) ==
    /\ CanStall /\ proc[w] = "up" /\ Fault
    /\ proc' = [proc EXCEPT ![w] = "stalled"]
    /\ UNCHANGED <<table, output, runs, phase, todo, reading>>

Resume(w) ==
    /\ proc[w] = "stalled"
    /\ proc' = [proc EXCEPT ![w] = "up"]
    /\ UNCHANGED <<table, output, runs, phase, todo, reading>> /\ NoFault

\* The process is gone: its coroutines end where they are.
Exit(w) ==
    /\ proc' = [proc EXCEPT ![w] = "down"]
    /\ phase' = [phase EXCEPT ![w] = "await"]
    /\ todo' = [todo EXCEPT ![w] = {}]
    /\ reading' = [reading EXCEPT ![w] = NULL]
    /\ pc' = [o \in Owners |-> IF home[o] = w THEN "ended" ELSE pc[o]]
    /\ beat' = [o \in Owners |-> beat[o] /\ home[o] # w]
    /\ age' = [o \in Owners |-> IF home[o] = w THEN 0 ELSE age[o]]
    /\ UNCHANGED <<table, output, rjob, home, lost>>

Crash(w) == proc[w] # "down" /\ Exit(w) /\ Fault

\* stop(): set while the loop awaits; the process exits once the in-flight
\* executions have returned.
Stop(w) ==
    /\ proc[w] = "up" /\ LoopFree(w)
    /\ proc' = [proc EXCEPT ![w] = "stopping"]
    /\ UNCHANGED <<table, output, runs, phase, todo, reading>> /\ NoFault

Stopped(w) ==
    /\ proc[w] = "stopping" /\ LiveRuns(w) = {}
    /\ Exit(w) /\ NoFault

Start(w) ==
    /\ proc[w] = "down"
    /\ proc' = [proc EXCEPT ![w] = "up"]
    /\ UNCHANGED <<table, output, runs, phase, todo, reading>> /\ NoFault

-----------------------------------------------------------------------------
Operator == \E j \in Jobs :
    CreateJob(j) \/ RequestCancellation(j) \/ ResolveStaleCancellation(j)

Loop(w) ==
    \/ Poll(w) \/ RecoverRead(w) \/ RecoverApply(w) \/ ClaimList(w)
    \/ \E j \in Jobs : (\E o \in Owners : Claim(w, j, o)) \/ ClaimMissed(w, j)
    \/ EndClaim(w)

Execution(o) ==
    \/ Begin(o) \/ Collected(o) \/ CollectRaised(o) \/ StoreEvidence(o)
    \/ ProcessRaised(o) \/ Succeed(o) \/ Failing(o) \/ FailMark(o)
    \/ Cancelling(o) \/ CancelLate(o) \/ Raised(o) \/ Close(o)

Process(w) ==
    Stall(w) \/ Resume(w) \/ Crash(w) \/ Stop(w) \/ Stopped(w) \/ Start(w)

Next ==
    \/ Operator
    \/ \E w \in Workers : Loop(w) \/ RecoverError(w) \/ Process(w)
    \/ \E o \in Owners :
          Execution(o) \/ ExecuteError(o) \/ Heartbeat(o) \/ HeartbeatError(o)
    \/ Tick

Spec == Init /\ [][Next]_vars

\* Coroutines, heartbeats and poll loops of a running process make progress
\* (the event loop is fair, every transport call has a timeout) and time
\* passes.  Nothing obliges operators to act, faults to happen, a frozen
\* process to resume or a stopped one to be started again.
Fairness ==
    /\ WF_vars(Tick)
    /\ \A w \in Workers : WF_vars(Loop(w)) /\ WF_vars(Stopped(w))
    /\ \A o \in Owners : WF_vars(Execution(o)) /\ WF_vars(Heartbeat(o))

FairSpec == Spec /\ Fairness

-----------------------------------------------------------------------------
(* Invariants.                                                             *)

\* A queued or terminal row carries no lease, a leased row is running, and
\* owner and lease come and go together (claim(), transition()).
LeaseColumns == \A j \in Jobs :
    /\ (owner[j] = NULL) = (lease[j] = NULL)
    /\ owner[j] # NULL => state[j] = "running"
    /\ state[j] = "running" /\ j \notin Legacy => owner[j] # NULL

\* leases.py: expired work is "never automatically resumed".  Over its whole
\* life a job is claimed at most once, and a claim token serves one job.
NeverResumed == \A j \in Jobs :
    /\ attempts[j] <= 1
    /\ attempts[j] = 0 <=> \A o \in Owners : rjob[o] # j
    /\ \A o, p \in Owners : rjob[o] = j /\ rjob[p] = j => o = p

\* Every success has its snapshot, and a snapshot has the raw evidence it was
\* parsed from and a job that succeeded or, at the last moment, was cancelled:
\* a failed, expired or abandoned execution leaves none behind.
SnapshotsAreBacked == \A j \in Jobs :
    /\ state[j] = "succeeded" => snapshot[j]
    /\ snapshot[j] => evidence[j] /\ state[j] \in {"succeeded", "cancelled"}

\* An accepted cancellation request is never followed by success.
CancelNeverSucceeds == \A j \in Jobs : cancelReq[j] => state[j] # "succeeded"

\* The lease a job has left is what its heartbeat's age leaves of it; so a
\* process that never freezes never holds an expired lease.
LeaseTracksBeat == \A o \in Owners :
    beat[o] /\ Holds(o, rjob[o]) =>
        /\ lease[rjob[o]] = LeaseTicks - age[o]
        /\ proc[home[o]] = "up" /\ ~CanStall => lease[rjob[o]] > 0

(* What the invariants above rest on.                                      *)

\* A claim token is unused until it gets its job, its worker and its heartbeat
\* together, and the row of a leased job points back to it.
TokenRecords ==
    /\ \A o \in Owners :
          /\ rjob[o] = NULL <=> pc[o] = "unused"
          /\ home[o] = NULL <=> pc[o] = "unused"
          /\ beat[o] => pc[o] \notin {"unused", "closing", "ended"}
          /\ ~beat[o] => age[o] = 0
    /\ \A j \in Jobs : owner[j] # NULL => rjob[owner[j]] = j

\* A job is claimed after it was created and, once claimed, never waits again.
ClaimedJobs ==
    /\ \A o \in Owners : rjob[o] # NULL =>
          /\ state[rjob[o]] \notin {"absent", "queued"}
          /\ rjob[o] \notin Legacy
          /\ pc[o] = "process" => evidence[rjob[o]]
    /\ \A j \in Legacy : state[j] \notin {"absent", "queued"}

\* Without freezes no heartbeat of a live process is overdue.
BeatOnTime ==
    /\ ~CanStall => \A w \in Workers : proc[w] # "stalled"
    /\ \A o \in Owners : beat[o] => proc[home[o]] # "down"
    /\ ~CanStall => \A o \in Owners :
          beat[o] /\ proc[home[o]] = "up" => age[o] <= BeatTicks

\* What recovery has read stays true until it acts on it, if nothing freezes:
\* the token belongs to the job, and an expired lease stays expired.
ReadingStale == \A w \in Workers : reading[w] # NULL =>
    /\ rjob[reading[w].owner] = reading[w].job
    /\ ~CanStall /\ Holds(reading[w].owner, reading[w].job) =>
          lease[reading[w].job] < 0

Inv ==
    /\ TypeOK /\ LeaseColumns /\ NeverResumed /\ SnapshotsAreBacked
    /\ CancelNeverSucceeds /\ LeaseTracksBeat
    /\ TokenRecords /\ ClaimedJobs /\ BeatOnTime /\ ReadingStale

-----------------------------------------------------------------------------
(* Action properties, refinement and liveness.                             *)

\* recover_expired_owned_job: "Terminally reconcile one expired lease".  A job
\* whose lease is still good is ended only by its own execution or heartbeat.
ReconcileExpiredOnly ==
    [][\A o \in Owners :
          LET j == rjob[o] IN
          /\ j # NULL
          /\ Holds(o, j) /\ lease[j] > 0 /\ state'[j] # "running"
          => pc'[o] # pc[o] \/ lost'[o]]_vars

\* Claiming, recovering, cancelling, completing and abandoning together
\* implement the job state machine: in particular a terminal job is final,
\* however late the execution that has lost it comes back.
JobContract == LC!Spec

\* While some worker stays up, every job it may touch reaches a terminal
\* state: crashed, frozen, stopped or half-failed executions are recovered.
EventuallyTerminal ==
    (\E w \in Workers : <>[](proc[w] = "up")) =>
        \A j \in Jobs \ (Legacy \cup {ProtectedJob}) :
            state[j] \in {"queued", "running"} ~> state[j] \in LC!Terminal

=============================================================================
