----------------------------- MODULE NetBoxSync -----------------------------
(* Synchronisation of the NetBox inventory: POST /integrations/netbox/sync   *)
(* in the processes of the application, its advisory lock on connections of  *)
(* a pool, the background task that fetches, caches and stores the           *)
(* inventory, and the recovery of unfinished jobs when a process starts.     *)
(*                                                                           *)
(* Code that does not await keeps the event loop of its process: nothing     *)
(* else of that process runs between the steps of the handler, or of a task  *)
(* that has its answers, while other processes, and the threads that serve   *)
(* other requests, do.                                                       *)
EXTENDS Naturals, FiniteSets

CONSTANTS
    Procs,
    Jobs,        \* the sync jobs that may be created, numbered in that order
    Endpoints,   \* number of collections of a dataset (ten in the code)
    MaxPages,    \* bound: pages of a collection
    MaxAttempts, \* RetryPolicy.max_attempts
    MaxConns,    \* bound: connections of a pool
    Fragile,     \* bound: the processes that may crash
    MaxCrashes,  \* bound
    MaxErrors,   \* bound: transactions that fail
    NULL

ASSUME NetBoxAssumption ==
    /\ Jobs \subseteq Nat /\ Endpoints \in Nat \ {0} /\ MaxPages \in Nat \ {0}
    /\ MaxAttempts \in Nat \ {0} /\ MaxConns \in Nat \ {0}
    /\ MaxCrashes \in Nat /\ MaxErrors \in Nat /\ IsFiniteSet(Procs)

\* No row, connection, process or job is None.
ASSUME NullAssumption ==
    /\ NULL \notin Procs /\ NULL \notin Jobs /\ NULL \notin Procs \X (1 .. MaxConns)
    /\ NULL \notin {"queued", "running", "succeeded", "failed"}

VARIABLES
    postgres,  \* the database is PostgreSQL, which has advisory locks
    up,        \* the processes that run
    starting,  \* those that start and have read the unfinished jobs
    stuck,     \* the jobs that each of them has read
    holder,    \* the connection that has the advisory lock, or NULL
    depth,     \* how often it took it
    req,       \* the sync request in the handler of each process, with the
               \* connection of its session as long as it matters which it is
    status,    \* status of each NetBoxSyncJobRecord, or NULL
    error,     \* jobs whose record has an error_message
    task,      \* the background task of each job
    stored,    \* how many snapshots each job has committed
    audits,    \* outcomes audited for each job
    degraded,  \* the processes whose ResilientCache has given up on Redis
    crashes, errors,
    disowned   \* a start-up failed a job that another process was working on
               \* or had finished

db == << status, error, stored, audits >>
procs == << up, starting, stuck >>
vars == << postgres, procs, holder, depth, req, status, error, task, stored,
           audits, degraded, crashes, errors, disowned >>

Conns(p) == {p} \X (1 .. MaxConns)
Active == {j \in Jobs : status[j] \in {"queued", "running"}}

NoRequest == [at |-> "none", conn |-> NULL, job |-> NULL]
NoTask == [at |-> "none", proc |-> NULL, endpoint |-> 0, page |-> 0, attempt |-> 0]

\* The tasks that await, or wait for their turn.
Awaiting == {j \in Jobs : task[j].at \in {"none", "added", "fetching", "caching"}}

\* Neither a handler nor a task other than j's keeps the event loop of p.
LoopIsFree(p, j) ==
    /\ p \in up /\ req[p].at = "none"
    /\ \A i \in Jobs \ Awaiting : task[i].proc = p => i = j

Runs(j) == LoopIsFree(task[j].proc, j)

Init ==
    /\ postgres \in BOOLEAN
    /\ up = Procs /\ starting = {} /\ stuck = [p \in Procs |-> {}]
    /\ holder = NULL /\ depth = 0
    /\ req = [p \in Procs |-> NoRequest]
    /\ status = [j \in Jobs |-> NULL] /\ error = {}
    /\ task = [j \in Jobs |-> NoTask]
    /\ stored = [j \in Jobs |-> 0]
    /\ audits = [j \in Jobs |-> {}]
    /\ degraded = {} /\ crashes = 0 /\ errors = 0 /\ disowned = FALSE

-----------------------------------------------------------------------------
(* The connection pool of a process (SQLAlchemy's QueuePool): a checkout     *)
(* takes the oldest idle connection, or opens one, and a connection is       *)
(* returned behind the others.  The sessions of other requests take and      *)
(* return connections at any time, so that it may be any that is not in use. *)

Checkout(p) == Conns(p) \ {req[p].conn}

-----------------------------------------------------------------------------
(* synchronize_inventory.                                                    *)

\* The handler starts: SELECT pg_advisory_lock, which SQLite refuses.
BeginSync(p) ==
    /\ LoopIsFree(p, NULL)
    /\ \E j \in Jobs : status[j] = NULL
    /\ \E c \in Checkout(p) :
          req' = [req EXCEPT ![p] = [at |-> IF postgres THEN "locking" ELSE "checking",
                                     conn |-> IF postgres THEN c ELSE NULL, job |-> NULL]]
    /\ UNCHANGED << postgres, procs, holder, depth, task, degraded, crashes, errors,
                    disowned, db >>

\* Grantable with a lock that everybody may share.
GrantableAlways(c) == c # NULL

\* The lock is granted to a connection when no other one has it.
Grantable(c) == holder \in {NULL, c}

Lock(p) ==
    /\ req[p].at = "locking" /\ Grantable(req[p].conn)
    /\ holder' = req[p].conn
    /\ depth' = depth + 1
    /\ req' = [req EXCEPT ![p].at = "checking"]
    /\ UNCHANGED << postgres, procs, task, degraded, crashes, errors, disowned, db >>

\* Only that there is an active job matters: the request is refused with 409.
CheckActive(p) ==
    /\ req[p].at = "checking"
    /\ req' = [req EXCEPT ![p].at = IF Active # {} THEN "refusing" ELSE "inserting"]
    /\ UNCHANGED << postgres, procs, holder, depth, task, degraded, crashes, errors, disowned, db >>

UnlockOn(c) ==
    IF postgres /\ holder = c
    THEN /\ depth' = depth - 1
         /\ holder' = IF depth = 1 THEN NULL ELSE c
    ELSE UNCHANGED << holder, depth >>

\* The unlock of a refused request, on the connection of its open transaction.
Refuse(p) ==
    /\ req[p].at = "refusing"
    /\ UnlockOn(req[p].conn)
    /\ req' = [req EXCEPT ![p] = NoRequest]
    /\ UNCHANGED << postgres, procs, task, degraded, crashes, errors, disowned, db >>

\* create_sync_job and commit, which returns the connection to the pool.
InsertJob(p) ==
    /\ req[p].at = "inserting"
    /\ \E j \in Jobs :
          /\ status[j] = NULL /\ \A i \in Jobs : status[i] = NULL => j <= i
          /\ status' = [status EXCEPT ![j] = "queued"]
          /\ req' = [req EXCEPT ![p] = [at |-> IF postgres THEN "unlocking" ELSE "auditing",
                                        conn |-> NULL, job |-> j]]
    /\ UNCHANGED << postgres, procs, holder, depth, error, task, stored, audits, degraded,
                    crashes, errors, disowned >>

\* The commit raises, and so does the statement that is to unlock.  The lock
\* goes only if the connection does.
InsertFails(p) ==
    /\ req[p].at = "inserting" /\ errors < MaxErrors
    /\ \/ UNCHANGED << holder, depth >>
       \/ /\ postgres /\ holder = req[p].conn
          /\ holder' = NULL /\ depth' = 0
    /\ req' = [req EXCEPT ![p] = NoRequest]
    /\ errors' = errors + 1
    /\ UNCHANGED << postgres, procs, task, degraded, crashes, disowned, db >>

\* SELECT pg_advisory_unlock, on whatever connection the pool gives now.  On
\* one that does not have the lock it has no effect but a warning.
Unlock(p) ==
    /\ req[p].at = "unlocking"
    /\ \E c \in Checkout(p) : UnlockOn(c)
    /\ req' = [req EXCEPT ![p].at = "auditing"]
    /\ UNCHANGED << postgres, procs, task, degraded, crashes, errors, disowned, db >>

EndRequest(p) == req' = [req EXCEPT ![p] = NoRequest]

Audited(j, outcome) == audits' = [audits EXCEPT ![j] = @ \cup {outcome}]

\* The job is audited as submitted and its task is added to the response.
Submitted(p) ==
    /\ req[p].at = "auditing"
    /\ LET j == req[p].job IN
          /\ Audited(j, "submitted")
          /\ task' = [task EXCEPT ![j] = [NoTask EXCEPT !.at = "added", !.proc = p]]
    /\ EndRequest(p)
    /\ UNCHANGED << postgres, procs, holder, depth, status, error, stored, degraded, crashes,
                    errors, disowned >>

\* The audit record cannot be written, or cannot be read again after its
\* commit: the request fails before add_task.
SubmitFails(p) ==
    /\ req[p].at = "auditing" /\ errors < MaxErrors
    /\ errors' = errors + 1
    /\ Audited(req[p].job, "submitted") \/ UNCHANGED audits
    /\ EndRequest(p)
    /\ UNCHANGED << postgres, procs, holder, depth, task, status, error, stored, degraded,
                    crashes, disowned >>

-----------------------------------------------------------------------------
(* run_netbox_sync_background.                                               *)

GoTo(j, at) == task' = [task EXCEPT ![j].at = at]
Ended(j) == task' = [task EXCEPT ![j] = NoTask]
TaskFrame == << postgres, procs, holder, depth, req, crashes, disowned >>

\* The task finds its job and marks it running, whatever its status is now.
StartTask(j) ==
    /\ task[j].at = "added" /\ Runs(j)
    /\ status' = [status EXCEPT ![j] = "running"]
    /\ task' = [task EXCEPT ![j].at = "fetching", ![j].endpoint = 1, ![j].page = 1,
                            ![j].attempt = 1]
    /\ UNCHANGED << TaskFrame, error, stored, audits, degraded, errors >>

\* That commit is outside the try block.
StartTaskFails(j) ==
    /\ task[j].at = "added" /\ Runs(j) /\ errors < MaxErrors
    /\ errors' = errors + 1
    /\ Ended(j)
    /\ UNCHANGED << TaskFrame, degraded, db >>

\* A time-out, a network error, 429 and 5xx are tried again.
ShouldRetry(t) == t.attempt < MaxAttempts

\* NextAttempt if the whole collection were tried again.
FirstPageAgain(t) == [t EXCEPT !.page = 1, !.attempt = 1]

NextAttempt(t) == [t EXCEPT !.attempt = @ + 1]

\* fetch_inventory_dataset reads one collection after the other.
IsLast(t) == t.endpoint = Endpoints

\* A page arrived: the next one of the collection, the next collection, or all.
Advance(t, more) ==
    CASE more -> [t EXCEPT !.page = @ + 1, !.attempt = 1]
      [] ~ more /\ ~ IsLast(t) ->
            [t EXCEPT !.endpoint = @ + 1, !.page = 1, !.attempt = 1]
      [] OTHER -> [t EXCEPT !.at = "caching", !.endpoint = @ + 1]

FetchPage(j) ==
    /\ task[j].at = "fetching" /\ Runs(j)
    /\ \E more \in BOOLEAN :
          /\ more => task[j].page < MaxPages
          /\ task' = [task EXCEPT ![j] = Advance(@, more)]
    /\ UNCHANGED << TaskFrame, degraded, errors, db >>

FetchUnavailable(j) ==
    /\ task[j].at = "fetching" /\ Runs(j)
    /\ task' = [task EXCEPT ![j] = IF ShouldRetry(@) THEN NextAttempt(@)
                                   ELSE [@ EXCEPT !.at = "failing"]]
    /\ UNCHANGED << TaskFrame, degraded, errors, db >>

\* Another error response, or a payload that is not valid.
FetchRefused(j) ==
    /\ task[j].at = "fetching" /\ Runs(j)
    /\ GoTo(j, "failing")
    /\ UNCHANGED << TaskFrame, degraded, errors, db >>

\* CacheFallback without the except clause.
CacheRaises(j) == GoTo(j, "failing") /\ UNCHANGED degraded

\* What ResilientCache.set does when Redis is down: the entry goes to memory,
\* now and from now on.
CacheFallback(j) == GoTo(j, "storing") /\ degraded' = degraded \cup {task[j].proc}

CacheSet(j) ==
    /\ task[j].at = "caching" /\ Runs(j)
    /\ \/ GoTo(j, "storing") /\ UNCHANGED degraded
       \/ task[j].proc \notin degraded /\ CacheFallback(j)
    /\ UNCHANGED << TaskFrame, errors, db >>

StoreSnapshot(j) ==
    /\ task[j].at = "storing" /\ Runs(j)
    /\ stored' = [stored EXCEPT ![j] = @ + 1]
    /\ GoTo(j, "stored")
    /\ UNCHANGED << TaskFrame, status, error, audits, degraded, errors >>

\* The snapshot is rolled back.
StoreFails(j) ==
    /\ task[j].at = "storing" /\ Runs(j) /\ errors < MaxErrors
    /\ errors' = errors + 1
    /\ GoTo(j, "failing")
    /\ UNCHANGED << TaskFrame, degraded, db >>

MarkSucceeded(j) ==
    /\ task[j].at = "stored" /\ Runs(j)
    /\ status' = [status EXCEPT ![j] = "succeeded"]
    /\ GoTo(j, "succeeded")
    /\ UNCHANGED << TaskFrame, error, stored, audits, degraded, errors >>

\* The session is not rolled back: the next commit may raise as well.
MarkSucceededFails(j) ==
    /\ task[j].at = "stored" /\ Runs(j) /\ errors < MaxErrors
    /\ errors' = errors + 1
    /\ GoTo(j, "broken")
    /\ UNCHANGED << TaskFrame, degraded, db >>

AuditSuccess(j) ==
    /\ task[j].at = "succeeded" /\ Runs(j)
    /\ Audited(j, "success")
    /\ Ended(j)
    /\ UNCHANGED << TaskFrame, status, error, stored, degraded, errors >>

\* The audit of a success is still in the try block, and may have committed
\* when reading its record again raises.  The session is not rolled back.
AuditSuccessFails(j) ==
    /\ task[j].at = "succeeded" /\ Runs(j) /\ errors < MaxErrors
    /\ errors' = errors + 1
    /\ Audited(j, "success") \/ UNCHANGED audits
    /\ GoTo(j, "broken")
    /\ UNCHANGED << TaskFrame, status, error, stored, degraded >>

\* The except clause.
MarkFailed(j) ==
    /\ task[j].at \in {"failing", "broken"} /\ Runs(j)
    /\ status' = [status EXCEPT ![j] = "failed"]
    /\ error' = error \cup {j}
    /\ GoTo(j, "failed")
    /\ UNCHANGED << TaskFrame, stored, audits, degraded, errors >>

MarkFailedFails(j) ==
    /\ Runs(j)
    /\ \/ task[j].at = "failing" /\ errors < MaxErrors /\ errors' = errors + 1
       \/ task[j].at = "broken" /\ UNCHANGED errors
    /\ GoTo(j, "failed")
    /\ UNCHANGED << TaskFrame, degraded, db >>

AuditFailure(j) ==
    /\ task[j].at = "failed" /\ Runs(j)
    /\ \/ Audited(j, "failed") /\ UNCHANGED errors
       \/ errors < MaxErrors /\ errors' = errors + 1
          /\ (Audited(j, "failed") \/ UNCHANGED audits)
    /\ Ended(j)
    /\ UNCHANGED << TaskFrame, status, error, stored, degraded >>

-----------------------------------------------------------------------------
(* Processes.                                                                *)

Crash(p) ==
    /\ p \in up \cap Fragile /\ crashes < MaxCrashes
    /\ crashes' = crashes + 1
    /\ up' = up \ {p} /\ UNCHANGED << starting, stuck >>
    /\ req' = [req EXCEPT ![p] = NoRequest]
    /\ task' = [j \in Jobs |-> IF task[j].proc = p THEN NoTask ELSE task[j]]
    /\ holder' = (IF holder \in Conns(p) THEN NULL ELSE holder)
    /\ depth' = (IF holder \in Conns(p) THEN 0 ELSE depth)
    /\ degraded' = degraded \ {p}
    /\ UNCHANGED << postgres, errors, disowned, db >>

\* The jobs that a process is still to work on.
Owned == {j \in Jobs : task[j].proc \in up \/ \E q \in up : req[q].job = j}

\* lifespan reads the unfinished jobs.  A process that stops here has done
\* nothing yet.
ReadStuckJobs(p) ==
    /\ p \notin up \cup starting
    /\ starting' = starting \cup {p}
    /\ stuck' = [stuck EXCEPT ![p] = Active]
    /\ UNCHANGED << postgres, up, holder, depth, req, task, degraded, crashes, errors,
                    disowned, db >>

IsUp(p) ==
    /\ p \in starting
    /\ up' = up \cup {p} /\ starting' = starting \ {p}
    /\ stuck' = [stuck EXCEPT ![p] = {}]

\* It fails them by their ids, whoever works on them and whatever became of
\* them since.
Start(p) ==
    /\ IsUp(p)
    /\ status' = [j \in Jobs |-> IF j \in stuck[p] THEN "failed" ELSE status[j]]
    /\ error' = error \cup stuck[p]
    /\ disowned' = (disowned \/ \E j \in stuck[p] : j \in Owned \/ status[j] = "succeeded")
    /\ UNCHANGED << postgres, holder, depth, req, task, stored, audits, degraded, crashes, errors >>

\* An error there is rolled back and ignored, and the process starts.
StartUnrecovered(p) ==
    /\ IsUp(p) /\ errors < MaxErrors
    /\ errors' = errors + 1
    /\ UNCHANGED << postgres, holder, depth, req, task, degraded, crashes, disowned, db >>

-----------------------------------------------------------------------------
Handler(p) ==
    \/ Lock(p) \/ CheckActive(p) \/ Refuse(p) \/ InsertJob(p) \/ InsertFails(p)
    \/ Unlock(p) \/ Submitted(p) \/ SubmitFails(p)

Task(j) ==
    \/ StartTask(j) \/ StartTaskFails(j)
    \/ FetchPage(j) \/ FetchUnavailable(j) \/ FetchRefused(j)
    \/ CacheSet(j) \/ StoreSnapshot(j) \/ StoreFails(j)
    \/ MarkSucceeded(j) \/ MarkSucceededFails(j) \/ AuditSuccess(j) \/ AuditSuccessFails(j)
    \/ MarkFailed(j) \/ MarkFailedFails(j) \/ AuditFailure(j)

Next ==
    \/ \E p \in Procs : BeginSync(p) \/ Handler(p)
                        \/ Crash(p) \/ ReadStuckJobs(p) \/ Start(p) \/ StartUnrecovered(p)
    \/ \E j \in Jobs : Task(j)

Spec == Init /\ [][Next]_vars

\* Handlers go on, an HTTP request ends (it has a time-out), the event loop
\* serves what is ready in turn, so that requests cannot keep a task waiting
\* for ever, and a process that crashed is started again.
Fairness ==
    /\ \A p \in Procs : WF_vars(Handler(p)) /\ WF_vars(ReadStuckJobs(p) \/ Start(p))
    /\ \A j \in Jobs : SF_vars(Task(j))

FairSpec == Spec /\ Fairness

-----------------------------------------------------------------------------
(* Properties.                                                               *)

Request ==
    [at : {"none", "locking", "checking", "refusing", "inserting", "unlocking", "auditing"},
     conn : Procs \X (1 .. MaxConns) \cup {NULL}, job : Jobs \cup {NULL}]

TaskRecord ==
    [at : {"none", "added", "fetching", "caching", "storing", "stored", "succeeded",
           "failing", "broken", "failed"},
     proc : Procs \cup {NULL}, endpoint : 0 .. Endpoints + 1, page : 0 .. MaxPages,
     attempt : 0 .. MaxAttempts]

TypeOK ==
    /\ postgres \in BOOLEAN /\ up \subseteq Procs
    /\ starting \subseteq Procs /\ stuck \in [Procs -> SUBSET Jobs]
    /\ holder \in Procs \X (1 .. MaxConns) \cup {NULL} /\ depth \in Nat
    /\ req \in [Procs -> Request]
    /\ status \in [Jobs -> {NULL, "queued", "running", "succeeded", "failed"}]
    /\ task \in [Jobs -> TaskRecord]
    /\ stored \in [Jobs -> 0 .. 1]
    /\ audits \in [Jobs -> SUBSET {"submitted", "success", "failed"}]
    /\ error \subseteq Jobs /\ degraded \subseteq Procs
    /\ crashes \in 0 .. MaxCrashes /\ errors \in 0 .. MaxErrors /\ disowned \in BOOLEAN

\* Two synchronisations never run at once, neither as records nor as tasks,
\* whichever processes get the requests and wherever the lock was left
\* (synchronize_inventory, "prevent concurrent sync race condition"), unless a
\* process that started failed the job of another one.
OneSyncAtATime ==
    (postgres \/ Cardinality(Procs) = 1) /\ ~ disowned =>
        /\ Cardinality(Active) <= 1
        /\ Cardinality({j \in Jobs : task[j].at \in {"added", "fetching", "caching", "storing",
                                                     "stored"}}) <= 1

TrueOutcome(j) ==
    /\ status[j] = "succeeded" => stored[j] = 1
    /\ "success" \in audits[j] => status[j] = "succeeded" \/ errors > 0 \/ disowned
    /\ status[j] = "failed" /\ stored[j] = 1 => errors > 0 \/ crashes > 0
    /\ j \in error /\ status[j] = "succeeded" => disowned
    /\ task[j].at = "failing" /\ errors = 0 => task[j].endpoint <= Endpoints

\* A job that succeeded has stored one complete snapshot, one audited as a
\* success has succeeded for good, unless its audit raised after its commit or a
\* start-up that had read it before failed it, and a job that failed has left no
\* snapshot unless a transaction or a process failed: losing Redis does not fail
\* it (run_netbox_sync_background, ResilientCache.set, lifespan).
OutcomeIsTrue == \A j \in Jobs : TrueOutcome(j)

(* What these rest on. *)

\* The handler between the grant of the lock and its commit or refusal.
Section == {"checking", "refusing", "inserting"}

\* The connection of a process has the lock as long as its handler needs it.
LockIsHeld ==
    /\ depth = 0 <=> holder = NULL
    /\ up # Procs => crashes > 0
    /\ \A p \in Procs :
          /\ req[p].at # "none" => p \in up
          /\ req[p].at = "locking" => req[p].conn \in Conns(p)
          /\ postgres /\ req[p].at \in Section
                => req[p].conn \in Conns(p) /\ holder = req[p].conn
          /\ req[p].job # NULL <=> req[p].at \in {"unlocking", "auditing"}

\* A job is its request's, then its task's, and goes through both once.
Requested(j) ==
    \A p \in Procs : req[p].job = j =>
        /\ task[j].at = "none" /\ stored[j] = 0 /\ audits[j] = {}
        /\ status[j] \notin {NULL, "succeeded"}
        /\ status[j] = "failed" => crashes > 0
        /\ \A q \in Procs : req[q].job = j => q = p

Unused(j) ==
    status[j] = NULL =>
        /\ task[j].at = "none" /\ stored[j] = 0 /\ audits[j] = {} /\ j \notin error
        /\ \A p \in Procs : req[p].job # j

Working == {"added", "fetching", "caching", "storing", "stored"}

TaskIsTrue(j) ==
    /\ task[j].at # "none" =>
          /\ task[j].proc \in up /\ status[j] # NULL
          /\ "success" \in audits[j] => errors > 0 /\ task[j].at \in {"broken", "failed"}
          /\ \A p \in Procs : req[p].job # j
    /\ task[j].at \in Working =>
          /\ stored[j] = (IF task[j].at = "stored" THEN 1 ELSE 0)
          /\ status[j] # "succeeded" /\ (status[j] = "failed" => crashes > 0)
    /\ task[j].at = "succeeded" => status[j] = "succeeded" \/ disowned
    /\ task[j].at = "failing" => stored[j] = 0 \/ errors > 0
    /\ task[j].at = "broken" => errors > 0
    /\ task[j].at = "fetching" =>
          task[j].endpoint \in 1 .. Endpoints /\ task[j].page > 0 /\ task[j].attempt > 0

\* A process that starts is not up yet, and has read rows that exist.
StartsOK ==
    /\ starting \cap up = {}
    /\ \A p \in Procs : \A j \in stuck[p] : p \in starting /\ status[j] # NULL

\* A failure that a start-up or the except clause has recorded is final, and a
\* job somebody works on is active, unless a start-up disowned one.
OwnedAreActive(j) ==
    ~ disowned =>
        /\ task[j].at \in Working => j \in Active
        /\ \A p \in Procs : req[p].job = j => j \in Active
        /\ j \in error => /\ status[j] = "failed" /\ task[j].at \in {"none", "failed"}
                          /\ \A p \in Procs : req[p].job # j

\* A handler that has seen no active job is still right when it inserts its own.
CheckIsFresh ==
    (postgres \/ Cardinality(Procs) = 1) /\ ~ disowned =>
        /\ \A i, j \in Active : i = j
        /\ \A p \in Procs : req[p].at = "inserting" => Active = {}

IInv ==
    /\ TypeOK /\ LockIsHeld /\ StartsOK /\ CheckIsFresh /\ OutcomeIsTrue
    /\ \A j \in Jobs : Requested(j) /\ Unused(j) /\ TaskIsTrue(j) /\ OwnedAreActive(j)

\* Every accepted synchronisation ends, also if NetBox fails or its process
\* crashes, as long as no transaction fails and there is no lock to wait for.
EverySyncEnds == \A j \in Jobs : []<>(j \notin Active \/ postgres \/ errors > 0)

=============================================================================
