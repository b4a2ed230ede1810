-------------------------- MODULE CollectorRuntime --------------------------
(***************************************************************************)
(* Collector jobs over shared transport sessions: CollectorExecutor        *)
(* (collectors/runtime), TransportManager with its connection pool and     *)
(* circuit breaker (transports/), and the Cisco collectors that use them.  *)
(*                                                                         *)
(* Jobs are coroutines of one event loop.  A job is interrupted only where *)
(* it awaits: for the lock of its pool key ("lock"), for session.open      *)
(* ("connect"), for the device's answers ("use") and for the retry delay   *)
(* ("sleep"); everything between two of these points is one step.  An      *)
(* attempt opens its session twice, once in CollectorExecutor._run_once    *)
(* and once in the collector, under the same pool key.                     *)
(***************************************************************************)
EXTENDS Naturals, FiniteSets

CONSTANTS
    Jobs,        \* collector jobs
    Keys,        \* pool keys: a transport and a target
    Key,         \* Key[j]: the key of job j
    Timed,       \* jobs with timeout_seconds
    MaxAttempts, \* MaxAttempts[j]: max(1, max_attempts) of job j
    MaxSize,     \* ConnectionPool.max_size
    Threshold,   \* failure_threshold
    Successes,   \* half_open_success_threshold
    Recovery,    \* recovery_timeout_seconds
    NULL,        \* None
    Closer,      \* the task that runs close_all
    MaxTime,     \* bound: where the clock stops
    MaxCloses    \* bound: calls of close_all

ASSUME KeyAssumption == Key \in [Jobs -> Keys] /\ Timed \subseteq Jobs
ASSUME BoundAssumption ==
    /\ MaxAttempts \in [Jobs -> Nat \ {0}]
    /\ {Threshold, Successes} \subseteq Nat \ {0}
    /\ {MaxSize, Recovery, MaxTime, MaxCloses} \subseteq Nat
ASSUME NullAssumption ==
    NULL \notin Jobs \cup {Closer} \cup Nat \cup (Jobs \X Nat) /\ Closer \notin Jobs

VARIABLES
    pc,        \* pc[j]: where job j is
    status,    \* status[j]: CollectorExecutionStatus
    attempts,  \* attempts[j]
    nth,       \* nth[j]: which of the attempt's two openings is under way
    held,      \* held[j]: the session the job uses
    saved,     \* saved[j]: snapshots stored for the job
    pool,      \* pool[k]: ConnectionPool._sessions
    lock,      \* lock[k]: who holds the lock of the key
    live,      \* sessions that open returned and whose connection stands
    abandoned, \* sessions whose opening was given up while it was under way
    breaker,   \* the circuit breaker all targets share
    closing,   \* keys close_all has still to release
    popped,    \* the session it has taken out of the pool and is closing
    closes,
    now

jobVars == <<pc, status, attempts, nth, held, saved>>
poolVars == <<pool, lock, live, abandoned>>
closeVars == <<closing, popped, closes>>
vars == <<jobVars, poolVars, breaker, closeVars, now>>

\* An attempt's session: its second opening finds the first one's pooled, or
\* connects again after close_all has closed that one.
Session == UNION {{j} \X (1 .. MaxAttempts[j]) : j \in Jobs}
Status  == {"pending", "queued", "running", "retrying", "succeeded", "failed",
            "cancelled", "timed_out"}
Breaker == [state : {"closed", "open", "half_open"}, failures : Nat,
            successes : Nat, opened : 0 .. MaxTime \cup {NULL}]

TypeOK ==
    /\ pc \in [Jobs -> {"new", "lock", "connect", "use", "sleep", "end"}]
    /\ status \in [Jobs -> Status]
    /\ attempts \in [Jobs -> Nat] /\ \A j \in Jobs : attempts[j] <= MaxAttempts[j]
    /\ nth \in [Jobs -> 1 .. 2]
    /\ held \in [Jobs -> Session \cup {NULL}]
    /\ saved \in [Jobs -> Nat]
    /\ pool \in [Keys -> Session \cup {NULL}]
    /\ lock \in [Keys -> Jobs \cup {Closer, NULL}]
    /\ live \subseteq Session /\ abandoned \subseteq Session
    /\ breaker \in Breaker
    /\ popped \in Session \cup {NULL}
    /\ closing \subseteq Keys /\ closes \in 0 .. MaxCloses
    /\ now \in 0 .. MaxTime

Init ==
    /\ pc = [j \in Jobs |-> "new"]
    /\ status = [j \in Jobs |-> "pending"]
    /\ attempts = [j \in Jobs |-> 0]
    /\ nth = [j \in Jobs |-> 1]
    /\ held = [j \in Jobs |-> NULL]
    /\ saved = [j \in Jobs |-> 0]
    /\ pool = [k \in Keys |-> NULL]
    /\ lock = [k \in Keys |-> NULL]
    /\ live = {} /\ abandoned = {}
    /\ breaker = [state |-> "closed", failures |-> 0, successes |-> 0, opened |-> NULL]
    /\ closing = {} /\ popped = NULL /\ closes = 0
    /\ now = 0

-----------------------------------------------------------------------------
(* CircuitBreaker                                                          *)

\* allow_request, and what it leaves behind when it allows one.
Allowed(b) ==
    \/ b.state # "open"
    \/ b.opened # NULL /\ now - b.opened >= Recovery
Admitted(b) ==
    IF b.state = "open" THEN [b EXCEPT !.state = "half_open", !.successes = 0] ELSE b

\* record_success: a success that arrives while the breaker is open only resets
\* the count, so that a later half-open breaker needs Threshold failures again.
Success(b) ==
    LET reset == [b EXCEPT !.failures = 0]
    IN  IF b.state # "half_open"
        THEN reset
        ELSE IF b.successes + 1 < Successes
        THEN [reset EXCEPT !.successes = @ + 1]
        ELSE [reset EXCEPT !.successes = 0, !.state = "closed"]

\* record_failure
Failure(b) ==
    LET counted == [b EXCEPT !.failures = @ + 1, !.successes = 0]
    IN  IF counted.failures >= Threshold
        THEN [counted EXCEPT !.state = "open", !.opened = now]
        ELSE counted

-----------------------------------------------------------------------------
(* CollectorExecutor.execute                                               *)

Goto(j, where) == pc' = [pc EXCEPT ![j] = where]
Mark(j, s) == status' = [status EXCEPT ![j] = s]

\* The attempt raised something else than a cancellation: a retry or the end.
AttemptFails(j, final) ==
    /\ IF attempts[j] < MaxAttempts[j]
       THEN Mark(j, "retrying") /\ Goto(j, "sleep")
       ELSE Mark(j, final) /\ Goto(j, "end")
    /\ held' = [held EXCEPT ![j] = NULL]

\* DiscoveryCoordinator.collect schedules a job and runs it at once; no collector
\* or transport matches, and execute raises before the first attempt.
ResolveFails(j) ==
    /\ pc[j] = "new"
    /\ Mark(j, "queued") /\ Goto(j, "end")
    /\ UNCHANGED <<attempts, nth, held, saved, poolVars, breaker, closeVars, now>>

\* An attempt begins with TransportManager.open_session: the breaker refuses, the
\* credentials cannot be resolved (not a failure to the breaker), health_check
\* rejects the target (a failure to the breaker), or the pool is asked.
BeginAttempt(j) ==
    /\ attempts' = [attempts EXCEPT ![j] = @ + 1]
    /\ nth' = [nth EXCEPT ![j] = 1]
    /\ UNCHANGED <<saved, poolVars, closeVars, now>>
    /\ LET raised(b) ==
             /\ IF attempts[j] + 1 < MaxAttempts[j]
                THEN Mark(j, "retrying") /\ Goto(j, "sleep")
                ELSE Mark(j, "failed") /\ Goto(j, "end")
             /\ breaker' = b
             /\ UNCHANGED held
       IN  IF ~Allowed(breaker)
           THEN raised(breaker)
           ELSE \/ raised(Admitted(breaker))
                \/ raised(Failure(Admitted(breaker)))
                \/ /\ Mark(j, "running") /\ Goto(j, "lock")
                   /\ breaker' = Admitted(breaker)
                   /\ UNCHANGED held

Start(j) == pc[j] = "new" /\ BeginAttempt(j)
Retry(j) == pc[j] = "sleep" /\ BeginAttempt(j)

\* open_session returns s.  After the first opening the collector opens the
\* session again without a pause; its breaker may refuse.
Opened(j, s) ==
    LET b == Success(breaker) IN
    /\ UNCHANGED attempts
    /\ IF nth[j] = 2
       THEN /\ breaker' = b
            /\ Goto(j, "use") /\ held' = [held EXCEPT ![j] = s]
            /\ nth' = [nth EXCEPT ![j] = 1]
            /\ UNCHANGED status
       ELSE IF Allowed(b)
       THEN /\ breaker' = Admitted(b)
            /\ Goto(j, "lock") /\ nth' = [nth EXCEPT ![j] = 2]
            /\ UNCHANGED <<status, held>>
       ELSE breaker' = b /\ AttemptFails(j, "failed") /\ UNCHANGED nth

-----------------------------------------------------------------------------
(* ConnectionPool                                                          *)

\* Mutant: the lock does not cover the awaits of open and close.
FreeAlways(k) == TRUE

\* The lock of a key is free.
Free(k) == lock[k] = NULL

Pooled == {k \in Keys : pool[k] # NULL}

\* get_or_create, with the lock: the pooled session, an error when the pool is
\* full, or a new session.
GetOrCreate(j) ==
    LET k == Key[j] IN
    /\ pc[j] = "lock" /\ Free(k)
    /\ \/ /\ k \in Pooled
          /\ Opened(j, pool[k])
          /\ UNCHANGED lock
       \/ /\ k \notin Pooled /\ Cardinality(Pooled) >= MaxSize
          /\ breaker' = Failure(breaker)
          /\ AttemptFails(j, "failed")
          /\ UNCHANGED <<lock, attempts, nth>>
       \/ /\ k \notin Pooled /\ Cardinality(Pooled) < MaxSize
          /\ lock' = [lock EXCEPT ![k] = j]
          /\ Goto(j, "connect")
          /\ UNCHANGED <<status, attempts, nth, held, breaker>>
    /\ UNCHANGED <<saved, pool, live, abandoned, closeVars, now>>

\* session.open returns, and the session is pooled.
Connected(j) ==
    LET k == Key[j]
        s == <<j, attempts[j]>>
    IN  /\ pc[j] = "connect"
        /\ pool' = [pool EXCEPT ![k] = s]
        /\ live' = live \cup {s}
        /\ lock' = [lock EXCEPT ![k] = NULL]
        /\ Opened(j, s)
        /\ UNCHANGED <<saved, abandoned, closeVars, now>>

\* Mutant: an exception of session.open keeps the lock.
RaiseLocked(j) == UNCHANGED lock

\* "async with lock" ends.
Unlock(j) == lock' = [lock EXCEPT ![Key[j]] = NULL]

\* session.open raises, its retries exhausted; what it had opened it closes.
ConnectFails(j) ==
    /\ pc[j] = "connect"
    /\ Unlock(j)
    /\ breaker' = Failure(breaker)
    /\ \E final \in {"failed", "timed_out"} : AttemptFails(j, final)
    /\ UNCHANGED <<attempts, nth, saved, pool, live, abandoned, closeVars, now>>

\* release: the session leaves the pool, and the lock is held until it is closed.
Release(k) ==
    /\ k \in closing /\ popped = NULL /\ Free(k)
    /\ pool' = [pool EXCEPT ![k] = NULL]
    /\ popped' = pool[k]
    /\ IF k \in Pooled
       THEN lock' = [lock EXCEPT ![k] = Closer] /\ UNCHANGED closing
       ELSE closing' = closing \ {k} /\ UNCHANGED lock
    /\ UNCHANGED <<jobVars, live, abandoned, breaker, closes, now>>

Released(k) ==
    /\ lock[k] = Closer
    /\ live' = live \ {popped}
    /\ popped' = NULL
    /\ lock' = [lock EXCEPT ![k] = NULL]
    /\ closing' = closing \ {k}
    /\ UNCHANGED <<jobVars, pool, abandoned, breaker, closes, now>>

\* close_all walks a copy of the keys.
CloseAll ==
    /\ closing = {} /\ closes < MaxCloses
    /\ closing' = Pooled
    /\ closes' = closes + 1
    /\ UNCHANGED <<jobVars, poolVars, popped, breaker, now>>

-----------------------------------------------------------------------------
(* The collector, and what interrupts it                                   *)

\* Mutant: a snapshot is stored before the payload has been checked.
SaveFirst(j) ==
    /\ pc[j] = "use"
    /\ saved' = [saved EXCEPT ![j] = @ + 1]
    /\ held' = [held EXCEPT ![j] = NULL]
    /\ \/ Mark(j, "succeeded") /\ Goto(j, "end")
       \/ Mark(j, "retrying") /\ Goto(j, "sleep") /\ attempts[j] < MaxAttempts[j]
    /\ UNCHANGED <<attempts, nth, poolVars, breaker, closeVars, now>>

\* The device has answered; parsing, normalising and saving the snapshot, the
\* in-memory repository included, do not wait.
Collected(j) ==
    /\ pc[j] = "use" /\ held[j] \in live
    /\ saved' = [saved EXCEPT ![j] = @ + 1]
    /\ Mark(j, "succeeded") /\ Goto(j, "end")
    /\ held' = [held EXCEPT ![j] = NULL]
    /\ UNCHANGED <<attempts, nth, poolVars, breaker, closeVars, now>>

\* A command raises, for one thing because the session is closed or dead, or the
\* payload cannot be processed.  The session stays in the pool.
CollectFails(j) ==
    /\ pc[j] = "use"
    /\ \E final \in {"failed", "timed_out"} : AttemptFails(j, final)
    /\ UNCHANGED <<attempts, nth, saved, poolVars, breaker, closeVars, now>>

\* What an interrupted job leaves behind: the lock is released; the connection
\* that a thread was opening may still come about, and nothing closes it.
Interrupted(j) ==
    IF pc[j] = "connect"
    THEN /\ Unlock(j)
         /\ abandoned' = abandoned \cup {<<j, attempts[j]>>}
         /\ UNCHANGED <<pool, live>>
    ELSE UNCHANGED poolVars

\* wait_for ends the attempt; the breaker hears nothing of it.
Timeout(j) ==
    /\ j \in Timed /\ pc[j] \in {"lock", "connect", "use"}
    /\ Interrupted(j)
    /\ AttemptFails(j, "timed_out")
    /\ UNCHANGED <<attempts, nth, saved, breaker, closeVars, now>>

\* The task is cancelled.  During the retry delay no handler is active, and the
\* job ends as "retrying".
Cancel(j) ==
    /\ pc[j] \in {"lock", "connect", "use", "sleep"}
    /\ Interrupted(j)
    /\ IF pc[j] = "sleep" THEN UNCHANGED status ELSE Mark(j, "cancelled")
    /\ Goto(j, "end")
    /\ held' = [held EXCEPT ![j] = NULL]
    /\ UNCHANGED <<attempts, nth, saved, breaker, closeVars, now>>

\* The device drops a connection; the pool does not notice.
Drop(s) ==
    /\ s \in live
    /\ live' = live \ {s}
    /\ UNCHANGED <<jobVars, pool, lock, abandoned, breaker, closeVars, now>>

Tick ==
    /\ now < MaxTime
    /\ now' = now + 1
    /\ UNCHANGED <<jobVars, poolVars, breaker, closeVars>>

-----------------------------------------------------------------------------
Run(j) ==
    \/ Retry(j) \/ GetOrCreate(j) \/ Connected(j)
    \/ ConnectFails(j) \/ Collected(j) \/ CollectFails(j)
Close == \E k \in Keys : Release(k) \/ Released(k)

Next ==
    \/ \E j \in Jobs :
          Start(j) \/ ResolveFails(j) \/ Run(j) \/ Timeout(j) \/ Cancel(j)
    \/ Close \/ CloseAll \/ Tick
    \/ \E s \in Session : Drop(s)

Spec == Init /\ [][Next]_vars

\* The loop runs what is ready, locks are granted, and a connection attempt, a
\* command or the closing of a session returns or raises in the end.
FairSpec == Spec /\ WF_vars(Close) /\ \A j \in Jobs : WF_vars(Run(j))

-----------------------------------------------------------------------------
(* Properties                                                              *)

KeyOf(s) == Key[s[1]]

\* However jobs, retries, timeouts and close_all interleave, a target has at most
\* one connection that the platform still knows of, and that one is pooled or
\* being closed: the lock of a key covers the awaits of open and close
\* (ConnectionPool.get_or_create, release).
OneConnectionPerKey ==
    \A s, t \in live : KeyOf(s) = KeyOf(t) => s = t /\ s \in {pool[KeyOf(s)], popped}

\* A session in the pool belongs to its key, is nobody's abandoned opening, and
\* while a job opens one there is none (ConnectionPool.get_or_create).
PoolIsSound ==
    \A k \in Keys :
        /\ pool[k] # NULL => KeyOf(pool[k]) = k /\ pool[k] \notin abandoned
        /\ lock[k] \in Jobs => pool[k] = NULL /\ pc[lock[k]] = "connect"

\* Whatever order the outcomes of concurrent requests arrive in, a closed breaker
\* has counted fewer failures than its threshold, and an open one knows when it
\* opened, without which it would never let a request through again
\* (CircuitBreaker).
BreakerIsSound ==
    /\ breaker.state = "closed" => breaker.failures < Threshold
    /\ breaker.state = "open" => breaker.opened # NULL

\* The rest of the inductive invariant: attempts are counted where a job is, a
\* lock has the holder that its key's connection or closing needs, and an
\* abandoned opening belongs to an attempt that is over.
Attempting ==
    \A j \in Jobs :
        /\ pc[j] = "new" => attempts[j] = 0
        /\ pc[j] = "sleep" => attempts[j] < MaxAttempts[j]
        /\ pc[j] \in {"lock", "connect", "use"} => attempts[j] > 0
        /\ status[j] = "succeeded" => pc[j] = "end"

LocksAreHeld ==
    /\ \A j \in Jobs : pc[j] = "connect" => lock[Key[j]] = j
    /\ \A k \in Keys : /\ lock[k] \in Jobs => Key[lock[k]] = k
                       /\ lock[k] = Closer => popped # NULL /\ KeyOf(popped) = k
    /\ popped # NULL => lock[KeyOf(popped)] = Closer /\ pool[KeyOf(popped)] = NULL

AbandonedIsOver ==
    \A s \in abandoned :
        /\ s[2] <= attempts[s[1]]
        /\ s[2] = attempts[s[1]] => pc[s[1]] \in {"sleep", "end"}

\* What pool and breaker promise in every state, and what the promise rests on.
Inv ==
    /\ TypeOK
    /\ OneConnectionPerKey /\ PoolIsSound /\ BreakerIsSound
    /\ Attempting /\ LocksAreHeld /\ AbandonedIsOver

\* A job stores a snapshot if and only if it succeeds, and only one, although
\* attempts are repeated after timeouts and errors (CollectorExecutor.execute).
SavedIffSucceeded ==
    \A j \in Jobs : saved[j] = IF status[j] = "succeeded" THEN 1 ELSE 0

\* No job that has begun waits forever for a lock, a connection or another job:
\* again and again there is none between its beginning and its end
\* (ConnectionPool.get_or_create, CollectorExecutor.execute).
JobsEnd == []<>(\A j \in Jobs : pc[j] \in {"new", "end"})
=============================================================================
