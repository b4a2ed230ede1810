----------------------------- MODULE Scheduler -----------------------------
(***************************************************************************)
(* Schedules and their dispatch (scheduler/service.py, with the SQLAlchemy *)
(* repository and the API routes).                                         *)
(*                                                                         *)
(* The platform is one process with one event loop.  An API request reads  *)
(* and writes its schedule without an await in between; dispatch_due_jobs  *)
(* awaits JobManager.submit_job between the copy of the schedules it read  *)
(* and the copy it writes back, and everything else may happen meanwhile.  *)
(* Then it commits twice, without an await: the execution, and the copy.   *)
(* Every write stores a whole row.  The dispatcher is called by a timer    *)
(* outside this code, which waits for it to return; a pass may fail, or    *)
(* its process stop and be started again, between any two steps.           *)
(***************************************************************************)
EXTENDS Integers, Sequences

CONSTANTS
    Schedules,  \* schedule ids
    OneTime,    \* the ones of type one_time
    Period,     \* Period[s]: days, weeks, months or interval_seconds, which
                \* the API does not require to be positive
    Starts,     \* the start_at of requests, in the past or the future
    NULL,       \* None
    MaxTime,    \* bound: where the clock stops
    MaxRuns,    \* bound: executions remembered of one schedule
    MaxFaults   \* bound: passes that fail

ASSUME SchedulesAssumption == OneTime \subseteq Schedules
ASSUME PeriodAssumption == Period \in [Schedules -> Int] /\ Starts \subseteq Int
ASSUME BoundAssumption == MaxTime \in Nat /\ MaxRuns \in Nat /\ MaxFaults \in Nat

VARIABLES
    row,     \* row[s]: the schedules table, NULL where it has no row
    deleted, \* ids that have been deleted; an id is never issued again
    runs,    \* runs[s]: executed_at of the stored executions, oldest first
    now,     \* the clock
    todo,    \* copies of due schedules the pass has still to dispatch
    current, \* the time the pass began, NULL outside a pass
    sent,    \* the schedule whose job is being submitted, or NULL
    stored,  \* its execution is committed, the copy of its row not yet
    unsaved, \* unsaved[s]: executions without the copy that goes with them
    faults

vars == <<row, deleted, runs, now, todo, current, sent, stored, unsaved, faults>>
pass == <<todo, current, sent, stored>>

Time == 0 .. MaxTime
\* ScheduleRecord, as far as dispatching depends on it.
Row  == [enabled : BOOLEAN, state : {"active", "paused", "disabled"},
         next : Int, last : Nat \cup {NULL}]
Executions == Seq(Nat)  \* ScheduleExecutionRecord: when the schedule ran
Stored(s) == row[s] # NULL

ASSUME NullAssumption == NULL \notin Int \cup Row \cup Schedules \cup BOOLEAN

TypeOK ==
    /\ row \in [Schedules -> Row \cup {NULL}]
    /\ deleted \subseteq {s \in Schedules : ~Stored(s)}
    /\ runs \in [Schedules -> Executions]
    /\ now \in Time
    /\ todo \in [Schedules -> Row \cup {NULL}]
    /\ current \in Time \cup {NULL}
    /\ sent \in Schedules \cup {NULL}
    /\ stored \in BOOLEAN
    /\ unsaved \in [Schedules -> SUBSET Nat]
    /\ faults \in 0 .. MaxFaults

Init ==
    /\ row = [s \in Schedules |-> NULL]
    /\ deleted = {}
    /\ runs = [s \in Schedules |-> <<>>]
    /\ now = 0
    /\ todo = [s \in Schedules |-> NULL]
    /\ current = NULL /\ sent = NULL /\ stored = FALSE
    /\ unsaved = [s \in Schedules |-> {}]
    /\ faults = 0

-----------------------------------------------------------------------------
(* API requests                                                            *)

\* _compute_next_run: one period after the start.
FirstRun(s, start) == IF s \in OneTime THEN start ELSE start + Period[s]

\* Mutant: the next run counts from the one that was due, to catch up.
NextRunCatchesUp(s, r, t) == IF s \in OneTime THEN r.next ELSE r.next + Period[s]

\* _compute_next_run_from_existing: a one-time schedule keeps its time.
NextRun(s, r, t) == IF s \in OneTime THEN r.next ELSE t + Period[s]

Save(s, r) == row' = [row EXCEPT ![s] = r]
Request == UNCHANGED <<deleted, runs, now, pass, unsaved, faults>>

\* register_schedule.
RegisterSchedule(s) ==
    /\ ~Stored(s) /\ s \notin deleted
    /\ \E enabled \in BOOLEAN, start \in Starts :
          Save(s, [enabled |-> enabled,
                   state   |-> IF enabled THEN "active" ELSE "disabled",
                   next    |-> FirstRun(s, start),
                   last    |-> NULL])
    /\ Request

\* update_schedule: the state follows the payload, not the schedule; a request
\* without "enabled" makes a paused schedule look active.
UpdateSchedule(s) ==
    /\ Stored(s)
    /\ \E enabled \in BOOLEAN \cup {NULL} :
          Save(s, [row[s] EXCEPT
                     !.enabled = IF enabled = NULL THEN @ ELSE enabled,
                     !.state = IF enabled = FALSE THEN "disabled" ELSE "active"])
    /\ Request

PauseSchedule(s) ==
    /\ Stored(s)
    /\ Save(s, [row[s] EXCEPT !.enabled = FALSE, !.state = "paused"])
    /\ Request

ResumeSchedule(s) ==
    /\ Stored(s)
    /\ Save(s, [row[s] EXCEPT !.enabled = TRUE, !.state = "active",
                              !.next = NextRun(s, row[s], now)])
    /\ Request

\* delete_schedule: the executions go with it (ON DELETE CASCADE).
DeleteSchedule(s) ==
    /\ Stored(s)
    /\ Save(s, NULL)
    /\ deleted' = deleted \cup {s}
    /\ runs' = [runs EXCEPT ![s] = <<>>]
    /\ unsaved' = [unsaved EXCEPT ![s] = {}]
    /\ UNCHANGED <<now, pass, faults>>

-----------------------------------------------------------------------------
(* dispatch_due_jobs                                                       *)

\* Mutant: a schedule that has run once is done.
DueOnce(r) == r.enabled /\ r.next <= now /\ r.last = NULL

Due(r) == r.enabled /\ r.next <= now

\* All schedules are read at once.
ListSchedules ==
    /\ current = NULL
    /\ current' = now
    /\ todo' = [s \in Schedules |->
          IF Stored(s) /\ Due(row[s]) THEN row[s] ELSE NULL]
    /\ UNCHANGED <<row, deleted, runs, now, sent, stored, unsaved, faults>>

\* submit_job is called and suspends.
SubmitJob(s) ==
    /\ current # NULL /\ sent = NULL /\ todo[s] # NULL
    /\ sent' = s
    /\ UNCHANGED <<row, deleted, runs, now, todo, current, stored, unsaved, faults>>

Stores(s) == runs' = [runs EXCEPT ![s] =
                        IF Len(@) < MaxRuns THEN Append(@, current) ELSE @]

\* The copy that is written back, and the end of the pass.
Dispatched(s) ==
    [todo[s] EXCEPT !.next = NextRun(s, todo[s], current), !.last = current]
EndPass ==
    /\ todo' = [s \in Schedules |-> NULL]
    /\ current' = NULL /\ sent' = NULL /\ stored' = FALSE

\* Mutant: the schedule is saved, a missing row inserted, before the execution
\* is recorded.
SaveFirst(s) ==
    /\ sent = s
    /\ Save(s, Dispatched(s))
    /\ Stores(s)
    /\ todo' = [todo EXCEPT ![s] = NULL] /\ sent' = NULL
    /\ UNCHANGED <<deleted, now, current, stored, unsaved, faults>>

\* append_execution, when the job is submitted: the row is refused, and the
\* pass ends, if the schedule has been deleted (foreign key).
AppendExecution(s) ==
    /\ sent = s /\ ~stored
    /\ IF Stored(s)
       THEN /\ Stores(s)
            /\ unsaved' = [unsaved EXCEPT ![s] = @ \cup {Len(runs'[s])}]
            /\ stored' = TRUE
            /\ UNCHANGED <<todo, current, sent>>
       ELSE EndPass /\ UNCHANGED <<runs, unsaved>>
    /\ UNCHANGED <<row, deleted, now, faults>>

\* save_schedule writes the copy back, in a transaction of its own.
SaveDispatched(s) ==
    /\ sent = s /\ stored
    /\ Save(s, Dispatched(s))
    /\ unsaved' = [unsaved EXCEPT ![s] = @ \ {Len(runs[s])}]
    /\ todo' = [todo EXCEPT ![s] = NULL] /\ sent' = NULL /\ stored' = FALSE
    /\ UNCHANGED <<deleted, runs, now, current, faults>>

\* submit_job raises, a statement of the database fails, or the process stops:
\* the pass is over, with the schedules that are left.
PassFails ==
    /\ current # NULL /\ faults < MaxFaults
    /\ faults' = faults + 1
    /\ EndPass
    /\ UNCHANGED <<row, deleted, runs, now, unsaved>>

Return ==
    /\ current # NULL /\ \A s \in Schedules : todo[s] = NULL
    /\ EndPass
    /\ UNCHANGED <<row, deleted, runs, now, unsaved, faults>>

Tick ==
    /\ now < MaxTime /\ now' = now + 1
    /\ UNCHANGED <<row, deleted, runs, pass, unsaved, faults>>

-----------------------------------------------------------------------------
\* Between the two commits of a run nothing else has the event loop.
Requests == ~stored /\ \E s \in Schedules :
    \/ RegisterSchedule(s) \/ UpdateSchedule(s) \/ PauseSchedule(s)
    \/ ResumeSchedule(s) \/ DeleteSchedule(s)

Pass ==
    \/ ListSchedules \/ Return
    \/ \E s \in Schedules : SubmitJob(s) \/ AppendExecution(s) \/ SaveDispatched(s)

Next == Requests \/ Pass \/ PassFails \/ Tick

Spec == Init /\ [][Next]_vars

\* The timer keeps calling, and a submission returns.  Of the schedules that
\* are left every one has its turn, because a pass runs through a finite list.
FairSpec == Spec /\ WF_vars(Pass)

-----------------------------------------------------------------------------
(* Properties                                                              *)

\* Whatever copy is written last, a schedule that the dispatcher may run is
\* shown as active: none runs while it is shown as paused or disabled
\* (pause_schedule, update_schedule, dispatch_due_jobs).
EnabledIsActive ==
    \A s \in Schedules : Stored(s) /\ row[s].enabled => row[s].state = "active"

\* A recurring schedule does not run again within its period, although stale
\* copies are written back over resumed, updated and already dispatched rows:
\* unless the pass failed between the execution and the copy that goes with it
\* (dispatch_due_jobs).  A copy that is lost later does not matter to it.
RateIsRespected ==
    \A s \in Schedules \ OneTime : \A i, j \in DOMAIN runs[s] :
        i < j /\ i \notin unsaved[s] => runs[s][i] + Period[s] <= runs[s][j]

\* A schedule that is deleted while its job is being submitted does not come
\* back, and leaves no execution behind (delete_schedule, append_execution).
DeletedStaysDeleted ==
    [][\A s \in deleted : ~Stored(s)' /\ runs'[s] = <<>>]_vars

\* A recurring schedule that is due is dispatched, disabled or deleted in the
\* end, however often passes fail before it has its turn; one with a negative
\* interval is due again at once.
Overdue(s) == Stored(s) /\ row[s].enabled /\ row[s].next <= now
DueSchedulesRun ==
    \A s \in Schedules \ OneTime : Period[s] > 0 => (Overdue(s) ~> ~Overdue(s))

\* Only a failure leaves an execution without its copy: as long as no pass
\* fails, no run of a recurring schedule is excepted (dispatch_due_jobs).
GapsAreFailures ==
    faults = 0 => \A s \in Schedules :
        unsaved[s] \subseteq IF stored /\ sent = s THEN {Len(runs[s])} ELSE {}

(* The inductive invariant behind RateIsRespected.                         *)

\* A row of a recurring schedule that is written back or stored is not due
\* before one period after every run whose copy was saved.
Spaced(s, r) == \A i \in DOMAIN runs[s] \ unsaved[s] : runs[s][i] + Period[s] <= r.next

NextIsSpaced == \A s \in Schedules \ OneTime :
    /\ Len(runs[s]) < MaxRuns /\ Stored(s) => Spaced(s, row[s])
    /\ Len(runs[s]) < MaxRuns /\ todo[s] # NULL => Spaced(s, todo[s])

PassIsCurrent ==
    /\ current # NULL => current <= now
    /\ current = NULL => sent = NULL /\ \A s \in Schedules : todo[s] = NULL
    /\ sent # NULL => todo[sent] # NULL
    /\ stored => sent # NULL /\ Stored(sent)
    /\ \A s \in Schedules : todo[s] # NULL =>
          todo[s].next <= current /\ todo[s].enabled /\ todo[s].state = "active"
    /\ \A s \in Schedules : \A i \in DOMAIN runs[s] :
          runs[s][i] <= now /\ (current # NULL => runs[s][i] <= current)

\* Executions belong to stored schedules.
NoOrphans == \A s \in Schedules : ~Stored(s) => runs[s] = <<>>

Inv ==
    /\ TypeOK
    /\ EnabledIsActive /\ RateIsRespected /\ GapsAreFailures
    /\ NextIsSpaced /\ PassIsCurrent /\ NoOrphans
=============================================================================
