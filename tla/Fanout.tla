------------------------------- MODULE Fanout -------------------------------
(***************************************************************************)
(* A range discovery job: one parent job whose worker expands the scope,   *)
(* creates a child job and a device result per address, executes the       *)
(* children under a semaphore and reports the run (discovery/fanout.py,    *)
(* execute_discovery_job in discovery/worker.py), while a second worker    *)
(* recovers expired trees and operators cancel parents and children        *)
(* (persistence/discovery_repositories.py).                                *)
(*                                                                         *)
(* A job of this tree is running exactly while the worker's token owns it  *)
(* (LeasedJobs shows this of every row), so owners are not repeated here;  *)
(* "good" is the set of rows whose lease has not expired.  One action is   *)
(* one committed transaction together with the coroutine code before it.   *)
(* Children of the same worker interleave only where the code awaits.      *)
(***************************************************************************)
EXTENDS Naturals, FiniteSets

CONSTANTS
    Addresses,     \* the addresses the scope expands to
    ReportedIP,    \* ReportedIP[a]: what the device at a may call its own
                   \* management address
    Concurrency,   \* semaphore slots
    NULL,          \* None
    SingleCancels, \* whether operators also cancel single children
    CanStall,      \* whether the worker may be frozen past its lease
    MaxFaults      \* bound: crashes, stops, stalls, database errors, and
                   \* discoveries of single addresses by other users

ASSUME ReportedAssumption == DOMAIN ReportedIP = Addresses
ASSUME BoundAssumption ==
    /\ Concurrency \in Nat \ {0} /\ MaxFaults \in Nat
    /\ CanStall \in BOOLEAN /\ SingleCancels \in BOOLEAN

VARIABLES
    parent,   \* the parent's row: status and cancellation request
    child,    \* children: the job row and its device result
    run,      \* status of the parent's run record
    good,     \* rows whose lease has not expired
    busy,     \* addresses with an active job of somebody else
    alive, stopping,
    pc,       \* execute_discovery_job of the parent
    cpc,      \* run_child coroutines
    lost,     \* heartbeat_lease_lost
    stale,    \* children whose copy in the worker's session is not terminal
    rival,    \* what the recovering worker has read, or NULL
    faults

table  == <<parent, child, run>>
worker == <<alive, stopping, pc, cpc, lost, stale>>
vars   == <<table, good, busy, worker, rival, faults>>

\* A child is named by its address and by who created it: the fan-out, or a
\* reconciliation that found no result for the address.
Children == Addresses \X {"fanout", "reconcile"}
Own      == Addresses \X {"fanout"}
Root     == <<NULL, "root">>        \* the parent's row

Active   == {"queued", "running"}
Terminal == {"succeeded", "failed", "cancelled"}
JobState == Active \cup Terminal \cup {"absent"}
Verdict  == {"none", "discovered", "unreachable", "no_management",
             "cancelled", "interrupted"}
Reported == Addresses \cup UNION {ReportedIP[a] : a \in Addresses}
Child == [st : JobState, cancel : BOOLEAN,
          res : Active \cup Terminal \cup {"discovering"},
          verdict : Verdict, addr : Reported]

PC  == {"idle", "begin", "create", "gather", "reconcile", "finish",
        "finishState", "finishCancel", "raised", "close", "done"}
CPC == {"none", "new", "wait", "cancel", "claim", "collect", "succeed",
        "process", "step7", "fail", "finalise", "finaliseLate", "tail",
        "raised", "done"}
Synchronous == {"cancel", "claim", "succeed", "process", "step7", "fail",
                "finalise", "finaliseLate", "tail"}
Holding     == (Synchronous \ {"cancel"}) \cup {"collect"}

TypeOK ==
    /\ parent \in [st : JobState, cancel : BOOLEAN]
    /\ child \in [Children -> Child]
    /\ run \in {"started", "succeeded", "failed"}
    /\ good \subseteq Children \cup {Root}
    /\ busy \subseteq Addresses
    /\ alive \in BOOLEAN /\ stopping \in BOOLEAN /\ lost \in BOOLEAN
    /\ pc \in PC
    /\ cpc \in [Own -> CPC]
    /\ stale \subseteq Children
    /\ rival \in {NULL} \cup [cancel : BOOLEAN, queued : SUBSET Children,
                              running : SUBSET Children]
    /\ faults \in 0 .. MaxFaults

Fresh(a, st) == [st |-> st, cancel |-> FALSE, res |-> "queued",
                 verdict |-> "none", addr |-> a]

Init ==
    /\ parent = [st |-> "absent", cancel |-> FALSE]
    /\ child = [c \in Children |-> Fresh(c[1], "absent")]
    /\ run = "started"
    /\ good = {} /\ busy = {} /\ stale = {}
    /\ alive = TRUE /\ stopping = FALSE /\ lost = FALSE
    /\ pc = "idle"
    /\ cpc = [c \in Own |-> "none"]
    /\ rival = NULL
    /\ faults = 0

Fault == faults < MaxFaults /\ faults' = faults + 1
NoFault == UNCHANGED faults

-----------------------------------------------------------------------------
(* reconcile_parent_job                                                    *)

Exists(ch)    == {c \in Children : ch[c].st # "absent"}
ActiveIn(ch)  == {c \in Children : ch[c].st \in Active}
Outcome(intr) == IF intr THEN "failed" ELSE "cancelled"

\* DiscoveryJobRepository.create refuses a target with an active job.
Duplicate(ch, A) ==
    \E a \in A : a \in busy \/ \E c \in ActiveIn(ch) : c[1] = a

\* Results are looked up by the address they carry, which a successful
\* discovery replaces by the address the device reports.
ResultsAt(ch, a) == {c \in Exists(ch) : ch[c].addr = a}
Missing(ch) == {a \in Addresses : ResultsAt(ch, a) = {}}

\* by_address keeps one result per address, the last one the query returns.
ByAddress(ch) ==
    {f \in [Addresses -> Children] :
        \A a \in Addresses : IF a \in Missing(ch) THEN f[a] = <<a, "reconcile">>
                                                  ELSE f[a] \in ResultsAt(ch, a)}

\* Mutant: a result whose job has ended counts as complete without a verdict.
ReconciledByState(row, isOpen, intr) ==
    LET st  == IF isOpen \/ row.st = "absent" THEN Outcome(intr) ELSE row.st
        end == row.res \in Active \cup {"discovering"}
    IN  [row EXCEPT !.st = st,
                    !.res = IF end THEN Outcome(intr) ELSE @,
                    !.verdict = IF ~end THEN @
                                ELSE IF intr THEN "interrupted" ELSE "cancelled"]

\* Mutant: a result is complete only if its job succeeded.
ReconciledUnlessSucceeded(row, isOpen, intr) ==
    LET st  == IF isOpen \/ row.st = "absent" THEN Outcome(intr) ELSE row.st
        end == row.st # "succeeded"
    IN  [row EXCEPT !.st = st,
                    !.res = IF end THEN Outcome(intr) ELSE @,
                    !.verdict = IF ~end THEN @
                                ELSE IF intr THEN "interrupted" ELSE "cancelled"]

\* The row of one expected address: job and result end where they were not
\* ended.  "open": the children the session holds as not terminal, whose
\* UPDATE has no condition on the state.
Reconciled(row, isOpen, intr) ==
    LET st  == IF isOpen \/ row.st = "absent" THEN Outcome(intr) ELSE row.st
        end == row.verdict = "none" \/ row.res \in Active \cup {"discovering"}
    IN  [row EXCEPT !.st = st,
                    !.res = IF end THEN Outcome(intr) ELSE @,
                    !.verdict = IF ~end THEN @
                                ELSE IF intr THEN "interrupted" ELSE "cancelled"]

\* _finalize_parent_run
RunStatus(ch) ==
    LET verdicts == {ch[c].verdict : c \in Exists(ch)}
    IN  IF "discovered" \in verdicts /\ {"cancelled", "interrupted"} \cap verdicts = {}
        THEN "succeeded" ELSE "failed"

\* Reconciling the rows ch commits child' and run', or raises and commits
\* nothing.
CanReconcile(ch) == ~ Duplicate(ch, Missing(ch))
Reconcile(ch, open, intr) ==
    \E f \in ByAddress(ch) :
       LET picked == {f[a] : a \in Addresses}
       IN  /\ child' = [c \in Children |->
                 IF c \in picked THEN Reconciled(ch[c], c \in open, intr)
                                 ELSE ch[c]]
           /\ run' = RunStatus(child')

-----------------------------------------------------------------------------
(* _reconcile_owned_tree: recovery, and abandoning after a lost heartbeat. *)

ReadTree ==
    [cancel  |-> parent.cancel \/ parent.st = "cancelled",
     queued  |-> {c \in Children : child[c].st = "queued"},
     running |-> {c \in Children : child[c].st = "running"}]

\* Queued children are ended without a condition, running ones and the
\* parent only while they are still running under the same owner.
TreeApplies(t) ==
    /\ \A c \in t.running : child[c].st = "running"
    /\ parent.st = "running"

TreeRows(t) == [c \in Children |->
    IF c \in t.queued \cup t.running
    THEN [child[c] EXCEPT !.st = Outcome(~ t.cancel)] ELSE child[c]]

EndTree(t) ==
    /\ TreeApplies(t) /\ CanReconcile(TreeRows(t))
    /\ parent' = [parent EXCEPT !.st = Outcome(~ t.cancel)]
    /\ Reconcile(TreeRows(t), ActiveIn(TreeRows(t)), ~ t.cancel)

\* _abandon_if_owned, in a session of its own; it logs and gives up when the
\* tree has changed under it or the database still fails.
Abandon == EndTree(ReadTree) \/ UNCHANGED table

-----------------------------------------------------------------------------
(* Operators, and users who discover one address on their own.             *)

Cancelled == parent.cancel \/ parent.st = "cancelled"

\* An operator asks for a range: the row is created queued.
Submit ==
    /\ parent.st = "absent"
    /\ parent' = [parent EXCEPT !.st = "queued"]
    /\ UNCHANGED <<child, run, good, busy, worker, rival, faults>>

\* request_cancellation of the parent; a queued range is reconciled at once.
CancelParent ==
    /\ parent.st \in Active /\ ~ parent.cancel
    /\ \/ /\ parent.st = "running"
          /\ parent' = [parent EXCEPT !.cancel = TRUE]
          /\ UNCHANGED <<child, run>>
       \/ /\ parent.st = "queued" /\ CanReconcile(child)
          /\ parent' = [st |-> "cancelled", cancel |-> TRUE]
          /\ Reconcile(child, ActiveIn(child), FALSE)
    /\ UNCHANGED <<good, busy, worker, rival, faults>>

\* request_cancellation of one child.
CancelChild(c) ==
    /\ SingleCancels
    /\ child[c].st \in Active /\ ~ child[c].cancel
    /\ child' = [child EXCEPT ![c].cancel = TRUE,
                              ![c].st = IF @ = "queued" THEN "cancelled" ELSE @]
    /\ UNCHANGED <<parent, run, good, busy, worker, rival, faults>>

\* resolve_stale_cancellation of the parent and of a child.
ResolveParent ==
    LET rows == [c \in Children |-> IF child[c].st = "running"
                    THEN [child[c] EXCEPT !.st = "cancelled"] ELSE child[c]]
    IN  /\ parent.st = "running" /\ parent.cancel /\ Root \notin good
        /\ CanReconcile(rows)
        /\ parent' = [parent EXCEPT !.st = "cancelled"]
        /\ Reconcile(rows, ActiveIn(rows), FALSE)
        /\ UNCHANGED <<good, busy, worker, rival, faults>>

ResolveChild(c) ==
    /\ child[c].st = "running" /\ child[c].cancel /\ c \notin good
    /\ child' = [child EXCEPT ![c].st = "cancelled"]
    /\ UNCHANGED <<parent, run, good, busy, worker, rival, faults>>

\* Somebody else's job on the target of one address, and its end.
ForeignStarts(a) ==
    /\ a \notin busy /\ \A c \in ActiveIn(child) : c[1] # a
    /\ Fault
    /\ busy' = busy \cup {a}
    /\ UNCHANGED <<table, good, worker, rival>>

ForeignEnds(a) ==
    /\ a \in busy
    /\ busy' = busy \ {a}
    /\ UNCHANGED <<table, good, worker, rival, faults>>

-----------------------------------------------------------------------------
(* execute_discovery_job and DiscoveryFanoutService.execute.               *)

\* The worker's coroutine of the parent moves from p to q.
Step(p, q) == alive /\ pc = p /\ pc' = q /\ UNCHANGED <<alive, stopping, lost>>
Idle == UNCHANGED <<busy, rival, faults>>

\* The handler of InvalidDiscoveryTransitionError.
AfterInvalidTransition ==
    IF parent.st = "cancelled" THEN "close"
    ELSE IF parent.cancel THEN "finishCancel" ELSE "raised"

Claim ==
    /\ Step("idle", "begin") /\ ~ stopping
    /\ parent.st = "queued"
    /\ parent' = [parent EXCEPT !.st = "running"]
    /\ good' = good \cup {Root}
    /\ UNCHANGED <<child, run, cpc, stale>> /\ Idle

\* A cancelled parent is left alone; a requested cancellation skips the work.
Begin ==
    /\ Step("begin", IF parent.st = "cancelled" THEN "close"
                     ELSE IF parent.cancel THEN "reconcile" ELSE "create")
    /\ UNCHANGED <<table, good, cpc, stale>> /\ Idle

\* All children and results in one transaction; the whole loop runs without
\* an await, so no heartbeat renews the lease meanwhile.
CreateChildren ==
    /\ ~ Duplicate(child, Addresses)
    /\ Step("create", "gather")
    /\ child' = [c \in Children |->
          IF c \in Own THEN Fresh(c[1], "queued") ELSE child[c]]
    /\ cpc' = [c \in Own |-> "new"]
    /\ UNCHANGED <<parent, run, good, stale>> /\ Idle

CreateRaises ==
    /\ Duplicate(child, Addresses)
    /\ Step("create", "raised")
    /\ UNCHANGED <<table, good, cpc, stale>> /\ Idle

\* asyncio.gather returns when every child has, or raises with the first one
\* that does; the other children then go on without their parent.  What a
\* child raises is always InvalidDiscoveryTransitionError.
GatherDone ==
    /\ \A c \in Own : cpc[c] = "done"
    /\ Step("gather", "reconcile")
    /\ UNCHANGED <<table, good, cpc, stale>> /\ Idle

GatherRaises ==
    /\ \E c \in Own : cpc[c] = "raised"
    /\ Step("gather", AfterInvalidTransition)
    /\ UNCHANGED <<table, good, cpc, stale>> /\ Idle

\* The closing reconciliation, through the worker's session, whose copies of
\* children may be older than their rows.
ReconcileRun ==
    /\ CanReconcile(child)
    /\ Step("reconcile", "finish")
    /\ Reconcile(child, ActiveIn(child) \cup stale, ~ Cancelled)
    /\ UNCHANGED <<parent, good, cpc, stale>> /\ Idle

ReconcileRaises ==
    /\ ~ CanReconcile(child)
    /\ Step("reconcile", "raised")
    /\ UNCHANGED <<table, good, cpc, stale>> /\ Idle

Finish ==
    /\ Step("finish", IF Cancelled THEN "finishCancel" ELSE "finishState")
    /\ UNCHANGED <<table, good, cpc, stale>> /\ Idle

\* Mutant: the range succeeds unless a result failed.
FinalStateLenient ==
    IF \A c \in Own : child[c].res # "failed" THEN "succeeded" ELSE "failed"

FinalState ==
    IF \E c \in Own : child[c].res = "succeeded" THEN "succeeded" ELSE "failed"

FinishState ==
    /\ \/ /\ parent.st = "running" /\ ~ parent.cancel
          /\ Step("finishState", "close")
          /\ parent' = [parent EXCEPT !.st = FinalState]
       \/ /\ parent.st # "running" \/ parent.cancel
          /\ Step("finishState", AfterInvalidTransition)
          /\ UNCHANGED parent
    /\ UNCHANGED <<child, run, good, cpc, stale>> /\ Idle

FinishCancel ==
    /\ \/ /\ parent.st \in {"running", "cancelled"}
          /\ Step("finishCancel", "close")
          /\ parent' = [parent EXCEPT !.st = "cancelled"]
       \/ /\ parent.st \notin {"running", "cancelled"}
          /\ Step("finishCancel", "raised")
          /\ UNCHANGED parent
    /\ UNCHANGED <<child, run, good, cpc, stale>> /\ Idle

\* A database error anywhere on the way.
ExecuteError ==
    /\ pc \in {"begin", "create", "reconcile", "finish", "finishState",
               "finishCancel"}
    /\ Step(pc, "raised") /\ Fault
    /\ UNCHANGED <<table, good, busy, cpc, stale, rival>>

\* Mutant: the error handler does not look at the parent's status first.
RaisedUnchecked ==
    /\ Step("raised", "close")
    /\ CanReconcile(child)
    /\ parent' = [parent EXCEPT !.st = "failed"]
    /\ Reconcile(child, ActiveIn(child), TRUE)
    /\ UNCHANGED <<good, cpc, stale>> /\ Idle

\* _fail_owned_job: the parent fails and its tree is reconciled in the same
\* transaction, or everything is rolled back and logged.
Raised ==
    /\ Step("raised", "close")
    /\ \/ /\ ~ lost /\ parent.st = "running" /\ CanReconcile(child)
          /\ parent' = [parent EXCEPT !.st = "failed"]
          /\ Reconcile(child, ActiveIn(child), TRUE)
       \/ /\ lost \/ parent.st # "running" \/ ~ CanReconcile(child)
          /\ UNCHANGED table
    /\ UNCHANGED <<good, cpc, stale>> /\ Idle

Close ==
    /\ Step("close", "done")
    /\ IF lost THEN Abandon ELSE UNCHANGED table
    /\ UNCHANGED <<good, cpc, stale>> /\ Idle

Parent ==
    \/ Claim \/ Begin \/ CreateChildren \/ CreateRaises
    \/ GatherDone \/ GatherRaises \/ ReconcileRun \/ ReconcileRaises
    \/ Finish \/ FinishState \/ FinishCancel
    \/ Raised \/ Close

-----------------------------------------------------------------------------
(* run_child and DiscoveryExecutionService.execute of one child.           *)

\* The event loop runs c: nobody else is in a stretch without an await.
CPU(c) == alive /\ \A d \in Own : cpc[d] \in Synchronous => d = c
Attached == pc = "gather"      \* the parent's session is still open
Move(c, p, q) ==
    /\ CPU(c) /\ cpc[c] = p
    /\ (Attached \/ pc = "done")
    /\ cpc' = [cpc EXCEPT ![c] = q]
    /\ UNCHANGED <<alive, stopping, pc, lost, parent, run, busy, rival>>

\* A rollback expires every copy in the session.
RolledBack == stale' = {}

\* The check before the semaphore.
ChildEnter(c) ==
    /\ Move(c, "new", IF Cancelled THEN "cancel" ELSE "wait")
    /\ UNCHANGED <<child, good, stale, faults>>

\* A slot is free: the check again, then the result is "discovering".
ChildAcquire(c) ==
    /\ Cardinality({d \in Own : cpc[d] \in Holding}) < Concurrency
    /\ Move(c, "wait", IF Cancelled THEN "cancel" ELSE "claim")
    /\ child' = IF Cancelled \/ ~ Attached THEN child
                ELSE [child EXCEPT ![c].res = "discovering"]
    /\ UNCHANGED <<good, stale, faults>>

\* _cancel_child: through the repository if the session's copy of the parent
\* shows who asked for the cancellation, else the result alone.
ChildCancelled(c) ==
    /\ Move(c, "cancel", "done")
    /\ LET marked(row) == IF Attached
              THEN [row EXCEPT !.res = "cancelled", !.verdict = "cancelled"]
              ELSE row
       IN  \/ /\ child[c].st \in {"queued", "cancelled"}
              /\ child' = [child EXCEPT ![c] =
                    marked([@ EXCEPT !.st = "cancelled", !.cancel = TRUE])]
              /\ UNCHANGED stale
           \/ /\ child[c].st \in {"succeeded", "failed"}
              /\ UNCHANGED <<child, stale>>
           \/ /\ child' = [child EXCEPT ![c] = marked(@)]
              /\ stale' = IF child[c].st \in Active THEN stale \cup {c} ELSE stale
    /\ UNCHANGED <<good, faults>>

\* The end of run_child: the outcome is copied to the result.
Tail(row) ==
    [row EXCEPT !.res = row.st,
                !.verdict = IF @ # "none" THEN @
                            ELSE IF row.st = "succeeded" THEN "discovered"
                            ELSE "no_management"]
Return(c, row) ==
    child' = [child EXCEPT ![c] = IF Attached THEN Tail(row) ELSE row]

\* claim; a child that is no longer queued is returned as it is.
ChildClaim(c) ==
    \/ /\ child[c].st = "queued"
       /\ Move(c, "claim", "collect")
       /\ child' = [child EXCEPT ![c].st = "running"]
       /\ good' = good \cup {c}
       /\ UNCHANGED <<stale, faults>>
    \/ /\ child[c].st # "queued"
       /\ Move(c, "claim", "done")
       /\ Return(c, child[c])
       /\ RolledBack
       /\ UNCHANGED <<good, faults>>

\* The device answered, and the cancellation checks say how to go on; by the
\* later ones the session already holds the discovered result.
ChildCollected(c) ==
    /\ ~ lost /\ ~ stopping
    /\ IF child[c].cancel \/ child[c].st = "cancelled" \/ Cancelled
       THEN \E q \in {"finalise", "finaliseLate"} : Move(c, "collect", q)
       ELSE Move(c, "collect", "succeed")
    /\ UNCHANGED <<child, good, stale, faults>>

\* The lease is lost or the worker stops: the job is left to its recovery.
ChildLeaseLost(c) ==
    /\ lost \/ stopping
    /\ Move(c, "collect", "done")
    /\ Return(c, child[c])
    /\ stale' = IF child[c].st = "running" THEN {c} ELSE {}
    /\ UNCHANGED <<good, faults>>

\* The collector, the parser or the database raised; or, with a profile, no
\* transport of the chain got through, which looks at no request first.
ChildRaises(c) ==
    /\ \/ Move(c, "collect", IF child[c].cancel \/ child[c].st = "cancelled"
                             THEN "finalise" ELSE "fail")
       \/ Move(c, "collect", "step7")
    /\ UNCHANGED <<child, good, stale, faults>>

\* With a profile, a chain that got through is committed with the evidence,
\* and with it the verdict, while the job still runs.  Which path a child
\* takes depends on its target's row, which users edit.
ChildNoted(c) ==
    /\ ~ lost /\ ~ stopping /\ ~ child[c].cancel /\ ~ Cancelled
    /\ child[c].st = "running"
    /\ Move(c, "collect", "process")
    /\ child' = [child EXCEPT ![c].verdict = IF Attached THEN "discovered" ELSE @]
    /\ UNCHANGED <<good, stale, faults>>

\* Without a profile: snapshot, result and status in one transaction, guarded
\* by status, owner and the absence of a cancellation request.
ChildSucceed(c) ==
    \/ /\ child[c].st = "running" /\ ~ child[c].cancel
       /\ Move(c, "succeed", "done")
       /\ \E ip \in ReportedIP[c[1]] :
             child' = [child EXCEPT ![c] =
                [@ EXCEPT !.st = "succeeded", !.res = "succeeded",
                          !.verdict = "discovered", !.addr = ip]]
       /\ UNCHANGED <<good, stale, faults>>
    \/ /\ child[c].st # "running" \/ child[c].cancel
       /\ Move(c, "succeed", IF child[c].st = "cancelled" THEN "finaliseLate"
                             ELSE IF child[c].cancel THEN "finalise" ELSE "fail")
       /\ IF child[c].st = "cancelled" THEN UNCHANGED stale ELSE RolledBack
       /\ UNCHANGED <<child, good, faults>>

\* With a profile: the same transaction, after the evidence.  A request is
\* finalised; any other error, and a refused status, fall through to step 7.
ChildProcessed(c) ==
    \/ /\ child[c].st = "running" /\ ~ child[c].cancel
       /\ Move(c, "process", "done")
       /\ \E ip \in ReportedIP[c[1]] :
             child' = [child EXCEPT ![c] =
                [@ EXCEPT !.st = "succeeded", !.res = "succeeded",
                          !.verdict = "discovered", !.addr = ip]]
       /\ UNCHANGED <<good, stale, faults>>
    \/ /\ \/ Move(c, "process", "step7")
          \/ /\ child[c].cancel \/ child[c].st = "cancelled" \/ Cancelled
             /\ Move(c, "process", "finalise")
       /\ UNCHANGED <<child, good, stale, faults>>

\* mark_failed_after_rollback of the chain's last failure; when the job has
\* ended or is asked to, it raises into the handlers of execute.
ChildStep7(c) ==
    /\ RolledBack
    /\ \/ /\ child[c].st = "running" /\ ~ child[c].cancel
          /\ Move(c, "step7", "done")
          /\ child' = [child EXCEPT ![c] =
                [@ EXCEPT !.st = "failed", !.res = "failed",
                          !.verdict = "unreachable"]]
       \/ /\ child[c].st # "running" \/ child[c].cancel
          /\ Move(c, "step7", IF child[c].cancel \/ child[c].st = "cancelled"
                              THEN "finalise" ELSE "fail")
          /\ UNCHANGED child
    /\ UNCHANGED <<good, faults>>

\* mark_failed_after_rollback; a request that came meanwhile makes it raise.
ChildFail(c) ==
    /\ RolledBack
    /\ \/ /\ child[c].st = "running" /\ ~ child[c].cancel
          /\ Move(c, "fail", "done")
          /\ child' = [child EXCEPT ![c] =
                [@ EXCEPT !.st = "failed", !.res = "failed",
                          !.verdict = "unreachable"]]
       \/ /\ child[c].st # "running" \/ child[c].cancel
          /\ Move(c, "fail", "raised")
          /\ UNCHANGED child
    /\ UNCHANGED <<good, faults>>

\* The request is copied from the parent where needed, and finalised, with
\* the verdict and the address of a device that had answered.
ChildFinalise(c) ==
    \/ /\ child[c].st \in {"running", "cancelled"}
       /\ \/ Move(c, "finalise", "tail") /\ child' = [child EXCEPT ![c] =
                [@ EXCEPT !.st = "cancelled", !.cancel = TRUE,
                          !.res = "cancelled"]]
          \/ Move(c, "finaliseLate", "tail") /\ \E ip \in ReportedIP[c[1]] \cup {c[1]} :
                child' = [child EXCEPT ![c] =
                   [@ EXCEPT !.st = "cancelled", !.cancel = TRUE,
                             !.res = "cancelled", !.verdict = "discovered",
                             !.addr = ip]]
       /\ UNCHANGED <<good, stale, faults>>
    \/ /\ child[c].st \notin {"running", "cancelled"}
       /\ Move(c, "finalise", "raised") \/ Move(c, "finaliseLate", "raised")
       /\ RolledBack
       /\ UNCHANGED <<child, good, faults>>

ChildTail(c) ==
    /\ Move(c, "tail", "done")
    /\ Return(c, child[c])
    /\ UNCHANGED <<good, stale, faults>>

\* A child whose parent's execution has ended trips over its closed session.
ChildDetached(c) ==
    /\ ~ Attached
    /\ \E p \in CPC \ {"none", "done", "raised"} : Move(c, p, "done")
    /\ UNCHANGED <<child, good, stale, faults>>

Coroutine(c) ==
    \/ ChildEnter(c) \/ ChildAcquire(c) \/ ChildCancelled(c) \/ ChildClaim(c)
    \/ ChildCollected(c) \/ ChildLeaseLost(c) \/ ChildRaises(c)
    \/ ChildNoted(c) \/ ChildSucceed(c) \/ ChildProcessed(c) \/ ChildStep7(c)
    \/ ChildFail(c) \/ ChildFinalise(c) \/ ChildTail(c) \/ ChildDetached(c)

-----------------------------------------------------------------------------
(* The heartbeat, the process, and the worker that recovers.               *)

\* Every coroutine of the worker is at an await.
Yielding == \A c \in Own : cpc[c] \notin Synchronous
Beating  == alive /\ pc = "gather" /\ ~ lost /\ ~ stopping /\ Yielding

\* renew_lease renews the parent and the running children together, and is
\* content with any of them.
Renewed == {c \in Children : child[c].st = "running"}
           \cup (IF parent.st = "running" THEN {Root} ELSE {})

Heartbeat ==
    /\ Beating
    /\ good' = good \cup Renewed
    /\ lost' = (Renewed = {})
    /\ UNCHANGED <<table, busy, alive, stopping, pc, cpc, stale, rival, faults>>

HeartbeatError ==
    /\ Beating
    /\ lost' = TRUE
    /\ Abandon /\ Fault
    /\ UNCHANGED <<good, busy, alive, stopping, pc, cpc, stale, rival>>

Stop ==
    /\ alive /\ ~ stopping /\ Fault
    /\ stopping' = TRUE
    /\ UNCHANGED <<table, good, busy, alive, pc, cpc, lost, stale, rival>>

Crash ==
    /\ alive /\ pc # "idle" /\ Fault
    /\ alive' = FALSE
    /\ UNCHANGED <<table, good, busy, stopping, pc, cpc, lost, stale, rival>>

\* The clock passes lease_expires_at of every row, because nobody renews it
\* any more (the worker is dead or done, or waits for devices without a
\* heartbeat) or because it is stuck without an await, in the operating system
\* or in the creation of a large scope's children, for longer than the lease.
Unrenewed ==
    \/ ~ alive \/ pc = "done"
    \/ pc = "gather" /\ (lost \/ stopping) /\ Yielding

LeaseExpires ==
    /\ good # {}
    /\ \/ Unrenewed /\ NoFault
       \/ CanStall /\ ~ Unrenewed /\ Fault
    /\ good' = {}
    /\ UNCHANGED <<table, busy, worker, rival>>

\* Mutant: recovery leaves cancelled parents to their worker.
RecoverReadUncancelled ==
    /\ rival = NULL
    /\ parent.st = "running" /\ ~ parent.cancel /\ Root \notin good
    /\ rival' = ReadTree
    /\ UNCHANGED <<table, good, busy, worker, faults>>

\* Another worker's poll: only root jobs are listed.
RecoverRead ==
    /\ rival = NULL
    /\ parent.st = "running" /\ Root \notin good
    /\ rival' = ReadTree
    /\ UNCHANGED <<table, good, busy, worker, faults>>

RecoverApply ==
    /\ rival # NULL
    /\ \/ EndTree(rival)
       \/ ~ TreeApplies(rival) /\ UNCHANGED table
       \/ ~ CanReconcile(TreeRows(rival)) /\ UNCHANGED table
    /\ rival' = NULL
    /\ UNCHANGED <<good, busy, worker, faults>>

Operator ==
    \/ Submit \/ CancelParent \/ ResolveParent
    \/ \E c \in Children : CancelChild(c) \/ ResolveChild(c)

Environment ==
    \/ \E a \in Addresses : ForeignStarts(a) \/ ForeignEnds(a)
    \/ Heartbeat \/ HeartbeatError \/ Stop \/ Crash \/ LeaseExpires

Next ==
    \/ Operator \/ Environment \/ Parent \/ ExecuteError
    \/ \E c \in Own : Coroutine(c)
    \/ RecoverRead \/ RecoverApply

Spec == Init /\ [][Next]_vars

-----------------------------------------------------------------------------
(* Correctness.                                                            *)

\* A parent reported as succeeded has a child that succeeded: neither the
\* recovery of the tree nor a late cancellation leaves FinishState with a
\* success that has been taken back (execute_discovery_job).
SuccessIsBacked ==
    parent.st = "succeeded" => \E c \in Children : child[c].st = "succeeded"

(* What this rests on. *)

\* Until the parent has ended, a result that says so belongs to a child that
\* succeeded.
ResultsAreTrue ==
    parent.st \notin Terminal =>
        \A c \in Children : child[c].res = "succeeded" => child[c].st = "succeeded"

\* A child whose copy in the session is stale has returned without success, so
\* that the closing reconciliation does not overwrite one.
StaleIsOver ==
    /\ stale \subseteq Own
    /\ \A c \in stale : cpc[c] = "done" /\ child[c].st # "succeeded"
    /\ pc \in {"idle", "begin", "create"} => stale = {}

SuccessIsLate == parent.st = "succeeded" => pc \in {"close", "done"}

\* Only children whose rows exist are executed.
StartedExist == \A c \in Own : cpc[c] # "none" => child[c].st # "absent"

\* What the tables promise in every state, and what the promise rests on.
Inv == /\ TypeOK /\ SuccessIsBacked
       /\ ResultsAreTrue /\ StaleIsOver /\ SuccessIsLate /\ StartedExist

\* The parent's row goes through the statuses of JobLifecycle only, and a
\* terminal status stays, whichever of the worker, its error handler, its
\* heartbeat, the recovering worker and the operators writes last.
ParentJob == INSTANCE JobLifecycle
                WITH Jobs <- {Root}, status <- [r \in {Root} |-> parent.st]
ParentContract == ParentJob!Spec

KeepsDiscoveries ==
    \A c \in Children :
        child[c].verdict = "discovered" /\ child[c].res \in Terminal
            => child'[c].verdict = "discovered"

\* No result that is complete and says a device was discovered is ever taken
\* back: not by a reconciliation, a cancellation, the recovery of the tree, nor
\* by a coroutine that goes on after any of them (reconcile_parent_job,
\* _reconcile_owned_tree, _cancel_child).  A verdict that ChildNoted commits
\* while the job runs is not complete: an error in what follows, a crash or a
\* cancellation of the range does take it back.
DiscoveriesAreKept == [][KeepsDiscoveries]_vars

Settled ==
    /\ \A c \in Exists(child) :
          child[c].st \in Terminal /\ child[c].verdict # "none"
    /\ \A a \in Addresses : \E c \in Exists(child) : c[1] = a
    /\ run = RunStatus(child)

\* As long as no worker is frozen past its lease and nobody cancels single
\* children, a parent that has ended has a complete tree: every address has a
\* child, every child has ended with a verdict, and the report agrees with the
\* results it counts, whoever wrote one last (reconcile_parent_job,
\* _finalize_parent_run).
EndedTreeIsSettled == parent.st \in Terminal => Settled

\* The event loop runs every coroutine that can, processes and the database
\* recover, the second worker keeps polling, clocks advance.  Operators and
\* faults owe nothing.
Fairness ==
    /\ WF_vars(Parent)
    /\ \A c \in Own : WF_vars(Coroutine(c))
    /\ WF_vars(RecoverRead) /\ WF_vars(RecoverApply)
    /\ WF_vars(LeaseExpires /\ NoFault)
    /\ \A a \in Addresses : WF_vars(ForeignEnds(a))

FairSpec == Spec /\ Fairness

\* In the end nothing runs any more: the parent and every child that is ever
\* created reach a terminal status, whatever happens to the worker that runs
\* them (recover_expired_jobs).
EverythingEnds ==
    <>[](parent.st # "running" /\ ActiveIn(child) = {})

=============================================================================
