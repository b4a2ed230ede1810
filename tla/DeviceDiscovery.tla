-------------------------- MODULE DeviceDiscovery --------------------------
(***************************************************************************)
(* The execution of one single-device discovery job, with the rows it      *)
(* writes: DiscoveryExecutionService.execute and _execute_multi_transport  *)
(* (discovery/execution.py), the fallback between management transports    *)
(* (discovery/multi_transport.py), the transport policy                    *)
(* (discovery/transport_policy.py) and the classification of results       *)
(* (discovery/result_states.py).                                           *)
(*                                                                         *)
(* LeasedJobs follows the job row through claims, leases and recovery;     *)
(* here the job is already claimed, and what matters is which rows are     *)
(* committed.  "db" holds the committed rows, "view" the same rows as the  *)
(* execution's session sees them, with what it has flushed and not yet     *)
(* committed: a commit copies view to db, a rollback db to view.  Other    *)
(* sessions (operators, recovery) act between any two steps.  An action is *)
(* the code between two statements at which another session's commit can   *)
(* make a difference.                                                      *)
(***************************************************************************)
EXTENDS Naturals, SequencesExt

CONSTANTS
    Targets,     \* targets operators create
    Profiles,    \* credential profiles that exist: [types, ctype]
    NULL,        \* None
    MaxPatches,  \* bound: updates of the target before its job runs
    MaxFaults    \* bound: database errors

Transports == {"ssh", "telnet", "https", "http", "snmp"}
Insecure   == {"telnet", "http"}

\* CREDENTIAL_TYPE_COMPATIBILITY: which transports a credential serves.
Compatibility ==
    [ssh_password    |-> {"ssh", "telnet", "http", "https"},
     ssh_key         |-> {"ssh"},
     telnet_password |-> {"telnet"},
     snmp_v2c        |-> {"snmp"},
     snmp_v3         |-> {"snmp"},
     http_basic      |-> {"http", "https"},
     http_token      |-> {"http", "https"}]

\* CredentialProfileRecord: the ordered transport types and the credential's
\* type, which is optional.
Profile == [types : Seq(Transports), ctype : DOMAIN Compatibility \cup {NULL}]

\* DiscoveryTargetRecord, as far as the choice of a transport depends on it.
Target == [profile   : Profiles \cup {NULL},
           fallback  : Seq(Transports),
           preferred : Transports \cup {NULL},
           telnet    : BOOLEAN,      \* allow_insecure_telnet
           http      : BOOLEAN,      \* allow_insecure_http
           enabled   : BOOLEAN]

\* DiscoveryTargetRequest and create_target: insecure transports need their
\* flag, and the profile has to support what the target asks for.
CreateTargetAccepts(t) ==
    LET asked == ToSet(t.fallback) \cup {t.preferred}
    IN  /\ "telnet" \in asked => t.telnet
        /\ "http" \in asked => t.http
        /\ t.profile # NULL =>
             LET types == ToSet(t.profile.types)
             IN  /\ (IF t.preferred = NULL THEN "ssh" ELSE t.preferred) \in types
                 /\ ToSet(t.fallback) \subseteq types

ASSUME ProfilesAssumption == Profiles \subseteq Profile
ASSUME TargetsAssumption ==
    \A t \in Targets : t \in Target /\ CreateTargetAccepts(t)
ASSUME BoundAssumption == MaxPatches \in Nat /\ MaxFaults \in Nat

-----------------------------------------------------------------------------
(* Transport policy                                                        *)

\* The members of s that are in S, in their order.  (Applying a function makes
\* TLC evaluate s once, also where it evaluates ENABLED.)
Keep(s, S) ==
    [u \in {s} |->
        FlattenSeq([i \in 1 .. Len(u) |-> IF u[i] \in S THEN <<u[i]>> ELSE <<>>])][s]

\* s without what it has named before.
Dedup(s) ==
    [u \in {s} |->
        FlattenSeq([i \in 1 .. Len(u) |->
            IF \E j \in 1 .. i - 1 : u[j] = u[i] THEN <<>> ELSE <<u[i]>>])][s]

\* Telnet and HTTP need the target's explicit permission.
Permitted(t) ==
    {x \in Transports : (x = "telnet" => t.telnet) /\ (x = "http" => t.http)}

\* MultiTransportPolicy.from_credential_profile: the permitted types in the
\* profile's order; SSH when the profile names none.
FromCredentialProfile(t) ==
    LET types == IF t.profile.types = <<>> THEN <<"ssh">> ELSE t.profile.types
    IN  Dedup(Keep(types, Permitted(t)))

\* What a fallback of the target may be: the profile has to support it.
Supported(t) == IF t.profile = NULL THEN Transports ELSE ToSet(t.profile.types)

\* The profile's transports, SSH if it gives none.
OwnTransports(t) ==
    IF t.profile = NULL \/ FromCredentialProfile(t) = <<>>
    THEN <<"ssh">> ELSE FromCredentialProfile(t)

\* Mutant: the fallbacks of the target are appended without their flags.
ResolveWithoutFlags(t) == Dedup(OwnTransports(t) \o Keep(t.fallback, Supported(t)))

\* _resolve_transport_policy: the profile's transports, then the fallbacks of
\* the target that the profile supports, the preferred one first.  The last
\* filter asks for the Telnet flag of both insecure transports.
ResolveTransportPolicy(t) ==
    LET extra == Keep(t.fallback, Supported(t) \cap Permitted(t))
        names == Dedup(OwnTransports(t) \o extra)
        first == IF t.preferred \in ToSet(names)
                 THEN <<t.preferred>> \o Keep(names, Transports \ {t.preferred})
                 ELSE names
    IN  Keep(first, IF t.telnet THEN Transports ELSE Transports \ Insecure)

\* Without a credential type every transport is tried.
CredentialCompatible(t) ==
    IF t.profile # NULL /\ t.profile.ctype # NULL
    THEN Compatibility[t.profile.ctype] ELSE Transports

\* _build_transport_configs: a collector is found for every transport that
\* the credential serves.
BuildTransportConfigs(t) ==
    Keep(ResolveTransportPolicy(t), CredentialCompatible(t))
UnsupportedCredentials(t) ==
    Keep(ResolveTransportPolicy(t), Transports \ CredentialCompatible(t))

-----------------------------------------------------------------------------
(* Failure codes and result states                                         *)

\* What _classify_exception makes of an exception; a collector that returns
\* nothing useful, or that notices a cancellation or a lost lease in the
\* middle of collecting, counts as DISCOVERY_FAILED.
AttemptFailures == {"CREDENTIAL_RESOLUTION_FAILED", "AUTHENTICATION_FAILED",
                    "TRANSPORT_UNAVAILABLE", "CONNECTION_REFUSED",
                    "CONNECTION_TIMEOUT", "CONNECTION_FAILED",
                    "DISCOVERY_FAILED"}
\* What _failure_code makes of an exception outside the fallback chain.
ExecutionFailures == (AttemptFailures \ {"CONNECTION_FAILED"})
                     \cup {"DISCOVERY_TIMEOUT"}

ResultState == {"unreachable", "reachable_no_management",
                "authentication_failed", "discovered", "unverified"}

\* classify_transport_failure
ClassifyTransportFailure(code) ==
    [reachable   |-> code \notin {"CONNECTION_TIMEOUT", "CONNECTION_FAILED",
                                  "TRANSPORT_UNAVAILABLE"},
     auth        |-> code = "AUTHENTICATION_FAILED",
     unavailable |-> code = "TRANSPORT_UNAVAILABLE"]

\* Mutant: the last attempt alone decides what is known of the host.
LastFailureDecides(tried) ==
    LET x == ClassifyTransportFailure(tried[Len(tried)].code)
    IN  IF tried[Len(tried)].ok THEN "discovered"
        ELSE IF x.auth          THEN "authentication_failed"
        ELSE IF x.unavailable   THEN "unverified"
        ELSE IF x.reachable     THEN "reachable_no_management"
        ELSE "unreachable"

\* DiscoveryResultState.from_failure_and_success over the indicators that
\* discover_with_fallback gathers from all attempts.
FromFailureAndSuccess(tried) ==
    LET hit(x) == \E i \in DOMAIN tried :
                      ~ tried[i].ok /\ ClassifyTransportFailure(tried[i].code)[x]
    IN  IF \E i \in DOMAIN tried : tried[i].ok THEN "discovered"
        ELSE IF hit("auth")        THEN "authentication_failed"
        ELSE IF hit("unavailable") THEN "unverified"
        ELSE IF hit("reachable")   THEN "reachable_no_management"
        ELSE "unreachable"

\* The code of the last failed attempt, rewritten by the result state (step 7
\* of _execute_multi_transport).
FailureCode(tried, state) ==
    LET failed == {i \in DOMAIN tried : ~ tried[i].ok}
        last   == IF failed = {} THEN "DISCOVERY_FAILED" ELSE tried[Max(failed)].code
    IN  CASE state = "unreachable"           -> "CONNECTION_FAILED"
          [] state = "authentication_failed" -> "AUTHENTICATION_FAILED"
          [] state = "reachable_no_management" /\ last # "DISCOVERY_FAILED"
                                             -> "TRANSPORT_UNAVAILABLE"
          [] OTHER                           -> last

\* The result state that _ensure_device_result_for_failure derives from a code.
StateOfCode(code) ==
    CASE code \in {"CONNECTION_FAILED", "CONNECTION_TIMEOUT",
                   "DISCOVERY_TIMEOUT"} -> "unreachable"
      [] code = "AUTHENTICATION_FAILED" -> "authentication_failed"
      [] OTHER                          -> "reachable_no_management"

-----------------------------------------------------------------------------
VARIABLES
    target,     \* the target's row
    job,        \* the job's row, and who ended it
    db, view,   \* committed rows, and the session's
    pc,         \* where the execution is
    multi,      \* whether it takes the multi-transport path
    chain,      \* transports still to be tried
    tried,      \* MultiTransportDiscoveryResult.attempts
    state,      \* MultiTransportDiscoveryResult.result_state
    code,       \* failure code of the exception being handled
    lost,       \* the heartbeat has given the job up (heartbeat_lease_lost)
    stopping,   \* the worker is being stopped
    broken,     \* a flush failed: the session wants a rollback
    patches, faults

vars == <<target, job, db, view, pc, multi, chain, tried, state, code, lost,
          broken, stopping, patches, faults>>

\* Rows of one job: device result, attempts, run record, evidence, snapshot.
Result  == [st : {"running", "succeeded", "failed", "cancelled"},
            result : ResultState \cup {NULL}, transport : Transports \cup {NULL}]
Attempt == [transport : Transports \cup {NULL}, order : Nat,
            res : {"running", "success", "failed", "cancelled"}]
Rows    == [dr : Result \cup {NULL}, att : Seq(Attempt),
            run : {"started", "succeeded", "failed"},
            evidence : BOOLEAN, snapshot : BOOLEAN]
NoRows  == [dr |-> NULL, att |-> <<>>, run |-> "started",
            evidence |-> FALSE, snapshot |-> FALSE]

\* The job's row, and a finished attempt (TransportAttemptResult).
JobRow  == [st : {"running", "succeeded", "failed", "cancelled", "gone"},
            cancel : BOOLEAN, by : {NULL, "execution", "other"}]
Outcome == [transport : Transports, ok : BOOLEAN, code : AttemptFailures \cup {NULL}]

ExecutionCodes == ExecutionFailures \cup {NULL, "TARGET_DISABLED",
                    "UNSUPPORTED_CAPABILITY", "UNSUPPORTED_PLATFORM"}

ASSUME NullAssumption ==
    NULL \notin Result \cup ResultState \cup Transports \cup {"execution", "other"}

PCs == {"queued", "begin", "plan", "single", "try", "collect", "evidence",
        "process", "store", "end", "fail", "cancel", "leaseLost", "except",
        "exceptFail", "raised", "finally", "done", "left"}

TypeOK ==
    /\ target \in Target
    /\ job \in JobRow
    /\ db \in Rows /\ view \in Rows
    /\ pc \in PCs
    /\ {multi, lost, broken, stopping} \subseteq BOOLEAN
    /\ chain \in Seq(Transports)
    /\ tried \in Seq(Outcome)
    /\ state \in ResultState \cup {NULL}
    /\ code \in ExecutionCodes
    /\ patches \in 0 .. MaxPatches /\ faults \in 0 .. MaxFaults

Init ==
    /\ target \in Targets
    /\ job = [st |-> "running", cancel |-> FALSE, by |-> NULL]
    /\ db = NoRows /\ view = NoRows
    /\ pc = "queued"
    /\ multi = FALSE /\ lost = FALSE /\ broken = FALSE /\ stopping = FALSE
    /\ chain = <<>> /\ tried = <<>>
    /\ state = NULL /\ code = NULL
    /\ patches = 0 /\ faults = 0

-----------------------------------------------------------------------------
(* The session and the job row                                             *)

Commit(rows) == db' = rows /\ view' = rows
Rollback     == db' = db /\ view' = db
Pending(rows) == db' = db /\ view' = rows
Goto(p) == pc' = p

\* cancellation_requested: a request, or the state itself.
CancelSeen == job.cancel \/ job.st = "cancelled"

\* _raise_if_cancelled: where the execution goes from a check.
Checked(p) == IF lost \/ stopping THEN "leaseLost" ELSE IF CancelSeen THEN "cancel" ELSE p

\* transition with require_no_cancellation applies to a running job only.
Endable == job.st = "running" /\ ~ job.cancel
EndJob(st) == job' = [job EXCEPT !.st = st, !.by = "execution"]

\* finalise_cancellation: nothing to do for a cancelled job; it raises when
\* the job has ended otherwise.
Finalisable == job.st \in {"running", "cancelled"}
Finalise == IF job.st = "running" THEN EndJob("cancelled") ELSE UNCHANGED job

\* _reconcile_owned_tree, which may have read the row before the cancellation
\* was requested.
Reconcile ==
    \E st \in {"failed", "cancelled"} :
        /\ st = "cancelled" => job.cancel
        /\ job' = [job EXCEPT !.st = st, !.by = "other"]

Local == <<multi, chain, tried, state, code, lost, broken>>
World == <<target, stopping, patches, faults>>

-----------------------------------------------------------------------------
(* Operators and other processes                                           *)

\* update_target changes single fields; it validates a new profile against
\* the preferred transport and nothing else.
PatchTarget ==
    /\ pc = "queued" /\ patches < MaxPatches
    /\ patches' = patches + 1
    /\ \E t \in Targets :
          \/ target' = [target EXCEPT !.enabled = ~ @]
          \/ target' = [target EXCEPT !.preferred = t.preferred]
          \/ target' = [target EXCEPT !.fallback = t.fallback]
          \/ target' = [target EXCEPT !.telnet = t.telnet]
          \/ target' = [target EXCEPT !.http = t.http]
          \/ target' = [target EXCEPT !.profile = NULL]
          \/ /\ t.profile # NULL
             /\ (IF target.preferred = NULL THEN "ssh" ELSE target.preferred)
                  \in ToSet(t.profile.types)
             /\ target' = [target EXCEPT !.profile = t.profile]
    /\ UNCHANGED <<job, db, view, pc, Local, stopping, faults>>

\* The worker has claimed the job and executes it if it is still its own.
Start ==
    /\ pc = "queued" /\ Goto(IF job.st = "running" THEN "begin" ELSE "finally")
    /\ UNCHANGED <<job, db, view, Local, World>>

RequestCancellation ==
    /\ job.st = "running" /\ ~ job.cancel
    /\ job' = [job EXCEPT !.cancel = TRUE]
    /\ UNCHANGED <<db, view, pc, Local, World>>

\* Recovery of an expired lease, or a forced cancellation.
TakenAway ==
    /\ job.st = "running" /\ Reconcile
    /\ UNCHANGED <<db, view, pc, Local, World>>

\* The lease is not renewed because the job is not running any more, or because
\* renewing it raises: then the heartbeat abandons the job, if it can.
HeartbeatLost ==
    /\ ~ lost /\ ~ stopping /\ pc \notin {"queued", "done", "left"}
    /\ lost' = TRUE
    /\ \/ job.st # "running" /\ UNCHANGED <<job, faults>>
       \/ job.st = "running" /\ faults < MaxFaults /\ faults' = faults + 1 /\ Reconcile
       \/ job.st = "running" /\ faults + 1 < MaxFaults /\ faults' = faults + 2
          /\ UNCHANGED job
    /\ UNCHANGED <<db, view, pc, multi, chain, tried, state, code, broken, target,
                   stopping, patches>>

\* The checks of the execution take a stop for a lost lease, and the heartbeat
\* ends.
StopWorker ==
    /\ ~ stopping /\ pc \notin {"done", "left"}
    /\ stopping' = TRUE
    /\ UNCHANGED <<job, db, view, pc, Local, target, patches, faults>>

\* delete_target removes the target with the rows of its jobs, running ones
\* too.  Uncommitted rows that refer to the job make it wait and then fail.
DeleteTarget ==
    /\ job.st # "gone" /\ view = db
    /\ job' = [st |-> "gone", cancel |-> FALSE, by |-> "other"]
    /\ Commit([NoRows EXCEPT !.run = db.run, !.snapshot = db.snapshot])
    /\ UNCHANGED <<pc, Local, World>>

-----------------------------------------------------------------------------
(* execute: the common beginning                                           *)

Begin ==
    /\ pc = "begin"
    /\ multi' = (target.profile # NULL \/ target.fallback # <<>>)
    /\ code' = IF target.enabled THEN NULL ELSE "TARGET_DISABLED"
    /\ IF job.st = "gone" THEN Goto("raised")
       ELSE Goto(Checked(IF ~ target.enabled THEN "except"
                         ELSE IF multi' THEN "plan" ELSE "single"))
    /\ UNCHANGED <<job, db, view, chain, tried, state, lost, broken, World>>

-----------------------------------------------------------------------------
(* _execute_multi_transport                                                *)

NewResult == [st |-> "running", result |-> NULL, transport |-> NULL]

Planned(t) == [view EXCEPT
    !.dr = IF @ = NULL THEN NewResult ELSE @,
    !.att = @ \o [i \in DOMAIN UnsupportedCredentials(t) |->
                    [transport |-> UnsupportedCredentials(t)[i], order |-> 0,
                     res |-> "failed"]]]

\* Policy, device result and configurations.  Transports the credential
\* cannot serve are recorded with order 0.
PlanTransports ==
    /\ pc = "plan"
    /\ chain' = BuildTransportConfigs(target)
    /\ IF job.st = "gone"                       \* foreign key
       THEN Rollback /\ Goto("raised") /\ UNCHANGED code
       ELSE IF chain' = <<>>
       THEN /\ Commit(Planned(target)) /\ Goto("except")
            /\ code' = "UNSUPPORTED_CAPABILITY"
       ELSE Pending(Planned(target)) /\ Goto("try") /\ UNCHANGED code
    /\ UNCHANGED <<job, multi, tried, state, lost, broken, World>>

Succeeded == tried # <<>> /\ tried[Len(tried)].ok

\* One turn of discover_with_fallback: the attempt is recorded, executed and
\* finished.  The first success ends the loop.
TryTransport ==
    /\ pc = "try" /\ chain # <<>> /\ ~ Succeeded
    /\ \E ok \in BOOLEAN, c \in AttemptFailures :
          /\ tried' = Append(tried, [transport |-> Head(chain), ok |-> ok,
                                     code |-> IF ok THEN NULL ELSE c])
          /\ Pending(IF broken THEN view ELSE [view EXCEPT !.att = Append(@,
                [transport |-> Head(chain), order |-> Len(tried) + 1,
                 res |-> IF ok THEN "success" ELSE "failed"])])
    /\ chain' = Tail(chain)
    /\ UNCHANGED <<job, pc, multi, state, code, lost, broken, World>>

\* Recording fails: the error is swallowed, the session refuses everything
\* until it is rolled back.
RecordingFails ==
    /\ pc = "try" /\ ~ broken /\ faults < MaxFaults
    /\ faults' = faults + 1 /\ broken' = TRUE
    /\ Rollback
    /\ UNCHANGED <<job, pc, multi, chain, tried, state, code, lost, target,
                   stopping, patches>>

\* Mutant: nothing is committed before the outcome is known.
KeepAttemptsPending ==
    /\ pc = "try" /\ (Succeeded \/ chain = <<>>)
    /\ Pending(view)
    /\ state' = FromFailureAndSuccess(tried)
    /\ Goto(IF Succeeded THEN "evidence" ELSE "fail")
    /\ UNCHANGED <<job, multi, chain, tried, code, lost, broken, World>>

\* The attempts are committed before the job's outcome is.
StoreAttempts ==
    /\ pc = "try" /\ (Succeeded \/ chain = <<>>)
    /\ IF broken
       THEN Rollback /\ Goto("raised") /\ UNCHANGED state
       ELSE /\ Commit(view)
            /\ state' = FromFailureAndSuccess(tried)
            /\ Goto(IF Succeeded THEN "evidence" ELSE "fail")
    /\ UNCHANGED <<job, multi, chain, tried, code, lost, broken, World>>

Selected == IF multi THEN IF Succeeded THEN tried[Len(tried)].transport ELSE NULL
                     ELSE target.preferred

\* Step 7: mark_failed_after_rollback drops what is pending, including the
\* classification of step 5; then run, job and result are written together.
\* An exception here continues in the handlers of execute.
FailMulti ==
    /\ pc = "fail"
    /\ IF Endable
       THEN /\ EndJob("failed")
            /\ Commit([db EXCEPT
                 !.run = IF state = "discovered" THEN "succeeded" ELSE "failed",
                 !.dr = [st |-> "failed", transport |-> Selected,
                         result |-> StateOfCode(FailureCode(tried, state))]])
            /\ Goto("done") /\ UNCHANGED code
       ELSE /\ Rollback /\ Goto("except") /\ code' = "DISCOVERY_FAILED"
            /\ UNCHANGED job
    /\ UNCHANGED <<multi, chain, tried, state, lost, broken, World>>

-----------------------------------------------------------------------------
(* The single-transport path                                               *)

\* _resolve_collector and _start_transport_attempt.
StartSingle ==
    /\ pc = "single"
    /\ \/ /\ code' \in {"UNSUPPORTED_CAPABILITY", "UNSUPPORTED_PLATFORM"}
          /\ Goto("except") /\ Pending(view)
       \/ /\ job.st = "gone"
          /\ Rollback /\ Goto("raised") /\ UNCHANGED code
       \/ /\ job.st # "gone"
          /\ Pending([view EXCEPT
                !.dr = NewResult,
                !.att = <<[transport |-> target.preferred, order |-> 1,
                           res |-> "running"]>>])
          /\ Goto(Checked("collect")) /\ UNCHANGED code
    /\ UNCHANGED <<job, multi, chain, tried, state, lost, broken, World>>

\* health_check and collect, with a check between them.
Collect ==
    /\ pc = "collect"
    /\ \/ /\ view' = [view EXCEPT !.att[1].res = "success"]
          /\ Goto("evidence") /\ UNCHANGED code
       \/ /\ code' \in ExecutionFailures
          /\ Goto("except") /\ UNCHANGED view
       \/ /\ Checked("collect") # "collect"
          /\ Goto(Checked("collect")) /\ UNCHANGED <<view, code>>
    /\ UNCHANGED <<job, db, multi, chain, tried, state, lost, broken, World>>

-----------------------------------------------------------------------------
(* Both paths: evidence, processing, snapshot, the final state             *)

Raise == Goto(IF multi THEN "fail" ELSE "except")
         /\ code' = IF multi THEN code ELSE "DISCOVERY_FAILED"

\* The multi-transport path notes the classification in the session first.
Noted == IF multi THEN [view EXCEPT !.dr.result = state,
                                    !.dr.transport = Selected] ELSE view

\* record_selection refuses a job that is not running.  The evidence is
\* committed whatever becomes of its processing.
StoreEvidence ==
    /\ pc = "evidence"
    /\ IF job.st = "gone" THEN Rollback /\ Raise
       ELSE IF job.st # "running" THEN Pending(Noted) /\ Raise
       ELSE IF Checked("process") = "process"
       THEN /\ Commit([Noted EXCEPT !.evidence = TRUE])
            /\ Goto("process") /\ UNCHANGED code
       ELSE Pending(Noted) /\ Goto(Checked("process")) /\ UNCHANGED code
    /\ UNCHANGED <<job, multi, chain, tried, state, lost, broken, World>>

\* process_collector_payload parses and normalises, or raises.
Process ==
    /\ pc = "process"
    /\ \/ Goto(Checked("store")) /\ UNCHANGED code
       \/ Checked("store") = "store" /\ Raise
    /\ UNCHANGED <<job, db, view, multi, chain, tried, state, lost, broken, World>>

\* The snapshot and the device result are added to the session; then the
\* single-transport path checks once more.
Store ==
    /\ pc = "store"
    /\ IF job.st = "gone" THEN Rollback /\ Raise
       ELSE /\ Goto(IF multi THEN "end" ELSE Checked("end")) /\ UNCHANGED code
            /\ Pending([view EXCEPT !.snapshot = TRUE,
                 !.dr = [st |-> "succeeded", result |-> "discovered",
                         transport |-> Selected]])
    /\ UNCHANGED <<job, multi, chain, tried, state, lost, broken, World>>

\* Mutant: the job ends in a transaction of its own, before the rest.
EndFirst ==
    /\ pc = "end"
    /\ IF job.st = "running"
       THEN EndJob("succeeded") /\ Rollback /\ Goto("done") /\ UNCHANGED code
       ELSE Rollback /\ Raise /\ UNCHANGED job
    /\ UNCHANGED <<multi, chain, tried, state, lost, broken, World>>

\* transition to SUCCEEDED, committed with snapshot, result and, on the
\* multi-transport path, the run.  The refused UPDATE rolls back; a job that
\* has already ended raises before it, and the rows stay in the session.
End ==
    /\ pc = "end"
    /\ IF Endable
       THEN /\ EndJob("succeeded")
            /\ Commit([view EXCEPT !.run = IF multi THEN "succeeded" ELSE @])
            /\ Goto("done") /\ UNCHANGED code
       ELSE /\ IF job.st = "running" THEN Rollback ELSE Pending(view)
            /\ Raise /\ UNCHANGED job
    /\ UNCHANGED <<multi, chain, tried, state, lost, broken, World>>

-----------------------------------------------------------------------------
(* The handlers of execute                                                 *)

\* The attempt row of the single-transport path is finished as cancelled.
AttemptCancelled(rows) ==
    IF multi \/ rows.att = <<>> THEN rows
    ELSE [rows EXCEPT !.att[1].res = "cancelled"]

\* except DiscoveryCancellationRequestedError
HandleCancellation ==
    /\ pc = "cancel"
    /\ IF Finalisable
       THEN /\ Finalise /\ Goto("done")
            /\ Commit([AttemptCancelled(view) EXCEPT
                 !.dr = IF @ = NULL
                        THEN [st |-> "cancelled", result |-> "unreachable",
                              transport |-> NULL]
                        ELSE [@ EXCEPT !.st = "cancelled"]])
       ELSE Rollback /\ Goto("raised") /\ UNCHANGED job
    /\ UNCHANGED <<Local, World>>

\* except DiscoveryLeaseLostError
HandleLeaseLost ==
    /\ pc = "leaseLost"
    /\ Rollback /\ Goto("finally")
    /\ UNCHANGED <<job, Local, World>>

\* except Exception, while a cancellation is requested: no device result is
\* written for the cancelled job.
HandleExceptionCancelled ==
    /\ pc = "except" /\ CancelSeen
    /\ IF Finalisable
       THEN Finalise /\ Commit(AttemptCancelled(view)) /\ Goto("done")
       ELSE Rollback /\ Goto("raised") /\ UNCHANGED job
    /\ UNCHANGED <<Local, World>>

HandleException ==
    /\ pc = "except" /\ ~ CancelSeen
    /\ Goto("exceptFail")
    /\ UNCHANGED <<job, db, view, Local, World>>

\* ... and otherwise: rollback, which also drops the attempt row of the
\* single-transport path, then job and result fail together.
FailAfterException ==
    /\ pc = "exceptFail"
    /\ IF Endable
       THEN /\ EndJob("failed")
            /\ Commit([db EXCEPT !.dr = [st |-> "failed",
                          transport |-> target.preferred,
                          result |-> StateOfCode(code)]])
            /\ Goto("done")
       ELSE Rollback /\ Goto("raised") /\ UNCHANGED job
    /\ UNCHANGED <<Local, World>>

-----------------------------------------------------------------------------
(* The worker, and errors of the database                                  *)

\* Mutant: the worker logs the exception and leaves the job to itself.
WorkerOnlyLogs ==
    /\ pc = "raised"
    /\ Rollback /\ Goto("finally")
    /\ UNCHANGED <<job, Local, World>>

\* execute raised: the worker fails the job it still owns, in a session of
\* its own (_fail_owned_job), and writes no device result.
WorkerFails ==
    /\ pc = "raised"
    /\ IF job.st = "running" /\ ~ lost
       THEN job' = [job EXCEPT !.st = "failed", !.by = "other"]
       ELSE UNCHANGED job
    /\ Rollback /\ Goto("finally")
    /\ UNCHANGED <<Local, World>>

\* _abandon_if_owned, after the heartbeat has been ended.  An execution that
\* has ended its job itself leaves nothing to abandon.
WorkerAbandons ==
    /\ pc = "finally"
    /\ IF job.st = "running" /\ lost THEN Reconcile ELSE UNCHANGED job
    /\ Goto("done")
    /\ UNCHANGED <<db, view, Local, World>>

\* Both end with their error logged, and the job is left to recovery.
WorkerCannot ==
    /\ \/ pc = "raised" /\ ~ lost
       \/ pc = "finally" /\ lost
    /\ Rollback /\ Goto("left")
    /\ UNCHANGED <<job, Local>>

\* In the try block of _execute_multi_transport, whose errors go to step 7.
InStep6 == multi /\ pc \in {"evidence", "process", "store", "end"}

\* A statement raises and leaves the session usable, or step 7 rolls back.
StatementFails ==
    /\ pc \in {"begin", "plan", "single", "collect", "evidence", "process", "store",
               "end", "fail"}
    /\ IF InStep6 THEN Goto("fail") /\ UNCHANGED code
       ELSE Goto("except") /\ code' = "DISCOVERY_FAILED"
    /\ db' = db /\ view' \in {db, IF pc = "fail" THEN db ELSE view}
    /\ UNCHANGED <<job, multi, chain, tried, state, lost, broken>>

\* A flush or a commit fails, or the connection: the handlers raise as well.
SessionFails ==
    /\ pc \notin {"try", "raised", "finally", "done", "left"} /\ ~ InStep6
    /\ Rollback /\ Goto("raised")
    /\ UNCHANGED <<job, Local>>

\* An error of the database before any step but an attempt (RecordingFails).
DatabaseFails ==
    /\ faults < MaxFaults /\ faults' = faults + 1
    /\ StatementFails \/ SessionFails \/ WorkerCannot
    /\ UNCHANGED <<target, stopping, patches>>

-----------------------------------------------------------------------------
Execution ==
    \/ Start \/ Begin \/ PlanTransports \/ TryTransport \/ StoreAttempts
    \/ FailMulti \/ StartSingle \/ Collect \/ StoreEvidence \/ Process \/ Store
    \/ End \/ HandleCancellation \/ HandleLeaseLost
    \/ HandleExceptionCancelled \/ HandleException \/ FailAfterException
    \/ WorkerFails \/ WorkerAbandons

Next ==
    \/ Execution
    \/ RecordingFails \/ DatabaseFails
    \/ PatchTarget \/ RequestCancellation \/ TakenAway \/ HeartbeatLost
    \/ StopWorker \/ DeleteTarget

Spec == Init /\ [][Next]_vars

\* Every transport call and every database statement of an execution returns.
FairSpec == Spec /\ WF_vars(Execution)

-----------------------------------------------------------------------------
(* Properties                                                              *)

Reaches(a) == a.ok \/ ClassifyTransportFailure(a.code).reachable

\* The rows of the transports the credential cannot serve, and after them every
\* transport that was tried, in order and with its outcome.
Shows(att, attempts) ==
    LET n == Len(att) - Len(attempts)
    IN  /\ n >= 0
        /\ \A i \in 1 .. n : att[i].order = 0 /\ att[i].res = "failed"
        /\ \A i \in DOMAIN attempts :
              att[n + i] = [transport |-> attempts[i].transport, order |-> i,
                            res |-> IF attempts[i].ok THEN "success" ELSE "failed"]

\* Once the attempts of a fallback chain are stored, the table shows every
\* transport that was tried, in order and with its outcome, whatever happens
\* to the job afterwards: failure, cancellation, lost lease, rollback
\* ("must survive terminal job rollback", execution.py).
AuditTrail == state # NULL /\ job.st # "gone" => Shows(db.att, tried)

\* The last attempt, over this transport, is the one that succeeded.
Selects(att, transport) ==
    \A i \in DOMAIN att :
        att[i].res = "success" <=> i = Len(att) /\ att[i].transport = transport

\* A succeeded job has evidence, a snapshot and a discovered result; on the
\* multi-transport path the stored attempts name the selected transport as
\* the last one tried and the only one that succeeded.
SuccessIsComplete ==
    job.st = "succeeded" =>
        /\ db.evidence /\ db.snapshot
        /\ db.dr.st = "succeeded" /\ db.dr.result = "discovered"
        /\ multi =>
             /\ db.run = "succeeded"
             /\ Selects(db.att, db.dr.transport)

\* What a target allows: transports permitted by its flags, served by the
\* profile's credential, and asked for by profile or target (SSH needs nobody
\* to ask).
Allowed(t) ==
    {x \in Permitted(t) \cap CredentialCompatible(t) :
        x # "ssh" => x \in ToSet(IF t.profile = NULL THEN t.fallback
                                ELSE t.profile.types)}

ChainedAreAllowed ==
    LET used == [i \in DOMAIN tried |-> tried[i].transport]
    IN  IsInjective(used) /\ ToSet(used) \subseteq Allowed(target)

SingleIsPermitted ==
    ~ multi /\ patches = 0 =>
        \A rows \in {db, view} : \A i \in DOMAIN rows.att :
            rows.att[i].transport \in Permitted(target) \cup {NULL}

\* Every transport a chain tries is allowed; none is tried twice.  A job that
\* has no chain asks no policy: it uses the preferred transport of the target
\* (CiscoTransportSelector.select), and one that lacks its permission only if
\* the target was updated after it had been validated.
TriedTransportsAreAllowed == ChainedAreAllowed /\ SingleIsPermitted

\* What the attempts say of the host, when a transport was tried with every one.
Explains(attempts, result) ==
    (\A i \in DOMAIN attempts :
        ~ attempts[i].ok /\ attempts[i].code # "TRANSPORT_UNAVAILABLE") =>
      /\ result = "unreachable" <=> \A i \in DOMAIN attempts : ~ Reaches(attempts[i])
      /\ result = "authentication_failed" <=>
            \E i \in DOMAIN attempts : attempts[i].code = "AUTHENTICATION_FAILED"

\* The result that step 7 stores for a chain that failed agrees with its
\* attempts, unless a circuit breaker kept one from being made: unreachable
\* exactly if no attempt reached the host, authentication_failed exactly if one
\* was refused for its credentials, whatever the others met (any_auth_failed,
\* multi_transport.py; result_states.py:39 and the message of step 7 speak of all
\* of them).  The classification passes through a failure code and back
\* (FailureCode, StateOfCode).  An error within step 7 leaves the run as started,
\* and the general handler its own result.
VerdictIsExplained ==
    job.st = "failed" /\ job.by = "execution" /\ db.run # "started"
      => Explains(tried, db.dr.result)

\* A job that its execution ended has a device result in the same state,
\* whichever handler ended it; cancelled jobs are the exception (an
\* exception that meets a cancellation request leaves the result as it is).
OutcomeIsReported ==
    job.by = "execution" /\ job.st \in {"succeeded", "failed"} =>
        db.dr # NULL /\ db.dr.st = job.st

\* Deleting a target removes its rows for good: an execution that was under
\* way brings none of them back.
DeletedStaysDeleted ==
    job.st = "gone" => db.dr = NULL /\ db.att = <<>> /\ ~ db.evidence

(* The rest of the inductive invariant: where the execution is.            *)

\* Nothing is written before the first attempt.
Beginning ==
    pc \in {"queued", "begin", "plan", "single"} =>
        /\ tried = <<>> /\ chain = <<>> /\ state = NULL /\ ~ broken
        /\ view = db /\ db.dr = NULL /\ db.att = <<>>

\* The rows of a chain are pending until all of it has been tried, so that the
\* target cannot be deleted meanwhile; then they are never changed.
Trying ==
    /\ pc \in {"plan", "try", "fail"} => multi
    /\ pc \in {"single", "collect"} => ~ multi
    /\ pc = "try" => state = NULL
    /\ pc = "try" /\ ~ broken =>
          job.st # "gone" /\ view.dr # NULL /\ db.dr = NULL /\ Shows(view.att, tried)
    /\ \A i \in DOMAIN tried : tried[i].ok => i = Len(tried)
    /\ ~ multi => tried = <<>> /\ state = NULL
    /\ state # NULL => state = FromFailureAndSuccess(tried) /\ view.att = db.att
    /\ pc = "fail" => state # NULL
    /\ pc \in {"evidence", "process", "store", "end"} /\ multi =>
          state # NULL /\ Succeeded
    /\ pc # "done" => db.run = "started" /\ view.run = "started"

\* The single-transport path works on its one attempt row.
Collecting ==
    pc = "collect" =>
        job.st # "gone" /\ Len(view.att) = 1 /\ view.dr # NULL /\ db.dr = NULL

\* What a success is put together from.
Completing ==
    job.st # "gone" =>
        /\ pc = "evidence" => view.dr # NULL
        /\ pc \in {"process", "store", "end"} => view.evidence
        /\ pc = "end" => view.snapshot /\ view.dr = [st |-> "succeeded",
                              result |-> "discovered", transport |-> Selected]

Ending ==
    /\ job.by = "execution" \/ job.st = "succeeded" => pc = "done"
    /\ job.st = "gone" => view = db

\* What is tried next is allowed, too, and has not been tried.
ChainIsAllowed ==
    /\ ChainedAreAllowed
    /\ IsInjective(chain) /\ ToSet(chain) \subseteq Allowed(target)
    /\ \A i \in DOMAIN tried : tried[i].transport \notin ToSet(chain)

\* What the tables promise in every state, and what the promise rests on.
Inv ==
    /\ TypeOK /\ AuditTrail /\ OutcomeIsReported /\ DeletedStaysDeleted
    /\ Beginning /\ Trying /\ Collecting /\ Completing /\ Ending
    /\ ChainIsAllowed /\ SingleIsPermitted
    /\ patches = 0 => CreateTargetAccepts(target)

\* Every execution comes to an end, and so does its job, unless the worker is
\* stopped under way, or the last thing it does, failing or abandoning the job,
\* meets an error of the database: such a job waits for recovery.
ExecutionEnds == <>(pc = "left" \/ (pc = "done" /\ (job.st = "running" => stopping)))
=============================================================================
