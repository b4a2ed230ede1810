---------------------------- MODULE JobLifecycle ----------------------------
(***************************************************************************)
(* The contract of a durable discovery job, as the state machine of        *)
(* discovery/contracts.py: which status may follow which.  Everything that *)
(* stores, leases, executes, cancels or recovers a job is supposed to      *)
(* implement this specification; the detailed modules are checked, and the *)
(* jobs of LeasedJobs and the parent of Fanout are proved, to do so        *)
(* through a refinement mapping.                                           *)
(***************************************************************************)
CONSTANT Jobs          \* job identifiers

VARIABLE status        \* status[j]: the durable status of job j

\* DiscoveryJobStatus; "absent" is a job id no row uses yet.
Status == {"absent", "queued", "running", "succeeded", "failed",
           "timed_out", "cancelled"}

\* DiscoveryJobStatus.is_terminal
Terminal == {"succeeded", "failed", "timed_out", "cancelled"}

\* _ALLOWED_TRANSITIONS, with the creation of the row in front.
Allowed(s) ==
    CASE s = "absent"  -> {"queued"}
      [] s = "queued"  -> {"running", "cancelled"}
      [] s = "running" -> {"succeeded", "failed", "timed_out", "cancelled"}
      [] OTHER         -> {}

\* Rows that predate leases may already be running when the system starts.
Init == status \in [Jobs -> {"absent", "running"}]

\* One committed write may move several jobs (a parent and its children).
Next ==
    /\ status' \in [Jobs -> Status]
    /\ \A j \in Jobs :
          status'[j] = status[j] \/ status'[j] \in Allowed(status[j])

Spec == Init /\ [][Next]_status
=============================================================================
