-------------------------- MODULE LeasedJobsProofs --------------------------
(***************************************************************************)
(* Proofs about LeasedJobs, for any jobs, workers, tokens, lease and       *)
(* heartbeat lengths (with twice the heartbeat below the lease) and any    *)
(* number of faults.                                                       *)
(*                                                                         *)
(* Most actions are one of three kinds of step, and preserve Inv for the   *)
(* reason their kind does: a step of a poll loop or process that leaves    *)
(* rows and executions alone (LoopStep), a step of one execution that may  *)
(* end its own job (RunStep), a step that ends a job from outside          *)
(* (RowStep).                                                              *)
(***************************************************************************)
EXTENDS LeasedJobs, TLAPS

\* The initial states satisfy the invariant.
LEMMA InitInv == Init => Inv
<1> SUFFICES ASSUME Init PROVE Inv
  OBVIOUS
<1>1. TypeOK
  BY JobsAssumption, NullAssumption, LeaseAssumption, BoundAssumption
  DEF Init, TypeOK, Lease, PC, LC!Status
<1>2. LeaseColumns /\ NeverResumed /\ SnapshotsAreBacked
  BY JobsAssumption, NullAssumption
  DEF Init, LeaseColumns, NeverResumed, SnapshotsAreBacked
<1>3. CancelNeverSucceeds /\ LeaseTracksBeat
  BY DEF Init, CancelNeverSucceeds, LeaseTracksBeat
<1>4. TokenRecords /\ ClaimedJobs /\ BeatOnTime /\ ReadingStale
  BY JobsAssumption
  DEF Init, TokenRecords, ClaimedJobs, BeatOnTime, ReadingStale
<1> QED BY <1>1, <1>2, <1>3, <1>4 DEF Inv

\* A step of a poll loop or process: rows, output and executions are left
\* alone, no process appears or freezes against the rules, and a new reading
\* is of an expired row.
LEMMA LoopStep ==
  ASSUME Inv,
         UNCHANGED <<table, output, runs>>,
         faults' \in 0 .. MaxFaults,
         proc' \in [Workers -> {"up", "stalled", "stopping", "down"}],
         phase' \in [Workers -> {"await", "recover", "claim"}],
         todo' \in [Workers -> SUBSET Jobs],
         \A w \in Workers :
            \/ proc'[w] = proc[w]
            \/ proc[w] = "up" /\ proc'[w] = "stalled" /\ CanStall
            \/ proc[w] = "stalled" /\ proc'[w] = "up"
            \/ proc[w] = "up" /\ proc'[w] = "stopping"
            \/ proc[w] = "down" /\ proc'[w] = "up",
         reading' \in [Workers ->
            {NULL} \cup [job : Jobs, owner : Owners, cancel : BOOLEAN]],
         \A w \in Workers :
            reading'[w] # NULL /\ reading'[w] # reading[w] =>
               /\ Expired(reading'[w].job)
               /\ reading'[w].owner = owner[reading'[w].job]
  PROVE  Inv'
<1> USE DEF table, output, runs
<1>1. TypeOK'
  BY DEF Inv, TypeOK
<1>2. /\ LeaseColumns' /\ NeverResumed' /\ SnapshotsAreBacked'
      /\ CancelNeverSucceeds' /\ TokenRecords' /\ ClaimedJobs'
  BY DEF Inv, LeaseColumns, NeverResumed, SnapshotsAreBacked,
         CancelNeverSucceeds, TokenRecords, ClaimedJobs
<1>3. BeatOnTime'
  BY SMTT(30), NullAssumption DEF Inv, TypeOK, TokenRecords, BeatOnTime
<1>4. LeaseTracksBeat'
  BY NullAssumption DEF Inv, TypeOK, TokenRecords, BeatOnTime,
     LeaseTracksBeat, Holds
<1>5. ReadingStale'
  <2> SUFFICES ASSUME NEW w \in Workers, reading'[w] # NULL
               PROVE  /\ rjob[reading'[w].owner] = reading'[w].job
                      /\ ~CanStall /\ Holds(reading'[w].owner, reading'[w].job)
                            => lease[reading'[w].job] < 0
    BY DEF ReadingStale, Holds
  <2>1. CASE reading'[w] = reading[w]
    BY <2>1 DEF Inv, ReadingStale
  <2>2. CASE reading'[w] # reading[w]
    BY <2>2 DEF Inv, TypeOK, TokenRecords, Expired
  <2> QED BY <2>1, <2>2
<1> QED BY <1>1, <1>2, <1>3, <1>4, <1>5 DEF Inv

\* A step of one execution: it moves on, and either leaves its row alone or,
\* while it holds the lease, ends the job without success.  Evidence may be
\* added, parsing starts only from evidence, and a snapshot is added only from
\* evidence for a job that is cancelled.
LEMMA RunStep ==
  ASSUME Inv,
         NEW o \in Owners, NEW l \in PC \ {"unused"},
         pc[o] \notin {"unused", "ended"},
         Goto(o, l),
         \/ UNCHANGED table
         \/ /\ Holds(o, rjob[o])
            /\ \E s \in {"failed", "cancelled"} : Finish(rjob[o], s),
         evidence' \in [Jobs -> BOOLEAN],
         \A j \in Jobs : evidence[j] => evidence'[j],
         l = "process" => evidence'[rjob[o]],
         l = "ended" => pc[o] = "closing",
         \/ UNCHANGED snapshot
         \/ /\ evidence[rjob[o]] /\ state'[rjob[o]] = "cancelled"
            /\ snapshot' = [snapshot EXCEPT ![rjob[o]] = TRUE],
         UNCHANGED loops,
         faults' \in 0 .. MaxFaults
  PROVE  Inv'
<1> USE JobsAssumption, NullAssumption, LeaseAssumption
    DEF Goto, table, loops
<1>1. PICK s \in {"failed", "cancelled"} :
         UNCHANGED table \/ (Holds(o, rjob[o]) /\ Finish(rjob[o], s))
  OBVIOUS
<1>2. rjob[o] \in Jobs
  BY DEF Inv, TypeOK, TokenRecords
<1>r. \A j \in Jobs :
         \/ /\ state'[j] = state[j] /\ owner'[j] = owner[j]
            /\ lease'[j] = lease[j]
         \/ state'[j] \in {"failed", "cancelled"} /\ owner'[j] = NULL
  BY <1>1, <1>2 DEF Inv, TypeOK, Finish
<1>3. TypeOK'
  <2>1. /\ state' \in [Jobs -> LC!Status] /\ cancelReq' \in [Jobs -> BOOLEAN]
        /\ owner' \in [Jobs -> Owners \cup {NULL}]
        /\ lease' \in [Jobs -> Lease \cup {NULL}]
        /\ attempts' \in [Jobs -> Nat]
    BY <1>1, <1>2 DEF Inv, TypeOK, Finish, LC!Status
  <2>2. /\ pc' \in [Owners -> PC] /\ beat' \in [Owners -> BOOLEAN]
        /\ age' \in [Owners -> 0 .. LeaseTicks + 1]
    BY DEF Inv, TypeOK
  <2> QED BY <2>1, <2>2 DEF Inv, TypeOK
<1>4. LeaseColumns'
  BY <1>1, <1>2 DEF Inv, TypeOK, LeaseColumns, Finish
<1>5. NeverResumed'
  BY <1>1 DEF Inv, NeverResumed, Finish
<1>6. SnapshotsAreBacked' /\ CancelNeverSucceeds'
  BY SMTT(30), <1>1, <1>2 DEF Inv, TypeOK, SnapshotsAreBacked, CancelNeverSucceeds,
     Finish, Holds
<1>7. LeaseTracksBeat'
  <2> SUFFICES ASSUME NEW p \in Owners, beat'[p], Holds(p, rjob[p])'
               PROVE  /\ beat[p] /\ age'[p] = age[p] /\ Holds(p, rjob[p])
                      /\ lease'[rjob[p]] = lease[rjob[p]]
    BY DEF Inv, LeaseTracksBeat
  <2>1. beat[p] /\ age'[p] = age[p]
    BY DEF Inv, TypeOK
  <2>2. rjob[p] \in Jobs
    BY <2>1 DEF Inv, TypeOK, TokenRecords
  <2>3. Holds(p, rjob[p]) /\ lease'[rjob[p]] = lease[rjob[p]]
    BY <1>r, <2>2 DEF Holds
  <2> QED BY <2>1, <2>3
<1>8. TokenRecords'
  <2>1. /\ \A p \in Owners :
              /\ pc'[p] = "unused" <=> pc[p] = "unused"
              /\ beat'[p] => pc'[p] \notin {"unused", "closing", "ended"}
              /\ ~beat'[p] => age'[p] = 0
    <3> SUFFICES ASSUME NEW p \in Owners
                 PROVE  /\ pc'[p] = "unused" <=> pc[p] = "unused"
                        /\ beat'[p] => pc'[p] \notin {"unused", "closing", "ended"}
                        /\ ~beat'[p] => age'[p] = 0
      OBVIOUS
    <3>1. CASE p = o
      <4>1. /\ pc'[o] = l /\ beat'[o] = (beat[o] /\ l # "closing")
            /\ age'[o] = IF l = "closing" THEN 0 ELSE age[o]
        BY DEF Inv, TypeOK
      <4>2. /\ beat[o] => pc[o] \notin {"unused", "closing", "ended"}
            /\ ~beat[o] => age[o] = 0
        BY DEF Inv, TokenRecords
      <4>3. beat'[o] => l \notin {"unused", "closing", "ended"}
        BY <4>1, <4>2
      <4>4. ~beat'[o] => age'[o] = 0
        BY <4>1, <4>2
      <4> QED BY <3>1, <4>1, <4>3, <4>4
    <3>2. CASE p # o
      BY <3>2 DEF Inv, TypeOK, TokenRecords
    <3> QED BY <3>1, <3>2
  <2>2. \A j \in Jobs : owner'[j] # NULL => rjob[owner'[j]] = j
    BY <1>1, <1>2 DEF Inv, TypeOK, TokenRecords, Finish
  <2> QED BY <2>1, <2>2 DEF Inv, TokenRecords
<1>9. ClaimedJobs'
  <2>1. \A j \in Jobs : state[j] \notin {"absent", "queued"} =>
                            state'[j] \notin {"absent", "queued"}
    BY <1>1, <1>2 DEF Inv, TypeOK, Finish
  <2>2. \A p \in Owners : pc'[p] = "process" /\ rjob[p] # NULL
                              => evidence'[rjob[p]]
    BY ZenonT(60) DEF Inv, TypeOK, ClaimedJobs
  <2>3. \A j \in Legacy : state'[j] \notin {"absent", "queued"}
    BY <2>1 DEF Inv, ClaimedJobs
  <2> QED BY ZenonT(60), <2>1, <2>2, <2>3 DEF Inv, TypeOK, ClaimedJobs
<1>10. BeatOnTime'
  BY <1>1, <1>2 DEF Inv, TypeOK, TokenRecords, BeatOnTime
<1>11. ReadingStale'
  <2> SUFFICES ASSUME NEW w \in Workers, reading[w] # NULL,
                      Holds(reading[w].owner, reading[w].job)'
               PROVE  /\ Holds(reading[w].owner, reading[w].job)
                      /\ lease'[reading[w].job] = lease[reading[w].job]
    BY DEF Inv, ReadingStale
  <2>1. reading[w].job \in Jobs
    BY DEF Inv, TypeOK
  <2> QED BY <1>r, <2>1 DEF Holds
<1> QED BY <1>3, <1>4, <1>5, <1>6, <1>7, <1>8, <1>9, <1>10, <1>11 DEF Inv

\* A step that ends a running job from outside its execution.
LEMMA RowStep ==
  ASSUME Inv,
         NEW j \in Jobs, NEW s \in {"failed", "cancelled"},
         state[j] = "running",
         Finish(j, s),
         reading' \in [Workers ->
            {NULL} \cup [job : Jobs, owner : Owners, cancel : BOOLEAN]],
         \A w \in Workers : reading'[w] \in {NULL, reading[w]},
         UNCHANGED <<output, runs, proc, phase, todo, faults>>
  PROVE  Inv'
<1> USE JobsAssumption, NullAssumption
    DEF output, runs
<1>1. TypeOK'
  BY DEF Inv, TypeOK, Finish, LC!Status
<1>2. LeaseColumns' /\ NeverResumed'
  BY DEF Inv, TypeOK, LeaseColumns, NeverResumed, Finish
<1>3. SnapshotsAreBacked' /\ CancelNeverSucceeds'
  BY DEF Inv, TypeOK, SnapshotsAreBacked, CancelNeverSucceeds, Finish
<1>4. TokenRecords' /\ ClaimedJobs'
  BY DEF Inv, TypeOK, TokenRecords, ClaimedJobs, Finish
<1>5. BeatOnTime'
  BY DEF Inv, BeatOnTime
<1>6. LeaseTracksBeat'
  BY DEF Inv, TypeOK, LeaseTracksBeat, Finish, Holds
<1>7. ReadingStale'
  BY DEF Inv, TypeOK, ReadingStale, Finish, Holds
<1> QED BY <1>1, <1>2, <1>3, <1>4, <1>5, <1>6, <1>7 DEF Inv

-----------------------------------------------------------------------------
(* One lemma per action.                                                   *)

\* CreateJob preserves the invariant.
LEMMA CreateJobInv == ASSUME Inv, NEW j \in Jobs, CreateJob(j) PROVE Inv'
<1> USE JobsAssumption, NullAssumption
    DEF CreateJob, output, runs, loops, NoFault
<1>1. TypeOK'
  BY DEF Inv, TypeOK, LC!Status
<1>2. LeaseColumns' /\ NeverResumed'
  BY DEF Inv, TypeOK, LeaseColumns, NeverResumed
<1>3. SnapshotsAreBacked' /\ CancelNeverSucceeds'
  BY DEF Inv, TypeOK, SnapshotsAreBacked, CancelNeverSucceeds
<1>4. TokenRecords' /\ ClaimedJobs' /\ BeatOnTime'
  BY DEF Inv, TypeOK, TokenRecords, ClaimedJobs, BeatOnTime
<1>5. LeaseTracksBeat' /\ ReadingStale'
  BY DEF Inv, TypeOK, LeaseTracksBeat, ReadingStale, Holds
<1> QED BY <1>1, <1>2, <1>3, <1>4, <1>5 DEF Inv

\* RequestCancellation preserves the invariant.
LEMMA RequestCancellationInv ==
  ASSUME Inv, NEW j \in Jobs, RequestCancellation(j) PROVE Inv'
<1> USE JobsAssumption, NullAssumption DEF output, runs, loops
<1>1. TypeOK'
  BY DEF RequestCancellation, NoFault, Inv, TypeOK, LC!Status
<1>2. LeaseColumns' /\ NeverResumed'
  BY DEF RequestCancellation, Inv, TypeOK, LeaseColumns, NeverResumed
<1>3. SnapshotsAreBacked' /\ CancelNeverSucceeds'
  BY DEF RequestCancellation, Inv, TypeOK, SnapshotsAreBacked,
         CancelNeverSucceeds
<1>4. \A i \in Jobs : /\ owner'[i] = owner[i] /\ lease'[i] = lease[i]
                       /\ \/ state'[i] = state[i]
                          \/ state[i] = "queued" /\ state'[i] = "cancelled"
  BY DEF RequestCancellation, Inv, TypeOK, LeaseColumns
<1>5. UNCHANGED <<output, runs, loops>>
  BY DEF RequestCancellation
<1>t. \A o \in Owners : rjob[o] \in Jobs \cup {NULL}
  BY DEF Inv, TypeOK
<1>6. TokenRecords' /\ BeatOnTime'
  BY <1>4, <1>5 DEF Inv, TokenRecords, BeatOnTime
<1>7. ClaimedJobs'
  BY <1>4, <1>5, <1>t DEF Inv, ClaimedJobs
<1>8. LeaseTracksBeat'
  <2> SUFFICES ASSUME NEW o \in Owners, beat[o], Holds(o, rjob[o])'
               PROVE  /\ Holds(o, rjob[o])
                      /\ lease'[rjob[o]] = lease[rjob[o]]
    BY <1>5 DEF Inv, LeaseTracksBeat
  <2>1. rjob[o] \in Jobs
    BY <1>t DEF Inv, TokenRecords
  <2> QED BY <1>4, <1>5, <2>1 DEF Holds
<1>9. ReadingStale'
  BY ZenonT(60), <1>4, <1>5 DEF Inv, TypeOK, ReadingStale, Holds
<1> QED BY <1>1, <1>2, <1>3, <1>6, <1>7, <1>8, <1>9 DEF Inv

\* ResolveStaleCancellation preserves the invariant.
LEMMA ResolveStaleCancellationInv ==
  ASSUME Inv, NEW j \in Jobs, ResolveStaleCancellation(j) PROVE Inv'
  BY RowStep DEF Inv, TypeOK, ResolveStaleCancellation, loops, NoFault

\* The steps of the poll loop preserve the invariant.
LEMMA PollInv == ASSUME Inv, NEW w \in Workers, Poll(w) PROVE Inv'
  BY LoopStep DEF Inv, TypeOK, Poll, NoFault

\* RecoverRead: what it reads is an expired row with its own token.
LEMMA RecoverReadInv == ASSUME Inv, NEW w \in Workers, RecoverRead(w) PROVE Inv'
<1>1. PICK j \in todo[w] :
         /\ todo' = [todo EXCEPT ![w] = @ \ {j}]
         /\ reading' = [reading EXCEPT ![w] =
               IF Expired(j)
               THEN [job |-> j, owner |-> owner[j],
                     cancel |-> CancellationRequested(j)]
               ELSE NULL]
  BY DEF RecoverRead
<1>2. j \in Jobs
  BY DEF Inv, TypeOK
<1>3. /\ Expired(j) => owner[j] \in Owners
      /\ CancellationRequested(j) \in BOOLEAN
  BY <1>2 DEF Inv, TypeOK, Expired, CancellationRequested
<1>4. /\ reading' \in [Workers ->
            {NULL} \cup [job : Jobs, owner : Owners, cancel : BOOLEAN]]
      /\ todo' \in [Workers -> SUBSET Jobs]
  BY <1>1, <1>2, <1>3 DEF Inv, TypeOK
<1>5. \A v \in Workers :
         reading'[v] # NULL /\ reading'[v] # reading[v] =>
            /\ Expired(reading'[v].job)
            /\ reading'[v].owner = owner[reading'[v].job]
  BY <1>1 DEF Inv, TypeOK
<1> QED
  BY <1>4, <1>5, LoopStep DEF Inv, TypeOK, RecoverRead, NoFault

\* RecoverApply: the row is ended while the token read still holds it.
LEMMA RecoverApplyInv == ASSUME Inv, NEW w \in Workers, RecoverApply(w) PROVE Inv'
<1> DEFINE r == reading[w]
<1>1. /\ r.job \in Jobs /\ r.owner \in Owners /\ r.cancel \in BOOLEAN
      /\ reading' \in [Workers ->
            {NULL} \cup [job : Jobs, owner : Owners, cancel : BOOLEAN]]
      /\ \A v \in Workers : reading'[v] \in {NULL, reading[v]}
  BY DEF Inv, TypeOK, RecoverApply
<1>2. CASE Holds(r.owner, r.job)
  BY <1>1, <1>2, RowStep DEF RecoverApply, Holds, NoFault
<1>3. CASE ~Holds(r.owner, r.job)
  BY <1>1, <1>3, LoopStep DEF Inv, TypeOK, RecoverApply, NoFault
<1> QED BY <1>2, <1>3

\* RecoverError: nothing but the reading is dropped.
LEMMA RecoverErrorInv == ASSUME Inv, NEW w \in Workers, RecoverError(w) PROVE Inv'
  BY BoundAssumption, LoopStep DEF Inv, TypeOK, RecoverError, Fault

\* ClaimList: only the list of candidates changes.
LEMMA ClaimListInv == ASSUME Inv, NEW w \in Workers, ClaimList(w) PROVE Inv'
  BY LoopStep DEF Inv, TypeOK, ClaimList, NoFault

\* ClaimMissed: only the list of candidates changes.
LEMMA ClaimMissedInv ==
  ASSUME Inv, NEW w \in Workers, NEW j \in Jobs, ClaimMissed(w, j) PROVE Inv'
  BY BoundAssumption, LoopStep DEF Inv, TypeOK, ClaimMissed, NoFault, Fault

\* EndClaim: only the phase changes.
LEMMA EndClaimInv == ASSUME Inv, NEW w \in Workers, EndClaim(w) PROVE Inv'
  BY LoopStep DEF Inv, TypeOK, EndClaim, NoFault

\* Claim preserves the invariant: the job was waiting, so no token has it yet.
LEMMA ClaimInv ==
  ASSUME Inv, NEW w \in Workers, NEW j \in Jobs, NEW o \in Owners,
         Claim(w, j, o)
  PROVE  Inv'
<1> USE JobsAssumption, NullAssumption, LeaseAssumption
    DEF Claim, Candidate, Claimable, output, NoFault
<1>1. rjob[o] = NULL /\ \A p \in Owners : rjob[p] # j
  BY DEF Inv, TypeOK, TokenRecords, ClaimedJobs
<1>2. TypeOK'
  BY DEF Inv, TypeOK, PC, Lease, LC!Status
<1>3. LeaseColumns' /\ CancelNeverSucceeds' /\ SnapshotsAreBacked'
  BY DEF Inv, TypeOK, LeaseColumns, CancelNeverSucceeds, SnapshotsAreBacked
<1>4. NeverResumed'
  BY <1>1 DEF Inv, TypeOK, NeverResumed
<1>5. LeaseTracksBeat'
  <2> SUFFICES ASSUME NEW p \in Owners, beat'[p], Holds(p, rjob[p])'
               PROVE  /\ lease'[rjob'[p]] = LeaseTicks - age'[p]
                      /\ proc'[home'[p]] = "up" /\ ~CanStall
                            => lease'[rjob'[p]] > 0
    BY DEF LeaseTracksBeat
  <2>1. CASE p = o
    BY <2>1 DEF Inv, TypeOK, TokenRecords
  <2>2. CASE p # o
    BY <1>1, <2>2 DEF Inv, TypeOK, TokenRecords, LeaseTracksBeat, Holds
  <2> QED BY <2>1, <2>2
<1>6. TokenRecords'
  BY <1>1 DEF Inv, TypeOK, TokenRecords
<1>l. \A i \in Legacy : state'[i] \notin {"absent", "queued"}
  BY DEF Inv, TypeOK, ClaimedJobs
<1>7. ClaimedJobs'
  <2> SUFFICES ASSUME NEW p \in Owners, rjob'[p] # NULL
               PROVE  /\ state'[rjob'[p]] \notin {"absent", "queued"}
                      /\ rjob'[p] \notin Legacy
                      /\ pc'[p] = "process" => evidence'[rjob'[p]]
    BY <1>l DEF ClaimedJobs
  <2>1. CASE p = o
    BY <2>1 DEF Inv, TypeOK, ClaimedJobs
  <2>2. CASE p # o
    BY <1>1, <2>2 DEF Inv, TypeOK, ClaimedJobs
  <2> QED BY <2>1, <2>2
<1>8. BeatOnTime'
  BY DEF Inv, TypeOK, TokenRecords, BeatOnTime
<1>9. ReadingStale'
  <2> SUFFICES ASSUME NEW v \in Workers, reading[v] # NULL
               PROVE  LET r == reading[v] IN
                      /\ rjob'[r.owner] = r.job
                      /\ ~CanStall /\ Holds(r.owner, r.job)'
                            => lease'[r.job] < 0
    BY DEF ReadingStale
  <2>1. reading[v].owner \in Owners /\ reading[v].job \in Jobs
    BY DEF Inv, TypeOK
  <2>2. reading[v].owner # o /\ reading[v].job # j
    BY <1>1, <2>1 DEF Inv, ReadingStale
  <2> QED BY <2>1, <2>2 DEF Inv, TypeOK, ReadingStale, Holds
<1> QED
  BY <1>2, <1>3, <1>4, <1>5, <1>6, <1>7, <1>8, <1>9 DEF Inv

\* The steps of an execution preserve the invariant (this and the next ten).
LEMMA BeginInv == ASSUME Inv, NEW o \in Owners, Begin(o) PROVE Inv'
  BY RunStep, BoundAssumption
  DEF Inv, TypeOK, Begin, CheckThen, CheckRaises, Runs, PC, output, NoFault

\* Collected: the row must still be running, or the execution fails.
LEMMA CollectedInv == ASSUME Inv, NEW o \in Owners, Collected(o) PROVE Inv'
  BY RunStep, BoundAssumption
  DEF Inv, TypeOK, Collected, Runs, PC, output, NoFault

\* CollectRaised: whatever stops the collector, the row is left alone.
LEMMA CollectRaisedInv == ASSUME Inv, NEW o \in Owners, CollectRaised(o) PROVE Inv'
  BY RunStep, BoundAssumption
  DEF Inv, TypeOK, CollectRaised, CheckRaises, Runs, PC, output, NoFault

\* StoreEvidence: parsing starts with the evidence stored.
LEMMA StoreEvidenceInv == ASSUME Inv, NEW o \in Owners, StoreEvidence(o) PROVE Inv'
<1>1. rjob[o] \in Jobs
  BY DEF Inv, TypeOK, TokenRecords, StoreEvidence, Runs
<1>2. /\ evidence' \in [Jobs -> BOOLEAN]
      /\ \A j \in Jobs : evidence[j] => evidence'[j]
      /\ Clear(o) => evidence'[rjob[o]]
  BY <1>1 DEF Inv, TypeOK, StoreEvidence
<1>3. CASE Clear(o)
  BY <1>2, <1>3, RunStep
  DEF Inv, TypeOK, StoreEvidence, CheckThen, CheckRaises, Clear, Runs, PC,
      NoFault
<1>4. CASE ~Clear(o)
  BY <1>2, <1>4, RunStep
  DEF Inv, TypeOK, StoreEvidence, CheckThen, CheckRaises, Runs, PC, NoFault
<1> QED BY <1>3, <1>4

\* ProcessRaised: no row is touched.
LEMMA ProcessRaisedInv == ASSUME Inv, NEW o \in Owners, ProcessRaised(o) PROVE Inv'
  BY RunStep, BoundAssumption
  DEF Inv, TypeOK, ProcessRaised, CheckRaises, Runs, PC, output, NoFault

\* Failing: no row is touched.
LEMMA FailingInv == ASSUME Inv, NEW o \in Owners, Failing(o) PROVE Inv'
  BY RunStep, BoundAssumption
  DEF Inv, TypeOK, Failing, Runs, PC, output, NoFault

\* FailMark: the job fails only under its own lease.
LEMMA FailMarkInv == ASSUME Inv, NEW o \in Owners, FailMark(o) PROVE Inv'
  BY RunStep, BoundAssumption
  DEF Inv, TypeOK, FailMark, Runs, PC, output, NoFault

\* Cancelling: the job is cancelled only under its own lease.
LEMMA CancellingInv == ASSUME Inv, NEW o \in Owners, Cancelling(o) PROVE Inv'
  BY RunStep, BoundAssumption
  DEF Inv, TypeOK, Cancelling, Runs, PC, output, NoFault

\* CancelLate: the snapshot goes with a cancelled row and its evidence.
LEMMA CancelLateInv == ASSUME Inv, NEW o \in Owners, CancelLate(o) PROVE Inv'
<1>1. rjob[o] \in Jobs /\ evidence[rjob[o]]
  BY NullAssumption DEF Inv, TypeOK, TokenRecords, ClaimedJobs, CancelLate
<1>2. \/ UNCHANGED snapshot
      \/ /\ evidence[rjob[o]] /\ state'[rjob[o]] = "cancelled"
         /\ snapshot' = [snapshot EXCEPT ![rjob[o]] = TRUE]
  BY <1>1 DEF Inv, TypeOK, CancelLate, Finish, table
<1> QED BY <1>2, RunStep DEF Inv, TypeOK, CancelLate, Runs, PC, NoFault

\* ExecuteError: no row is touched.
LEMMA ExecuteErrorInv == ASSUME Inv, NEW o \in Owners, ExecuteError(o) PROVE Inv'
  BY RunStep, BoundAssumption
  DEF Inv, TypeOK, ExecuteError, Fault, Runs, PC, output, NoFault

\* Raised: the job fails only under its own lease.
LEMMA RaisedInv == ASSUME Inv, NEW o \in Owners, Raised(o) PROVE Inv'
  BY RunStep, BoundAssumption
  DEF Inv, TypeOK, Raised, Fault, Runs, PC, output, NoFault

\* Close: abandons only under its own lease.
LEMMA CloseInv == ASSUME Inv, NEW o \in Owners, Close(o) PROVE Inv'
  BY RunStep, BoundAssumption
  DEF Inv, TypeOK, Close, AbandonIfOwned, Runs, PC, output, NoFault

\* Succeed preserves the invariant: the snapshot is saved with the state, and
\* only from stored evidence, under the lease and without a cancellation.
LEMMA SucceedInv == ASSUME Inv, NEW o \in Owners, Succeed(o) PROVE Inv'
<1> USE JobsAssumption, NullAssumption, LeaseAssumption
<1> DEFINE j == rjob[o]
<1>1. j \in Jobs /\ evidence[j]
  BY DEF Inv, TypeOK, TokenRecords, ClaimedJobs, Succeed
<1>2. CASE ~(Holds(o, j) /\ ~cancelReq[j])
  BY <1>2, RunStep DEF Inv, TypeOK, Succeed, Runs, PC, table, NoFault
<1>3. CASE Holds(o, j) /\ ~cancelReq[j]
  <2>1. /\ Finish(j, "succeeded") /\ Goto(o, "closing")
        /\ snapshot' = [snapshot EXCEPT ![j] = TRUE]
        /\ UNCHANGED <<evidence, loops, faults>>
    BY <1>3 DEF Succeed, NoFault
  <2>2. \A i \in Jobs :
           \/ /\ state'[i] = state[i] /\ owner'[i] = owner[i]
              /\ lease'[i] = lease[i] /\ snapshot'[i] = snapshot[i]
           \/ /\ i = j /\ state'[i] = "succeeded" /\ owner'[i] = NULL
              /\ lease'[i] = NULL /\ snapshot'[i]
    BY <1>1, <2>1 DEF Inv, TypeOK, Finish
  <2>3. \A p \in Owners :
           /\ rjob'[p] = rjob[p] /\ home'[p] = home[p]
           /\ \/ pc'[p] = pc[p] /\ beat'[p] = beat[p] /\ age'[p] = age[p]
              \/ pc'[p] = "closing" /\ ~beat'[p] /\ age'[p] = 0 /\ p = o
    BY <2>1 DEF Inv, TypeOK, Goto
  <2>4. TypeOK'
    <3>1. /\ state' \in [Jobs -> LC!Status]
          /\ owner' \in [Jobs -> Owners \cup {NULL}]
          /\ lease' \in [Jobs -> Lease \cup {NULL}]
          /\ snapshot' \in [Jobs -> BOOLEAN]
      BY <1>1, <2>1 DEF Inv, TypeOK, Finish, LC!Status
    <3>2. /\ pc' \in [Owners -> PC] /\ beat' \in [Owners -> BOOLEAN]
          /\ age' \in [Owners -> 0 .. LeaseTicks + 1]
      BY <2>1 DEF Inv, TypeOK, Goto, PC
    <3> QED BY <2>1, <3>1, <3>2 DEF Inv, TypeOK, Finish, Goto, loops
  <2>5. LeaseColumns'
    BY <2>2 DEF Inv, LeaseColumns
  <2>6. NeverResumed'
    BY <2>1 DEF Inv, NeverResumed, Finish, Goto
  <2>7. SnapshotsAreBacked' /\ CancelNeverSucceeds'
    BY <1>1, <1>3, <2>1, <2>2
    DEF Inv, SnapshotsAreBacked, CancelNeverSucceeds, Finish
  <2>8. LeaseTracksBeat'
    <3> SUFFICES ASSUME NEW p \in Owners, beat'[p], Holds(p, rjob[p])'
                 PROVE  /\ beat[p] /\ age'[p] = age[p] /\ Holds(p, rjob[p])
                        /\ lease'[rjob[p]] = lease[rjob[p]]
      BY <2>1 DEF Inv, LeaseTracksBeat, Goto, loops
    <3>1. rjob[p] \in Jobs
      BY <2>3 DEF Inv, TypeOK, TokenRecords
    <3> QED BY <2>1, <2>2, <2>3, <3>1 DEF Holds, Goto
  <2>9. TokenRecords'
    BY <2>2, <2>3 DEF Inv, TypeOK, TokenRecords, Succeed
  <2>10. ClaimedJobs'
    <3>1. \A p \in Owners : rjob[p] \in Jobs \cup {NULL}
      BY DEF Inv, TypeOK
    <3>2. \A i \in Jobs : state[i] \notin {"absent", "queued"} =>
                              state'[i] \notin {"absent", "queued"}
      BY <2>2
    <3>3. \A p \in Owners : rjob[p] # NULL /\ pc'[p] = "process"
                                => evidence'[rjob[p]]
      BY <2>1, <2>3 DEF Inv, ClaimedJobs
    <3> QED BY <2>3, <3>1, <3>2, <3>3 DEF Inv, ClaimedJobs
  <2>11. BeatOnTime'
    BY <2>1, <2>3, LeaseAssumption DEF Inv, BeatOnTime, loops
  <2>12. ReadingStale'
    <3> SUFFICES ASSUME NEW w \in Workers, reading[w] # NULL,
                        Holds(reading[w].owner, reading[w].job)'
                 PROVE  /\ Holds(reading[w].owner, reading[w].job)
                        /\ lease'[reading[w].job] = lease[reading[w].job]
      BY <2>1 DEF Inv, ReadingStale, Goto, loops
    <3>1. reading[w].job \in Jobs
      BY DEF Inv, TypeOK
    <3> QED BY <2>1, <2>2, <3>1 DEF Holds, loops
  <2> QED BY <2>4, <2>5, <2>6, <2>7, <2>8, <2>9, <2>10, <2>11, <2>12 DEF Inv
<1> QED BY <1>2, <1>3

\* Heartbeat preserves the invariant: lease and age start again together, and
\* a lease recovery has read as expired is not renewed unless a process froze.
LEMMA HeartbeatInv == ASSUME Inv, NEW o \in Owners, Heartbeat(o) PROVE Inv'
<1> USE JobsAssumption, NullAssumption, LeaseAssumption
<1> DEFINE j == rjob[o]
<1>1. j \in Jobs /\ home[o] \in Workers
  BY DEF Inv, TypeOK, TokenRecords, Heartbeat
<1>2. /\ UNCHANGED <<state, owner, cancelReq, attempts, output>>
      /\ UNCHANGED <<pc, rjob, home, loops, faults>>
  BY DEF Heartbeat, NoFault
<1>3. /\ lease' \in [Jobs -> Lease \cup {NULL}]
      /\ lost' \in [Owners -> BOOLEAN] /\ beat' \in [Owners -> BOOLEAN]
      /\ age' \in [Owners -> 0 .. LeaseTicks + 1]
  <2>1. LeaseTicks \in Lease /\ 0 \in 0 .. LeaseTicks + 1
    BY DEF Lease
  <2>2. lease' = lease \/ lease' = [lease EXCEPT ![j] = LeaseTicks]
    BY DEF Heartbeat
  <2>3. lease' \in [Jobs -> Lease \cup {NULL}]
    BY <1>1, <2>1, <2>2 DEF Inv, TypeOK
  <2>4. lost' \in [Owners -> BOOLEAN] /\ beat' \in [Owners -> BOOLEAN]
    BY DEF Inv, TypeOK, Heartbeat
  <2>5. age' \in [Owners -> 0 .. LeaseTicks + 1]
    BY <2>1 DEF Inv, TypeOK, Heartbeat
  <2> QED BY <2>3, <2>4, <2>5
<1>4. TypeOK'
  BY <1>2, <1>3 DEF Inv, TypeOK, output, loops
<1>5. \A i \in Jobs : lease'[i] = IF i = j /\ Holds(o, j) THEN LeaseTicks
                                                         ELSE lease[i]
  BY <1>1 DEF Inv, TypeOK, Heartbeat
<1>6. \A p \in Owners : /\ beat'[p] => beat[p]
                        /\ beat'[o] => Holds(o, j)
                        /\ age'[p] = IF p = o THEN 0 ELSE age[p]
                        /\ p # o => beat'[p] = beat[p]
  BY DEF Inv, TypeOK, Heartbeat
<1>7. LeaseColumns'
  BY <1>1, <1>2, <1>5 DEF Inv, LeaseColumns, Holds
<1>8. /\ NeverResumed' /\ SnapshotsAreBacked' /\ CancelNeverSucceeds'
      /\ ClaimedJobs'
  BY <1>2 DEF Inv, NeverResumed, SnapshotsAreBacked, CancelNeverSucceeds,
     ClaimedJobs, output
<1>9. LeaseTracksBeat'
  <2> SUFFICES ASSUME NEW p \in Owners, beat'[p], Holds(p, rjob[p])
               PROVE  /\ lease'[rjob[p]] = LeaseTicks - age'[p]
                      /\ proc[home[p]] = "up" /\ ~CanStall
                            => lease'[rjob[p]] > 0
    BY <1>2 DEF LeaseTracksBeat, Holds, loops
  <2>1. CASE p = o
    <3>1. lease'[j] = LeaseTicks /\ age'[o] = 0
      BY <1>1, <1>5, <1>6, <2>1
    <3> QED BY <2>1, <3>1
  <2>2. CASE p # o
    <3>1. rjob[p] \in Jobs
      BY <1>6, <2>2 DEF Inv, TypeOK, TokenRecords
    <3>2. rjob[p] # j
      BY <1>1, <2>2 DEF Inv, NeverResumed
    <3> QED BY <1>5, <1>6, <2>2, <3>1, <3>2 DEF Inv, LeaseTracksBeat
  <2> QED BY <2>1, <2>2
<1>10. TokenRecords'
  BY <1>2, <1>6 DEF Inv, TokenRecords
<1>11. BeatOnTime'
  BY <1>2, <1>6 DEF Inv, BeatOnTime, loops
<1>12. ReadingStale'
  <2> SUFFICES ASSUME NEW w \in Workers, reading[w] # NULL, ~CanStall,
                      Holds(reading[w].owner, reading[w].job)
               PROVE  lease'[reading[w].job] < 0
    BY <1>2 DEF Inv, ReadingStale, Holds, loops
  <2>1. reading[w].job \in Jobs /\ lease[reading[w].job] < 0
    BY DEF Inv, TypeOK, ReadingStale
  <2>2. Holds(o, j) => lease[j] > 0
    BY DEF Inv, LeaseTracksBeat, Heartbeat
  <2>3. Holds(o, j) => lease[j] \in Int
    <3>1. Holds(o, j) => lease[j] # NULL
      BY <1>1 DEF Inv, LeaseColumns, Holds
    <3>2. lease[j] \in Lease \cup {NULL}
      BY <1>1 DEF Inv, TypeOK
    <3> QED BY <3>1, <3>2 DEF Lease
  <2>4. ~(reading[w].job = j /\ Holds(o, j))
    BY <2>1, <2>2, <2>3
  <2> QED BY <1>5, <2>1, <2>4
<1> QED
  BY <1>4, <1>7, <1>8, <1>9, <1>10, <1>11, <1>12 DEF Inv

\* HeartbeatError preserves the invariant: it may end its own job only.
LEMMA HeartbeatErrorInv ==
  ASSUME Inv, NEW o \in Owners, HeartbeatError(o) PROVE Inv'
<1> USE JobsAssumption, NullAssumption, LeaseAssumption, BoundAssumption
<1> DEFINE j == rjob[o]
<1>1. j \in Jobs
  BY DEF Inv, TypeOK, TokenRecords, HeartbeatError
<1>2. PICK s \in {"failed", "cancelled"} :
         UNCHANGED table \/ (Holds(o, j) /\ Finish(j, s))
  BY DEF HeartbeatError, AbandonIfOwned
<1>3. \A i \in Jobs :
         \/ /\ state'[i] = state[i] /\ owner'[i] = owner[i]
            /\ lease'[i] = lease[i]
         \/ /\ state[i] = "running" /\ state'[i] \in {"failed", "cancelled"}
            /\ owner'[i] = NULL /\ lease'[i] = NULL
  BY <1>1, <1>2 DEF Inv, TypeOK, Finish, table, Holds
<1>4. UNCHANGED <<output, pc, rjob, home, loops, cancelReq, attempts>>
  BY <1>2 DEF HeartbeatError, Finish, table
<1>5. \A p \in Owners :
         IF p = o THEN ~beat'[p] /\ age'[p] = 0
                  ELSE beat'[p] = beat[p] /\ age'[p] = age[p]
  BY DEF Inv, TypeOK, HeartbeatError
<1>6. TypeOK'
  <2>1. /\ state' \in [Jobs -> LC!Status]
        /\ owner' \in [Jobs -> Owners \cup {NULL}]
        /\ lease' \in [Jobs -> Lease \cup {NULL}]
    BY <1>1, <1>2 DEF Inv, TypeOK, Finish, table, LC!Status
  <2>2. /\ lost' \in [Owners -> BOOLEAN] /\ beat' \in [Owners -> BOOLEAN]
        /\ age' \in [Owners -> 0 .. LeaseTicks + 1]
        /\ faults' \in 0 .. MaxFaults
    BY DEF Inv, TypeOK, HeartbeatError, Fault
  <2> QED BY <1>4, <2>1, <2>2 DEF Inv, TypeOK, output, loops
<1>7. /\ LeaseColumns' /\ NeverResumed' /\ SnapshotsAreBacked'
      /\ CancelNeverSucceeds'
  BY <1>3, <1>4 DEF Inv, LeaseColumns, NeverResumed, SnapshotsAreBacked,
     CancelNeverSucceeds, output
<1>8. \A p \in Owners : rjob[p] \in Jobs \cup {NULL}
  BY DEF Inv, TypeOK
<1>9. TokenRecords' /\ BeatOnTime'
  BY <1>3, <1>4, <1>5 DEF Inv, TokenRecords, BeatOnTime, loops
<1>c. ClaimedJobs'
  <2>1. \A i \in Jobs : state[i] \notin {"absent", "queued"} =>
                            state'[i] \notin {"absent", "queued"}
    BY <1>3
  <2> QED BY <1>4, <1>8, <2>1 DEF Inv, ClaimedJobs, output
<1>10. LeaseTracksBeat'
  <2> SUFFICES ASSUME NEW p \in Owners, beat'[p], Holds(p, rjob[p])'
               PROVE  /\ beat[p] /\ age'[p] = age[p] /\ Holds(p, rjob[p])
                      /\ lease'[rjob[p]] = lease[rjob[p]]
    BY <1>4 DEF Inv, LeaseTracksBeat, loops
  <2>1. rjob[p] \in Jobs /\ beat[p] /\ age'[p] = age[p]
    BY <1>5, <1>8 DEF Inv, TokenRecords
  <2> QED BY <1>3, <1>4, <2>1 DEF Holds
<1>11. ReadingStale'
  <2> SUFFICES ASSUME NEW w \in Workers, reading[w] # NULL,
                      Holds(reading[w].owner, reading[w].job)'
               PROVE  /\ Holds(reading[w].owner, reading[w].job)
                      /\ lease'[reading[w].job] = lease[reading[w].job]
    BY <1>4 DEF Inv, ReadingStale, loops
  <2>1. reading[w].job \in Jobs
    BY DEF Inv, TypeOK
  <2> QED BY <1>3, <1>4, <2>1 DEF Holds, loops
<1> QED BY <1>6, <1>7, <1>9, <1>c, <1>10, <1>11 DEF Inv

\* Tick preserves the invariant: lease and age move together, one down and one
\* up, and stop together.
LEMMA TickInv == ASSUME Inv, Tick PROVE Inv'
<1> USE JobsAssumption, NullAssumption, LeaseAssumption
<1>1. /\ UNCHANGED <<state, owner, cancelReq, attempts, output>>
      /\ UNCHANGED <<pc, rjob, home, lost, beat, loops, faults>>
  BY DEF Tick, NoFault
<1>2. \A i \in Jobs : lease[i] \in Lease \cup {NULL}
  BY DEF Inv, TypeOK
<1>3. \A i \in Jobs :
         lease'[i] = IF lease[i] = NULL \/ lease[i] = -1 THEN lease[i]
                                                        ELSE lease[i] - 1
  BY DEF Tick
<1>4. \A p \in Owners : /\ age[p] \in 0 .. LeaseTicks + 1
                        /\ age'[p] = IF beat[p] /\ age[p] <= LeaseTicks
                                     THEN age[p] + 1 ELSE age[p]
  BY DEF Inv, TypeOK, Tick
<1>5. TypeOK'
  <2>1. lease' \in [Jobs -> Lease \cup {NULL}]
    BY <1>2 DEF Tick, Lease
  <2>2. age' \in [Owners -> 0 .. LeaseTicks + 1]
    BY <1>4 DEF Tick
  <2> QED BY <1>1, <2>1, <2>2 DEF Inv, TypeOK, output, loops
<1>6. \A i \in Jobs : lease'[i] = NULL <=> lease[i] = NULL
  BY <1>2, <1>3 DEF Lease
<1>7. LeaseColumns'
  BY <1>1, <1>6 DEF Inv, LeaseColumns
<1>8. /\ NeverResumed' /\ SnapshotsAreBacked' /\ CancelNeverSucceeds'
      /\ ClaimedJobs'
  BY <1>1 DEF Inv, NeverResumed, SnapshotsAreBacked, CancelNeverSucceeds,
     ClaimedJobs, output
<1>9. TokenRecords'
  BY <1>1, <1>4 DEF Inv, TokenRecords
<1>10. BeatOnTime'
  <2>1. \A p \in Owners : beat[p] /\ proc[home[p]] = "up"
                              => age'[p] <= BeatTicks
    BY <1>4 DEF Tick
  <2> QED BY <1>1, <2>1 DEF Inv, BeatOnTime, loops
<1>11. LeaseTracksBeat'
  <2> SUFFICES ASSUME NEW p \in Owners, beat[p], Holds(p, rjob[p])
               PROVE  /\ lease'[rjob[p]] = LeaseTicks - age'[p]
                      /\ proc[home[p]] = "up" /\ ~CanStall
                            => lease'[rjob[p]] > 0
    BY <1>1 DEF LeaseTracksBeat, Holds, loops
  <2>1. rjob[p] \in Jobs
    BY DEF Inv, TypeOK, TokenRecords
  <2>2. lease[rjob[p]] = LeaseTicks - age[p]
    BY DEF Inv, LeaseTracksBeat
  <2>3. lease'[rjob[p]] = LeaseTicks - age'[p]
    <3>1. age[p] \in 0 .. LeaseTicks + 1
      BY <1>4
    <3>2. lease[rjob[p]] # NULL /\ (lease[rjob[p]] = -1 <=> age[p] > LeaseTicks)
      BY <2>2, <3>1
    <3>3. age'[p] = IF age[p] <= LeaseTicks THEN age[p] + 1 ELSE age[p]
      BY <1>4
    <3>4. lease'[rjob[p]] = IF lease[rjob[p]] = -1 THEN lease[rjob[p]]
                                                  ELSE lease[rjob[p]] - 1
      BY <1>3, <2>1, <3>2
    <3> QED BY <2>2, <3>1, <3>2, <3>3, <3>4
  <2>4. proc[home[p]] = "up" /\ ~CanStall => age'[p] <= BeatTicks
    BY <1>4 DEF Tick
  <2>5. age'[p] \in Int
    BY <1>4
  <2> QED BY <2>3, <2>4, <2>5
<1>12. ReadingStale'
  <2> SUFFICES ASSUME NEW w \in Workers, reading[w] # NULL, ~CanStall,
                      Holds(reading[w].owner, reading[w].job)
               PROVE  lease'[reading[w].job] < 0
    BY <1>1 DEF Inv, ReadingStale, Holds, loops
  <2>1. reading[w].job \in Jobs /\ reading[w].owner \in Owners
    BY DEF Inv, TypeOK
  <2>2. lease[reading[w].job] < 0 /\ lease[reading[w].job] # NULL
    BY <2>1 DEF Inv, ReadingStale, LeaseColumns, Holds
  <2>3. lease[reading[w].job] \in Lease
    BY <1>2, <2>1, <2>2
  <2>4. lease[reading[w].job] = -1
    BY <2>2, <2>3 DEF Lease
  <2>5. lease'[reading[w].job] = -1
    BY <1>3, <2>1, <2>4
  <2> QED BY <2>5
<1> QED
  BY <1>5, <1>7, <1>8, <1>9, <1>10, <1>11, <1>12 DEF Inv

\* The end of a process preserves the invariant: its executions end where they
\* are and its heartbeats stop; the rows keep their leases.
LEMMA ExitInv ==
  ASSUME Inv, NEW w \in Workers, Exit(w), faults' \in 0 .. MaxFaults
  PROVE  Inv'
<1> USE NullAssumption, LeaseAssumption DEF table, output
<1>1. UNCHANGED <<table, output, rjob, home, lost>>
  BY DEF Exit
<1>2. \A p \in Owners :
         IF home[p] = w THEN pc'[p] = "ended" /\ ~beat'[p] /\ age'[p] = 0
         ELSE pc'[p] = pc[p] /\ beat'[p] = beat[p] /\ age'[p] = age[p]
  BY DEF Inv, TypeOK, Exit
<1>3. \A v \in Workers : /\ proc'[v] = IF v = w THEN "down" ELSE proc[v]
                         /\ reading'[v] \in {NULL, reading[v]}
  BY DEF Inv, TypeOK, Exit
<1>4. TypeOK'
  <2>1. /\ proc' \in [Workers -> {"up", "stalled", "stopping", "down"}]
        /\ phase' \in [Workers -> {"await", "recover", "claim"}]
        /\ todo' \in [Workers -> SUBSET Jobs]
        /\ reading' \in [Workers ->
              {NULL} \cup [job : Jobs, owner : Owners, cancel : BOOLEAN]]
    BY DEF Inv, TypeOK, Exit
  <2>2. /\ pc' \in [Owners -> PC] /\ beat' \in [Owners -> BOOLEAN]
        /\ age' \in [Owners -> 0 .. LeaseTicks + 1]
    BY DEF Inv, TypeOK, Exit, PC
  <2> QED BY <1>1, <2>1, <2>2 DEF Inv, TypeOK
<1>5. /\ LeaseColumns' /\ NeverResumed' /\ SnapshotsAreBacked'
      /\ CancelNeverSucceeds'
  BY <1>1 DEF Inv, LeaseColumns, NeverResumed, SnapshotsAreBacked,
     CancelNeverSucceeds
<1>6. TokenRecords' /\ ClaimedJobs'
  BY <1>1, <1>2 DEF Inv, TokenRecords, ClaimedJobs
<1>7. \A p \in Owners : beat'[p] => /\ beat[p] /\ home[p] \in Workers
                                     /\ proc'[home[p]] = proc[home[p]]
  BY <1>2, <1>3 DEF Inv, TypeOK, TokenRecords
<1>8. BeatOnTime'
  BY <1>1, <1>2, <1>3, <1>7 DEF Inv, BeatOnTime
<1>9. LeaseTracksBeat'
  BY <1>1, <1>2, <1>7 DEF Inv, LeaseTracksBeat, Holds
<1>10. ReadingStale'
  BY <1>1, <1>3 DEF Inv, ReadingStale, Holds
<1> QED BY <1>4, <1>5, <1>6, <1>8, <1>9, <1>10 DEF Inv

\* The other steps of a process preserve the invariant.
LEMMA ProcessInv == ASSUME Inv, NEW w \in Workers, Process(w) PROVE Inv'
<1> USE BoundAssumption
<1>1. CASE Stall(w)
  BY <1>1, LoopStep DEF Inv, TypeOK, Stall, Fault
<1>2. CASE Resume(w)
  BY <1>2, LoopStep DEF Inv, TypeOK, Resume, NoFault
<1>3. CASE Crash(w)
  BY <1>3, ExitInv DEF Inv, TypeOK, Crash, Fault
<1>4. CASE Stop(w)
  BY <1>4, LoopStep DEF Inv, TypeOK, Stop, NoFault
<1>5. CASE Stopped(w)
  BY <1>5, ExitInv DEF Inv, TypeOK, Stopped, NoFault
<1>6. CASE Start(w)
  BY <1>6, LoopStep DEF Inv, TypeOK, Start, NoFault
<1> QED BY <1>1, <1>2, <1>3, <1>4, <1>5, <1>6 DEF Process

\* Every step preserves the invariant.
LEMMA NextInv == Inv /\ [Next]_vars => Inv'
<1> SUFFICES ASSUME Inv, [Next]_vars PROVE Inv'
  OBVIOUS
<1>1. CASE Operator
  BY <1>1, CreateJobInv, RequestCancellationInv, ResolveStaleCancellationInv
  DEF Operator
<1>2. ASSUME NEW w \in Workers, Loop(w) \/ RecoverError(w) PROVE Inv'
  BY <1>2, PollInv, RecoverReadInv, RecoverApplyInv, ClaimListInv, ClaimInv,
     ClaimMissedInv, EndClaimInv, RecoverErrorInv
  DEF Loop
<1>3. ASSUME NEW w \in Workers, Process(w) PROVE Inv'
  BY <1>3, ProcessInv
<1>4. ASSUME NEW o \in Owners, Execution(o) \/ ExecuteError(o) PROVE Inv'
  BY <1>4, BeginInv, CollectedInv, CollectRaisedInv, StoreEvidenceInv,
     ProcessRaisedInv, SucceedInv, FailingInv, FailMarkInv, CancellingInv,
     CancelLateInv, RaisedInv, CloseInv, ExecuteErrorInv
  DEF Execution
<1>5. ASSUME NEW o \in Owners, Heartbeat(o) \/ HeartbeatError(o) PROVE Inv'
  BY <1>5, HeartbeatInv, HeartbeatErrorInv
<1>6. CASE Tick
  BY <1>6, TickInv
<1>7. CASE UNCHANGED vars
  <2>1. UNCHANGED <<table, output, runs, loops, faults>>
    BY <1>7 DEF vars
  <2> QED BY <2>1, LoopStep DEF Inv, TypeOK, loops
<1> QED BY <1>1, <1>2, <1>3, <1>4, <1>5, <1>6, <1>7 DEF Next

\* The invariant holds in every reachable state.
THEOREM Invariance == Spec => []Inv
  BY InitInv, NextInv, PTL DEF Spec

\* Every variable keeps its type.
THEOREM TypeCorrect == Spec => []TypeOK
<1>1. Inv => TypeOK
  BY DEF Inv
<1> QED BY <1>1, Invariance, PTL

\* Lease columns and state agree in every reachable state: no terminal or
\* queued row keeps a lease, no claimed running row is without one.
THEOREM LeaseColumnsHold == Spec => []LeaseColumns
<1>1. Inv => LeaseColumns
  BY DEF Inv
<1> QED BY <1>1, Invariance, PTL

\* No job is ever claimed twice, by whichever workers and after whichever
\* crashes, freezes and recoveries.
THEOREM NeverResumedHolds == Spec => []NeverResumed
<1>1. Inv => NeverResumed
  BY DEF Inv
<1> QED BY <1>1, Invariance, PTL

\* The lease a heartbeat keeps is as old as the heartbeat: without freezes no
\* job of a live process is ever found expired.
THEOREM LeaseTracksBeatHolds == Spec => []LeaseTracksBeat
<1>1. Inv => LeaseTracksBeat
  BY DEF Inv
<1> QED BY <1>1, Invariance, PTL

\* Every success has its snapshot; a failed or abandoned job has none.
THEOREM SnapshotsHold == Spec => []SnapshotsAreBacked
<1>1. Inv => SnapshotsAreBacked
  BY DEF Inv
<1> QED BY <1>1, Invariance, PTL

\* A job whose cancellation was accepted never succeeds.
THEOREM CancellationHolds == Spec => []CancelNeverSucceeds
<1>1. Inv => CancelNeverSucceeds
  BY DEF Inv
<1> QED BY <1>1, Invariance, PTL

-----------------------------------------------------------------------------
(* Refinement of JobLifecycle.                                             *)

\* Ending a running job is a transition the contract allows.
LEMMA FinishAllowed ==
  ASSUME Inv, NEW j \in Jobs,
         NEW s \in {"succeeded", "failed", "cancelled"},
         state[j] = "running", Finish(j, s),
         NEW i \in Jobs
  PROVE  state'[i] = state[i] \/ state'[i] \in LC!Allowed(state[i])
  BY DEF Inv, TypeOK, Finish, LC!Allowed

\* Every step changes every job as the contract allows, or not at all.
LEMMA StepAllowed ==
  ASSUME Inv, [Next]_vars, NEW i \in Jobs
  PROVE  state'[i] = state[i] \/ state'[i] \in LC!Allowed(state[i])
<1> USE DEF table, loops, runs, output
<1>1. ASSUME NEW j \in Jobs, CreateJob(j)
      PROVE  state'[i] = state[i] \/ state'[i] \in LC!Allowed(state[i])
  BY <1>1 DEF Inv, TypeOK, CreateJob, LC!Allowed
<1>2. ASSUME NEW j \in Jobs, RequestCancellation(j)
      PROVE  state'[i] = state[i] \/ state'[i] \in LC!Allowed(state[i])
  BY <1>2 DEF Inv, TypeOK, RequestCancellation, LC!Allowed
<1>3. ASSUME NEW j \in Jobs, ResolveStaleCancellation(j)
      PROVE  state'[i] = state[i] \/ state'[i] \in LC!Allowed(state[i])
  BY <1>3, FinishAllowed DEF ResolveStaleCancellation
<1>4. ASSUME NEW w \in Workers, Loop(w) \/ RecoverError(w)
      PROVE  state'[i] = state[i] \/ state'[i] \in LC!Allowed(state[i])
  <2>1. CASE RecoverApply(w)
    <3>1. reading[w].job \in Jobs
      BY <2>1 DEF Inv, TypeOK, RecoverApply
    <3> QED BY <2>1, <3>1, FinishAllowed DEF RecoverApply, Holds
  <2>2. ASSUME NEW j \in Jobs, NEW o \in Owners, Claim(w, j, o)
        PROVE  state'[i] = state[i] \/ state'[i] \in LC!Allowed(state[i])
    BY <2>2 DEF Inv, TypeOK, Claim, Claimable, LC!Allowed
  <2>3. ASSUME \/ Poll(w) \/ RecoverRead(w) \/ ClaimList(w) \/ EndClaim(w)
               \/ RecoverError(w) \/ \E j \in Jobs : ClaimMissed(w, j)
        PROVE  state'[i] = state[i]
    BY <2>3 DEF Poll, RecoverRead, ClaimList, EndClaim, RecoverError, ClaimMissed
  <2> QED BY <1>4, <2>1, <2>2, <2>3 DEF Loop
<1>5. ASSUME NEW w \in Workers, Process(w) PROVE state'[i] = state[i]
  BY <1>5
  DEF Process, Stall, Resume, Crash, Stop, Stopped, Start, Exit
<1>6. ASSUME NEW o \in Owners, Execution(o) \/ ExecuteError(o)
      PROVE  state'[i] = state[i] \/ state'[i] \in LC!Allowed(state[i])
  <2>1. rjob[o] \in Jobs
    BY <1>6
    DEF Inv, TypeOK, TokenRecords, Execution, Begin, Collected, CollectRaised,
        StoreEvidence, ProcessRaised, Succeed, Failing, FailMark, Cancelling,
        CancelLate, Raised, Close, ExecuteError
  <2>2. \/ UNCHANGED table
        \/ /\ Holds(o, rjob[o])
           /\ \E s \in {"succeeded", "failed", "cancelled"} : Finish(rjob[o], s)
    BY <1>6
    DEF Execution, Begin, Collected, CollectRaised,
        StoreEvidence, ProcessRaised, Succeed, Failing, FailMark, Cancelling,
        CancelLate, Raised, Close, ExecuteError, AbandonIfOwned
  <2> QED BY <2>1, <2>2, FinishAllowed DEF Holds
<1>7. ASSUME NEW o \in Owners, Heartbeat(o) \/ HeartbeatError(o)
      PROVE  state'[i] = state[i] \/ state'[i] \in LC!Allowed(state[i])
  <2>1. rjob[o] \in Jobs
    BY <1>7 DEF Inv, TypeOK, TokenRecords, Heartbeat, HeartbeatError
  <2>2. \/ UNCHANGED state
        \/ /\ Holds(o, rjob[o])
           /\ \E s \in {"failed", "cancelled"} : Finish(rjob[o], s)
    BY <1>7 DEF Heartbeat, HeartbeatError, AbandonIfOwned
  <2> QED BY <2>1, <2>2, FinishAllowed DEF Holds
<1>8. CASE Tick \/ UNCHANGED vars
  BY <1>8 DEF Tick, vars
<1> QED
  BY <1>1, <1>2, <1>3, <1>4, <1>5, <1>6, <1>7, <1>8 DEF Next, Operator

\* The leased job table with its workers implements the contract of
\* discovery/contracts.py: whatever interleaves, freezes or crashes, a job
\* moves along the allowed transitions and a terminal job is final.
THEOREM Refinement == Spec => JobContract
<1>1. Init => LC!Init
  BY DEF Init, LC!Init
<1>2. Inv /\ [Next]_vars => [LC!Next]_state
  <2> SUFFICES ASSUME Inv, [Next]_vars PROVE LC!Next
    OBVIOUS
  <2>1. state' \in [Jobs -> LC!Status]
    BY NextInv DEF Inv, TypeOK
  <2> QED BY <2>1, StepAllowed DEF LC!Next
<1> QED BY <1>1, <1>2, Invariance, PTL DEF Spec, JobContract, LC!Spec

-----------------------------------------------------------------------------
(* Recovery spares good leases, as long as no process freezes.             *)

\* A step that ends o's job while its lease is good is a step of o.
LEMMA ReconcileStep ==
  ASSUME ~CanStall, Inv, Next,
         NEW o \in Owners, rjob[o] # NULL,
         Holds(o, rjob[o]), lease[rjob[o]] > 0, state'[rjob[o]] # "running"
  PROVE  pc'[o] # pc[o] \/ lost'[o]
<1> USE DEF table, loops, runs, output
<1> DEFINE j == rjob[o]
<1>1. /\ j \in Jobs /\ state[j] = "running" /\ owner[j] = o /\ pc[o] # "unused"
      /\ pc[o] \in PC
  BY DEF Inv, TypeOK, TokenRecords, Holds
<1>2. lease[j] \in Lease
  <2>1. lease[j] # NULL
    BY <1>1, NullAssumption DEF Inv, LeaseColumns
  <2> QED BY <1>1, <2>1 DEF Inv, TypeOK
<1>3. ASSUME NEW i \in Jobs, CreateJob(i) \/ RequestCancellation(i) PROVE FALSE
  BY <1>1, <1>3 DEF Inv, TypeOK, CreateJob, RequestCancellation
<1>4. ASSUME NEW i \in Jobs, ResolveStaleCancellation(i) PROVE FALSE
  <2>1. i = j
    BY <1>1, <1>4 DEF Inv, TypeOK, ResolveStaleCancellation, Finish
  <2> QED
    BY <1>1, <1>2, <1>4, <2>1, NullAssumption, LeaseAssumption
    DEF ResolveStaleCancellation, Lease
<1>5. ASSUME NEW w \in Workers, RecoverApply(w) PROVE FALSE
  <2>1. reading[w].job \in Jobs /\ Holds(reading[w].owner, reading[w].job)
        /\ Finish(reading[w].job, IF reading[w].cancel THEN "cancelled"
                                                       ELSE "failed")
    BY <1>1, <1>5 DEF Inv, TypeOK, RecoverApply
  <2>2. reading[w].job = j
    BY <1>1, <2>1 DEF Inv, TypeOK, Finish
  <2>3. lease[j] < 0
    BY <1>5, <2>1, <2>2 DEF Inv, ReadingStale, RecoverApply
  <2> QED BY <1>2, <2>3, LeaseAssumption DEF Lease
<1>6. ASSUME NEW w \in Workers, Loop(w) \/ RecoverError(w) PROVE FALSE
  <2>1. ASSUME NEW i \in Jobs, NEW p \in Owners, Claim(w, i, p) PROVE FALSE
    BY <1>1, <2>1 DEF Inv, TypeOK, Claim
  <2>2. ASSUME \/ Poll(w) \/ RecoverRead(w) \/ ClaimList(w) \/ EndClaim(w)
               \/ RecoverError(w) \/ \E i \in Jobs : ClaimMissed(w, i)
        PROVE  FALSE
    BY <1>1, <2>2
    DEF Poll, RecoverRead, ClaimList, EndClaim, RecoverError, ClaimMissed
  <2> QED BY <1>5, <1>6, <2>1, <2>2 DEF Loop
<1>7. ASSUME NEW w \in Workers, Process(w) PROVE FALSE
  BY <1>1, <1>7
  DEF Process, Stall, Resume, Crash, Stop, Stopped, Start, Exit
<1>8. ASSUME NEW p \in Owners, Execution(p) \/ ExecuteError(p)
      PROVE  pc'[o] # pc[o]
  <2>1. rjob[p] \in Jobs
    BY <1>8
    DEF Inv, TypeOK, TokenRecords, Execution, Begin, Collected, CollectRaised,
        StoreEvidence, ProcessRaised, Succeed, Failing, FailMark, Cancelling,
        CancelLate, Raised, Close, ExecuteError
  <2>2. /\ Holds(p, rjob[p])
        /\ \E s \in {"succeeded", "failed", "cancelled"} : Finish(rjob[p], s)
        /\ \/ Goto(p, "closing") /\ pc[p] # "closing"
           \/ Goto(p, "ended") /\ pc[p] # "ended"
    BY <1>1, <1>8
    DEF Execution, Begin, Collected, CollectRaised,
        StoreEvidence, ProcessRaised, Succeed, Failing, FailMark, Cancelling,
        CancelLate, Raised, Close, ExecuteError, AbandonIfOwned
  <2>3. rjob[p] = j
    BY <1>1, <2>1, <2>2 DEF Inv, TypeOK, Finish
  <2>4. p = o
    BY <1>1, <2>2, <2>3 DEF Holds
  <2> QED BY <2>2, <2>4 DEF Inv, TypeOK, Goto
<1>9. ASSUME NEW p \in Owners, Heartbeat(p) \/ HeartbeatError(p)
      PROVE  lost'[o]
  <2>1. rjob[p] \in Jobs
    BY <1>9 DEF Inv, TypeOK, TokenRecords, Heartbeat, HeartbeatError
  <2>2. /\ Holds(p, rjob[p])
        /\ \E s \in {"failed", "cancelled"} : Finish(rjob[p], s)
        /\ lost' = [lost EXCEPT ![p] = TRUE]
    BY <1>1, <1>9 DEF Heartbeat, HeartbeatError, AbandonIfOwned
  <2>3. rjob[p] = j
    BY <1>1, <2>1, <2>2 DEF Inv, TypeOK, Finish
  <2> QED BY <1>1, <2>2, <2>3 DEF Holds, Inv, TypeOK
<1>10. CASE Tick
  BY <1>1, <1>10 DEF Tick
<1> QED
  BY <1>3, <1>4, <1>6, <1>7, <1>8, <1>9, <1>10 DEF Next, Operator

\* If no process freezes, recovery and forced cancellation never end a job
\* whose lease is good, although recovery does not re-check the lease when it
\* writes: an expired lease then stays expired.
THEOREM RecoverySparesGoodLeases ==
  ASSUME ~CanStall PROVE Spec => ReconcileExpiredOnly
<1>1. Inv /\ [Next]_vars =>
        [\A o \in Owners :
            LET j == rjob[o] IN
            /\ j # NULL
            /\ Holds(o, j) /\ lease[j] > 0 /\ state'[j] # "running"
            => pc'[o] # pc[o] \/ lost'[o]]_vars
  BY ReconcileStep
<1> QED BY <1>1, Invariance, PTL DEF Spec, ReconcileExpiredOnly

=============================================================================
