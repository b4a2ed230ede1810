------------------------- MODULE NetBoxSyncProofs -------------------------
(***************************************************************************)
(* Proofs about NetBoxSync, for any number of processes, jobs, pages,      *)
(* connections, crashes and failing transactions: one synchronisation at a *)
(* time, and outcomes that are true.                                       *)
(***************************************************************************)
EXTENDS NetBoxSync, FiniteSetTheorems, TLAPS

-----------------------------------------------------------------------------
(* Tasks                                                                   *)

JobInv(j) == Requested(j) /\ Unused(j) /\ TaskIsTrue(j) /\ OwnedAreActive(j)

\* A step that leaves a job and the requests alone keeps what is said of it.
LEMMA OtherJob ==
  ASSUME IInv, NEW i \in Jobs,
         status'[i] = status[i], task'[i] = task[i], stored'[i] = stored[i],
         audits'[i] = audits[i], i \in error' <=> i \in error,
         UNCHANGED << up, req, crashes, disowned >>, errors' \in Nat, errors' >= errors
  PROVE  JobInv(i)' /\ TrueOutcome(i)'
<1>1. JobInv(i) /\ TrueOutcome(i) /\ errors \in Nat /\ crashes \in Nat
  BY DEF IInv, OutcomeIsTrue, JobInv, TypeOK
<1>2. (errors > 0 => errors' > 0) /\ (errors' = 0 => errors = 0)
  BY <1>1
<1>3. i \in Active' <=> i \in Active
  BY DEF Active
<1>4. Requested(i)' /\ Unused(i)'
  BY <1>1 DEF JobInv, Requested, Unused
<1>5. TaskIsTrue(i)'
  BY <1>1, <1>2 DEF JobInv, TaskIsTrue
<1>6. OwnedAreActive(i)'
  BY <1>1, <1>3 DEF JobInv, OwnedAreActive
<1>7. TrueOutcome(i)'
  BY <1>1, <1>2 DEF TrueOutcome
<1> QED BY <1>4, <1>5, <1>6, <1>7 DEF JobInv

\* A record of a task whose other fields are replaced.
LEMMA TaskUpdate ==
  ASSUME NEW t \in TaskRecord, NEW a \in {"added", "fetching", "caching"},
         NEW e \in 0 .. Endpoints + 1, NEW g \in 0 .. MaxPages, NEW n \in 0 .. MaxAttempts
  PROVE  LET u == [at |-> a, proc |-> t.proc, endpoint |-> e, page |-> g, attempt |-> n]
         IN  u \in TaskRecord
<1>1. t.proc \in Procs \cup {NULL}
  BY DEF TaskRecord
<1> QED BY <1>1 DEF TaskRecord

\* The next page, or the next collection, is one of the dataset's.
LEMMA AdvanceFacts ==
  ASSUME NEW t \in TaskRecord, t.at = "fetching", t.endpoint \in 1 .. Endpoints,
         t.page > 0, NEW more \in BOOLEAN, more => t.page < MaxPages
  PROVE  /\ Advance(t, more) \in TaskRecord
         /\ Advance(t, more).proc = t.proc
         /\ \/ Advance(t, more).at = "caching"
            \/ /\ Advance(t, more).at = "fetching"
               /\ Advance(t, more).endpoint \in 1 .. Endpoints
               /\ Advance(t, more).page > 0 /\ Advance(t, more).attempt > 0
<1>0. /\ Endpoints \in Nat /\ MaxPages \in Nat \ {0} /\ MaxAttempts \in Nat \ {0}
      /\ 1 \in 0 .. MaxPages /\ 1 \in 0 .. MaxAttempts
      /\ t.endpoint \in 0 .. Endpoints + 1 /\ t.page \in 0 .. MaxPages
  BY NetBoxAssumption DEF TaskRecord
<1>1. CASE more
  <2>1. Advance(t, more) = [t EXCEPT !.page = t.page + 1, !.attempt = 1]
    BY <1>1 DEF Advance
  <2>2. t.page + 1 \in 0 .. MaxPages /\ t.page + 1 > 0 /\ 1 > 0
    BY <1>0, <1>1
  <2> DEFINE g == t.page + 1
             u == [at |-> "fetching", proc |-> t.proc, endpoint |-> t.endpoint, page |-> g,
                   attempt |-> 1]
  <2>3. Advance(t, more) = u
    BY <2>1 DEF TaskRecord
  <2> HIDE DEF g
  <2>4. u \in TaskRecord
    BY <1>0, <2>2, TaskUpdate DEF g
  <2> QED BY <2>2, <2>3, <2>4 DEF g
<1>2. CASE ~ more /\ ~ IsLast(t)
  <2>1. Advance(t, more) = [t EXCEPT !.endpoint = t.endpoint + 1, !.page = 1, !.attempt = 1]
    BY <1>2 DEF Advance
  <2>2. t.endpoint + 1 \in 1 .. Endpoints /\ t.endpoint + 1 \in 0 .. Endpoints + 1 /\ 1 > 0
    BY <1>0, <1>2 DEF IsLast
  <2> DEFINE e == t.endpoint + 1
             u == [at |-> "fetching", proc |-> t.proc, endpoint |-> e, page |-> 1,
                   attempt |-> 1]
  <2>3. Advance(t, more) = u
    BY <2>1 DEF TaskRecord
  <2> HIDE DEF e
  <2>4. u \in TaskRecord
    BY <1>0, <2>2, TaskUpdate DEF e
  <2> QED BY <2>2, <2>3, <2>4 DEF e
<1>3. CASE ~ more /\ IsLast(t)
  <2>1. Advance(t, more) = [t EXCEPT !.at = "caching", !.endpoint = t.endpoint + 1]
    BY <1>3 DEF Advance
  <2>2. t.endpoint + 1 \in 0 .. Endpoints + 1
    BY <1>0
  <2> QED BY <1>0, <2>1, <2>2 DEF TaskRecord
<1> QED BY <1>1, <1>2, <1>3

-----------------------------------------------------------------------------
(* Every step keeps the invariant                                          *)

LEMMA BeginSyncStep ==
  ASSUME IInv, NEW p \in Procs, BeginSync(p)
  PROVE  IInv'
<1> USE DEF BeginSync, LoopIsFree, Checkout, db, procs
<1>0. TypeOK /\ LockIsHeld /\ StartsOK /\ CheckIsFresh /\ OutcomeIsTrue
  BY DEF IInv
<1>J. \A i \in Jobs : Requested(i) /\ Unused(i) /\ TaskIsTrue(i) /\ OwnedAreActive(i)
  BY DEF IInv
<1>1. TypeOK'
  <2>1. req' \in [Procs -> Request]
    BY <1>0 DEF TypeOK, Request, NoRequest, Conns
  <2>2. task' \in [Jobs -> TaskRecord]
    BY <1>0, NetBoxAssumption DEF TypeOK, TaskRecord, NoTask
  <2>3. /\ status' \in [Jobs -> {NULL, "queued", "running", "succeeded", "failed"}]
        /\ stored' \in [Jobs -> 0 .. 1]
        /\ audits' \in [Jobs -> SUBSET {"submitted", "success", "failed"}]
    BY <1>0 DEF TypeOK
  <2>4. /\ postgres' \in BOOLEAN /\ up' \subseteq Procs
        /\ starting' \subseteq Procs /\ stuck' \in [Procs -> SUBSET Jobs]
        /\ holder' \in Procs \X (1 .. MaxConns) \cup {NULL} /\ depth' \in Nat
        /\ error' \subseteq Jobs /\ degraded' \subseteq Procs
        /\ crashes' \in 0 .. MaxCrashes /\ errors' \in 0 .. MaxErrors /\ disowned' \in BOOLEAN
    BY <1>0, NetBoxAssumption DEF TypeOK, Conns
  <2> QED BY <2>1, <2>2, <2>3, <2>4 DEF TypeOK
<1>2. LockIsHeld'
  BY <1>0, NullAssumption, NetBoxAssumption DEF LockIsHeld, Section, TypeOK, Request, Conns
<1>3. ASSUME NEW i \in Jobs
      PROVE  (Requested(i) /\ Unused(i) /\ TaskIsTrue(i) /\ OwnedAreActive(i))'
  <2>1. Requested(i)'
    BY <1>0, <1>1, <1>J, NullAssumption DEF Requested, TypeOK, Request, TaskRecord
  <2>2. Unused(i)'
    BY <1>0, <1>1, <1>J, NullAssumption DEF Unused, TypeOK, Request, TaskRecord
  <2>3. TaskIsTrue(i)'
    BY <1>0, <1>1, <1>J, NullAssumption DEF TaskIsTrue, Working, TypeOK, Request, TaskRecord
  <2>4. OwnedAreActive(i)'
    BY <1>0, <1>1, <1>J, NullAssumption DEF OwnedAreActive, Active, Working, TypeOK, Request, TaskRecord
  <2> QED BY <2>1, <2>2, <2>3, <2>4
<1>4. CheckIsFresh'
  BY <1>0, <1>1, NullAssumption DEF CheckIsFresh, Active, TypeOK
<1>5. OutcomeIsTrue'
  BY <1>0, <1>1, <1>J, NullAssumption DEF OutcomeIsTrue, TrueOutcome, TypeOK, TaskRecord
<1>6. StartsOK'
  BY <1>0, NullAssumption DEF StartsOK, TypeOK
<1> QED BY <1>1, <1>2, <1>3, <1>4, <1>5, <1>6 DEF IInv

LEMMA LockStep ==
  ASSUME IInv, NEW p \in Procs, Lock(p)
  PROVE  IInv'
<1> USE DEF Lock, Grantable, db, procs
<1>0. TypeOK /\ LockIsHeld /\ StartsOK /\ CheckIsFresh /\ OutcomeIsTrue
  BY DEF IInv
<1>J. \A i \in Jobs : Requested(i) /\ Unused(i) /\ TaskIsTrue(i) /\ OwnedAreActive(i)
  BY DEF IInv
<1>1. TypeOK'
  <2>1. req' \in [Procs -> Request]
    BY <1>0 DEF TypeOK, Request, NoRequest, Conns
  <2>2. task' \in [Jobs -> TaskRecord]
    BY <1>0, NetBoxAssumption DEF TypeOK, TaskRecord, NoTask
  <2>3. /\ status' \in [Jobs -> {NULL, "queued", "running", "succeeded", "failed"}]
        /\ stored' \in [Jobs -> 0 .. 1]
        /\ audits' \in [Jobs -> SUBSET {"submitted", "success", "failed"}]
    BY <1>0 DEF TypeOK
  <2>4. /\ postgres' \in BOOLEAN /\ up' \subseteq Procs
        /\ starting' \subseteq Procs /\ stuck' \in [Procs -> SUBSET Jobs]
        /\ holder' \in Procs \X (1 .. MaxConns) \cup {NULL} /\ depth' \in Nat
        /\ error' \subseteq Jobs /\ degraded' \subseteq Procs
        /\ crashes' \in 0 .. MaxCrashes /\ errors' \in 0 .. MaxErrors /\ disowned' \in BOOLEAN
    BY <1>0, NullAssumption, NetBoxAssumption DEF TypeOK, Conns, LockIsHeld, Request
  <2> QED BY <2>1, <2>2, <2>3, <2>4 DEF TypeOK
<1>2. LockIsHeld'
  BY <1>0, NullAssumption, NetBoxAssumption DEF LockIsHeld, Section, TypeOK, Request, Conns
<1>3. ASSUME NEW i \in Jobs
      PROVE  (Requested(i) /\ Unused(i) /\ TaskIsTrue(i) /\ OwnedAreActive(i))'
  <2>1. Requested(i)'
    BY <1>0, <1>1, <1>J, NullAssumption DEF Requested, TypeOK, Request, TaskRecord
  <2>2. Unused(i)'
    BY <1>0, <1>1, <1>J, NullAssumption DEF Unused, TypeOK, Request, TaskRecord
  <2>3. TaskIsTrue(i)'
    BY <1>0, <1>1, <1>J, NullAssumption DEF TaskIsTrue, Working, TypeOK, Request, TaskRecord
  <2>4. OwnedAreActive(i)'
    BY <1>0, <1>1, <1>J, NullAssumption DEF OwnedAreActive, Active, Working, TypeOK, Request, TaskRecord
  <2> QED BY <2>1, <2>2, <2>3, <2>4
<1>4. CheckIsFresh'
  BY <1>0, <1>1, NullAssumption DEF CheckIsFresh, Active, TypeOK
<1>5. OutcomeIsTrue'
  BY <1>0, <1>1, <1>J, NullAssumption DEF OutcomeIsTrue, TrueOutcome, TypeOK, TaskRecord
<1>6. StartsOK'
  BY <1>0, NullAssumption DEF StartsOK, TypeOK
<1> QED BY <1>1, <1>2, <1>3, <1>4, <1>5, <1>6 DEF IInv

LEMMA CheckActiveStep ==
  ASSUME IInv, NEW p \in Procs, CheckActive(p)
  PROVE  IInv'
<1> USE DEF CheckActive, db, procs
<1>0. TypeOK /\ LockIsHeld /\ StartsOK /\ CheckIsFresh /\ OutcomeIsTrue
  BY DEF IInv
<1>J. \A i \in Jobs : Requested(i) /\ Unused(i) /\ TaskIsTrue(i) /\ OwnedAreActive(i)
  BY DEF IInv
<1>1. TypeOK'
  <2>1. req' \in [Procs -> Request]
    BY <1>0 DEF TypeOK, Request, NoRequest, Conns
  <2>2. task' \in [Jobs -> TaskRecord]
    BY <1>0, NetBoxAssumption DEF TypeOK, TaskRecord, NoTask
  <2>3. /\ status' \in [Jobs -> {NULL, "queued", "running", "succeeded", "failed"}]
        /\ stored' \in [Jobs -> 0 .. 1]
        /\ audits' \in [Jobs -> SUBSET {"submitted", "success", "failed"}]
    BY <1>0 DEF TypeOK
  <2>4. /\ postgres' \in BOOLEAN /\ up' \subseteq Procs
        /\ starting' \subseteq Procs /\ stuck' \in [Procs -> SUBSET Jobs]
        /\ holder' \in Procs \X (1 .. MaxConns) \cup {NULL} /\ depth' \in Nat
        /\ error' \subseteq Jobs /\ degraded' \subseteq Procs
        /\ crashes' \in 0 .. MaxCrashes /\ errors' \in 0 .. MaxErrors /\ disowned' \in BOOLEAN
    BY <1>0, NetBoxAssumption DEF TypeOK, Conns
  <2> QED BY <2>1, <2>2, <2>3, <2>4 DEF TypeOK
<1>2. LockIsHeld'
  BY <1>0, NullAssumption, NetBoxAssumption DEF LockIsHeld, Section, TypeOK, Request, Conns
<1>3. ASSUME NEW i \in Jobs
      PROVE  (Requested(i) /\ Unused(i) /\ TaskIsTrue(i) /\ OwnedAreActive(i))'
  <2>1. Requested(i)'
    BY <1>0, <1>1, <1>J, NullAssumption DEF Requested, TypeOK, Request, TaskRecord
  <2>2. Unused(i)'
    BY <1>0, <1>1, <1>J, NullAssumption DEF Unused, TypeOK, Request, TaskRecord
  <2>3. TaskIsTrue(i)'
    BY <1>0, <1>1, <1>J, NullAssumption DEF TaskIsTrue, Working, TypeOK, Request, TaskRecord
  <2>4. OwnedAreActive(i)'
    BY <1>0, <1>1, <1>J, NullAssumption DEF OwnedAreActive, Active, Working, TypeOK, Request, TaskRecord
  <2> QED BY <2>1, <2>2, <2>3, <2>4
<1>4. CheckIsFresh'
  BY <1>0, <1>1, NullAssumption DEF CheckIsFresh, Active, TypeOK
<1>5. OutcomeIsTrue'
  BY <1>0, <1>1, <1>J, NullAssumption DEF OutcomeIsTrue, TrueOutcome, TypeOK, TaskRecord
<1>6. StartsOK'
  BY <1>0, NullAssumption DEF StartsOK, TypeOK
<1> QED BY <1>1, <1>2, <1>3, <1>4, <1>5, <1>6 DEF IInv

LEMMA RefuseStep ==
  ASSUME IInv, NEW p \in Procs, Refuse(p)
  PROVE  IInv'
<1> USE DEF Refuse, UnlockOn, NoRequest, db, procs
<1>0. TypeOK /\ LockIsHeld /\ StartsOK /\ CheckIsFresh /\ OutcomeIsTrue
  BY DEF IInv
<1>J. \A i \in Jobs : Requested(i) /\ Unused(i) /\ TaskIsTrue(i) /\ OwnedAreActive(i)
  BY DEF IInv
<1>1. TypeOK'
  <2>1. req' \in [Procs -> Request]
    BY <1>0 DEF TypeOK, Request, NoRequest, Conns
  <2>2. task' \in [Jobs -> TaskRecord]
    BY <1>0, NetBoxAssumption DEF TypeOK, TaskRecord, NoTask
  <2>3. /\ status' \in [Jobs -> {NULL, "queued", "running", "succeeded", "failed"}]
        /\ stored' \in [Jobs -> 0 .. 1]
        /\ audits' \in [Jobs -> SUBSET {"submitted", "success", "failed"}]
    BY <1>0 DEF TypeOK
  <2>4. /\ postgres' \in BOOLEAN /\ up' \subseteq Procs
        /\ starting' \subseteq Procs /\ stuck' \in [Procs -> SUBSET Jobs]
        /\ holder' \in Procs \X (1 .. MaxConns) \cup {NULL} /\ depth' \in Nat
        /\ error' \subseteq Jobs /\ degraded' \subseteq Procs
        /\ crashes' \in 0 .. MaxCrashes /\ errors' \in 0 .. MaxErrors /\ disowned' \in BOOLEAN
    <3>1. holder' \in Procs \X (1 .. MaxConns) \cup {NULL}
      BY <1>0 DEF TypeOK
    <3>2. depth' \in Nat
      BY <1>0, NullAssumption DEF TypeOK, LockIsHeld, Section, Conns
    <3> QED BY <1>0, <3>1, <3>2 DEF TypeOK
  <2> QED BY <2>1, <2>2, <2>3, <2>4 DEF TypeOK
<1>2. LockIsHeld'
  BY <1>0, NullAssumption, NetBoxAssumption DEF LockIsHeld, Section, TypeOK, Request, Conns
<1>3. ASSUME NEW i \in Jobs
      PROVE  (Requested(i) /\ Unused(i) /\ TaskIsTrue(i) /\ OwnedAreActive(i))'
  <2>1. Requested(i)'
    BY <1>0, <1>1, <1>J, NullAssumption DEF Requested, TypeOK, Request, TaskRecord
  <2>2. Unused(i)'
    BY <1>0, <1>1, <1>J, NullAssumption DEF Unused, TypeOK, Request, TaskRecord
  <2>3. TaskIsTrue(i)'
    BY <1>0, <1>1, <1>J, NullAssumption DEF TaskIsTrue, Working, TypeOK, Request, TaskRecord
  <2>4. OwnedAreActive(i)'
    BY <1>0, <1>1, <1>J, NullAssumption DEF OwnedAreActive, Active, Working, TypeOK, Request, TaskRecord
  <2> QED BY <2>1, <2>2, <2>3, <2>4
<1>4. CheckIsFresh'
  BY <1>0, <1>1, NullAssumption DEF CheckIsFresh, Active, TypeOK
<1>5. OutcomeIsTrue'
  BY <1>0, <1>1, <1>J, NullAssumption DEF OutcomeIsTrue, TrueOutcome, TypeOK, TaskRecord
<1>6. StartsOK'
  BY <1>0, NullAssumption DEF StartsOK, TypeOK
<1> QED BY <1>1, <1>2, <1>3, <1>4, <1>5, <1>6 DEF IInv

LEMMA InsertJobStep ==
  ASSUME IInv, NEW p \in Procs, InsertJob(p)
  PROVE  IInv'
<1> USE DEF InsertJob, procs
<1>0. TypeOK /\ LockIsHeld /\ StartsOK /\ CheckIsFresh /\ OutcomeIsTrue
  BY DEF IInv
<1>J. \A i \in Jobs : Requested(i) /\ Unused(i) /\ TaskIsTrue(i) /\ OwnedAreActive(i)
  BY DEF IInv
<1>s. PICK j \in Jobs :
         /\ status[j] = NULL /\ status' = [status EXCEPT ![j] = "queued"]
         /\ req' = [req EXCEPT ![p] = [at |-> IF postgres THEN "unlocking" ELSE "auditing",
                                       conn |-> NULL, job |-> j]]
  OBVIOUS
<1>t. /\ status'[j] = "queued" /\ \A i \in Jobs \ {j} : status'[i] = status[i]
      /\ req'[p].job = j /\ req'[p].at \in {"unlocking", "auditing"}
      /\ \A q \in Procs \ {p} : req'[q] = req[q]
  BY <1>0, <1>s DEF TypeOK
<1>u. /\ task[j].at = "none" /\ stored[j] = 0 /\ audits[j] = {} /\ \A q \in Procs : req[q].job # j
  BY <1>s, <1>J DEF Unused
<1>1. TypeOK'
  <2>1. req' \in [Procs -> Request]
    BY <1>0 DEF TypeOK, Request, NoRequest, Conns
  <2>2. task' \in [Jobs -> TaskRecord]
    BY <1>0, NetBoxAssumption DEF TypeOK, TaskRecord, NoTask
  <2>3. /\ status' \in [Jobs -> {NULL, "queued", "running", "succeeded", "failed"}]
        /\ stored' \in [Jobs -> 0 .. 1]
        /\ audits' \in [Jobs -> SUBSET {"submitted", "success", "failed"}]
    BY <1>0 DEF TypeOK
  <2>4. /\ postgres' \in BOOLEAN /\ up' \subseteq Procs
        /\ starting' \subseteq Procs /\ stuck' \in [Procs -> SUBSET Jobs]
        /\ holder' \in Procs \X (1 .. MaxConns) \cup {NULL} /\ depth' \in Nat
        /\ error' \subseteq Jobs /\ degraded' \subseteq Procs
        /\ crashes' \in 0 .. MaxCrashes /\ errors' \in 0 .. MaxErrors /\ disowned' \in BOOLEAN
    BY <1>0, NetBoxAssumption DEF TypeOK, Conns
  <2> QED BY <2>1, <2>2, <2>3, <2>4 DEF TypeOK
<1>2. LockIsHeld'
  BY <1>0, NullAssumption, NetBoxAssumption DEF LockIsHeld, Section, TypeOK, Request, Conns
<1>3. ASSUME NEW i \in Jobs
      PROVE  (Requested(i) /\ Unused(i) /\ TaskIsTrue(i) /\ OwnedAreActive(i))'
  <2>1. Requested(i)'
    <3>1. CASE i = j
      BY <3>1, <1>t, <1>u, NullAssumption DEF Requested
    <3>2. CASE i # j
      <4>1. Requested(i) /\ status'[i] = status[i]
        BY <1>J, <1>t, <3>2
      <4>2. \A q \in Procs : req'[q].job = i => req[q].job = i
        BY <1>t, <3>2
      <4>3. \A q \in Procs : req[q].job = i => req'[q].job = i \/ q = p
        BY <1>t
      <4> QED BY <4>1, <4>2, <1>t, <3>2 DEF Requested
    <3> QED BY <3>1, <3>2
  <2>2. Unused(i)'
    BY <1>0, <1>1, <1>J, NullAssumption DEF Unused, TypeOK, Request, TaskRecord
  <2>3. TaskIsTrue(i)'
    BY <1>0, <1>1, <1>J, NullAssumption DEF TaskIsTrue, Working, TypeOK, Request, TaskRecord
  <2>4. OwnedAreActive(i)'
    BY <1>0, <1>1, <1>J, NullAssumption DEF OwnedAreActive, Active, Working, TypeOK, Request, TaskRecord
  <2> QED BY <2>1, <2>2, <2>3, <2>4
<1>4. CheckIsFresh'
  <2> SUFFICES ASSUME postgres \/ Cardinality(Procs) = 1, ~ disowned
               PROVE  /\ \A i, k \in Active' : i = k
                      /\ \A q \in Procs : req'[q].at = "inserting" => Active' = {}
    BY DEF CheckIsFresh
  <2>1. Active = {}
    BY <1>0 DEF CheckIsFresh
  <2>2. \A i \in Active' : i = j
    BY <1>t, <2>1 DEF Active
  <2>3. ASSUME NEW q \in Procs, req'[q].at = "inserting" PROVE FALSE
    <3>1. q # p /\ req[q].at = "inserting"
      BY <1>t, <2>3
    <3>2. CASE postgres
      <4>1. req[p].conn \in Conns(p) /\ req[q].conn \in Conns(q) /\ req[p].conn = req[q].conn
        BY <1>0, <3>1, <3>2 DEF LockIsHeld, Section
      <4> QED BY <3>1, <4>1 DEF Conns
    <3>3. CASE Cardinality(Procs) = 1
      <4>1. PICK x : Procs = {x}
        BY <3>3, NetBoxAssumption, FS_Singleton
      <4> QED BY <3>1, <4>1
    <3> QED BY <3>2, <3>3
  <2> QED BY <2>2, <2>3
<1>5. OutcomeIsTrue'
  BY <1>0, <1>1, <1>J, NullAssumption DEF OutcomeIsTrue, TrueOutcome, TypeOK, TaskRecord
<1>6. StartsOK'
  BY <1>0, NullAssumption DEF StartsOK, TypeOK
<1> QED BY <1>1, <1>2, <1>3, <1>4, <1>5, <1>6 DEF IInv

LEMMA InsertFailsStep ==
  ASSUME IInv, NEW p \in Procs, InsertFails(p)
  PROVE  IInv'
<1> USE DEF InsertFails, NoRequest, db, procs
<1>0. TypeOK /\ LockIsHeld /\ StartsOK /\ CheckIsFresh /\ OutcomeIsTrue
  BY DEF IInv
<1>J. \A i \in Jobs : Requested(i) /\ Unused(i) /\ TaskIsTrue(i) /\ OwnedAreActive(i)
  BY DEF IInv
<1>1. TypeOK'
  <2>1. req' \in [Procs -> Request]
    BY <1>0 DEF TypeOK, Request, NoRequest, Conns
  <2>2. task' \in [Jobs -> TaskRecord]
    BY <1>0, NetBoxAssumption DEF TypeOK, TaskRecord, NoTask
  <2>3. /\ status' \in [Jobs -> {NULL, "queued", "running", "succeeded", "failed"}]
        /\ stored' \in [Jobs -> 0 .. 1]
        /\ audits' \in [Jobs -> SUBSET {"submitted", "success", "failed"}]
    BY <1>0 DEF TypeOK
  <2>4. /\ postgres' \in BOOLEAN /\ up' \subseteq Procs
        /\ starting' \subseteq Procs /\ stuck' \in [Procs -> SUBSET Jobs]
        /\ holder' \in Procs \X (1 .. MaxConns) \cup {NULL} /\ depth' \in Nat
        /\ error' \subseteq Jobs /\ degraded' \subseteq Procs
        /\ crashes' \in 0 .. MaxCrashes /\ errors' \in 0 .. MaxErrors /\ disowned' \in BOOLEAN
    BY <1>0, NetBoxAssumption DEF TypeOK, Conns
  <2> QED BY <2>1, <2>2, <2>3, <2>4 DEF TypeOK
<1>2. LockIsHeld'
  BY <1>0, NullAssumption, NetBoxAssumption DEF LockIsHeld, Section, TypeOK, Request, Conns
<1>3. ASSUME NEW i \in Jobs
      PROVE  (Requested(i) /\ Unused(i) /\ TaskIsTrue(i) /\ OwnedAreActive(i))'
  <2>1. Requested(i)'
    BY <1>0, <1>1, <1>J, NullAssumption DEF Requested, TypeOK, Request, TaskRecord
  <2>2. Unused(i)'
    BY <1>0, <1>1, <1>J, NullAssumption DEF Unused, TypeOK, Request, TaskRecord
  <2>3. TaskIsTrue(i)'
    BY <1>0, <1>1, <1>J, NullAssumption DEF TaskIsTrue, Working, TypeOK, Request, TaskRecord
  <2>4. OwnedAreActive(i)'
    BY <1>0, <1>1, <1>J, NullAssumption DEF OwnedAreActive, Active, Working, TypeOK, Request, TaskRecord
  <2> QED BY <2>1, <2>2, <2>3, <2>4
<1>4. CheckIsFresh'
  BY <1>0, <1>1, NullAssumption DEF CheckIsFresh, Active, TypeOK
<1>5. OutcomeIsTrue'
  BY <1>0, <1>1, <1>J, NullAssumption DEF OutcomeIsTrue, TrueOutcome, TypeOK, TaskRecord
<1>6. StartsOK'
  BY <1>0, NullAssumption DEF StartsOK, TypeOK
<1> QED BY <1>1, <1>2, <1>3, <1>4, <1>5, <1>6 DEF IInv

LEMMA UnlockStep ==
  ASSUME IInv, NEW p \in Procs, Unlock(p)
  PROVE  IInv'
<1> USE DEF Unlock, UnlockOn, Checkout, db, procs
<1>0. TypeOK /\ LockIsHeld /\ StartsOK /\ CheckIsFresh /\ OutcomeIsTrue
  BY DEF IInv
<1>J. \A i \in Jobs : Requested(i) /\ Unused(i) /\ TaskIsTrue(i) /\ OwnedAreActive(i)
  BY DEF IInv
<1>1. TypeOK'
  <2>1. req' \in [Procs -> Request]
    BY <1>0 DEF TypeOK, Request, NoRequest, Conns
  <2>2. task' \in [Jobs -> TaskRecord]
    BY <1>0, NetBoxAssumption DEF TypeOK, TaskRecord, NoTask
  <2>3. /\ status' \in [Jobs -> {NULL, "queued", "running", "succeeded", "failed"}]
        /\ stored' \in [Jobs -> 0 .. 1]
        /\ audits' \in [Jobs -> SUBSET {"submitted", "success", "failed"}]
    BY <1>0 DEF TypeOK
  <2>4. /\ postgres' \in BOOLEAN /\ up' \subseteq Procs
        /\ starting' \subseteq Procs /\ stuck' \in [Procs -> SUBSET Jobs]
        /\ holder' \in Procs \X (1 .. MaxConns) \cup {NULL} /\ depth' \in Nat
        /\ error' \subseteq Jobs /\ degraded' \subseteq Procs
        /\ crashes' \in 0 .. MaxCrashes /\ errors' \in 0 .. MaxErrors /\ disowned' \in BOOLEAN
    <3>1. PICK c \in Procs \X (1 .. MaxConns) :
             (postgres /\ holder = c /\ depth' = depth - 1
                 /\ holder' = IF depth = 1 THEN NULL ELSE c) \/ UNCHANGED << holder, depth >>
      BY DEF Conns
    <3>2. holder' \in Procs \X (1 .. MaxConns) \cup {NULL}
      BY <1>0, <3>1 DEF TypeOK
    <3>3. depth' \in Nat
      BY <1>0, <3>1, NullAssumption DEF TypeOK, LockIsHeld
    <3> QED BY <1>0, <3>2, <3>3 DEF TypeOK
  <2> QED BY <2>1, <2>2, <2>3, <2>4 DEF TypeOK
<1>2. LockIsHeld'
  BY <1>0, NullAssumption, NetBoxAssumption DEF LockIsHeld, Section, TypeOK, Request, Conns
<1>3. ASSUME NEW i \in Jobs
      PROVE  (Requested(i) /\ Unused(i) /\ TaskIsTrue(i) /\ OwnedAreActive(i))'
  <2>1. Requested(i)'
    BY <1>0, <1>1, <1>J, NullAssumption DEF Requested, TypeOK, Request, TaskRecord
  <2>2. Unused(i)'
    BY <1>0, <1>1, <1>J, NullAssumption DEF Unused, TypeOK, Request, TaskRecord
  <2>3. TaskIsTrue(i)'
    BY <1>0, <1>1, <1>J, NullAssumption DEF TaskIsTrue, Working, TypeOK, Request, TaskRecord
  <2>4. OwnedAreActive(i)'
    BY <1>0, <1>1, <1>J, NullAssumption DEF OwnedAreActive, Active, Working, TypeOK, Request, TaskRecord
  <2> QED BY <2>1, <2>2, <2>3, <2>4
<1>4. CheckIsFresh'
  BY <1>0, <1>1, NullAssumption DEF CheckIsFresh, Active, TypeOK
<1>5. OutcomeIsTrue'
  BY <1>0, <1>1, <1>J, NullAssumption DEF OutcomeIsTrue, TrueOutcome, TypeOK, TaskRecord
<1>6. StartsOK'
  BY <1>0, NullAssumption DEF StartsOK, TypeOK
<1> QED BY <1>1, <1>2, <1>3, <1>4, <1>5, <1>6 DEF IInv

LEMMA SubmittedStep ==
  ASSUME IInv, NEW p \in Procs, Submitted(p)
  PROVE  IInv'
<1> USE DEF Submitted, Audited, EndRequest, NoRequest, NoTask, procs
<1>0. TypeOK /\ LockIsHeld /\ StartsOK /\ CheckIsFresh /\ OutcomeIsTrue
  BY DEF IInv
<1>J. \A i \in Jobs : Requested(i) /\ Unused(i) /\ TaskIsTrue(i) /\ OwnedAreActive(i)
  BY DEF IInv
<1>s. PICK j \in Jobs : j = req[p].job
  BY <1>0, NullAssumption DEF LockIsHeld, TypeOK, Request
<1>t. /\ task' = [task EXCEPT ![j] = [NoTask EXCEPT !.at = "added", !.proc = p]]
      /\ task'[j] = [at |-> "added", proc |-> p, endpoint |-> 0, page |-> 0, attempt |-> 0]
      /\ \A i \in Jobs \ {j} : task'[i] = task[i]
  BY <1>0, <1>s DEF TypeOK
<1>u. task'[j] \in TaskRecord
  <2>1. 0 \in 0 .. Endpoints + 1 /\ 0 \in 0 .. MaxPages /\ 0 \in 0 .. MaxAttempts
    BY NetBoxAssumption
  <2> QED BY <1>t, <2>1 DEF TaskRecord
<1>v. /\ p \in up /\ stored[j] = 0 /\ status[j] \notin {NULL, "succeeded"} /\ audits[j] = {}
      /\ \A q \in Procs \ {p} : req[q].job # j
      /\ status[j] = "failed" => crashes > 0
  BY <1>0, <1>s, <1>J DEF Requested, LockIsHeld
<1>w. /\ audits'[j] = audits[j] \cup {"submitted"} /\ \A i \in Jobs \ {j} : audits'[i] = audits[i]
      /\ req'[p].job = NULL /\ \A q \in Procs \ {p} : req'[q] = req[q]
  BY <1>0, <1>s DEF TypeOK
<1>1. TypeOK'
  <2>1. req' \in [Procs -> Request]
    BY <1>0 DEF TypeOK, Request, NoRequest, Conns
  <2>2. task' \in [Jobs -> TaskRecord]
    <3>1. task' = [i \in Jobs |-> task'[i]]
      BY <1>0, <1>t DEF TypeOK
    <3> QED BY <1>0, <1>t, <1>u, <3>1 DEF TypeOK
  <2>3. /\ status' \in [Jobs -> {NULL, "queued", "running", "succeeded", "failed"}]
        /\ stored' \in [Jobs -> 0 .. 1]
        /\ audits' \in [Jobs -> SUBSET {"submitted", "success", "failed"}]
    BY <1>0 DEF TypeOK
  <2>4. /\ postgres' \in BOOLEAN /\ up' \subseteq Procs
        /\ starting' \subseteq Procs /\ stuck' \in [Procs -> SUBSET Jobs]
        /\ holder' \in Procs \X (1 .. MaxConns) \cup {NULL} /\ depth' \in Nat
        /\ error' \subseteq Jobs /\ degraded' \subseteq Procs
        /\ crashes' \in 0 .. MaxCrashes /\ errors' \in 0 .. MaxErrors /\ disowned' \in BOOLEAN
    BY <1>0, NetBoxAssumption DEF TypeOK, Conns
  <2> QED BY <2>1, <2>2, <2>3, <2>4 DEF TypeOK
<1>2. LockIsHeld'
  BY <1>0, NullAssumption, NetBoxAssumption DEF LockIsHeld, Section, TypeOK, Request, Conns
<1>3. ASSUME NEW i \in Jobs
      PROVE  (Requested(i) /\ Unused(i) /\ TaskIsTrue(i) /\ OwnedAreActive(i))'
  <2>1. Requested(i)'
    BY <1>0, <1>1, <1>J, NullAssumption DEF Requested, TypeOK, Request, TaskRecord
  <2>2. Unused(i)'
    BY <1>0, <1>1, <1>J, NullAssumption DEF Unused, TypeOK, Request, TaskRecord
  <2>3. TaskIsTrue(i)'
    <3>1. CASE i = j
      BY <3>1, <1>t, <1>v, <1>w, NullAssumption DEF TaskIsTrue, Working
    <3>2. CASE i # j
      <4>1. TaskIsTrue(i) /\ task'[i] = task[i] /\ audits'[i] = audits[i]
        BY <1>J, <1>t, <1>w, <3>2
      <4>2. \A q \in Procs : req'[q].job = i => req[q].job = i
        BY <1>w, NullAssumption
      <4> HIDE DEF Submitted
      <4>3. UNCHANGED << up, status, stored, crashes, errors, disowned >>
        BY DEF Submitted
      <4> QED BY <4>1, <4>2, <4>3 DEF TaskIsTrue
    <3> QED BY <3>1, <3>2
  <2>4. OwnedAreActive(i)'
    BY <1>0, <1>1, <1>J, NullAssumption DEF OwnedAreActive, Active, Working, TypeOK, Request, TaskRecord
  <2> QED BY <2>1, <2>2, <2>3, <2>4
<1>4. CheckIsFresh'
  BY <1>0, <1>1, NullAssumption DEF CheckIsFresh, Active, TypeOK
<1>5. OutcomeIsTrue'
  BY <1>0, <1>1, <1>J, NullAssumption DEF OutcomeIsTrue, TrueOutcome, TypeOK, TaskRecord
<1>6. StartsOK'
  BY <1>0, NullAssumption DEF StartsOK, TypeOK
<1> QED BY <1>1, <1>2, <1>3, <1>4, <1>5, <1>6 DEF IInv

LEMMA SubmitFailsStep ==
  ASSUME IInv, NEW p \in Procs, SubmitFails(p)
  PROVE  IInv'
<1> USE DEF SubmitFails, Audited, EndRequest, NoRequest, procs
<1>0. TypeOK /\ LockIsHeld /\ StartsOK /\ CheckIsFresh /\ OutcomeIsTrue
  BY DEF IInv
<1>J. \A i \in Jobs : Requested(i) /\ Unused(i) /\ TaskIsTrue(i) /\ OwnedAreActive(i)
  BY DEF IInv
<1>1. TypeOK'
  <2>1. req' \in [Procs -> Request]
    BY <1>0 DEF TypeOK, Request, NoRequest, Conns
  <2>2. task' \in [Jobs -> TaskRecord]
    BY <1>0, NetBoxAssumption DEF TypeOK, TaskRecord, NoTask
  <2>3. /\ status' \in [Jobs -> {NULL, "queued", "running", "succeeded", "failed"}]
        /\ stored' \in [Jobs -> 0 .. 1]
        /\ audits' \in [Jobs -> SUBSET {"submitted", "success", "failed"}]
    BY <1>0 DEF TypeOK
  <2>4. /\ postgres' \in BOOLEAN /\ up' \subseteq Procs
        /\ starting' \subseteq Procs /\ stuck' \in [Procs -> SUBSET Jobs]
        /\ holder' \in Procs \X (1 .. MaxConns) \cup {NULL} /\ depth' \in Nat
        /\ error' \subseteq Jobs /\ degraded' \subseteq Procs
        /\ crashes' \in 0 .. MaxCrashes /\ errors' \in 0 .. MaxErrors /\ disowned' \in BOOLEAN
    BY <1>0, NetBoxAssumption DEF TypeOK, Conns
  <2> QED BY <2>1, <2>2, <2>3, <2>4 DEF TypeOK
<1>2. LockIsHeld'
  BY <1>0, NullAssumption, NetBoxAssumption DEF LockIsHeld, Section, TypeOK, Request, Conns
<1>3. ASSUME NEW i \in Jobs
      PROVE  (Requested(i) /\ Unused(i) /\ TaskIsTrue(i) /\ OwnedAreActive(i))'
  <2>1. Requested(i)'
    BY <1>0, <1>1, <1>J, NullAssumption DEF Requested, TypeOK, Request, TaskRecord
  <2>2. Unused(i)'
    BY <1>0, <1>1, <1>J, NullAssumption DEF Unused, TypeOK, Request, TaskRecord
  <2>3. TaskIsTrue(i)'
    BY <1>0, <1>1, <1>J, NullAssumption DEF TaskIsTrue, Working, TypeOK, Request, TaskRecord
  <2>4. OwnedAreActive(i)'
    BY <1>0, <1>1, <1>J, NullAssumption DEF OwnedAreActive, Active, Working, TypeOK, Request, TaskRecord
  <2> QED BY <2>1, <2>2, <2>3, <2>4
<1>4. CheckIsFresh'
  BY <1>0, <1>1, NullAssumption DEF CheckIsFresh, Active, TypeOK
<1>5. OutcomeIsTrue'
  BY <1>0, <1>1, <1>J, NullAssumption DEF OutcomeIsTrue, TrueOutcome, TypeOK, TaskRecord
<1>6. StartsOK'
  BY <1>0, NullAssumption DEF StartsOK, TypeOK
<1> QED BY <1>1, <1>2, <1>3, <1>4, <1>5, <1>6 DEF IInv

LEMMA CrashStep ==
  ASSUME IInv, NEW p \in Procs, Crash(p)
  PROVE  IInv'
<1> USE DEF Crash, NoRequest, NoTask, db, procs
<1>0. TypeOK /\ LockIsHeld /\ StartsOK /\ CheckIsFresh /\ OutcomeIsTrue
  BY DEF IInv
<1>J. \A i \in Jobs : Requested(i) /\ Unused(i) /\ TaskIsTrue(i) /\ OwnedAreActive(i)
  BY DEF IInv
<1>1. TypeOK'
  <2>1. req' \in [Procs -> Request]
    BY <1>0 DEF TypeOK, Request, NoRequest, Conns
  <2>2. task' \in [Jobs -> TaskRecord]
    BY <1>0, NetBoxAssumption DEF TypeOK, TaskRecord, NoTask
  <2>3. /\ status' \in [Jobs -> {NULL, "queued", "running", "succeeded", "failed"}]
        /\ stored' \in [Jobs -> 0 .. 1]
        /\ audits' \in [Jobs -> SUBSET {"submitted", "success", "failed"}]
    BY <1>0 DEF TypeOK
  <2>4. /\ postgres' \in BOOLEAN /\ up' \subseteq Procs
        /\ starting' \subseteq Procs /\ stuck' \in [Procs -> SUBSET Jobs]
        /\ holder' \in Procs \X (1 .. MaxConns) \cup {NULL} /\ depth' \in Nat
        /\ error' \subseteq Jobs /\ degraded' \subseteq Procs
        /\ crashes' \in 0 .. MaxCrashes /\ errors' \in 0 .. MaxErrors /\ disowned' \in BOOLEAN
    BY <1>0, NetBoxAssumption DEF TypeOK, Conns
  <2> QED BY <2>1, <2>2, <2>3, <2>4 DEF TypeOK
<1>2. LockIsHeld'
  BY <1>0, NullAssumption, NetBoxAssumption DEF LockIsHeld, Section, TypeOK, Request, Conns
<1>3. ASSUME NEW i \in Jobs
      PROVE  (Requested(i) /\ Unused(i) /\ TaskIsTrue(i) /\ OwnedAreActive(i))'
  <2>1. Requested(i)'
    BY <1>0, <1>1, <1>J, NullAssumption DEF Requested, TypeOK, Request, TaskRecord
  <2>2. Unused(i)'
    BY <1>0, <1>1, <1>J, NullAssumption DEF Unused, TypeOK, Request, TaskRecord
  <2>3. TaskIsTrue(i)'
    BY <1>0, <1>1, <1>J, NullAssumption DEF TaskIsTrue, Working, TypeOK, Request, TaskRecord
  <2>4. OwnedAreActive(i)'
    BY <1>0, <1>1, <1>J, NullAssumption DEF OwnedAreActive, Active, Working, TypeOK, Request, TaskRecord
  <2> QED BY <2>1, <2>2, <2>3, <2>4
<1>4. CheckIsFresh'
  BY <1>0, <1>1, NullAssumption DEF CheckIsFresh, Active, TypeOK
<1>5. OutcomeIsTrue'
  BY <1>0, <1>1, <1>J, NullAssumption DEF OutcomeIsTrue, TrueOutcome, TypeOK, TaskRecord
<1>6. StartsOK'
  BY <1>0, NullAssumption DEF StartsOK, TypeOK
<1> QED BY <1>1, <1>2, <1>3, <1>4, <1>5, <1>6 DEF IInv

LEMMA ReadStuckJobsStep ==
  ASSUME IInv, NEW p \in Procs, ReadStuckJobs(p)
  PROVE  IInv'
<1> USE DEF ReadStuckJobs, db
<1>0. TypeOK /\ LockIsHeld /\ StartsOK /\ CheckIsFresh /\ OutcomeIsTrue
  BY DEF IInv
<1>J. \A i \in Jobs : Requested(i) /\ Unused(i) /\ TaskIsTrue(i) /\ OwnedAreActive(i)
  BY DEF IInv
<1>1. TypeOK'
  <2>1. req' \in [Procs -> Request]
    BY <1>0 DEF TypeOK, Request, NoRequest, Conns
  <2>2. task' \in [Jobs -> TaskRecord]
    BY <1>0, NetBoxAssumption DEF TypeOK, TaskRecord, NoTask
  <2>3. /\ status' \in [Jobs -> {NULL, "queued", "running", "succeeded", "failed"}]
        /\ stored' \in [Jobs -> 0 .. 1]
        /\ audits' \in [Jobs -> SUBSET {"submitted", "success", "failed"}]
    BY <1>0 DEF TypeOK
  <2>4. /\ postgres' \in BOOLEAN /\ up' \subseteq Procs
        /\ starting' \subseteq Procs /\ stuck' \in [Procs -> SUBSET Jobs]
        /\ holder' \in Procs \X (1 .. MaxConns) \cup {NULL} /\ depth' \in Nat
        /\ error' \subseteq Jobs /\ degraded' \subseteq Procs
        /\ crashes' \in 0 .. MaxCrashes /\ errors' \in 0 .. MaxErrors /\ disowned' \in BOOLEAN
    BY <1>0, NetBoxAssumption DEF TypeOK, Active
  <2> QED BY <2>1, <2>2, <2>3, <2>4 DEF TypeOK
<1>2. LockIsHeld'
  BY <1>0, NullAssumption, NetBoxAssumption DEF LockIsHeld, Section, TypeOK, Request, Conns
<1>3. ASSUME NEW i \in Jobs
      PROVE  (Requested(i) /\ Unused(i) /\ TaskIsTrue(i) /\ OwnedAreActive(i))'
  <2>1. Requested(i)'
    BY <1>0, <1>1, <1>J, NullAssumption DEF Requested, TypeOK, Request, TaskRecord
  <2>2. Unused(i)'
    BY <1>0, <1>1, <1>J, NullAssumption DEF Unused, TypeOK, Request, TaskRecord
  <2>3. TaskIsTrue(i)'
    BY <1>0, <1>1, <1>J, NullAssumption DEF TaskIsTrue, Working, TypeOK, Request, TaskRecord
  <2>4. OwnedAreActive(i)'
    BY <1>0, <1>1, <1>J, NullAssumption DEF OwnedAreActive, Active, Working, TypeOK, Request, TaskRecord
  <2> QED BY <2>1, <2>2, <2>3, <2>4
<1>4. CheckIsFresh'
  BY <1>0, <1>1, NullAssumption DEF CheckIsFresh, Active, TypeOK
<1>5. OutcomeIsTrue'
  BY <1>0, <1>1, <1>J, NullAssumption DEF OutcomeIsTrue, TrueOutcome, TypeOK, TaskRecord
<1>6. StartsOK'
  BY <1>0, NullAssumption DEF StartsOK, Active, TypeOK
<1> QED BY <1>1, <1>2, <1>3, <1>4, <1>5, <1>6 DEF IInv

LEMMA StartStep ==
  ASSUME IInv, NEW p \in Procs, Start(p)
  PROVE  IInv'
<1> USE DEF Start, IsUp, procs
<1>0. TypeOK /\ LockIsHeld /\ StartsOK /\ CheckIsFresh /\ OutcomeIsTrue
  BY DEF IInv
<1>J. \A i \in Jobs : Requested(i) /\ Unused(i) /\ TaskIsTrue(i) /\ OwnedAreActive(i)
  BY DEF IInv
<1>s. /\ crashes > 0 /\ stuck[p] \subseteq Jobs
      /\ \A i \in stuck[p] : status[i] # NULL
      /\ \A i \in Jobs : status'[i] = IF i \in stuck[p] THEN "failed" ELSE status[i]
  BY <1>0 DEF LockIsHeld, StartsOK, TypeOK
<1>t. /\ disowned' = (disowned \/ \E i \in stuck[p] : i \in Owned \/ status[i] = "succeeded")
      /\ error' = error \cup stuck[p]
      /\ UNCHANGED << req, task, stored, audits, errors, crashes >> /\ up \subseteq up'
  OBVIOUS
<1>u. \A i \in stuck[p] \ Owned : task[i].at = "none" /\ \A q \in Procs : req[q].job # i
  <2> SUFFICES ASSUME NEW i \in stuck[p] \ Owned
               PROVE  task[i].at = "none" /\ \A q \in Procs : req[q].job # i
    OBVIOUS
  <2>1. i \in Jobs /\ task[i].proc \notin up /\ \A q \in up : req[q].job # i
    BY <1>s DEF Owned
  <2>2. task[i].at = "none"
    BY <1>J, <2>1 DEF TaskIsTrue
  <2>3. \A q \in Procs : req[q].job = i => q \in up
    BY <1>0, <2>1, NullAssumption DEF LockIsHeld
  <2> QED BY <2>1, <2>2, <2>3
<1>v. Active' = Active \ stuck[p]
  BY <1>s DEF Active
<1>1. TypeOK'
  <2>1. req' \in [Procs -> Request]
    BY <1>0 DEF TypeOK, Request, NoRequest, Conns
  <2>2. task' \in [Jobs -> TaskRecord]
    BY <1>0, NetBoxAssumption DEF TypeOK, TaskRecord, NoTask
  <2>3. /\ status' \in [Jobs -> {NULL, "queued", "running", "succeeded", "failed"}]
        /\ stored' \in [Jobs -> 0 .. 1]
        /\ audits' \in [Jobs -> SUBSET {"submitted", "success", "failed"}]
    BY <1>0 DEF TypeOK
  <2>4. /\ postgres' \in BOOLEAN /\ up' \subseteq Procs
        /\ starting' \subseteq Procs /\ stuck' \in [Procs -> SUBSET Jobs]
        /\ holder' \in Procs \X (1 .. MaxConns) \cup {NULL} /\ depth' \in Nat
        /\ error' \subseteq Jobs /\ degraded' \subseteq Procs
        /\ crashes' \in 0 .. MaxCrashes /\ errors' \in 0 .. MaxErrors /\ disowned' \in BOOLEAN
    <3>1. error' \subseteq Jobs /\ disowned' \in BOOLEAN
      BY <1>0, <1>s, <1>t DEF TypeOK
    <3> QED BY <1>0, <3>1 DEF TypeOK
  <2> QED BY <2>1, <2>2, <2>3, <2>4 DEF TypeOK
<1>2. LockIsHeld'
  BY <1>0, NullAssumption, NetBoxAssumption DEF LockIsHeld, Section, TypeOK, Request, Conns
<1>3. ASSUME NEW i \in Jobs
      PROVE  (Requested(i) /\ Unused(i) /\ TaskIsTrue(i) /\ OwnedAreActive(i))'
  <2>1. Requested(i)'
    BY <1>s, <1>t, <1>J, NullAssumption DEF Requested
  <2>2. Unused(i)'
    BY <1>0, <1>1, <1>J, NullAssumption DEF Unused, TypeOK, Request, TaskRecord
  <2>3. TaskIsTrue(i)'
    <3>1. TaskIsTrue(i)
      BY <1>J
    <3>2. /\ status[i] # NULL => status'[i] # NULL
          /\ status'[i] = "succeeded" => status[i] = "succeeded"
          /\ status[i] = "succeeded" => status'[i] = "succeeded" \/ disowned'
          /\ disowned => disowned'
      BY <1>s, <1>t, NullAssumption
    <3> HIDE DEF Start
    <3> QED BY <1>s, <1>t, <3>1, <3>2 DEF TaskIsTrue
  <2>4. OwnedAreActive(i)'
    <3> SUFFICES ASSUME ~ disowned' PROVE OwnedAreActive(i)'
      BY DEF OwnedAreActive
    <3>1. ~ disowned /\ (i \in stuck[p] => i \notin Owned)
      BY <1>t
    <3>2. OwnedAreActive(i)
      BY <1>J
    <3>3. CASE i \in stuck[p]
      BY <1>s, <1>t, <1>u, <3>1, <3>3 DEF OwnedAreActive, Working
    <3>4. CASE i \notin stuck[p]
      BY <1>s, <1>t, <1>v, <3>1, <3>2, <3>4 DEF OwnedAreActive
    <3> QED BY <3>3, <3>4
  <2> QED BY <2>1, <2>2, <2>3, <2>4
<1>4. CheckIsFresh'
  BY <1>0, <1>t, <1>v DEF CheckIsFresh
<1>5. OutcomeIsTrue'
  <2> SUFFICES ASSUME NEW i \in Jobs PROVE TrueOutcome(i)'
    BY DEF OutcomeIsTrue
  <2>1. TrueOutcome(i)
    BY <1>0 DEF OutcomeIsTrue
  <2>2. CASE i \in stuck[p]
    <3>1. status[i] = "succeeded" => disowned'
      BY <1>t, <2>2
    <3>2. disowned => disowned'
      BY <1>t
    <3> HIDE DEF Start
    <3> QED BY <1>s, <1>t, <2>1, <2>2, <3>1, <3>2 DEF TrueOutcome
  <2>3. CASE i \notin stuck[p]
    <3>1. status'[i] = status[i] /\ (i \in error' <=> i \in error) /\ (disowned => disowned')
      BY <1>s, <1>t, <2>3
    <3> HIDE DEF Start
    <3> QED BY <1>s, <1>t, <2>1, <3>1 DEF TrueOutcome
  <2> QED BY <2>2, <2>3
<1>6. StartsOK'
  BY <1>0, NullAssumption DEF StartsOK, TypeOK
<1> QED BY <1>1, <1>2, <1>3, <1>4, <1>5, <1>6 DEF IInv

LEMMA StartUnrecoveredStep ==
  ASSUME IInv, NEW p \in Procs, StartUnrecovered(p)
  PROVE  IInv'
<1> USE DEF StartUnrecovered, IsUp, db, procs
<1>0. TypeOK /\ LockIsHeld /\ StartsOK /\ CheckIsFresh /\ OutcomeIsTrue
  BY DEF IInv
<1>J. \A i \in Jobs : Requested(i) /\ Unused(i) /\ TaskIsTrue(i) /\ OwnedAreActive(i)
  BY DEF IInv
<1>1. TypeOK'
  <2>1. req' \in [Procs -> Request]
    BY <1>0 DEF TypeOK, Request, NoRequest, Conns
  <2>2. task' \in [Jobs -> TaskRecord]
    BY <1>0, NetBoxAssumption DEF TypeOK, TaskRecord, NoTask
  <2>3. /\ status' \in [Jobs -> {NULL, "queued", "running", "succeeded", "failed"}]
        /\ stored' \in [Jobs -> 0 .. 1]
        /\ audits' \in [Jobs -> SUBSET {"submitted", "success", "failed"}]
    BY <1>0 DEF TypeOK
  <2>4. /\ postgres' \in BOOLEAN /\ up' \subseteq Procs
        /\ starting' \subseteq Procs /\ stuck' \in [Procs -> SUBSET Jobs]
        /\ holder' \in Procs \X (1 .. MaxConns) \cup {NULL} /\ depth' \in Nat
        /\ error' \subseteq Jobs /\ degraded' \subseteq Procs
        /\ crashes' \in 0 .. MaxCrashes /\ errors' \in 0 .. MaxErrors /\ disowned' \in BOOLEAN
    BY <1>0, NetBoxAssumption DEF TypeOK, Conns
  <2> QED BY <2>1, <2>2, <2>3, <2>4 DEF TypeOK
<1>2. LockIsHeld'
  BY <1>0, NullAssumption, NetBoxAssumption DEF LockIsHeld, Section, TypeOK, Request, Conns
<1>3. ASSUME NEW i \in Jobs
      PROVE  (Requested(i) /\ Unused(i) /\ TaskIsTrue(i) /\ OwnedAreActive(i))'
  <2>1. Requested(i)'
    BY <1>0, <1>1, <1>J, NullAssumption DEF Requested, TypeOK, Request, TaskRecord
  <2>2. Unused(i)'
    BY <1>0, <1>1, <1>J, NullAssumption DEF Unused, TypeOK, Request, TaskRecord
  <2>3. TaskIsTrue(i)'
    BY <1>0, <1>1, <1>J, NullAssumption DEF TaskIsTrue, Working, TypeOK, Request, TaskRecord
  <2>4. OwnedAreActive(i)'
    BY <1>0, <1>1, <1>J, NullAssumption DEF OwnedAreActive, Active, Working, TypeOK, Request, TaskRecord
  <2> QED BY <2>1, <2>2, <2>3, <2>4
<1>4. CheckIsFresh'
  BY <1>0, <1>1, NullAssumption DEF CheckIsFresh, Active, TypeOK
<1>5. OutcomeIsTrue'
  BY <1>0, <1>1, <1>J, NullAssumption DEF OutcomeIsTrue, TrueOutcome, TypeOK, TaskRecord
<1>6. StartsOK'
  BY <1>0, NullAssumption DEF StartsOK, TypeOK
<1> QED BY <1>1, <1>2, <1>3, <1>4, <1>5, <1>6 DEF IInv

LEMMA StartTaskStep ==
  ASSUME IInv, NEW j \in Jobs, StartTask(j)
  PROVE  IInv'
<1> USE DEF StartTask, Runs, LoopIsFree, TaskFrame, procs
<1>0. TypeOK /\ LockIsHeld /\ StartsOK /\ CheckIsFresh /\ OutcomeIsTrue
  BY DEF IInv
<1>J. \A i \in Jobs : Requested(i) /\ Unused(i) /\ TaskIsTrue(i) /\ OwnedAreActive(i)
  BY DEF IInv
<1>k. \A i \in Jobs \ {j} : JobInv(i)' /\ TrueOutcome(i)'
  <2> SUFFICES ASSUME NEW i \in Jobs \ {j} PROVE JobInv(i)' /\ TrueOutcome(i)'
    OBVIOUS
  <2>1. /\ status'[i] = status[i] /\ task'[i] = task[i] /\ stored'[i] = stored[i]
        /\ audits'[i] = audits[i] /\ (i \in error' <=> i \in error)
        /\ UNCHANGED << up, req, crashes, disowned >>
    BY <1>0 DEF TypeOK
  <2>2. errors' \in Nat /\ errors' >= errors
    BY <1>0 DEF TypeOK
  <2> QED BY <2>1, <2>2, OtherJob
<1>m. /\ task[j] \in TaskRecord /\ task[j].proc \in up /\ status[j] # NULL
      /\ "success" \notin audits[j] /\ \A q \in Procs : req[q].job # j
  BY <1>0, <1>J DEF TaskIsTrue, TypeOK
<1>n. /\ task'[j] = [task[j] EXCEPT !.at = "fetching", !.endpoint = 1, !.page = 1, !.attempt = 1]
      /\ status'[j] = "running" /\ stored'[j] = stored[j] /\ stored[j] = 0
      /\ audits'[j] = audits[j] /\ req' = req /\ up' = up
  BY <1>0, <1>J DEF TypeOK, TaskIsTrue, Working
<1>o. 1 \in 0 .. Endpoints + 1 /\ 1 \in 0 .. MaxPages /\ 1 \in 0 .. MaxAttempts /\ 1 \in 1 .. Endpoints
  BY NetBoxAssumption
<1>u. /\ task'[j] \in TaskRecord /\ task'[j].at = "fetching" /\ task'[j].proc = task[j].proc
      /\ task'[j].endpoint = 1 /\ task'[j].page = 1 /\ task'[j].attempt = 1
  <2> DEFINE u == [at |-> "fetching", proc |-> task[j].proc, endpoint |-> 1, page |-> 1,
                   attempt |-> 1]
  <2>1. u \in TaskRecord /\ task'[j] = u
    <3> HIDE DEF StartTask
    <3>1. u \in TaskRecord
      BY <1>m, <1>o, TaskUpdate
    <3>2. task'[j] = u
      BY <1>m, <1>n DEF TaskRecord
    <3> QED BY <3>1, <3>2
  <2> QED BY <2>1
<1>1. TypeOK'
  <2>1. req' \in [Procs -> Request]
    BY <1>0 DEF TypeOK, Request
  <2>2. task' \in [Jobs -> TaskRecord]
    <3>1. \A i \in Jobs \ {j} : task'[i] = task[i]
      BY <1>0 DEF TypeOK
    <3>2. task' = [i \in Jobs |-> task'[i]]
      BY <1>0 DEF TypeOK
    <3> QED BY <1>0, <1>u, <3>1, <3>2 DEF TypeOK
  <2>3. /\ status' \in [Jobs -> {NULL, "queued", "running", "succeeded", "failed"}]
        /\ stored' \in [Jobs -> 0 .. 1]
        /\ audits' \in [Jobs -> SUBSET {"submitted", "success", "failed"}]
    BY <1>0 DEF TypeOK
  <2>4. /\ postgres' \in BOOLEAN /\ up' \subseteq Procs
        /\ starting' \subseteq Procs /\ stuck' \in [Procs -> SUBSET Jobs]
        /\ holder' \in Procs \X (1 .. MaxConns) \cup {NULL} /\ depth' \in Nat
        /\ error' \subseteq Jobs /\ degraded' \subseteq Procs
        /\ crashes' \in 0 .. MaxCrashes /\ errors' \in 0 .. MaxErrors /\ disowned' \in BOOLEAN
    BY <1>0, NetBoxAssumption DEF TypeOK, Conns
  <2> QED BY <2>1, <2>2, <2>3, <2>4 DEF TypeOK
<1>2. LockIsHeld'
  BY <1>0, NullAssumption, NetBoxAssumption DEF LockIsHeld, Section, TypeOK, Request, Conns
<1>3. ASSUME NEW i \in Jobs
      PROVE  (Requested(i) /\ Unused(i) /\ TaskIsTrue(i) /\ OwnedAreActive(i))'
  <2>1. Requested(i)'
    BY <1>0, <1>1, <1>J, NullAssumption DEF Requested, TypeOK, Request, TaskRecord
  <2>2. Unused(i)'
    BY <1>0, <1>1, <1>J, NullAssumption DEF Unused, TypeOK, Request, TaskRecord
  <2>3. TaskIsTrue(i)'
    <3>1. CASE i # j
      BY <1>k, <3>1 DEF JobInv
    <3>2. TaskIsTrue(j)'
      BY <1>m, <1>n, <1>o, <1>u, NullAssumption DEF TaskIsTrue, Working
    <3> QED BY <3>1, <3>2
  <2>4. OwnedAreActive(i)'
    <3>1. CASE i # j
      BY <1>k, <3>1 DEF JobInv
    <3>2. OwnedAreActive(j)'
      <4>1. j \in Active'
        BY <1>n DEF Active
      <4>2. j \in error => disowned
        BY <1>J DEF OwnedAreActive
      <4> QED BY <1>m, <1>n, <1>u, <4>1, <4>2 DEF OwnedAreActive
    <3> QED BY <3>1, <3>2
  <2> QED BY <2>1, <2>2, <2>3, <2>4
<1>4. CheckIsFresh'
  <2>1. ~ disowned => j \in Active
    BY <1>J DEF OwnedAreActive, Working
  <2>2. ~ disowned => Active' = Active
    BY <1>0, <2>1 DEF Active, TypeOK
  <2> QED BY <1>0, <2>2 DEF CheckIsFresh
<1>5. OutcomeIsTrue'
  <2>1. TrueOutcome(j)'
    BY <1>m, <1>n, <1>u DEF TrueOutcome
  <2> QED BY <1>k, <2>1 DEF OutcomeIsTrue
<1>6. StartsOK'
  BY <1>0, NullAssumption DEF StartsOK, TypeOK
<1> QED BY <1>1, <1>2, <1>3, <1>4, <1>5, <1>6 DEF IInv

LEMMA StartTaskFailsStep ==
  ASSUME IInv, NEW j \in Jobs, StartTaskFails(j)
  PROVE  IInv'
<1> USE DEF StartTaskFails, Runs, LoopIsFree, Ended, TaskFrame, NoTask, db, procs
<1>0. TypeOK /\ LockIsHeld /\ StartsOK /\ CheckIsFresh /\ OutcomeIsTrue
  BY DEF IInv
<1>J. \A i \in Jobs : Requested(i) /\ Unused(i) /\ TaskIsTrue(i) /\ OwnedAreActive(i)
  BY DEF IInv
<1>1. TypeOK'
  <2>1. req' \in [Procs -> Request]
    BY <1>0 DEF TypeOK, Request
  <2>2. task' \in [Jobs -> TaskRecord]
    BY <1>0, NetBoxAssumption DEF TypeOK, TaskRecord, NoTask
  <2>3. /\ status' \in [Jobs -> {NULL, "queued", "running", "succeeded", "failed"}]
        /\ stored' \in [Jobs -> 0 .. 1]
        /\ audits' \in [Jobs -> SUBSET {"submitted", "success", "failed"}]
    BY <1>0 DEF TypeOK
  <2>4. /\ postgres' \in BOOLEAN /\ up' \subseteq Procs
        /\ starting' \subseteq Procs /\ stuck' \in [Procs -> SUBSET Jobs]
        /\ holder' \in Procs \X (1 .. MaxConns) \cup {NULL} /\ depth' \in Nat
        /\ error' \subseteq Jobs /\ degraded' \subseteq Procs
        /\ crashes' \in 0 .. MaxCrashes /\ errors' \in 0 .. MaxErrors /\ disowned' \in BOOLEAN
    BY <1>0, NetBoxAssumption DEF TypeOK, Conns
  <2> QED BY <2>1, <2>2, <2>3, <2>4 DEF TypeOK
<1>2. LockIsHeld'
  BY <1>0, NullAssumption, NetBoxAssumption DEF LockIsHeld, Section, TypeOK, Request, Conns
<1>3. ASSUME NEW i \in Jobs
      PROVE  (Requested(i) /\ Unused(i) /\ TaskIsTrue(i) /\ OwnedAreActive(i))'
  <2>1. Requested(i)'
    BY <1>0, <1>1, <1>J, NullAssumption DEF Requested, TypeOK, Request, TaskRecord
  <2>2. Unused(i)'
    BY <1>0, <1>1, <1>J, NullAssumption DEF Unused, TypeOK, Request, TaskRecord
  <2>3. TaskIsTrue(i)'
    BY <1>0, <1>1, <1>J, NullAssumption DEF TaskIsTrue, Working, TypeOK, Request, TaskRecord
  <2>4. OwnedAreActive(i)'
    BY <1>0, <1>1, <1>J, NullAssumption DEF OwnedAreActive, Active, Working, TypeOK, Request, TaskRecord
  <2> QED BY <2>1, <2>2, <2>3, <2>4
<1>4. CheckIsFresh'
  BY <1>0, <1>1, NullAssumption DEF CheckIsFresh, Active, TypeOK
<1>5. OutcomeIsTrue'
  BY <1>0, <1>1, <1>J, NullAssumption DEF OutcomeIsTrue, TrueOutcome, TypeOK, TaskRecord
<1>6. StartsOK'
  BY <1>0, NullAssumption DEF StartsOK, TypeOK
<1> QED BY <1>1, <1>2, <1>3, <1>4, <1>5, <1>6 DEF IInv

LEMMA FetchPageStep ==
  ASSUME IInv, NEW j \in Jobs, FetchPage(j)
  PROVE  IInv'
<1> USE DEF FetchPage, Runs, LoopIsFree, TaskFrame, Advance, IsLast, db, procs
<1>0. TypeOK /\ LockIsHeld /\ StartsOK /\ CheckIsFresh /\ OutcomeIsTrue
  BY DEF IInv
<1>J. \A i \in Jobs : Requested(i) /\ Unused(i) /\ TaskIsTrue(i) /\ OwnedAreActive(i)
  BY DEF IInv
<1>k. \A i \in Jobs \ {j} : JobInv(i)' /\ TrueOutcome(i)'
  <2> SUFFICES ASSUME NEW i \in Jobs \ {j} PROVE JobInv(i)' /\ TrueOutcome(i)'
    OBVIOUS
  <2>1. /\ status'[i] = status[i] /\ task'[i] = task[i] /\ stored'[i] = stored[i]
        /\ audits'[i] = audits[i] /\ (i \in error' <=> i \in error)
        /\ UNCHANGED << up, req, crashes, disowned >>
    BY <1>0 DEF TypeOK
  <2>2. errors' \in Nat /\ errors' >= errors
    BY <1>0 DEF TypeOK
  <2> QED BY <2>1, <2>2, OtherJob
<1>m. /\ task[j] \in TaskRecord /\ task[j].proc \in up /\ status[j] # NULL
      /\ "success" \notin audits[j] /\ \A q \in Procs : req[q].job # j
  BY <1>0, <1>J DEF TaskIsTrue, TypeOK
<1>n. PICK more \in BOOLEAN : /\ more => task[j].page < MaxPages
                             /\ task' = [task EXCEPT ![j] = Advance(task[j], more)]
  BY <1>0 DEF TypeOK
<1>o. /\ task'[j] \in TaskRecord /\ task'[j].proc = task[j].proc
      /\ \/ task'[j].at = "caching"
         \/ /\ task'[j].at = "fetching" /\ task'[j].endpoint \in 1 .. Endpoints
            /\ task'[j].page > 0 /\ task'[j].attempt > 0
  <2> HIDE DEF Advance
  <2>1. task'[j] = Advance(task[j], more)
    BY <1>0, <1>n DEF TypeOK
  <2>2. task[j].at = "fetching" /\ task[j].endpoint \in 1 .. Endpoints /\ task[j].page > 0
    BY <1>J DEF TaskIsTrue
  <2> QED BY <1>m, <1>n, <2>1, <2>2, AdvanceFacts
<1>1. TypeOK'
  <2>1. req' \in [Procs -> Request]
    BY <1>0 DEF TypeOK, Request
  <2>2. task' \in [Jobs -> TaskRecord]
    <3> HIDE DEF Advance
    <3>1. \A i \in Jobs \ {j} : task'[i] = task[i]
      BY <1>0, <1>n DEF TypeOK
    <3>2. task' = [i \in Jobs |-> task'[i]]
      BY <1>0, <1>n DEF TypeOK
    <3> QED BY <1>0, <1>o, <3>1, <3>2 DEF TypeOK
  <2>3. /\ status' \in [Jobs -> {NULL, "queued", "running", "succeeded", "failed"}]
        /\ stored' \in [Jobs -> 0 .. 1]
        /\ audits' \in [Jobs -> SUBSET {"submitted", "success", "failed"}]
    BY <1>0 DEF TypeOK
  <2>4. /\ postgres' \in BOOLEAN /\ up' \subseteq Procs
        /\ starting' \subseteq Procs /\ stuck' \in [Procs -> SUBSET Jobs]
        /\ holder' \in Procs \X (1 .. MaxConns) \cup {NULL} /\ depth' \in Nat
        /\ error' \subseteq Jobs /\ degraded' \subseteq Procs
        /\ crashes' \in 0 .. MaxCrashes /\ errors' \in 0 .. MaxErrors /\ disowned' \in BOOLEAN
    BY <1>0, NetBoxAssumption DEF TypeOK, Conns
  <2> QED BY <2>1, <2>2, <2>3, <2>4 DEF TypeOK
<1>2. LockIsHeld'
  BY <1>0, NullAssumption, NetBoxAssumption DEF LockIsHeld, Section, TypeOK, Request, Conns
<1>3. ASSUME NEW i \in Jobs
      PROVE  (Requested(i) /\ Unused(i) /\ TaskIsTrue(i) /\ OwnedAreActive(i))'
  <2>1. Requested(i)'
    BY <1>0, <1>1, <1>J, NullAssumption DEF Requested, TypeOK, Request, TaskRecord
  <2>2. Unused(i)'
    BY <1>0, <1>1, <1>J, NullAssumption DEF Unused, TypeOK, Request, TaskRecord
  <2>3. TaskIsTrue(i)'
    <3>1. CASE i # j
      BY <1>k, <3>1 DEF JobInv
    <3>2. TaskIsTrue(j)'
      <4>1. status[j] # "succeeded" /\ stored[j] = 0 /\ (status[j] = "failed" => crashes > 0)
        BY <1>J DEF TaskIsTrue, Working
      <4> HIDE DEF Advance
      <4> QED BY <1>m, <1>o, <4>1 DEF TaskIsTrue, Working
    <3> QED BY <3>1, <3>2
  <2>4. OwnedAreActive(i)'
    BY <1>0, <1>1, <1>J, NullAssumption DEF OwnedAreActive, Active, Working, TypeOK, Request, TaskRecord
  <2> QED BY <2>1, <2>2, <2>3, <2>4
<1>4. CheckIsFresh'
  BY <1>0, <1>1, NullAssumption DEF CheckIsFresh, Active, TypeOK
<1>5. OutcomeIsTrue'
  <2>1. TrueOutcome(j)'
    <3>1. status[j] # "succeeded" /\ stored[j] = 0
      BY <1>J DEF TaskIsTrue, Working
    <3> HIDE DEF Advance
    <3> QED BY <1>m, <1>o, <3>1 DEF TrueOutcome
  <2> QED BY <1>k, <2>1 DEF OutcomeIsTrue
<1>6. StartsOK'
  BY <1>0, NullAssumption DEF StartsOK, TypeOK
<1> QED BY <1>1, <1>2, <1>3, <1>4, <1>5, <1>6 DEF IInv

LEMMA FetchUnavailableStep ==
  ASSUME IInv, NEW j \in Jobs, FetchUnavailable(j)
  PROVE  IInv'
<1> USE DEF FetchUnavailable, Runs, LoopIsFree, TaskFrame, NextAttempt, ShouldRetry,
           db, procs
<1>0. TypeOK /\ LockIsHeld /\ StartsOK /\ CheckIsFresh /\ OutcomeIsTrue
  BY DEF IInv
<1>J. \A i \in Jobs : Requested(i) /\ Unused(i) /\ TaskIsTrue(i) /\ OwnedAreActive(i)
  BY DEF IInv
<1>k. \A i \in Jobs \ {j} : JobInv(i)' /\ TrueOutcome(i)'
  <2> SUFFICES ASSUME NEW i \in Jobs \ {j} PROVE JobInv(i)' /\ TrueOutcome(i)'
    OBVIOUS
  <2>1. /\ status'[i] = status[i] /\ task'[i] = task[i] /\ stored'[i] = stored[i]
        /\ audits'[i] = audits[i] /\ (i \in error' <=> i \in error)
        /\ UNCHANGED << up, req, crashes, disowned >>
    BY <1>0 DEF TypeOK
  <2>2. errors' \in Nat /\ errors' >= errors
    BY <1>0 DEF TypeOK
  <2> QED BY <2>1, <2>2, OtherJob
<1>m. /\ task[j] \in TaskRecord /\ task[j].proc \in up /\ status[j] # NULL
      /\ "success" \notin audits[j] /\ \A q \in Procs : req[q].job # j
  BY <1>0, <1>J DEF TaskIsTrue, TypeOK
<1>n. /\ status'[j] = status[j] /\ stored'[j] = stored[j] /\ stored[j] = 0
      /\ task'[j].endpoint = task[j].endpoint /\ task[j].endpoint \in 1 .. Endpoints
      /\ audits'[j] = audits[j] /\ status[j] # "succeeded"
  BY <1>0, <1>m, <1>J DEF TypeOK, TaskRecord, TaskIsTrue, Working
<1>1. TypeOK'
  <2>1. req' \in [Procs -> Request]
    BY <1>0 DEF TypeOK, Request
  <2>2. task' \in [Jobs -> TaskRecord]
    BY <1>0, NetBoxAssumption DEF TypeOK, TaskRecord, NoTask
  <2>3. /\ status' \in [Jobs -> {NULL, "queued", "running", "succeeded", "failed"}]
        /\ stored' \in [Jobs -> 0 .. 1]
        /\ audits' \in [Jobs -> SUBSET {"submitted", "success", "failed"}]
    BY <1>0 DEF TypeOK
  <2>4. /\ postgres' \in BOOLEAN /\ up' \subseteq Procs
        /\ starting' \subseteq Procs /\ stuck' \in [Procs -> SUBSET Jobs]
        /\ holder' \in Procs \X (1 .. MaxConns) \cup {NULL} /\ depth' \in Nat
        /\ error' \subseteq Jobs /\ degraded' \subseteq Procs
        /\ crashes' \in 0 .. MaxCrashes /\ errors' \in 0 .. MaxErrors /\ disowned' \in BOOLEAN
    BY <1>0, NetBoxAssumption DEF TypeOK, Conns
  <2> QED BY <2>1, <2>2, <2>3, <2>4 DEF TypeOK
<1>2. LockIsHeld'
  BY <1>0, NullAssumption, NetBoxAssumption DEF LockIsHeld, Section, TypeOK, Request, Conns
<1>3. ASSUME NEW i \in Jobs
      PROVE  (Requested(i) /\ Unused(i) /\ TaskIsTrue(i) /\ OwnedAreActive(i))'
  <2>1. Requested(i)'
    BY <1>0, <1>1, <1>J, NullAssumption DEF Requested, TypeOK, Request, TaskRecord
  <2>2. Unused(i)'
    BY <1>0, <1>1, <1>J, NullAssumption DEF Unused, TypeOK, Request, TaskRecord
  <2>3. TaskIsTrue(i)'
    BY <1>0, <1>1, <1>J, NullAssumption DEF TaskIsTrue, Working, TypeOK, Request, TaskRecord
  <2>4. OwnedAreActive(i)'
    BY <1>0, <1>1, <1>J, NullAssumption DEF OwnedAreActive, Active, Working, TypeOK, Request, TaskRecord
  <2> QED BY <2>1, <2>2, <2>3, <2>4
<1>4. CheckIsFresh'
  BY <1>0, <1>1, NullAssumption DEF CheckIsFresh, Active, TypeOK
<1>5. OutcomeIsTrue'
  <2>1. TrueOutcome(j)'
    <3>1. task'[j].endpoint <= Endpoints
      BY <1>n, NetBoxAssumption
    <3> QED BY <1>m, <1>n, <3>1 DEF TrueOutcome
  <2> QED BY <1>k, <2>1 DEF OutcomeIsTrue
<1>6. StartsOK'
  BY <1>0, NullAssumption DEF StartsOK, TypeOK
<1> QED BY <1>1, <1>2, <1>3, <1>4, <1>5, <1>6 DEF IInv

LEMMA FetchRefusedStep ==
  ASSUME IInv, NEW j \in Jobs, FetchRefused(j)
  PROVE  IInv'
<1> USE DEF FetchRefused, Runs, LoopIsFree, GoTo, TaskFrame, db, procs
<1>0. TypeOK /\ LockIsHeld /\ StartsOK /\ CheckIsFresh /\ OutcomeIsTrue
  BY DEF IInv
<1>J. \A i \in Jobs : Requested(i) /\ Unused(i) /\ TaskIsTrue(i) /\ OwnedAreActive(i)
  BY DEF IInv
<1>k. \A i \in Jobs \ {j} : JobInv(i)' /\ TrueOutcome(i)'
  <2> SUFFICES ASSUME NEW i \in Jobs \ {j} PROVE JobInv(i)' /\ TrueOutcome(i)'
    OBVIOUS
  <2>1. /\ status'[i] = status[i] /\ task'[i] = task[i] /\ stored'[i] = stored[i]
        /\ audits'[i] = audits[i] /\ (i \in error' <=> i \in error)
        /\ UNCHANGED << up, req, crashes, disowned >>
    BY <1>0 DEF TypeOK
  <2>2. errors' \in Nat /\ errors' >= errors
    BY <1>0 DEF TypeOK
  <2> QED BY <2>1, <2>2, OtherJob
<1>m. /\ task[j] \in TaskRecord /\ task[j].proc \in up /\ status[j] # NULL
      /\ "success" \notin audits[j] /\ \A q \in Procs : req[q].job # j
  BY <1>0, <1>J DEF TaskIsTrue, TypeOK
<1>n. /\ status'[j] = status[j] /\ stored'[j] = stored[j] /\ stored[j] = 0
      /\ task'[j].endpoint = task[j].endpoint /\ task[j].endpoint \in 1 .. Endpoints
      /\ audits'[j] = audits[j] /\ status[j] # "succeeded"
  BY <1>0, <1>m, <1>J DEF TypeOK, TaskRecord, TaskIsTrue, Working
<1>1. TypeOK'
  <2>1. req' \in [Procs -> Request]
    BY <1>0 DEF TypeOK, Request
  <2>2. task' \in [Jobs -> TaskRecord]
    BY <1>0, NetBoxAssumption DEF TypeOK, TaskRecord, NoTask
  <2>3. /\ status' \in [Jobs -> {NULL, "queued", "running", "succeeded", "failed"}]
        /\ stored' \in [Jobs -> 0 .. 1]
        /\ audits' \in [Jobs -> SUBSET {"submitted", "success", "failed"}]
    BY <1>0 DEF TypeOK
  <2>4. /\ postgres' \in BOOLEAN /\ up' \subseteq Procs
        /\ starting' \subseteq Procs /\ stuck' \in [Procs -> SUBSET Jobs]
        /\ holder' \in Procs \X (1 .. MaxConns) \cup {NULL} /\ depth' \in Nat
        /\ error' \subseteq Jobs /\ degraded' \subseteq Procs
        /\ crashes' \in 0 .. MaxCrashes /\ errors' \in 0 .. MaxErrors /\ disowned' \in BOOLEAN
    BY <1>0, NetBoxAssumption DEF TypeOK, Conns
  <2> QED BY <2>1, <2>2, <2>3, <2>4 DEF TypeOK
<1>2. LockIsHeld'
  BY <1>0, NullAssumption, NetBoxAssumption DEF LockIsHeld, Section, TypeOK, Request, Conns
<1>3. ASSUME NEW i \in Jobs
      PROVE  (Requested(i) /\ Unused(i) /\ TaskIsTrue(i) /\ OwnedAreActive(i))'
  <2>1. Requested(i)'
    BY <1>0, <1>1, <1>J, NullAssumption DEF Requested, TypeOK, Request, TaskRecord
  <2>2. Unused(i)'
    BY <1>0, <1>1, <1>J, NullAssumption DEF Unused, TypeOK, Request, TaskRecord
  <2>3. TaskIsTrue(i)'
    BY <1>0, <1>1, <1>J, NullAssumption DEF TaskIsTrue, Working, TypeOK, Request, TaskRecord
  <2>4. OwnedAreActive(i)'
    BY <1>0, <1>1, <1>J, NullAssumption DEF OwnedAreActive, Active, Working, TypeOK, Request, TaskRecord
  <2> QED BY <2>1, <2>2, <2>3, <2>4
<1>4. CheckIsFresh'
  BY <1>0, <1>1, NullAssumption DEF CheckIsFresh, Active, TypeOK
<1>5. OutcomeIsTrue'
  <2>1. TrueOutcome(j)'
    <3>1. task'[j].endpoint <= Endpoints
      BY <1>n, NetBoxAssumption
    <3> QED BY <1>m, <1>n, <3>1 DEF TrueOutcome
  <2> QED BY <1>k, <2>1 DEF OutcomeIsTrue
<1>6. StartsOK'
  BY <1>0, NullAssumption DEF StartsOK, TypeOK
<1> QED BY <1>1, <1>2, <1>3, <1>4, <1>5, <1>6 DEF IInv

LEMMA CacheSetStep ==
  ASSUME IInv, NEW j \in Jobs, CacheSet(j)
  PROVE  IInv'
<1> USE DEF CacheSet, Runs, LoopIsFree, GoTo, TaskFrame, CacheFallback, db, procs
<1>0. TypeOK /\ LockIsHeld /\ StartsOK /\ CheckIsFresh /\ OutcomeIsTrue
  BY DEF IInv
<1>J. \A i \in Jobs : Requested(i) /\ Unused(i) /\ TaskIsTrue(i) /\ OwnedAreActive(i)
  BY DEF IInv
<1>1. TypeOK'
  <2>1. req' \in [Procs -> Request]
    BY <1>0 DEF TypeOK, Request
  <2>2. task' \in [Jobs -> TaskRecord]
    BY <1>0, NetBoxAssumption, SMTT(30) DEF TypeOK, TaskRecord, NoTask
  <2>3. /\ status' \in [Jobs -> {NULL, "queued", "running", "succeeded", "failed"}]
        /\ stored' \in [Jobs -> 0 .. 1]
        /\ audits' \in [Jobs -> SUBSET {"submitted", "success", "failed"}]
    BY <1>0 DEF TypeOK
  <2>4. /\ postgres' \in BOOLEAN /\ up' \subseteq Procs
        /\ starting' \subseteq Procs /\ stuck' \in [Procs -> SUBSET Jobs]
        /\ holder' \in Procs \X (1 .. MaxConns) \cup {NULL} /\ depth' \in Nat
        /\ error' \subseteq Jobs /\ degraded' \subseteq Procs
        /\ crashes' \in 0 .. MaxCrashes /\ errors' \in 0 .. MaxErrors /\ disowned' \in BOOLEAN
    BY <1>0, NetBoxAssumption DEF TypeOK, Conns
  <2> QED BY <2>1, <2>2, <2>3, <2>4 DEF TypeOK
<1>2. LockIsHeld'
  BY <1>0, NullAssumption, NetBoxAssumption DEF LockIsHeld, Section, TypeOK, Request, Conns
<1>3. ASSUME NEW i \in Jobs
      PROVE  (Requested(i) /\ Unused(i) /\ TaskIsTrue(i) /\ OwnedAreActive(i))'
  <2>1. Requested(i)'
    BY <1>0, <1>1, <1>J, NullAssumption DEF Requested, TypeOK, Request, TaskRecord
  <2>2. Unused(i)'
    BY <1>0, <1>1, <1>J, NullAssumption DEF Unused, TypeOK, Request, TaskRecord
  <2>3. TaskIsTrue(i)'
    BY <1>0, <1>1, <1>J, NullAssumption DEF TaskIsTrue, Working, TypeOK, Request, TaskRecord
  <2>4. OwnedAreActive(i)'
    BY <1>0, <1>1, <1>J, NullAssumption, SMTT(30) DEF OwnedAreActive, Active, Working, TypeOK, Request, TaskRecord
  <2> QED BY <2>1, <2>2, <2>3, <2>4
<1>4. CheckIsFresh'
  BY <1>0, <1>1, NullAssumption DEF CheckIsFresh, Active, TypeOK
<1>5. OutcomeIsTrue'
  BY <1>0, <1>1, <1>J, NullAssumption DEF OutcomeIsTrue, TrueOutcome, TypeOK, TaskRecord
<1>6. StartsOK'
  BY <1>0, NullAssumption DEF StartsOK, TypeOK
<1> QED BY <1>1, <1>2, <1>3, <1>4, <1>5, <1>6 DEF IInv

LEMMA StoreSnapshotStep ==
  ASSUME IInv, NEW j \in Jobs, StoreSnapshot(j)
  PROVE  IInv'
<1> USE DEF StoreSnapshot, Runs, LoopIsFree, GoTo, TaskFrame, procs
<1>0. TypeOK /\ LockIsHeld /\ StartsOK /\ CheckIsFresh /\ OutcomeIsTrue
  BY DEF IInv
<1>J. \A i \in Jobs : Requested(i) /\ Unused(i) /\ TaskIsTrue(i) /\ OwnedAreActive(i)
  BY DEF IInv
<1>k. \A i \in Jobs \ {j} : JobInv(i)' /\ TrueOutcome(i)'
  <2> SUFFICES ASSUME NEW i \in Jobs \ {j} PROVE JobInv(i)' /\ TrueOutcome(i)'
    OBVIOUS
  <2>1. /\ status'[i] = status[i] /\ task'[i] = task[i] /\ stored'[i] = stored[i]
        /\ audits'[i] = audits[i] /\ (i \in error' <=> i \in error)
        /\ UNCHANGED << up, req, crashes, disowned >>
    BY <1>0 DEF TypeOK
  <2>2. errors' \in Nat /\ errors' >= errors
    BY <1>0 DEF TypeOK
  <2> QED BY <2>1, <2>2, OtherJob
<1>m. /\ task[j] \in TaskRecord /\ task[j].proc \in up /\ status[j] # NULL
      /\ "success" \notin audits[j] /\ \A q \in Procs : req[q].job # j
  BY <1>0, <1>J DEF TaskIsTrue, TypeOK
<1>n. /\ status'[j] = status[j] /\ task'[j].at = "stored"
      /\ audits'[j] = audits[j] /\ crashes' = crashes
  BY <1>0, <1>m DEF TypeOK, TaskRecord
<1>o. status[j] # "succeeded" /\ (status[j] = "failed" => crashes > 0)
  BY <1>J DEF TaskIsTrue, Working
<1>1. TypeOK'
  <2>1. req' \in [Procs -> Request]
    BY <1>0 DEF TypeOK, Request
  <2>2. task' \in [Jobs -> TaskRecord]
    BY <1>0, NetBoxAssumption DEF TypeOK, TaskRecord, NoTask
  <2>3. /\ status' \in [Jobs -> {NULL, "queued", "running", "succeeded", "failed"}]
        /\ stored' \in [Jobs -> 0 .. 1]
        /\ audits' \in [Jobs -> SUBSET {"submitted", "success", "failed"}]
    BY <1>0, <1>J DEF TypeOK, TaskIsTrue, Working
  <2>4. /\ postgres' \in BOOLEAN /\ up' \subseteq Procs
        /\ starting' \subseteq Procs /\ stuck' \in [Procs -> SUBSET Jobs]
        /\ holder' \in Procs \X (1 .. MaxConns) \cup {NULL} /\ depth' \in Nat
        /\ error' \subseteq Jobs /\ degraded' \subseteq Procs
        /\ crashes' \in 0 .. MaxCrashes /\ errors' \in 0 .. MaxErrors /\ disowned' \in BOOLEAN
    BY <1>0, NetBoxAssumption DEF TypeOK, Conns
  <2> QED BY <2>1, <2>2, <2>3, <2>4 DEF TypeOK
<1>2. LockIsHeld'
  BY <1>0, NullAssumption, NetBoxAssumption DEF LockIsHeld, Section, TypeOK, Request, Conns
<1>3. ASSUME NEW i \in Jobs
      PROVE  (Requested(i) /\ Unused(i) /\ TaskIsTrue(i) /\ OwnedAreActive(i))'
  <2>1. Requested(i)'
    BY <1>0, <1>1, <1>J, NullAssumption DEF Requested, TypeOK, Request, TaskRecord
  <2>2. Unused(i)'
    BY <1>0, <1>1, <1>J, NullAssumption DEF Unused, TypeOK, Request, TaskRecord
  <2>3. TaskIsTrue(i)'
    BY <1>0, <1>1, <1>J, NullAssumption DEF TaskIsTrue, Working, TypeOK, Request, TaskRecord
  <2>4. OwnedAreActive(i)'
    BY <1>0, <1>1, <1>J, NullAssumption DEF OwnedAreActive, Active, Working, TypeOK, Request, TaskRecord
  <2> QED BY <2>1, <2>2, <2>3, <2>4
<1>4. CheckIsFresh'
  BY <1>0, <1>1, NullAssumption DEF CheckIsFresh, Active, TypeOK
<1>5. OutcomeIsTrue'
  <2>1. TrueOutcome(j)'
    BY <1>m, <1>n, <1>o DEF TrueOutcome
  <2> QED BY <1>k, <2>1 DEF OutcomeIsTrue
<1>6. StartsOK'
  BY <1>0, NullAssumption DEF StartsOK, TypeOK
<1> QED BY <1>1, <1>2, <1>3, <1>4, <1>5, <1>6 DEF IInv

LEMMA StoreFailsStep ==
  ASSUME IInv, NEW j \in Jobs, StoreFails(j)
  PROVE  IInv'
<1> USE DEF StoreFails, Runs, LoopIsFree, GoTo, TaskFrame, db, procs
<1>0. TypeOK /\ LockIsHeld /\ StartsOK /\ CheckIsFresh /\ OutcomeIsTrue
  BY DEF IInv
<1>J. \A i \in Jobs : Requested(i) /\ Unused(i) /\ TaskIsTrue(i) /\ OwnedAreActive(i)
  BY DEF IInv
<1>1. TypeOK'
  <2>1. req' \in [Procs -> Request]
    BY <1>0 DEF TypeOK, Request
  <2>2. task' \in [Jobs -> TaskRecord]
    <3>1. [task[j] EXCEPT !.at = "failing"] \in TaskRecord
      BY <1>0 DEF TypeOK, TaskRecord
    <3> QED BY <1>0, <3>1 DEF TypeOK
  <2>3. /\ status' \in [Jobs -> {NULL, "queued", "running", "succeeded", "failed"}]
        /\ stored' \in [Jobs -> 0 .. 1]
        /\ audits' \in [Jobs -> SUBSET {"submitted", "success", "failed"}]
    BY <1>0 DEF TypeOK
  <2>4. /\ postgres' \in BOOLEAN /\ up' \subseteq Procs
        /\ starting' \subseteq Procs /\ stuck' \in [Procs -> SUBSET Jobs]
        /\ holder' \in Procs \X (1 .. MaxConns) \cup {NULL} /\ depth' \in Nat
        /\ error' \subseteq Jobs /\ degraded' \subseteq Procs
        /\ crashes' \in 0 .. MaxCrashes /\ errors' \in 0 .. MaxErrors /\ disowned' \in BOOLEAN
    BY <1>0, NetBoxAssumption DEF TypeOK, Conns
  <2> QED BY <2>1, <2>2, <2>3, <2>4 DEF TypeOK
<1>2. LockIsHeld'
  BY <1>0, NullAssumption, NetBoxAssumption DEF LockIsHeld, Section, TypeOK, Request, Conns
<1>3. ASSUME NEW i \in Jobs
      PROVE  (Requested(i) /\ Unused(i) /\ TaskIsTrue(i) /\ OwnedAreActive(i))'
  <2>1. Requested(i)'
    BY <1>0, <1>1, <1>J, NullAssumption DEF Requested, TypeOK, Request, TaskRecord
  <2>2. Unused(i)'
    BY <1>0, <1>1, <1>J, NullAssumption DEF Unused, TypeOK, Request, TaskRecord
  <2>3. TaskIsTrue(i)'
    BY <1>0, <1>1, <1>J, NullAssumption DEF TaskIsTrue, Working, TypeOK, Request, TaskRecord
  <2>4. OwnedAreActive(i)'
    BY <1>0, <1>1, <1>J, NullAssumption DEF OwnedAreActive, Active, Working, TypeOK, Request, TaskRecord
  <2> QED BY <2>1, <2>2, <2>3, <2>4
<1>4. CheckIsFresh'
  BY <1>0, <1>1, NullAssumption DEF CheckIsFresh, Active, TypeOK
<1>5. OutcomeIsTrue'
  BY <1>0, <1>1, <1>J, NullAssumption DEF OutcomeIsTrue, TrueOutcome, TypeOK, TaskRecord
<1>6. StartsOK'
  BY <1>0, NullAssumption DEF StartsOK, TypeOK
<1> QED BY <1>1, <1>2, <1>3, <1>4, <1>5, <1>6 DEF IInv

LEMMA MarkSucceededStep ==
  ASSUME IInv, NEW j \in Jobs, MarkSucceeded(j)
  PROVE  IInv'
<1> USE DEF MarkSucceeded, Runs, LoopIsFree, GoTo, TaskFrame, procs
<1>0. TypeOK /\ LockIsHeld /\ StartsOK /\ CheckIsFresh /\ OutcomeIsTrue
  BY DEF IInv
<1>J. \A i \in Jobs : Requested(i) /\ Unused(i) /\ TaskIsTrue(i) /\ OwnedAreActive(i)
  BY DEF IInv
<1>k. \A i \in Jobs \ {j} : JobInv(i)' /\ TrueOutcome(i)'
  <2> SUFFICES ASSUME NEW i \in Jobs \ {j} PROVE JobInv(i)' /\ TrueOutcome(i)'
    OBVIOUS
  <2>1. /\ status'[i] = status[i] /\ task'[i] = task[i] /\ stored'[i] = stored[i]
        /\ audits'[i] = audits[i] /\ (i \in error' <=> i \in error)
        /\ UNCHANGED << up, req, crashes, disowned >>
    BY <1>0 DEF TypeOK
  <2>2. errors' \in Nat /\ errors' >= errors
    BY <1>0 DEF TypeOK
  <2> QED BY <2>1, <2>2, OtherJob
<1>m. /\ task[j] \in TaskRecord /\ task[j].proc \in up /\ status[j] # NULL
      /\ "success" \notin audits[j] /\ \A q \in Procs : req[q].job # j
  BY <1>0, <1>J DEF TaskIsTrue, TypeOK
<1>n. /\ status'[j] = "succeeded" /\ task'[j].at = "succeeded" /\ stored'[j] = 1
      /\ audits'[j] = audits[j] /\ req' = req /\ error' = error /\ disowned' = disowned
  BY <1>0, <1>m, <1>J DEF TypeOK, TaskRecord, TaskIsTrue, Working
<1>o. j \in error => disowned
  BY <1>J DEF OwnedAreActive
<1>1. TypeOK'
  <2>1. req' \in [Procs -> Request]
    BY <1>0 DEF TypeOK, Request
  <2>2. task' \in [Jobs -> TaskRecord]
    BY <1>0, NetBoxAssumption DEF TypeOK, TaskRecord, NoTask
  <2>3. /\ status' \in [Jobs -> {NULL, "queued", "running", "succeeded", "failed"}]
        /\ stored' \in [Jobs -> 0 .. 1]
        /\ audits' \in [Jobs -> SUBSET {"submitted", "success", "failed"}]
    BY <1>0 DEF TypeOK
  <2>4. /\ postgres' \in BOOLEAN /\ up' \subseteq Procs
        /\ starting' \subseteq Procs /\ stuck' \in [Procs -> SUBSET Jobs]
        /\ holder' \in Procs \X (1 .. MaxConns) \cup {NULL} /\ depth' \in Nat
        /\ error' \subseteq Jobs /\ degraded' \subseteq Procs
        /\ crashes' \in 0 .. MaxCrashes /\ errors' \in 0 .. MaxErrors /\ disowned' \in BOOLEAN
    BY <1>0, NetBoxAssumption DEF TypeOK, Conns
  <2> QED BY <2>1, <2>2, <2>3, <2>4 DEF TypeOK
<1>2. LockIsHeld'
  BY <1>0, NullAssumption, NetBoxAssumption DEF LockIsHeld, Section, TypeOK, Request, Conns
<1>3. ASSUME NEW i \in Jobs
      PROVE  (Requested(i) /\ Unused(i) /\ TaskIsTrue(i) /\ OwnedAreActive(i))'
  <2>1. Requested(i)'
    BY <1>0, <1>1, <1>J, NullAssumption DEF Requested, TypeOK, Request, TaskRecord
  <2>2. Unused(i)'
    BY <1>0, <1>1, <1>J, NullAssumption DEF Unused, TypeOK, Request, TaskRecord
  <2>3. TaskIsTrue(i)'
    BY <1>0, <1>1, <1>J, NullAssumption DEF TaskIsTrue, Working, TypeOK, Request, TaskRecord
  <2>4. OwnedAreActive(i)'
    <3>1. CASE i # j
      BY <1>k, <3>1 DEF JobInv
    <3>2. OwnedAreActive(j)'
      BY <1>m, <1>n, <1>o DEF OwnedAreActive, Working
    <3> QED BY <3>1, <3>2
  <2> QED BY <2>1, <2>2, <2>3, <2>4
<1>4. CheckIsFresh'
  BY <1>0, <1>1, NullAssumption DEF CheckIsFresh, Active, TypeOK
<1>5. OutcomeIsTrue'
  <2>1. TrueOutcome(j)'
    BY <1>m, <1>n, <1>o DEF TrueOutcome
  <2> QED BY <1>k, <2>1 DEF OutcomeIsTrue
<1>6. StartsOK'
  BY <1>0, NullAssumption DEF StartsOK, TypeOK
<1> QED BY <1>1, <1>2, <1>3, <1>4, <1>5, <1>6 DEF IInv

LEMMA MarkSucceededFailsStep ==
  ASSUME IInv, NEW j \in Jobs, MarkSucceededFails(j)
  PROVE  IInv'
<1> USE DEF MarkSucceededFails, Runs, LoopIsFree, GoTo, TaskFrame, db, procs
<1>0. TypeOK /\ LockIsHeld /\ StartsOK /\ CheckIsFresh /\ OutcomeIsTrue
  BY DEF IInv
<1>J. \A i \in Jobs : Requested(i) /\ Unused(i) /\ TaskIsTrue(i) /\ OwnedAreActive(i)
  BY DEF IInv
<1>1. TypeOK'
  <2>1. req' \in [Procs -> Request]
    BY <1>0 DEF TypeOK, Request
  <2>2. task' \in [Jobs -> TaskRecord]
    BY <1>0, NetBoxAssumption DEF TypeOK, TaskRecord, NoTask
  <2>3. /\ status' \in [Jobs -> {NULL, "queued", "running", "succeeded", "failed"}]
        /\ stored' \in [Jobs -> 0 .. 1]
        /\ audits' \in [Jobs -> SUBSET {"submitted", "success", "failed"}]
    BY <1>0 DEF TypeOK
  <2>4. /\ postgres' \in BOOLEAN /\ up' \subseteq Procs
        /\ starting' \subseteq Procs /\ stuck' \in [Procs -> SUBSET Jobs]
        /\ holder' \in Procs \X (1 .. MaxConns) \cup {NULL} /\ depth' \in Nat
        /\ error' \subseteq Jobs /\ degraded' \subseteq Procs
        /\ crashes' \in 0 .. MaxCrashes /\ errors' \in 0 .. MaxErrors /\ disowned' \in BOOLEAN
    BY <1>0, NetBoxAssumption DEF TypeOK, Conns
  <2> QED BY <2>1, <2>2, <2>3, <2>4 DEF TypeOK
<1>2. LockIsHeld'
  BY <1>0, NullAssumption, NetBoxAssumption DEF LockIsHeld, Section, TypeOK, Request, Conns
<1>3. ASSUME NEW i \in Jobs
      PROVE  (Requested(i) /\ Unused(i) /\ TaskIsTrue(i) /\ OwnedAreActive(i))'
  <2>1. Requested(i)'
    BY <1>0, <1>1, <1>J, NullAssumption DEF Requested, TypeOK, Request, TaskRecord
  <2>2. Unused(i)'
    BY <1>0, <1>1, <1>J, NullAssumption DEF Unused, TypeOK, Request, TaskRecord
  <2>3. TaskIsTrue(i)'
    BY <1>0, <1>1, <1>J, NullAssumption DEF TaskIsTrue, Working, TypeOK, Request, TaskRecord
  <2>4. OwnedAreActive(i)'
    BY <1>0, <1>1, <1>J, NullAssumption DEF OwnedAreActive, Active, Working, TypeOK, Request, TaskRecord
  <2> QED BY <2>1, <2>2, <2>3, <2>4
<1>4. CheckIsFresh'
  BY <1>0, <1>1, NullAssumption DEF CheckIsFresh, Active, TypeOK
<1>5. OutcomeIsTrue'
  BY <1>0, <1>1, <1>J, NullAssumption DEF OutcomeIsTrue, TrueOutcome, TypeOK, TaskRecord
<1>6. StartsOK'
  BY <1>0, NullAssumption DEF StartsOK, TypeOK
<1> QED BY <1>1, <1>2, <1>3, <1>4, <1>5, <1>6 DEF IInv

LEMMA AuditSuccessStep ==
  ASSUME IInv, NEW j \in Jobs, AuditSuccess(j)
  PROVE  IInv'
<1> USE DEF AuditSuccess, Runs, LoopIsFree, Ended, TaskFrame, Audited, NoTask, procs
<1>0. TypeOK /\ LockIsHeld /\ StartsOK /\ CheckIsFresh /\ OutcomeIsTrue
  BY DEF IInv
<1>J. \A i \in Jobs : Requested(i) /\ Unused(i) /\ TaskIsTrue(i) /\ OwnedAreActive(i)
  BY DEF IInv
<1>k. \A i \in Jobs \ {j} : JobInv(i)' /\ TrueOutcome(i)'
  <2> SUFFICES ASSUME NEW i \in Jobs \ {j} PROVE JobInv(i)' /\ TrueOutcome(i)'
    OBVIOUS
  <2>1. /\ status'[i] = status[i] /\ task'[i] = task[i] /\ stored'[i] = stored[i]
        /\ audits'[i] = audits[i] /\ (i \in error' <=> i \in error)
        /\ UNCHANGED << up, req, crashes, disowned >>
    BY <1>0 DEF TypeOK
  <2>2. errors' \in Nat /\ errors' >= errors
    BY <1>0 DEF TypeOK
  <2> QED BY <2>1, <2>2, OtherJob
<1>m. /\ task[j] \in TaskRecord /\ task[j].proc \in up /\ status[j] # NULL
      /\ "success" \notin audits[j] /\ \A q \in Procs : req[q].job # j
  BY <1>0, <1>J DEF TaskIsTrue, TypeOK
<1>1. TypeOK'
  <2>1. req' \in [Procs -> Request]
    BY <1>0 DEF TypeOK, Request
  <2>2. task' \in [Jobs -> TaskRecord]
    BY <1>0, NetBoxAssumption DEF TypeOK, TaskRecord, NoTask
  <2>3. /\ status' \in [Jobs -> {NULL, "queued", "running", "succeeded", "failed"}]
        /\ stored' \in [Jobs -> 0 .. 1]
        /\ audits' \in [Jobs -> SUBSET {"submitted", "success", "failed"}]
    BY <1>0 DEF TypeOK
  <2>4. /\ postgres' \in BOOLEAN /\ up' \subseteq Procs
        /\ starting' \subseteq Procs /\ stuck' \in [Procs -> SUBSET Jobs]
        /\ holder' \in Procs \X (1 .. MaxConns) \cup {NULL} /\ depth' \in Nat
        /\ error' \subseteq Jobs /\ degraded' \subseteq Procs
        /\ crashes' \in 0 .. MaxCrashes /\ errors' \in 0 .. MaxErrors /\ disowned' \in BOOLEAN
    BY <1>0, NetBoxAssumption DEF TypeOK, Conns
  <2> QED BY <2>1, <2>2, <2>3, <2>4 DEF TypeOK
<1>2. LockIsHeld'
  BY <1>0, NullAssumption, NetBoxAssumption DEF LockIsHeld, Section, TypeOK, Request, Conns
<1>3. ASSUME NEW i \in Jobs
      PROVE  (Requested(i) /\ Unused(i) /\ TaskIsTrue(i) /\ OwnedAreActive(i))'
  <2>1. Requested(i)'
    BY <1>0, <1>1, <1>J, NullAssumption DEF Requested, TypeOK, Request, TaskRecord
  <2>2. Unused(i)'
    BY <1>0, <1>1, <1>J, NullAssumption DEF Unused, TypeOK, Request, TaskRecord
  <2>3. TaskIsTrue(i)'
    BY <1>0, <1>1, <1>J, NullAssumption DEF TaskIsTrue, Working, TypeOK, Request, TaskRecord
  <2>4. OwnedAreActive(i)'
    BY <1>0, <1>1, <1>J, NullAssumption DEF OwnedAreActive, Active, Working, TypeOK, Request, TaskRecord
  <2> QED BY <2>1, <2>2, <2>3, <2>4
<1>4. CheckIsFresh'
  BY <1>0, <1>1, NullAssumption DEF CheckIsFresh, Active, TypeOK
<1>5. OutcomeIsTrue'
  <2>1. TrueOutcome(j)'
    BY <1>0, <1>J DEF OutcomeIsTrue, TrueOutcome, TaskIsTrue, TypeOK
  <2> QED BY <1>k, <2>1 DEF OutcomeIsTrue
<1>6. StartsOK'
  BY <1>0, NullAssumption DEF StartsOK, TypeOK
<1> QED BY <1>1, <1>2, <1>3, <1>4, <1>5, <1>6 DEF IInv

LEMMA AuditSuccessFailsStep ==
  ASSUME IInv, NEW j \in Jobs, AuditSuccessFails(j)
  PROVE  IInv'
<1> USE DEF AuditSuccessFails, Runs, LoopIsFree, GoTo, Audited, TaskFrame, procs
<1>0. TypeOK /\ LockIsHeld /\ StartsOK /\ CheckIsFresh /\ OutcomeIsTrue
  BY DEF IInv
<1>J. \A i \in Jobs : Requested(i) /\ Unused(i) /\ TaskIsTrue(i) /\ OwnedAreActive(i)
  BY DEF IInv
<1>1. TypeOK'
  <2>1. req' \in [Procs -> Request]
    BY <1>0 DEF TypeOK, Request
  <2>2. task' \in [Jobs -> TaskRecord]
    BY <1>0, NetBoxAssumption DEF TypeOK, TaskRecord, NoTask
  <2>3. /\ status' \in [Jobs -> {NULL, "queued", "running", "succeeded", "failed"}]
        /\ stored' \in [Jobs -> 0 .. 1]
        /\ audits' \in [Jobs -> SUBSET {"submitted", "success", "failed"}]
    BY <1>0 DEF TypeOK
  <2>4. /\ postgres' \in BOOLEAN /\ up' \subseteq Procs
        /\ starting' \subseteq Procs /\ stuck' \in [Procs -> SUBSET Jobs]
        /\ holder' \in Procs \X (1 .. MaxConns) \cup {NULL} /\ depth' \in Nat
        /\ error' \subseteq Jobs /\ degraded' \subseteq Procs
        /\ crashes' \in 0 .. MaxCrashes /\ errors' \in 0 .. MaxErrors /\ disowned' \in BOOLEAN
    BY <1>0, NetBoxAssumption DEF TypeOK, Conns
  <2> QED BY <2>1, <2>2, <2>3, <2>4 DEF TypeOK
<1>2. LockIsHeld'
  BY <1>0, NullAssumption, NetBoxAssumption DEF LockIsHeld, Section, TypeOK, Request, Conns
<1>3. ASSUME NEW i \in Jobs
      PROVE  (Requested(i) /\ Unused(i) /\ TaskIsTrue(i) /\ OwnedAreActive(i))'
  <2>1. Requested(i)'
    BY <1>0, <1>1, <1>J, NullAssumption DEF Requested, TypeOK, Request, TaskRecord
  <2>2. Unused(i)'
    BY <1>0, <1>1, <1>J, NullAssumption DEF Unused, TypeOK, Request, TaskRecord
  <2>3. TaskIsTrue(i)'
    BY <1>0, <1>1, <1>J, NullAssumption DEF TaskIsTrue, Working, TypeOK, Request, TaskRecord
  <2>4. OwnedAreActive(i)'
    BY <1>0, <1>1, <1>J, NullAssumption DEF OwnedAreActive, Active, Working, TypeOK, Request, TaskRecord
  <2> QED BY <2>1, <2>2, <2>3, <2>4
<1>4. CheckIsFresh'
  BY <1>0, <1>1, NullAssumption DEF CheckIsFresh, Active, TypeOK
<1>5. OutcomeIsTrue'
  BY <1>0, <1>1, <1>J, NullAssumption DEF OutcomeIsTrue, TrueOutcome, TypeOK, TaskRecord
<1>6. StartsOK'
  BY <1>0, NullAssumption DEF StartsOK, TypeOK
<1> QED BY <1>1, <1>2, <1>3, <1>4, <1>5, <1>6 DEF IInv

LEMMA MarkFailedStep ==
  ASSUME IInv, NEW j \in Jobs, MarkFailed(j)
  PROVE  IInv'
<1> USE DEF MarkFailed, Runs, LoopIsFree, GoTo, TaskFrame, procs
<1>0. TypeOK /\ LockIsHeld /\ StartsOK /\ CheckIsFresh /\ OutcomeIsTrue
  BY DEF IInv
<1>J. \A i \in Jobs : Requested(i) /\ Unused(i) /\ TaskIsTrue(i) /\ OwnedAreActive(i)
  BY DEF IInv
<1>k. \A i \in Jobs \ {j} : JobInv(i)' /\ TrueOutcome(i)'
  <2> SUFFICES ASSUME NEW i \in Jobs \ {j} PROVE JobInv(i)' /\ TrueOutcome(i)'
    OBVIOUS
  <2>1. /\ status'[i] = status[i] /\ task'[i] = task[i] /\ stored'[i] = stored[i]
        /\ audits'[i] = audits[i] /\ (i \in error' <=> i \in error)
        /\ UNCHANGED << up, req, crashes, disowned >>
    BY <1>0 DEF TypeOK
  <2>2. errors' \in Nat /\ errors' >= errors
    BY <1>0 DEF TypeOK
  <2> QED BY <2>1, <2>2, OtherJob
<1>m. /\ task[j] \in TaskRecord /\ task[j].proc \in up /\ status[j] # NULL
      /\ ("success" \in audits[j] => errors > 0) /\ \A q \in Procs : req[q].job # j
  BY <1>0, <1>J DEF TaskIsTrue, TypeOK
<1>n. /\ status'[j] = "failed" /\ task'[j].at = "failed" /\ stored'[j] = stored[j]
      /\ audits'[j] = audits[j] /\ req' = req /\ errors' = errors /\ crashes' = crashes
      /\ disowned' = disowned
  BY <1>0, <1>m DEF TypeOK, TaskRecord
<1>1. TypeOK'
  <2>1. req' \in [Procs -> Request]
    BY <1>0 DEF TypeOK, Request
  <2>2. task' \in [Jobs -> TaskRecord]
    BY <1>0, NetBoxAssumption DEF TypeOK, TaskRecord, NoTask
  <2>3. /\ status' \in [Jobs -> {NULL, "queued", "running", "succeeded", "failed"}]
        /\ stored' \in [Jobs -> 0 .. 1]
        /\ audits' \in [Jobs -> SUBSET {"submitted", "success", "failed"}]
    BY <1>0 DEF TypeOK
  <2>4. /\ postgres' \in BOOLEAN /\ up' \subseteq Procs
        /\ starting' \subseteq Procs /\ stuck' \in [Procs -> SUBSET Jobs]
        /\ holder' \in Procs \X (1 .. MaxConns) \cup {NULL} /\ depth' \in Nat
        /\ error' \subseteq Jobs /\ degraded' \subseteq Procs
        /\ crashes' \in 0 .. MaxCrashes /\ errors' \in 0 .. MaxErrors /\ disowned' \in BOOLEAN
    BY <1>0, NetBoxAssumption DEF TypeOK, Conns
  <2> QED BY <2>1, <2>2, <2>3, <2>4 DEF TypeOK
<1>2. LockIsHeld'
  BY <1>0, NullAssumption, NetBoxAssumption DEF LockIsHeld, Section, TypeOK, Request, Conns
<1>3. ASSUME NEW i \in Jobs
      PROVE  (Requested(i) /\ Unused(i) /\ TaskIsTrue(i) /\ OwnedAreActive(i))'
  <2>1. Requested(i)'
    BY <1>0, <1>1, <1>J, NullAssumption DEF Requested, TypeOK, Request, TaskRecord
  <2>2. Unused(i)'
    BY <1>0, <1>1, <1>J, NullAssumption DEF Unused, TypeOK, Request, TaskRecord
  <2>3. TaskIsTrue(i)'
    BY <1>0, <1>1, <1>J, NullAssumption DEF TaskIsTrue, Working, TypeOK, Request, TaskRecord
  <2>4. OwnedAreActive(i)'
    <3>1. CASE i # j
      BY <1>k, <3>1 DEF JobInv
    <3>2. OwnedAreActive(j)'
      BY <1>m, <1>n DEF OwnedAreActive, Working
    <3> QED BY <3>1, <3>2
  <2> QED BY <2>1, <2>2, <2>3, <2>4
<1>4. CheckIsFresh'
  BY <1>0, <1>1, NullAssumption DEF CheckIsFresh, Active, TypeOK
<1>5. OutcomeIsTrue'
  <2>1. TrueOutcome(j)'
    <3>1. stored[j] = 1 => errors > 0 \/ crashes > 0
      BY <1>J DEF TaskIsTrue
    <3> QED BY <1>m, <1>n, <3>1 DEF TrueOutcome
  <2> QED BY <1>k, <2>1 DEF OutcomeIsTrue
<1>6. StartsOK'
  BY <1>0, NullAssumption DEF StartsOK, TypeOK
<1> QED BY <1>1, <1>2, <1>3, <1>4, <1>5, <1>6 DEF IInv

LEMMA MarkFailedFailsStep ==
  ASSUME IInv, NEW j \in Jobs, MarkFailedFails(j)
  PROVE  IInv'
<1> USE DEF MarkFailedFails, Runs, LoopIsFree, GoTo, TaskFrame, db, procs
<1>0. TypeOK /\ LockIsHeld /\ StartsOK /\ CheckIsFresh /\ OutcomeIsTrue
  BY DEF IInv
<1>J. \A i \in Jobs : Requested(i) /\ Unused(i) /\ TaskIsTrue(i) /\ OwnedAreActive(i)
  BY DEF IInv
<1>1. TypeOK'
  <2>1. req' \in [Procs -> Request]
    BY <1>0 DEF TypeOK, Request
  <2>2. task' \in [Jobs -> TaskRecord]
    BY <1>0, NetBoxAssumption DEF TypeOK, TaskRecord, NoTask
  <2>3. /\ status' \in [Jobs -> {NULL, "queued", "running", "succeeded", "failed"}]
        /\ stored' \in [Jobs -> 0 .. 1]
        /\ audits' \in [Jobs -> SUBSET {"submitted", "success", "failed"}]
    BY <1>0 DEF TypeOK
  <2>4. /\ postgres' \in BOOLEAN /\ up' \subseteq Procs
        /\ starting' \subseteq Procs /\ stuck' \in [Procs -> SUBSET Jobs]
        /\ holder' \in Procs \X (1 .. MaxConns) \cup {NULL} /\ depth' \in Nat
        /\ error' \subseteq Jobs /\ degraded' \subseteq Procs
        /\ crashes' \in 0 .. MaxCrashes /\ errors' \in 0 .. MaxErrors /\ disowned' \in BOOLEAN
    BY <1>0, NetBoxAssumption DEF TypeOK, Conns
  <2> QED BY <2>1, <2>2, <2>3, <2>4 DEF TypeOK
<1>2. LockIsHeld'
  BY <1>0, NullAssumption, NetBoxAssumption DEF LockIsHeld, Section, TypeOK, Request, Conns
<1>3. ASSUME NEW i \in Jobs
      PROVE  (Requested(i) /\ Unused(i) /\ TaskIsTrue(i) /\ OwnedAreActive(i))'
  <2>1. Requested(i)'
    BY <1>0, <1>1, <1>J, NullAssumption DEF Requested, TypeOK, Request, TaskRecord
  <2>2. Unused(i)'
    BY <1>0, <1>1, <1>J, NullAssumption DEF Unused, TypeOK, Request, TaskRecord
  <2>3. TaskIsTrue(i)'
    BY <1>0, <1>1, <1>J, NullAssumption DEF TaskIsTrue, Working, TypeOK, Request, TaskRecord
  <2>4. OwnedAreActive(i)'
    BY <1>0, <1>1, <1>J, NullAssumption DEF OwnedAreActive, Active, Working, TypeOK, Request, TaskRecord
  <2> QED BY <2>1, <2>2, <2>3, <2>4
<1>4. CheckIsFresh'
  BY <1>0, <1>1, NullAssumption DEF CheckIsFresh, Active, TypeOK
<1>5. OutcomeIsTrue'
  BY <1>0, <1>1, <1>J, NullAssumption DEF OutcomeIsTrue, TrueOutcome, TypeOK, TaskRecord
<1>6. StartsOK'
  BY <1>0, NullAssumption DEF StartsOK, TypeOK
<1> QED BY <1>1, <1>2, <1>3, <1>4, <1>5, <1>6 DEF IInv

LEMMA AuditFailureStep ==
  ASSUME IInv, NEW j \in Jobs, AuditFailure(j)
  PROVE  IInv'
<1> USE DEF AuditFailure, Runs, LoopIsFree, Ended, TaskFrame, Audited, NoTask, procs
<1>0. TypeOK /\ LockIsHeld /\ StartsOK /\ CheckIsFresh /\ OutcomeIsTrue
  BY DEF IInv
<1>J. \A i \in Jobs : Requested(i) /\ Unused(i) /\ TaskIsTrue(i) /\ OwnedAreActive(i)
  BY DEF IInv
<1>1. TypeOK'
  <2>1. req' \in [Procs -> Request]
    BY <1>0 DEF TypeOK, Request
  <2>2. task' \in [Jobs -> TaskRecord]
    BY <1>0, NetBoxAssumption DEF TypeOK, TaskRecord, NoTask
  <2>3. /\ status' \in [Jobs -> {NULL, "queued", "running", "succeeded", "failed"}]
        /\ stored' \in [Jobs -> 0 .. 1]
        /\ audits' \in [Jobs -> SUBSET {"submitted", "success", "failed"}]
    BY <1>0 DEF TypeOK
  <2>4. /\ postgres' \in BOOLEAN /\ up' \subseteq Procs
        /\ starting' \subseteq Procs /\ stuck' \in [Procs -> SUBSET Jobs]
        /\ holder' \in Procs \X (1 .. MaxConns) \cup {NULL} /\ depth' \in Nat
        /\ error' \subseteq Jobs /\ degraded' \subseteq Procs
        /\ crashes' \in 0 .. MaxCrashes /\ errors' \in 0 .. MaxErrors /\ disowned' \in BOOLEAN
    BY <1>0, NetBoxAssumption DEF TypeOK, Conns
  <2> QED BY <2>1, <2>2, <2>3, <2>4 DEF TypeOK
<1>2. LockIsHeld'
  BY <1>0, NullAssumption, NetBoxAssumption DEF LockIsHeld, Section, TypeOK, Request, Conns
<1>3. ASSUME NEW i \in Jobs
      PROVE  (Requested(i) /\ Unused(i) /\ TaskIsTrue(i) /\ OwnedAreActive(i))'
  <2>1. Requested(i)'
    BY <1>0, <1>1, <1>J, NullAssumption DEF Requested, TypeOK, Request, TaskRecord
  <2>2. Unused(i)'
    BY <1>0, <1>1, <1>J, NullAssumption DEF Unused, TypeOK, Request, TaskRecord
  <2>3. TaskIsTrue(i)'
    BY <1>0, <1>1, <1>J, NullAssumption DEF TaskIsTrue, Working, TypeOK, Request, TaskRecord
  <2>4. OwnedAreActive(i)'
    BY <1>0, <1>1, <1>J, NullAssumption DEF OwnedAreActive, Active, Working, TypeOK, Request, TaskRecord
  <2> QED BY <2>1, <2>2, <2>3, <2>4
<1>4. CheckIsFresh'
  BY <1>0, <1>1, NullAssumption DEF CheckIsFresh, Active, TypeOK
<1>5. OutcomeIsTrue'
  BY <1>0, <1>1, <1>J, NullAssumption DEF OutcomeIsTrue, TrueOutcome, TypeOK, TaskRecord
<1>6. StartsOK'
  BY <1>0, NullAssumption DEF StartsOK, TypeOK
<1> QED BY <1>1, <1>2, <1>3, <1>4, <1>5, <1>6 DEF IInv

-----------------------------------------------------------------------------
(* The invariant                                                           *)

LEMMA InitInv == Init => IInv
<1> SUFFICES ASSUME Init PROVE IInv
  OBVIOUS
<1>1. /\ \A p \in Procs : req[p] = NoRequest
      /\ \A j \in Jobs : /\ task[j] = NoTask /\ status[j] = NULL /\ stored[j] = 0
                         /\ audits[j] = {} /\ j \notin error
      /\ NoRequest.at = "none" /\ NoRequest.job = NULL
      /\ NoTask.at = "none" /\ NoTask.endpoint = 0
  BY DEF Init, NoRequest, NoTask
<1>2. NoRequest \in Request /\ NoTask \in TaskRecord
  <2>1. NoRequest \in Request
    BY DEF NoRequest, Request
  <2>2. 0 \in 0 .. Endpoints + 1 /\ 0 \in 0 .. MaxPages /\ 0 \in 0 .. MaxAttempts
    BY NetBoxAssumption
  <2>3. NoTask \in TaskRecord
    BY <2>2 DEF NoTask, TaskRecord
  <2> QED BY <2>1, <2>3
<1>3. TypeOK
  <2>1. req \in [Procs -> Request] /\ task \in [Jobs -> TaskRecord]
    BY <1>2 DEF Init
  <2>2. crashes \in 0 .. MaxCrashes /\ errors \in 0 .. MaxErrors
    BY NetBoxAssumption DEF Init
  <2>3. stored \in [Jobs -> 0 .. 1] /\ audits \in [Jobs -> SUBSET {"submitted", "success", "failed"}]
    BY DEF Init
  <2>4. status \in [Jobs -> {NULL, "queued", "running", "succeeded", "failed"}]
    BY DEF Init
  <2>5. /\ up \subseteq Procs /\ starting \subseteq Procs /\ stuck \in [Procs -> SUBSET Jobs]
        /\ holder = NULL /\ depth \in Nat /\ postgres \in BOOLEAN
        /\ error \subseteq Jobs /\ degraded \subseteq Procs /\ disowned \in BOOLEAN
    BY DEF Init
  <2> QED BY <2>1, <2>2, <2>3, <2>4, <2>5 DEF TypeOK
<1>4. LockIsHeld
  BY <1>1 DEF Init, LockIsHeld, Section
<1>5. Active = {}
  BY <1>1, NullAssumption DEF Active
<1>6. CheckIsFresh
  BY <1>5 DEF CheckIsFresh
<1>7. OutcomeIsTrue
  BY <1>1, NullAssumption DEF OutcomeIsTrue, TrueOutcome
<1>8. \A j \in Jobs : Requested(j) /\ Unused(j) /\ TaskIsTrue(j) /\ OwnedAreActive(j)
  BY <1>1, NullAssumption DEF Requested, Unused, TaskIsTrue, Working, OwnedAreActive
<1>9. StartsOK
  BY DEF Init, StartsOK
<1> QED BY <1>3, <1>4, <1>6, <1>7, <1>8, <1>9 DEF IInv

LEMMA StutterInv ==
  ASSUME IInv, UNCHANGED vars
  PROVE  IInv'
<1>1. TypeOK'
  BY DEF IInv, TypeOK, vars, procs
<1>2. LockIsHeld'
  BY DEF IInv, LockIsHeld, vars, procs
<1>3. Active' = Active
  BY DEF Active, vars, procs
<1>4. CheckIsFresh'
  BY <1>3 DEF IInv, CheckIsFresh, vars, procs
<1>5. errors' \in Nat /\ errors' >= errors
  BY DEF IInv, TypeOK, vars, procs
<1>6. \A j \in Jobs : JobInv(j)' /\ TrueOutcome(j)'
  BY <1>5, OtherJob DEF vars, procs
<1>7. StartsOK'
  BY DEF IInv, StartsOK, vars, procs
<1> QED BY <1>1, <1>2, <1>4, <1>6, <1>7 DEF IInv, OutcomeIsTrue, JobInv

LEMMA NextInv ==
  ASSUME IInv, [Next]_vars
  PROVE  IInv'
<1>1. ASSUME NEW p \in Procs, BeginSync(p) \/ Crash(p) \/ ReadStuckJobs(p) \/ Start(p)
                              \/ StartUnrecovered(p)
      PROVE  IInv'
  BY <1>1, BeginSyncStep, CrashStep, ReadStuckJobsStep, StartStep, StartUnrecoveredStep
<1>2. ASSUME NEW p \in Procs, Handler(p) PROVE IInv'
  BY <1>2, LockStep, CheckActiveStep, RefuseStep, InsertJobStep, InsertFailsStep,
     UnlockStep, SubmittedStep, SubmitFailsStep
  DEF Handler
<1>3. ASSUME NEW j \in Jobs, Task(j) PROVE IInv'
  BY <1>3, StartTaskStep, StartTaskFailsStep, FetchPageStep, FetchUnavailableStep,
     FetchRefusedStep, CacheSetStep, StoreSnapshotStep, StoreFailsStep,
     MarkSucceededStep, MarkSucceededFailsStep, AuditSuccessStep,
     AuditSuccessFailsStep, MarkFailedStep, MarkFailedFailsStep, AuditFailureStep
  DEF Task
<1>4. CASE UNCHANGED vars
  BY <1>4, StutterInv
<1> QED BY <1>1, <1>2, <1>3, <1>4 DEF Next

\* The types, the lock, the jobs and their outcomes, together, in every state
\* (synchronize_inventory and run_netbox_sync_background).
THEOREM SyncInvariance == Spec => []IInv
BY InitInv, NextInv, PTL DEF Spec

-----------------------------------------------------------------------------
(* What follows from it                                                    *)

\* A set whose elements are all equal has at most one.
LEMMA AtMostOne ==
  ASSUME NEW S, \A x, y \in S : x = y
  PROVE  IsFiniteSet(S) /\ Cardinality(S) <= 1
<1>1. CASE S = {}
  BY <1>1, FS_EmptySet
<1>2. CASE S # {}
  <2>1. PICK x : x \in S
    BY <1>2
  <2>2. S = {x}
    BY <2>1
  <2>3. IsFiniteSet(S) /\ Cardinality(S) = 1
    BY <2>2, FS_Singleton
  <2> QED BY <2>3
<1> QED BY <1>1, <1>2

\* At most one synchronisation is under way, as a record and as a task, for any
\* number of processes and connections and wherever a commit has left the
\* advisory lock (synchronize_inventory), until a start-up disowns a job.
THEOREM OnlyOneSync == Spec => []OneSyncAtATime
<1>1. IInv => OneSyncAtATime
  <2> DEFINE Tasks == {j \in Jobs : task[j].at \in {"added", "fetching", "caching", "storing",
                                                    "stored"}}
  <2> SUFFICES ASSUME IInv, postgres \/ Cardinality(Procs) = 1, ~ disowned
               PROVE  Cardinality(Active) <= 1 /\ Cardinality(Tasks) <= 1
    BY DEF OneSyncAtATime
  <2>1. \A i, j \in Active : i = j
    BY DEF IInv, CheckIsFresh
  <2>2. Tasks \subseteq Active
    BY DEF IInv, OwnedAreActive, Working
  <2>3. \A i, j \in Tasks : i = j
    BY <2>1, <2>2
  <2> HIDE DEF Tasks
  <2> QED BY <2>1, <2>3, AtMostOne
<1> QED BY <1>1, SyncInvariance, PTL

\* What is recorded and audited of a synchronisation is what happened to it,
\* whatever fails on the way and whichever process starts meanwhile
\* (run_netbox_sync_background).
THEOREM OutcomesAreTrue == Spec => []OutcomeIsTrue
<1>1. IInv => OutcomeIsTrue
  BY DEF IInv
<1> QED BY <1>1, SyncInvariance, PTL

=============================================================================
