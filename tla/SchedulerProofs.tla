-------------------------- MODULE SchedulerProofs --------------------------
(***************************************************************************)
(* Proofs about Scheduler, for any schedules and periods.                  *)
(*                                                                         *)
(* What an action does to one schedule is said first (lemmas about rows    *)
(* and about recorded runs); the invariant then has one step per action.   *)
(***************************************************************************)
EXTENDS Scheduler, TLAPS

USE SchedulesAssumption, PeriodAssumption, BoundAssumption

\* None is neither a row nor a time nor an identifier.
LEMMA NullIsNone == NULL \notin Int /\ NULL \notin Row /\ NULL \notin Schedules
                    /\ NULL # FALSE /\ NULL # TRUE
BY NullAssumption

\* The time that resuming or dispatching computes lies one interval after the
\* moment it counts from (_compute_next_run_from_existing).
LEMMA NextRunIsLater ==
  ASSUME NEW s \in Schedules, NEW r \in Row, NEW t \in Nat
  PROVE  /\ NextRun(s, r, t) \in Int
         /\ s \notin OneTime => NextRun(s, r, t) = t + Period[s]
BY DEF NextRun, Row

\* The stored executions of a schedule are a sequence of times, and when they
\* ran.
LEMMA RunsAreTimes ==
  ASSUME Inv, NEW s \in Schedules
  PROVE  /\ runs[s] \in Seq(Nat) /\ DOMAIN runs[s] = 1 .. Len(runs[s])
         /\ Len(runs[s]) \in Nat
         /\ \A i \in DOMAIN runs[s] : runs[s][i] \in Nat /\ runs[s][i] <= now
BY DEF Inv, TypeOK, Executions, PassIsCurrent

\* The initial state satisfies the invariant.
LEMMA InitInv == Init => Inv
<1> SUFFICES ASSUME Init PROVE Inv
  OBVIOUS
<1>1. TypeOK
  <2>1. runs \in [Schedules -> Executions]
    BY DEF Init, Executions
  <2>2. now \in Time /\ faults \in 0 .. MaxFaults
    BY DEF Init, Time
  <2> QED BY <2>1, <2>2 DEF Init, TypeOK
<1>2. EnabledIsActive /\ NoOrphans /\ GapsAreFailures
  BY DEF Init, EnabledIsActive, NoOrphans, GapsAreFailures, Stored
<1>3. RateIsRespected /\ NextIsSpaced
  BY DEF Init, RateIsRespected, NextIsSpaced, Stored
<1>4. PassIsCurrent
  BY DEF Init, PassIsCurrent
<1> QED BY <1>1, <1>2, <1>3, <1>4 DEF Inv

\* A request that writes one row and nothing else keeps the invariant if the row
\* is shown as active whenever it is enabled, and is due no sooner than the
\* schedule's saved runs allow.
LEMMA SaveStep ==
  ASSUME Inv, NEW s \in Schedules, NEW r \in Row,
         row' = [row EXCEPT ![s] = r], s \notin deleted,
         r.enabled => r.state = "active",
         s \notin OneTime /\ Len(runs[s]) < MaxRuns => Spaced(s, r),
         Request
  PROVE  Inv'
<1> USE DEF Request, pass
<1>1. /\ row'[s] = r
      /\ \A u \in Schedules \ {s} : row'[u] = row[u]
  BY DEF Inv, TypeOK
<1>2. TypeOK'
  <2>1. row' \in [Schedules -> Row \cup {NULL}]
    BY DEF Inv, TypeOK
  <2>2. deleted' \subseteq {u \in Schedules : ~Stored(u)'}
    BY <1>1 DEF Inv, TypeOK, Stored
  <2> QED BY <2>1, <2>2 DEF Inv, TypeOK
<1>3. EnabledIsActive'
  BY <1>1 DEF Inv, EnabledIsActive, Stored
<1>4. RateIsRespected' /\ GapsAreFailures'
  BY DEF Inv, RateIsRespected, GapsAreFailures
<1>7. PassIsCurrent'
  <2>1. (stored => sent # NULL /\ Stored(sent))'
    BY <1>1, NullIsNone DEF Inv, TypeOK, PassIsCurrent, Stored
  <2> QED BY <2>1 DEF Inv, PassIsCurrent
<1>5. NextIsSpaced'
  BY <1>1 DEF Inv, NextIsSpaced, Spaced, Stored
<1>6. NoOrphans'
  BY <1>1, NullIsNone DEF Inv, NoOrphans, Stored
<1> QED BY <1>2, <1>3, <1>4, <1>5, <1>6, <1>7 DEF Inv

\* register_schedule keeps the invariant: the schedule has not run yet.
LEMMA RegisterStep ==
  ASSUME Inv, NEW s \in Schedules, RegisterSchedule(s)
  PROVE  Inv'
<1>1. PICK enabled \in BOOLEAN, start \in Starts :
        Save(s, [enabled |-> enabled,
                 state   |-> IF enabled THEN "active" ELSE "disabled",
                 next    |-> FirstRun(s, start),
                 last    |-> NULL])
  BY DEF RegisterSchedule
<1> DEFINE r == [enabled |-> enabled,
                 state   |-> IF enabled THEN "active" ELSE "disabled",
                 next    |-> FirstRun(s, start),
                 last    |-> NULL]
<1>2. FirstRun(s, start) \in Int
  BY DEF FirstRun
<1>3. r \in Row /\ (r.enabled => r.state = "active")
  BY <1>2 DEF Row
<1>4. Spaced(s, r)
  BY DEF RegisterSchedule, Inv, NoOrphans, Spaced
<1> HIDE DEF r
<1> QED BY <1>1, <1>3, <1>4, SaveStep DEF RegisterSchedule, Save, r

\* A stored schedule has a row and is not deleted.
LEMMA StoredRow ==
  ASSUME TypeOK, NEW s \in Schedules, Stored(s)
  PROVE  row[s] \in Row /\ s \notin deleted
BY DEF TypeOK, Stored

\* update_schedule keeps the invariant: it leaves the next run alone.
LEMMA UpdateStep ==
  ASSUME Inv, NEW s \in Schedules, UpdateSchedule(s)
  PROVE  Inv'
<1>1. row[s] \in Row /\ s \notin deleted /\ Stored(s)
  BY StoredRow DEF Inv, UpdateSchedule
<1>2. PICK enabled \in BOOLEAN \cup {NULL} :
        Save(s, [row[s] EXCEPT
                   !.enabled = IF enabled = NULL THEN @ ELSE enabled,
                   !.state = IF enabled = FALSE THEN "disabled" ELSE "active"])
  BY DEF UpdateSchedule
<1> DEFINE r == [row[s] EXCEPT
                   !.enabled = IF enabled = NULL THEN @ ELSE enabled,
                   !.state = IF enabled = FALSE THEN "disabled" ELSE "active"]
<1>3. r \in Row /\ r.next = row[s].next
  BY <1>1 DEF Row
<1>4. r.enabled => r.state = "active"
  BY <1>1, NullIsNone DEF Row
<1>5. s \notin OneTime /\ Len(runs[s]) < MaxRuns => Spaced(s, r)
  BY <1>1, <1>3 DEF Inv, NextIsSpaced, Spaced
<1> HIDE DEF r
<1> QED BY <1>1, <1>2, <1>3, <1>4, <1>5, SaveStep DEF UpdateSchedule, Save, r

\* pause_schedule keeps the invariant.
LEMMA PauseStep ==
  ASSUME Inv, NEW s \in Schedules, PauseSchedule(s)
  PROVE  Inv'
<1> DEFINE r == [row[s] EXCEPT !.enabled = FALSE, !.state = "paused"]
<1>1. row[s] \in Row /\ s \notin deleted /\ Stored(s)
  BY StoredRow DEF Inv, PauseSchedule
<1>2. r \in Row /\ r.next = row[s].next /\ ~r.enabled
  BY <1>1 DEF Row
<1>3. s \notin OneTime /\ Len(runs[s]) < MaxRuns => Spaced(s, r)
  BY <1>1, <1>2 DEF Inv, NextIsSpaced, Spaced
<1> HIDE DEF r
<1> QED BY <1>1, <1>2, <1>3, SaveStep DEF PauseSchedule, Save, r

\* resume_schedule keeps the invariant: the next run is one period from now, and
\* no recorded run is later than now.
LEMMA ResumeStep ==
  ASSUME Inv, NEW s \in Schedules, ResumeSchedule(s)
  PROVE  Inv'
<1> DEFINE r == [row[s] EXCEPT !.enabled = TRUE, !.state = "active",
                               !.next = NextRun(s, row[s], now)]
<1>1. row[s] \in Row /\ s \notin deleted /\ Stored(s)
  BY StoredRow DEF Inv, ResumeSchedule
<1>2. now \in Nat
  BY DEF Inv, TypeOK, Time
<1>3. /\ r \in Row /\ r.enabled /\ r.state = "active"
      /\ s \notin OneTime => r.next = now + Period[s]
  BY <1>1, <1>2, NextRunIsLater DEF Row
<1> HIDE DEF r
<1>4. s \notin OneTime => Spaced(s, r)
  BY <1>2, <1>3, RunsAreTimes DEF Spaced
<1> QED BY <1>1, <1>3, <1>4, SaveStep DEF ResumeSchedule, Save, r

-----------------------------------------------------------------------------
\* delete_schedule keeps the invariant: a copy that a pass still holds is no
\* longer bounded by any recorded run.
LEMMA DeleteStep ==
  ASSUME Inv, NEW s \in Schedules, DeleteSchedule(s), ~stored
  PROVE  Inv'
<1> USE DEF DeleteSchedule, Save, pass
<1>1. /\ row'[s] = NULL /\ runs'[s] = <<>> /\ unsaved'[s] = {}
      /\ \A u \in Schedules \ {s} :
            row'[u] = row[u] /\ runs'[u] = runs[u] /\ unsaved'[u] = unsaved[u]
  BY DEF Inv, TypeOK
<1>2. TypeOK'
  <2>1. /\ row' \in [Schedules -> Row \cup {NULL}]
        /\ runs' \in [Schedules -> Executions]
        /\ unsaved' \in [Schedules -> SUBSET Nat]
    BY DEF Inv, TypeOK, Executions
  <2>2. deleted' \subseteq {u \in Schedules : ~Stored(u)'}
    BY <1>1 DEF Inv, TypeOK, Stored
  <2> QED BY <2>1, <2>2 DEF Inv, TypeOK
<1>3. EnabledIsActive' /\ NoOrphans'
  BY <1>1 DEF Inv, EnabledIsActive, NoOrphans, Stored
<1>4. RateIsRespected' /\ PassIsCurrent' /\ GapsAreFailures'
  BY <1>1 DEF Inv, RateIsRespected, PassIsCurrent, GapsAreFailures
<1>5. NextIsSpaced'
  BY <1>1 DEF Inv, NextIsSpaced, Spaced, Stored
<1> QED BY <1>2, <1>3, <1>4, <1>5 DEF Inv

\* The dispatcher's reading of the table keeps the invariant: the copies are the
\* rows, and the ones it takes are due.
LEMMA ListStep ==
  ASSUME Inv, ListSchedules
  PROVE  Inv'
<1> USE DEF ListSchedules
<1>1. /\ current' = now /\ now \in Nat /\ now' = now /\ sent' = NULL
      /\ stored' = FALSE /\ stored = FALSE
      /\ UNCHANGED <<row, deleted, runs, unsaved, faults>>
  BY DEF Inv, TypeOK, Time, PassIsCurrent
<1>2. ASSUME NEW s \in Schedules
      PROVE  \/ todo'[s] = NULL
             \/ /\ Stored(s) /\ Due(row[s]) /\ todo'[s] = row[s]
  OBVIOUS
<1>3. TypeOK'
  <2>1. todo' \in [Schedules -> Row \cup {NULL}]
    BY DEF Inv, TypeOK
  <2> QED BY <1>1, <2>1 DEF Inv, TypeOK, Stored
<1>4. EnabledIsActive' /\ NoOrphans' /\ RateIsRespected' /\ GapsAreFailures'
  BY <1>1 DEF Inv, EnabledIsActive, NoOrphans, RateIsRespected, GapsAreFailures, Stored
<1>5. NextIsSpaced'
  BY <1>1, <1>2 DEF Inv, NextIsSpaced, Spaced, Stored
<1>6. PassIsCurrent'
  <2>1. ASSUME NEW s \in Schedules, todo'[s] # NULL
        PROVE  todo'[s].next <= now /\ todo'[s].enabled /\ todo'[s].state = "active"
    BY <1>2, <2>1 DEF Due, Inv, EnabledIsActive
  <2> HIDE DEF ListSchedules
  <2> QED BY <1>1, <2>1, NullIsNone DEF Inv, PassIsCurrent
<1> QED BY <1>3, <1>4, <1>5, <1>6 DEF Inv

\* So does calling submit_job.
LEMMA SubmitStep ==
  ASSUME Inv, NEW s \in Schedules, SubmitJob(s)
  PROVE  Inv'
<1> USE DEF SubmitJob
<1>1. TypeOK' /\ EnabledIsActive' /\ NoOrphans'
  BY DEF Inv, TypeOK, EnabledIsActive, NoOrphans, Stored
<1>2. RateIsRespected' /\ NextIsSpaced'
  BY DEF Inv, RateIsRespected, NextIsSpaced, Spaced, Stored
<1>3. PassIsCurrent' /\ GapsAreFailures'
  BY DEF Inv, PassIsCurrent, GapsAreFailures, Stored
<1> QED BY <1>1, <1>2, <1>3 DEF Inv

\* However a pass ends, it keeps the invariant: returning, failing, or because a
\* schedule is gone.  What it had committed without the copy needs a failure.
LEMMA EndPassStep ==
  ASSUME Inv, EndPass, UNCHANGED <<row, deleted, runs, now, unsaved>>,
         faults' \in 0 .. MaxFaults, faults' # 0 \/ (faults' = faults /\ ~stored)
  PROVE  Inv'
<1> USE DEF EndPass
<1>1. TypeOK' /\ EnabledIsActive' /\ NoOrphans'
  BY DEF Inv, TypeOK, EnabledIsActive, NoOrphans, Stored
<1>2. RateIsRespected' /\ NextIsSpaced'
  BY DEF Inv, RateIsRespected, NextIsSpaced, Spaced, Stored
<1>3. PassIsCurrent' /\ GapsAreFailures'
  BY DEF Inv, PassIsCurrent, GapsAreFailures
<1> QED BY <1>1, <1>2, <1>3 DEF Inv

\* A run appended at time t, one interval after every earlier one but those in
\* x, keeps the distance of the runs that are not in x.
LEMMA AppendKeepsDistance ==
  ASSUME NEW h \in Seq(Nat), NEW t \in Nat, NEW d \in Int, NEW x,
         \A i, j \in DOMAIN h : i < j /\ i \notin x => h[i] + d <= h[j],
         \A i \in DOMAIN h \ x : h[i] + d <= t
  PROVE  LET g == Append(h, t)
         IN  \A i, j \in DOMAIN g : i < j /\ i \notin x => g[i] + d <= g[j]
<1> DEFINE g == Append(h, t)
<1>1. /\ g \in Seq(Nat) /\ Len(g) = Len(h) + 1 /\ g[Len(h) + 1] = t
      /\ \A i \in 1 .. Len(h) : g[i] = h[i]
      /\ DOMAIN g = 1 .. Len(h) + 1 /\ DOMAIN h = 1 .. Len(h) /\ Len(h) \in Nat
  OBVIOUS
<1> HIDE DEF g
<1> SUFFICES ASSUME NEW i \in DOMAIN g, NEW j \in DOMAIN g, i < j, i \notin x
             PROVE  g[i] + d <= g[j]
  BY DEF g
<1>2. i \in DOMAIN h /\ g[i] = h[i]
  BY <1>1
<1>3. CASE j \in DOMAIN h
  BY <1>1, <1>2, <1>3
<1>4. CASE j = Len(h) + 1
  BY <1>1, <1>2, <1>4
<1> QED BY <1>1, <1>3, <1>4

\* append_execution keeps the invariant: the copy was due when the pass began, so
\* one interval has passed since every run whose copy was saved; the new run is
\* not one of them yet.
LEMMA AppendStep ==
  ASSUME Inv, NEW s \in Schedules, AppendExecution(s), Stored(s)
  PROVE  Inv'
<1>1. /\ runs' = [runs EXCEPT ![s] =
                    IF Len(@) < MaxRuns THEN Append(@, current) ELSE @]
      /\ unsaved' = [unsaved EXCEPT ![s] = @ \cup {Len(runs'[s])}]
      /\ stored' = TRUE /\ sent = s /\ ~stored
      /\ UNCHANGED <<row, todo, current, sent, deleted, now, faults>>
  BY DEF AppendExecution, Stores
<1>2. /\ todo[s] \in Row /\ current \in Nat /\ current # NULL /\ current <= now
      /\ now \in Nat /\ todo[s] # NULL /\ todo[s].next <= current
      /\ todo[s].next \in Int
  BY <1>1, NullIsNone DEF Inv, TypeOK, PassIsCurrent, Time, Row
<1>3. /\ runs[s] \in Seq(Nat) /\ Len(runs[s]) \in Nat
      /\ DOMAIN runs[s] = 1 .. Len(runs[s])
      /\ runs'[s] = IF Len(runs[s]) < MaxRuns
                    THEN Append(runs[s], current) ELSE runs[s]
  BY <1>1, RunsAreTimes DEF Inv, TypeOK
<1>4. /\ runs'[s] \in Seq(Nat) /\ Len(runs'[s]) \in Nat
      /\ DOMAIN runs'[s] = 1 .. Len(runs'[s])
      /\ Len(runs[s]) < MaxRuns => Len(runs'[s]) = Len(runs[s]) + 1
      /\ \A i \in 1 .. Len(runs[s]) : runs'[s][i] = runs[s][i]
      /\ \A i \in DOMAIN runs'[s] : i \notin DOMAIN runs[s] =>
            i = Len(runs[s]) + 1 /\ runs'[s][i] = current
  BY <1>2, <1>3
<1>5. /\ unsaved'[s] = unsaved[s] \cup {Len(runs'[s])}
      /\ \A u \in Schedules \ {s} : runs'[u] = runs[u] /\ unsaved'[u] = unsaved[u]
  BY <1>1 DEF Inv, TypeOK
<1>6. TypeOK'
  <2>1. /\ runs' \in [Schedules -> Executions]
        /\ unsaved' \in [Schedules -> SUBSET Nat]
    BY <1>1, <1>4, <1>5 DEF Inv, TypeOK, Executions
  <2> QED BY <1>1, <2>1 DEF Inv, TypeOK, Stored
<1>7. EnabledIsActive' /\ NoOrphans'
  BY <1>1, <1>5 DEF Inv, EnabledIsActive, NoOrphans, Stored
<1>8. GapsAreFailures'
  <2>1. faults = 0 => unsaved[s] = {}
    BY <1>1 DEF Inv, GapsAreFailures
  <2> QED BY <1>1, <1>5, <2>1 DEF Inv, GapsAreFailures
<1>9. RateIsRespected'
  <2> SUFFICES ASSUME NEW u \in Schedules \ OneTime
               PROVE  \A i, j \in DOMAIN runs'[u] : i < j /\ i \notin unsaved'[u] =>
                         runs'[u][i] + Period[u] <= runs'[u][j]
    BY DEF RateIsRespected
  <2>1. CASE u # s \/ Len(runs[s]) >= MaxRuns
    <3>1. runs'[u] = runs[u] /\ unsaved[u] \subseteq unsaved'[u]
      BY <1>3, <1>5, <2>1
    <3> QED BY <3>1 DEF Inv, RateIsRespected
  <2>2. CASE u = s /\ Len(runs[s]) < MaxRuns
    <3>1. \A i \in DOMAIN runs[s] \ unsaved[s] : runs[s][i] + Period[s] <= todo[s].next
      BY <1>2, <2>2 DEF Inv, NextIsSpaced, Spaced
    <3>2. \A i \in DOMAIN runs[s] \ unsaved[s] : runs[s][i] + Period[s] <= current
      BY <1>2, <3>1, RunsAreTimes
    <3>3. \A i, j \in DOMAIN runs[s] : i < j /\ i \notin unsaved[s] =>
             runs[s][i] + Period[s] <= runs[s][j]
      BY <2>2 DEF Inv, RateIsRespected
    <3>4. runs'[s] = Append(runs[s], current) /\ Period[s] \in Int
      BY <1>3, <2>2
    <3>5. \A i, j \in DOMAIN runs'[s] : i < j /\ i \notin unsaved[s] =>
             runs'[s][i] + Period[s] <= runs'[s][j]
      BY <1>2, <1>3, <3>2, <3>3, <3>4, AppendKeepsDistance
    <3> QED BY <1>5, <2>2, <3>5
  <2> QED BY <1>3, <2>1, <2>2
<1>10. NextIsSpaced'
  <2>1. ASSUME NEW r, s \notin OneTime, Len(runs'[s]) < MaxRuns,
               Len(runs[s]) < MaxRuns => Spaced(s, r)
        PROVE  \A i \in DOMAIN runs'[s] \ unsaved'[s] :
                  runs'[s][i] + Period[s] <= r.next
    BY <1>3, <1>4, <1>5, <2>1 DEF Spaced
  <2>2. Len(runs'[s]) < MaxRuns => Len(runs[s]) < MaxRuns
    BY <1>3, <1>4
  <2>3. ASSUME NEW u \in Schedules \ OneTime, u # s
        PROVE  /\ Len(runs'[u]) < MaxRuns /\ Stored(u)' => Spaced(u, row[u])'
               /\ Len(runs'[u]) < MaxRuns /\ todo'[u] # NULL => Spaced(u, todo[u])'
    BY <1>1, <1>5, <2>3 DEF Inv, NextIsSpaced, Spaced, Stored
  <2>4. ASSUME s \notin OneTime, Len(runs'[s]) < MaxRuns
        PROVE  (Stored(s)' => Spaced(s, row[s])') /\ (todo'[s] # NULL => Spaced(s, todo[s])')
    <3>1. Stored(s)' => Spaced(s, row[s])
      BY <1>1, <2>2, <2>4 DEF Inv, NextIsSpaced, Stored
    <3>2. todo'[s] # NULL => Spaced(s, todo[s])
      BY <1>1, <2>2, <2>4 DEF Inv, NextIsSpaced
    <3> QED BY <1>1, <2>1, <2>4, <3>1, <3>2 DEF Spaced
  <2> QED BY <2>3, <2>4 DEF NextIsSpaced
<1>11. PassIsCurrent'
  <2>1. ASSUME NEW u \in Schedules, NEW i \in DOMAIN runs'[u]
        PROVE  runs'[u][i] <= now /\ runs'[u][i] <= current
    <3>1. CASE u # s
      BY <1>2, <1>5, <3>1 DEF Inv, PassIsCurrent
    <3>2. CASE u = s
      <4>1. CASE i \in DOMAIN runs[s]
        BY <1>2, <1>3, <1>4, <3>2, <4>1 DEF Inv, PassIsCurrent
      <4>2. CASE i \notin DOMAIN runs[s]
        <5>1. runs'[u][i] = current
          BY <1>4, <3>2, <4>2
        <5> QED BY <1>2, <5>1
      <4> QED BY <4>1, <4>2
    <3> QED BY <3>1, <3>2
  <2> QED BY <1>1, <1>2, <2>1, NullIsNone DEF Inv, PassIsCurrent, Stored
<1> QED BY <1>6, <1>7, <1>8, <1>9, <1>10, <1>11 DEF Inv

\* save_schedule keeps the invariant: the row it writes is not due before one
\* interval after the pass began, and no run is later than that.
LEMMA SaveDispatchedStep ==
  ASSUME Inv, NEW s \in Schedules, SaveDispatched(s)
  PROVE  Inv'
<1> DEFINE r == Dispatched(s)
<1>1. /\ row' = [row EXCEPT ![s] = r]
      /\ unsaved' = [unsaved EXCEPT ![s] = @ \ {Len(runs[s])}]
      /\ todo' = [todo EXCEPT ![s] = NULL]
      /\ sent = s /\ sent' = NULL /\ stored /\ stored' = FALSE
      /\ UNCHANGED <<runs, current, deleted, now, faults>>
  BY DEF SaveDispatched, Save
<1>2. /\ todo[s] \in Row /\ current \in Nat /\ current # NULL /\ current <= now
      /\ now \in Nat /\ Stored(s)
      /\ todo[s].next <= current /\ todo[s].enabled /\ todo[s].state = "active"
  BY <1>1, NullIsNone DEF Inv, TypeOK, PassIsCurrent, Time
<1>3. /\ r \in Row /\ r.state = "active"
      /\ s \notin OneTime => r.next = current + Period[s]
  <2>1. NextRun(s, todo[s], current) \in Int
    BY <1>2, NextRunIsLater
  <2> QED BY <1>2, <2>1, NextRunIsLater DEF Dispatched, Row
<1> HIDE DEF r
<1>4. /\ row'[s] = r /\ todo'[s] = NULL /\ unsaved'[s] = unsaved[s] \ {Len(runs[s])}
      /\ \A u \in Schedules \ {s} :
            row'[u] = row[u] /\ todo'[u] = todo[u] /\ unsaved'[u] = unsaved[u]
  BY <1>1 DEF Inv, TypeOK
<1>5. TypeOK'
  <2>1. /\ row' \in [Schedules -> Row \cup {NULL}]
        /\ todo' \in [Schedules -> Row \cup {NULL}]
        /\ unsaved' \in [Schedules -> SUBSET Nat]
    BY <1>1, <1>3 DEF Inv, TypeOK
  <2>2. deleted' \subseteq {u \in Schedules : ~Stored(u)'}
    BY <1>1, <1>2, <1>4 DEF Inv, TypeOK, Stored
  <2> QED BY <1>1, <2>1, <2>2 DEF Inv, TypeOK
<1>6. EnabledIsActive' /\ NoOrphans'
  BY <1>1, <1>3, <1>4, NullIsNone DEF Inv, EnabledIsActive, NoOrphans, Stored
<1>7. GapsAreFailures'
  BY <1>1, <1>4 DEF Inv, GapsAreFailures
<1>8. RateIsRespected'
  <2>1. \A j \in DOMAIN runs[s] : ~(Len(runs[s]) < j)
    BY RunsAreTimes
  <2> QED BY <1>1, <1>4, <2>1 DEF Inv, RateIsRespected
<1>9. NextIsSpaced'
  <2>1. s \notin OneTime => Spaced(s, row[s])'
    <3>1. \A i \in DOMAIN runs[s] : runs[s][i] \in Nat /\ runs[s][i] <= current
      BY <1>2, RunsAreTimes DEF Inv, PassIsCurrent
    <3> QED BY <1>1, <1>2, <1>3, <1>4, <3>1 DEF Spaced
  <2>2. ASSUME NEW u \in Schedules \ OneTime, u # s
        PROVE  /\ Len(runs'[u]) < MaxRuns /\ Stored(u)' => Spaced(u, row[u])'
               /\ Len(runs'[u]) < MaxRuns /\ todo'[u] # NULL => Spaced(u, todo[u])'
    BY <1>1, <1>4, <2>2 DEF Inv, NextIsSpaced, Spaced, Stored
  <2> QED BY <1>4, <2>1, <2>2 DEF NextIsSpaced
<1>10. PassIsCurrent'
  BY <1>1, <1>2, <1>4 DEF Inv, PassIsCurrent
<1> QED BY <1>5, <1>6, <1>7, <1>8, <1>9, <1>10 DEF Inv

\* The clock keeps the invariant: it only moves away from what is recorded.
LEMMA TickStep ==
  ASSUME Inv, Tick
  PROVE  Inv'
<1> USE DEF Tick, pass
<1>1. now \in Nat /\ now' = now + 1 /\ now' \in Time
  BY DEF Inv, TypeOK, Time
<1>2. TypeOK' /\ EnabledIsActive' /\ NoOrphans'
  BY <1>1 DEF Inv, TypeOK, EnabledIsActive, NoOrphans, Stored
<1>3. RateIsRespected' /\ NextIsSpaced' /\ GapsAreFailures'
  BY DEF Inv, RateIsRespected, NextIsSpaced, GapsAreFailures, Spaced, Stored
<1>4. PassIsCurrent'
  <2>1. current # NULL => current \in Nat
    BY DEF Inv, TypeOK, Time
  <2>2. ASSUME NEW u \in Schedules, NEW i \in DOMAIN runs[u]
        PROVE  runs[u][i] <= now + 1
    <3>1. runs[u] \in Seq(Nat) /\ runs[u][i] <= now
      BY DEF Inv, TypeOK, Executions, PassIsCurrent
    <3> QED BY <1>1, <3>1
  <2> QED BY <1>1, <2>1, <2>2 DEF Inv, PassIsCurrent, Stored
<1> QED BY <1>2, <1>3, <1>4 DEF Inv

\* Every step keeps the invariant.
LEMMA NextInv == Inv /\ [Next]_vars => Inv'
<1> SUFFICES ASSUME Inv, [Next]_vars PROVE Inv'
  OBVIOUS
<1>1. ASSUME NEW s \in Schedules, ~stored,
             \/ RegisterSchedule(s) \/ UpdateSchedule(s) \/ PauseSchedule(s)
             \/ ResumeSchedule(s) \/ DeleteSchedule(s)
      PROVE  Inv'
  BY <1>1, RegisterStep, UpdateStep, PauseStep, ResumeStep, DeleteStep
<1>2. CASE ListSchedules
  BY <1>2, ListStep
<1>3. CASE Return
  <2>1. ~stored
    BY <1>3 DEF Return, Inv, TypeOK, PassIsCurrent
  <2> QED BY <1>3, <2>1, EndPassStep DEF Return, Inv, TypeOK
<1>4. ASSUME NEW s \in Schedules, SubmitJob(s)
      PROVE  Inv'
  BY <1>4, SubmitStep
<1>5. ASSUME NEW s \in Schedules, AppendExecution(s)
      PROVE  Inv'
  <2>1. CASE Stored(s)
    BY <1>5, <2>1, AppendStep
  <2>2. CASE ~Stored(s)
    BY <1>5, <2>2, EndPassStep DEF AppendExecution, Inv, TypeOK
  <2> QED BY <2>1, <2>2
<1>9. ASSUME NEW s \in Schedules, SaveDispatched(s)
      PROVE  Inv'
  BY <1>9, SaveDispatchedStep
<1>6. CASE PassFails
  <2>1. faults' \in 0 .. MaxFaults /\ faults' # 0
    BY <1>6 DEF PassFails, Inv, TypeOK
  <2> QED BY <1>6, <2>1, EndPassStep DEF PassFails
<1>7. CASE Tick
  BY <1>7, TickStep
<1>8. CASE UNCHANGED vars
  <2> USE <1>8 DEF vars
  <2>1. TypeOK' /\ EnabledIsActive' /\ NoOrphans' /\ GapsAreFailures'
    BY DEF Inv, TypeOK, EnabledIsActive, NoOrphans, GapsAreFailures, Stored, pass
  <2>2. RateIsRespected' /\ NextIsSpaced' /\ PassIsCurrent'
    BY DEF Inv, RateIsRespected, NextIsSpaced, PassIsCurrent, Spaced, Stored, pass
  <2> QED BY <2>1, <2>2 DEF Inv
<1> QED BY <1>1, <1>2, <1>3, <1>4, <1>5, <1>6, <1>7, <1>8, <1>9
       DEF Next, Requests, Pass

\* For any schedules and intervals: a schedule the dispatcher may run is shown as
\* active, and a recurring one does not run again within its interval, whatever
\* stale copies dispatch_due_jobs writes back, unless a pass failed between the
\* two commits of a run.
THEOREM SchedulerInvariance == Spec => []Inv
BY InitInv, NextInv, PTL DEF Spec

\* As long as no pass of dispatch_due_jobs fails, any two executions of a
\* recurring schedule lie at least its interval apart, the latest included.
THEOREM RateIsAlwaysRespected ==
  Spec => [](faults = 0 => \A s \in Schedules \ OneTime :
               \A i, j \in DOMAIN runs[s] : i < j => runs[s][i] + Period[s] <= runs[s][j])
<1>1. ASSUME Inv, faults = 0, NEW s \in Schedules \ OneTime,
             NEW i \in DOMAIN runs[s], NEW j \in DOMAIN runs[s], i < j
      PROVE  runs[s][i] + Period[s] <= runs[s][j]
  <2>1. i # Len(runs[s])
    BY <1>1, RunsAreTimes
  <2>2. i \notin unsaved[s]
    BY <1>1, <2>1 DEF Inv, GapsAreFailures
  <2> QED BY <1>1, <2>2 DEF Inv, RateIsRespected
<1>2. Inv => (faults = 0 => \A s \in Schedules \ OneTime :
               \A i, j \in DOMAIN runs[s] : i < j => runs[s][i] + Period[s] <= runs[s][j])
  BY <1>1
<1> QED BY <1>2, SchedulerInvariance, PTL

\* A step leaves a deleted schedule deleted and without executions, the step
\* with which dispatch_due_jobs comes back from submit_job included.
LEMMA DeletedStep ==
  ASSUME Inv, [Next]_vars, NEW s \in deleted
  PROVE  ~Stored(s)' /\ runs'[s] = <<>>
<1>1. s \in Schedules /\ ~Stored(s) /\ runs[s] = <<>>
  BY DEF Inv, TypeOK, NoOrphans
<1>2. Inv'
  BY NextInv
<1>3. deleted \subseteq deleted'
  BY DEF Next, Requests, Pass, RegisterSchedule, UpdateSchedule, PauseSchedule,
         ResumeSchedule, DeleteSchedule, Request, ListSchedules, Return, SubmitJob,
         AppendExecution, SaveDispatched, PassFails, EndPass, Tick, vars
<1>4. ~Stored(s)'
  BY <1>2, <1>3 DEF Inv, TypeOK
<1> QED BY <1>1, <1>2, <1>4 DEF Inv, NoOrphans

\* A schedule that is deleted while its job is being submitted does not come
\* back (delete_schedule, append_execution).
THEOREM DeletionIsFinal == Spec => DeletedStaysDeleted
<1>1. Inv /\ [Next]_vars => [\A s \in deleted : ~Stored(s)' /\ runs'[s] = <<>>]_vars
  BY DeletedStep
<1> QED BY <1>1, SchedulerInvariance, PTL DEF Spec, DeletedStaysDeleted
=============================================================================
