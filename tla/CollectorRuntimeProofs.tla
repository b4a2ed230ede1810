----------------------- MODULE CollectorRuntimeProofs -----------------------
(***************************************************************************)
(* Proofs about CollectorRuntime, for any jobs, keys, attempts and pool    *)
(* size and any thresholds of the breaker.                                 *)
(*                                                                         *)
(* The invariant falls into three parts that the actions change            *)
(* separately: the jobs, the breaker, and the pool with its locks.  Each   *)
(* part has a lemma per kind of change, and the actions combine them.      *)
(***************************************************************************)
EXTENDS CollectorRuntime, TLAPS

Where == {"new", "lock", "connect", "use", "sleep", "end"}
Working == {"lock", "connect", "use"}

JobsOK ==
    /\ pc \in [Jobs -> Where] /\ status \in [Jobs -> Status]
    /\ attempts \in [Jobs -> Nat] /\ \A j \in Jobs : attempts[j] <= MaxAttempts[j]
    /\ nth \in [Jobs -> 1 .. 2] /\ held \in [Jobs -> Session \cup {NULL}]
    /\ saved \in [Jobs -> Nat]
    /\ Attempting /\ SavedIffSucceeded

BreakerOK == breaker \in Breaker /\ BreakerIsSound

PoolOK ==
    /\ pool \in [Keys -> Session \cup {NULL}]
    /\ lock \in [Keys -> Jobs \cup {Closer, NULL}]
    /\ live \subseteq Session /\ popped \in Session \cup {NULL}
    /\ OneConnectionPerKey /\ PoolIsSound /\ LocksAreHeld

AbandonedOK == abandoned \subseteq Session /\ AbandonedIsOver

CloseOK ==
    closing \subseteq Keys /\ closes \in 0 .. MaxCloses /\ now \in 0 .. MaxTime

\* The parts make up the invariant.
LEMMA Parts ==
  Inv /\ SavedIffSucceeded <=> JobsOK /\ BreakerOK /\ PoolOK /\ AbandonedOK /\ CloseOK
BY DEF Inv, TypeOK, JobsOK, Where, BreakerOK, PoolOK, AbandonedOK, CloseOK

\* The bounds, one by one.
LEMMA Bounds ==
  /\ Threshold \in Nat /\ Threshold > 0 /\ Successes \in Nat /\ MaxTime \in Nat
  /\ MaxCloses \in Nat /\ MaxSize \in Nat
  /\ \A j \in Jobs : MaxAttempts[j] \in Nat /\ MaxAttempts[j] > 0
BY BoundAssumption

\* A session names the job that opened it and one of its attempts.
LEMMA SessionFacts ==
  /\ \A s \in Session : s[1] \in Jobs /\ s[2] \in 1 .. MaxAttempts[s[1]]
                        /\ s = <<s[1], s[2]>> /\ KeyOf(s) \in Keys
  /\ \A j \in Jobs : \A n \in 1 .. MaxAttempts[j] : <<j, n>> \in Session
  /\ NULL \notin Session /\ NULL \notin Jobs /\ Closer # NULL /\ Closer \notin Jobs
<1>1. \A s \in Session : s[1] \in Jobs /\ s[2] \in 1 .. MaxAttempts[s[1]]
                         /\ s = <<s[1], s[2]>>
  BY DEF Session
<1>2. \A j \in Jobs : \A n \in 1 .. MaxAttempts[j] : <<j, n>> \in Session
  BY DEF Session
<1>3. NULL \notin Session
  <2>1. Session \subseteq Jobs \X Nat
    BY <1>1, BoundAssumption
  <2> QED BY <2>1, NullAssumption
<1>4. \A s \in Session : KeyOf(s) \in Keys
  BY <1>1, KeyAssumption DEF KeyOf
<1> QED BY <1>1, <1>2, <1>3, <1>4, NullAssumption

-----------------------------------------------------------------------------
(* The breaker                                                             *)

SoundBreaker(b) ==
    /\ b \in Breaker
    /\ b.state = "closed" => b.failures < Threshold
    /\ b.state = "open" => b.opened # NULL

\* Letting a request through, a success and a failure each leave a sound breaker
\* (CircuitBreaker.allow_request, record_success, record_failure).
LEMMA BreakerSteps ==
  ASSUME NEW b \in Breaker, SoundBreaker(b), now \in 0 .. MaxTime
  PROVE  /\ SoundBreaker(Admitted(b))
         /\ SoundBreaker(Success(b))
         /\ SoundBreaker(Failure(b))
<1> USE Bounds
<1>1. SoundBreaker(Admitted(b))
  BY DEF SoundBreaker, Admitted, Breaker
<1>2. SoundBreaker(Success(b))
  <2> DEFINE reset == [b EXCEPT !.failures = 0]
  <2>1. /\ reset \in Breaker /\ reset.state = b.state /\ reset.failures = 0
        /\ reset.opened = b.opened
    BY DEF Breaker
  <2>2. CASE b.state # "half_open"
    <3>1. Success(b) = reset
      BY <2>2 DEF Success
    <3> HIDE DEF reset
    <3> QED BY <2>1, <3>1 DEF SoundBreaker
  <2>3. CASE b.state = "half_open" /\ b.successes + 1 < Successes
    <3>1. Success(b) = [reset EXCEPT !.successes = @ + 1]
      BY <2>3 DEF Success
    <3> HIDE DEF reset
    <3> QED BY <2>1, <2>3, <3>1 DEF SoundBreaker, Breaker
  <2>4. CASE b.state = "half_open" /\ ~(b.successes + 1 < Successes)
    <3> DEFINE ended == [reset EXCEPT !.successes = 0]
    <3>1. Success(b) = [ended EXCEPT !.state = "closed"]
      BY <2>4 DEF Success
    <3> HIDE DEF reset
    <3>2. ended \in Breaker /\ ended.failures = 0
      BY <2>1 DEF Breaker
    <3> HIDE DEF ended
    <3> QED BY <3>1, <3>2 DEF SoundBreaker, Breaker
  <2> QED BY <2>2, <2>3, <2>4
<1>3. SoundBreaker(Failure(b))
  <2> DEFINE counted == [b EXCEPT !.failures = @ + 1, !.successes = 0]
  <2>1. /\ counted \in Breaker /\ counted.failures = b.failures + 1
        /\ counted.state = b.state /\ counted.opened = b.opened
    <3> DEFINE more == [b EXCEPT !.failures = @ + 1]
    <3>1. /\ more \in Breaker /\ more.failures = b.failures + 1
          /\ more.state = b.state /\ more.opened = b.opened
      BY DEF Breaker
    <3>2. counted = [more EXCEPT !.successes = 0]
      OBVIOUS
    <3> HIDE DEF more, counted
    <3> QED BY <3>1, <3>2 DEF Breaker
  <2>2. CASE counted.failures >= Threshold
    <3>1. Failure(b) = [counted EXCEPT !.state = "open", !.opened = now]
      BY <2>2 DEF Failure
    <3>2. now # NULL
      BY NullAssumption
    <3> HIDE DEF counted
    <3> QED BY <2>1, <3>1, <3>2 DEF SoundBreaker, Breaker
  <2>3. CASE ~(counted.failures >= Threshold)
    <3>1. Failure(b) = counted
      BY <2>3 DEF Failure
    <3>2. counted.failures \in Nat
      BY <2>1 DEF Breaker
    <3> HIDE DEF counted
    <3> QED BY <2>1, <2>3, <3>1, <3>2 DEF SoundBreaker, Breaker
  <2> QED BY <2>2, <2>3
<1> QED BY <1>1, <1>2, <1>3

\* BreakerOK says that the breaker is sound.
LEMMA BreakerIs ==
  /\ BreakerOK <=> SoundBreaker(breaker)
  /\ \A b : SoundBreaker(b) => b \in Breaker
BY DEF BreakerOK, BreakerIsSound, SoundBreaker

-----------------------------------------------------------------------------
(* The jobs                                                                *)

Others(j) == \A i \in Jobs \ {j} :
    /\ pc'[i] = pc[i] /\ status'[i] = status[i]
    /\ attempts'[i] = attempts[i] /\ saved'[i] = saved[i]

\* One job moves.
LEMMA JobMoves ==
  ASSUME JobsOK, NEW j \in Jobs, Others(j),
         pc' \in [Jobs -> Where], status' \in [Jobs -> Status],
         attempts' \in [Jobs -> Nat], nth' \in [Jobs -> 1 .. 2],
         held' \in [Jobs -> Session \cup {NULL}], saved' \in [Jobs -> Nat],
         attempts'[j] <= MaxAttempts[j],
         pc'[j] # "new",
         pc'[j] = "sleep" => attempts'[j] < MaxAttempts[j],
         pc'[j] \in Working => attempts'[j] > 0,
         status'[j] = "succeeded" => pc'[j] = "end",
         saved'[j] = IF status'[j] = "succeeded" THEN 1 ELSE 0
  PROVE  JobsOK'
<1>1. \A i \in Jobs : attempts'[i] <= MaxAttempts[i]
  BY DEF JobsOK, Others
<1>2. Attempting'
  BY DEF JobsOK, Others, Attempting, Working
<1>3. SavedIffSucceeded'
  BY DEF JobsOK, Others, SavedIffSucceeded
<1> QED BY <1>1, <1>2, <1>3 DEF JobsOK

\* A job that is working or waiting has not succeeded, and has saved nothing.
LEMMA NotYet ==
  ASSUME JobsOK, NEW j \in Jobs, pc[j] # "end"
  PROVE  status[j] # "succeeded" /\ saved[j] = 0
BY DEF JobsOK, Attempting, SavedIffSucceeded

\* An attempt fails (the except clauses of CollectorExecutor.execute).
LEMMA AttemptFailsStep ==
  ASSUME JobsOK, NEW j \in Jobs, pc[j] \in Working,
         NEW final \in {"failed", "timed_out"}, AttemptFails(j, final),
         UNCHANGED <<attempts, nth, saved>>
  PROVE  JobsOK' /\ Others(j) /\ pc'[j] \in {"sleep", "end"}
<1> USE DEF AttemptFails, Mark, Goto
<1>1. /\ pc' \in [Jobs -> Where] /\ status' \in [Jobs -> Status]
      /\ held' \in [Jobs -> Session \cup {NULL}]
  BY DEF JobsOK, Where, Status
<1>2. Others(j) /\ pc'[j] \in {"sleep", "end"}
  BY DEF JobsOK, Others
<1>3. status'[j] \in {"retrying", "failed", "timed_out"}
  BY DEF JobsOK
<1>4. pc'[j] = "sleep" => attempts[j] < MaxAttempts[j]
  BY DEF JobsOK
<1>5. saved[j] = 0
  BY NotYet DEF Working
<1>6. /\ attempts' \in [Jobs -> Nat] /\ nth' \in [Jobs -> 1 .. 2]
      /\ saved' \in [Jobs -> Nat] /\ attempts'[j] <= MaxAttempts[j]
      /\ attempts' = attempts /\ saved' = saved
  BY DEF JobsOK
<1> HIDE DEF AttemptFails, Mark, Goto
<1>7. JobsOK'
  BY <1>1, <1>2, <1>3, <1>4, <1>5, <1>6, JobMoves DEF Working
<1> QED BY <1>2, <1>7

\* An attempt begins, from "new" or after the retry delay.
LEMMA BeginStep ==
  ASSUME JobsOK, BreakerOK, now \in 0 .. MaxTime, NEW j \in Jobs,
         pc[j] \in {"new", "sleep"}, BeginAttempt(j)
  PROVE  /\ JobsOK' /\ BreakerOK' /\ Others(j)
         /\ pc'[j] \in {"lock", "sleep", "end"}
         /\ attempts'[j] = attempts[j] + 1
<1> DEFINE raised(b) ==
             /\ IF attempts[j] + 1 < MaxAttempts[j]
                THEN Mark(j, "retrying") /\ Goto(j, "sleep")
                ELSE Mark(j, "failed") /\ Goto(j, "end")
             /\ breaker' = b
             /\ UNCHANGED held
           enters ==
             /\ Mark(j, "running") /\ Goto(j, "lock")
             /\ breaker' = Admitted(breaker)
             /\ UNCHANGED held
<1>1. /\ attempts' = [attempts EXCEPT ![j] = @ + 1]
      /\ nth' = [nth EXCEPT ![j] = 1] /\ UNCHANGED saved
  BY DEF BeginAttempt
<1>2. \/ raised(breaker) \/ raised(Admitted(breaker))
      \/ raised(Failure(Admitted(breaker))) \/ enters
  BY DEF BeginAttempt
<1>3. BreakerOK'
  <2>1. /\ SoundBreaker(breaker) /\ SoundBreaker(Admitted(breaker))
        /\ SoundBreaker(Failure(Admitted(breaker)))
    BY BreakerIs, BreakerSteps
  <2>2. \/ breaker' = breaker \/ breaker' = Admitted(breaker)
        \/ breaker' = Failure(Admitted(breaker))
    BY <1>2
  <2>3. SoundBreaker(breaker')
    BY <2>1, <2>2
  <2> QED BY <2>3 DEF BreakerOK, BreakerIsSound, SoundBreaker
<1>4. \/ /\ attempts[j] + 1 < MaxAttempts[j] /\ held' = held
         /\ status' = [status EXCEPT ![j] = "retrying"] /\ pc' = [pc EXCEPT ![j] = "sleep"]
      \/ /\ status' = [status EXCEPT ![j] = "failed"] /\ pc' = [pc EXCEPT ![j] = "end"]
         /\ held' = held
      \/ /\ status' = [status EXCEPT ![j] = "running"] /\ pc' = [pc EXCEPT ![j] = "lock"]
         /\ held' = held
  BY <1>2 DEF Mark, Goto
<1> HIDE DEF raised, enters
<1>5. /\ pc' \in [Jobs -> Where] /\ status' \in [Jobs -> Status]
      /\ held' \in [Jobs -> Session \cup {NULL}]
      /\ pc'[j] \in {"lock", "sleep", "end"}
      /\ status'[j] \in {"retrying", "failed", "running"}
      /\ pc'[j] = "sleep" => attempts[j] + 1 < MaxAttempts[j]
  BY <1>4 DEF JobsOK, Where, Status
<1>6. /\ attempts' \in [Jobs -> Nat] /\ attempts'[j] = attempts[j] + 1
      /\ attempts[j] \in Nat /\ nth' \in [Jobs -> 1 .. 2]
      /\ saved' \in [Jobs -> Nat] /\ saved' = saved
  BY <1>1 DEF JobsOK
<1>7. Others(j)
  BY <1>1, <1>4 DEF JobsOK, Others
<1>8. attempts[j] + 1 <= MaxAttempts[j] /\ saved[j] = 0
  <2>1. attempts[j] < MaxAttempts[j]
    BY BoundAssumption DEF JobsOK, Attempting
  <2> QED BY <1>6, <2>1, NotYet, BoundAssumption
<1>9. JobsOK'
  BY <1>5, <1>6, <1>7, <1>8, JobMoves DEF Working
<1> QED BY <1>3, <1>5, <1>6, <1>7, <1>9

\* open_session returns to the executor or to the collector.
LEMMA OpenedStep ==
  ASSUME JobsOK, BreakerOK, now \in 0 .. MaxTime, NEW j \in Jobs,
         NEW s \in Session, pc[j] \in {"lock", "connect"},
         Opened(j, s), UNCHANGED saved
  PROVE  /\ JobsOK' /\ BreakerOK' /\ Others(j) /\ UNCHANGED attempts
         /\ pc'[j] \in {"lock", "use", "sleep", "end"}
<1> DEFINE b == Success(breaker)
<1>1. BreakerOK'
  <2>1. SoundBreaker(b) /\ SoundBreaker(Admitted(b))
    BY BreakerIs, BreakerSteps
  <2>2. breaker' = b \/ breaker' = Admitted(b)
    BY DEF Opened
  <2>3. SoundBreaker(breaker')
    BY <2>1, <2>2
  <2> QED BY <2>3 DEF BreakerOK, BreakerIsSound, SoundBreaker
<1>2. UNCHANGED attempts
  BY DEF Opened
<1>3. CASE AttemptFails(j, "failed") /\ UNCHANGED nth
  BY <1>1, <1>2, <1>3, AttemptFailsStep DEF Working
<1>4. CASE ~(AttemptFails(j, "failed") /\ UNCHANGED nth)
  <2>1. \/ /\ pc' = [pc EXCEPT ![j] = "use"] /\ held' = [held EXCEPT ![j] = s]
           /\ nth' = [nth EXCEPT ![j] = 1] /\ status' = status
        \/ /\ pc' = [pc EXCEPT ![j] = "lock"] /\ nth' = [nth EXCEPT ![j] = 2]
           /\ status' = status /\ held' = held
    BY <1>4 DEF Opened, Goto
  <2>2. /\ pc' \in [Jobs -> Where] /\ status' \in [Jobs -> Status]
        /\ held' \in [Jobs -> Session \cup {NULL}] /\ nth' \in [Jobs -> 1 .. 2]
        /\ pc'[j] \in {"lock", "use"} /\ status'[j] = status[j]
    BY <2>1 DEF JobsOK, Where
  <2>3. Others(j)
    BY <1>2, <2>1 DEF JobsOK, Others
  <2>4. status[j] # "succeeded" /\ saved[j] = 0
    BY NotYet
  <2>5. /\ attempts' \in [Jobs -> Nat] /\ saved' \in [Jobs -> Nat]
        /\ attempts'[j] <= MaxAttempts[j] /\ attempts'[j] > 0 /\ saved' = saved
    BY <1>2 DEF JobsOK, Attempting
  <2>6. JobsOK'
    BY <2>2, <2>3, <2>4, <2>5, JobMoves
  <2> QED BY <1>1, <1>2, <2>2, <2>3, <2>6
<1> QED BY <1>3, <1>4

-----------------------------------------------------------------------------
(* Pool and locks                                                          *)

\* A step that neither opens nor closes a session leaves pool and locks sound;
\* connections may drop.
LEMMA PoolKept ==
  ASSUME PoolOK, UNCHANGED <<pool, lock, popped>>, live' \subseteq live,
         abandoned' = abandoned,
         \A i \in Jobs : pc'[i] = "connect" <=> pc[i] = "connect"
  PROVE  PoolOK'
<1>1. OneConnectionPerKey'
  BY DEF PoolOK, OneConnectionPerKey, KeyOf
<1>2. PoolIsSound'
  BY DEF PoolOK, PoolIsSound, KeyOf
<1>3. LocksAreHeld'
  BY DEF PoolOK, LocksAreHeld, KeyOf
<1> QED BY <1>1, <1>2, <1>3 DEF PoolOK

\* get_or_create takes the lock of a key without a session.
LEMMA PoolLocked ==
  ASSUME PoolOK, NEW j \in Jobs, pc[j] # "connect", pc'[j] = "connect",
         \A i \in Jobs \ {j} : pc'[i] = pc[i],
         lock[Key[j]] = NULL, pool[Key[j]] = NULL,
         lock' = [lock EXCEPT ![Key[j]] = j],
         UNCHANGED <<pool, popped, live, abandoned>>
  PROVE  PoolOK'
<1> USE SessionFacts, KeyAssumption
<1>1. /\ lock' \in [Keys -> Jobs \cup {Closer, NULL}] /\ lock'[Key[j]] = j
      /\ \A k \in Keys \ {Key[j]} : lock'[k] = lock[k]
  BY DEF PoolOK
<1>2. OneConnectionPerKey'
  BY DEF PoolOK, OneConnectionPerKey, KeyOf
<1>3. PoolIsSound'
  <2>1. \A k \in Keys : pool[k] # NULL => KeyOf(pool[k]) = k /\ pool[k] \notin abandoned
    BY DEF PoolOK, PoolIsSound
  <2>2. ASSUME NEW k \in Keys, lock'[k] \in Jobs
        PROVE  pool[k] = NULL /\ pc'[lock'[k]] = "connect"
    BY <1>1, <2>2 DEF PoolOK, PoolIsSound
  <2> QED BY <2>1, <2>2 DEF PoolIsSound, KeyOf
<1>4. LocksAreHeld'
  <2>1. ASSUME NEW i \in Jobs, pc'[i] = "connect"
        PROVE  lock'[Key[i]] = i
    BY <1>1, <2>1 DEF PoolOK, LocksAreHeld
  <2>2. ASSUME NEW k \in Keys
        PROVE  /\ lock'[k] \in Jobs => Key[lock'[k]] = k
               /\ lock'[k] = Closer => popped # NULL /\ KeyOf(popped) = k
    BY <1>1 DEF PoolOK, LocksAreHeld
  <2>3. popped # NULL => lock'[KeyOf(popped)] = Closer /\ pool[KeyOf(popped)] = NULL
    BY <1>1 DEF PoolOK, LocksAreHeld
  <2> QED BY <2>1, <2>2, <2>3 DEF LocksAreHeld, KeyOf
<1> QED BY <1>1, <1>2, <1>3, <1>4 DEF PoolOK

\* The job that was opening a session of key k held its lock, no session of the
\* key is pooled, live or being closed, and nobody else was opening one.
LEMMA OpenerIsAlone ==
  ASSUME PoolOK, NEW j \in Jobs, pc[j] = "connect"
  PROVE  /\ lock[Key[j]] = j /\ pool[Key[j]] = NULL
         /\ popped # NULL => KeyOf(popped) # Key[j]
         /\ \A s \in live : KeyOf(s) # Key[j]
         /\ \A i \in Jobs : pc[i] = "connect" /\ Key[i] = Key[j] => i = j
<1> USE SessionFacts, KeyAssumption
<1>1. lock[Key[j]] = j /\ Key[j] \in Keys
  BY DEF PoolOK, LocksAreHeld
<1>2. pool[Key[j]] = NULL
  BY <1>1 DEF PoolOK, PoolIsSound
<1>3. popped # NULL => KeyOf(popped) # Key[j]
  BY <1>1 DEF PoolOK, LocksAreHeld
<1>4. \A i \in Jobs : pc[i] = "connect" /\ Key[i] = Key[j] => i = j
  BY <1>1 DEF PoolOK, LocksAreHeld
<1>5. \A s \in live : KeyOf(s) # Key[j]
  BY <1>2, <1>3 DEF PoolOK, OneConnectionPerKey
<1> QED BY <1>1, <1>2, <1>3, <1>4, <1>5

\* The lock is released and the key may have a session now, which is the job's:
\* session.open returned, raised, or was interrupted.
LEMMA PoolUnlocked ==
  ASSUME PoolOK, NEW j \in Jobs, pc[j] = "connect", pc'[j] # "connect",
         \A i \in Jobs \ {j} : pc'[i] = pc[i],
         NEW s \in Session, KeyOf(s) = Key[j],
         lock' = [lock EXCEPT ![Key[j]] = NULL],
         \/ /\ pool' = [pool EXCEPT ![Key[j]] = s] /\ live' = live \cup {s}
            /\ s \notin abandoned /\ abandoned' = abandoned
         \/ pool' = pool /\ live' = live /\ abandoned' \subseteq abandoned \cup {s},
         popped' = popped
  PROVE  PoolOK'
<1> USE SessionFacts, KeyAssumption
<1>1. /\ lock' \in [Keys -> Jobs \cup {Closer, NULL}] /\ lock'[Key[j]] = NULL
      /\ \A k \in Keys \ {Key[j]} : lock'[k] = lock[k]
  BY DEF PoolOK
<1>2. /\ pool' \in [Keys -> Session \cup {NULL}] /\ live' \subseteq Session
      /\ \A k \in Keys \ {Key[j]} : pool'[k] = pool[k]
      /\ \/ pool'[Key[j]] = s /\ live' = live \cup {s}
            /\ s \notin abandoned /\ abandoned' = abandoned
         \/ pool'[Key[j]] = NULL /\ live' = live /\ abandoned' \subseteq abandoned \cup {s}
  BY OpenerIsAlone DEF PoolOK
<1>3. OneConnectionPerKey'
  <2> SUFFICES ASSUME NEW t \in live', NEW u \in live', KeyOf(t) = KeyOf(u)
               PROVE  t = u /\ t \in {pool'[KeyOf(t)], popped}
    BY DEF OneConnectionPerKey, KeyOf
  <2>1. \A v \in live : v # s /\ KeyOf(v) # Key[j] /\ KeyOf(v) \in Keys
    BY OpenerIsAlone DEF PoolOK
  <2>2. CASE t \in live /\ u \in live
    BY <1>2, <2>1, <2>2 DEF PoolOK, OneConnectionPerKey
  <2>3. CASE t = s \/ u = s
    BY <1>2, <2>1, <2>3
  <2> QED BY <1>2, <2>2, <2>3
<1>4. PoolIsSound'
  <2>1. ASSUME NEW k \in Keys, pool'[k] # NULL
        PROVE  KeyOf(pool'[k]) = k /\ pool'[k] \notin abandoned'
    <3>1. CASE k = Key[j]
      BY <1>2, <2>1, <3>1
    <3>2. CASE k # Key[j]
      <4>1. pool'[k] = pool[k] /\ KeyOf(pool[k]) = k /\ pool[k] \notin abandoned
        BY <1>2, <2>1, <3>2 DEF PoolOK, PoolIsSound
      <4>2. pool[k] # s
        BY <3>2, <4>1
      <4> QED BY <1>2, <4>1, <4>2
    <3> QED BY <3>1, <3>2
  <2>2. ASSUME NEW k \in Keys, lock'[k] \in Jobs
        PROVE  pool'[k] = NULL /\ pc'[lock'[k]] = "connect"
    <3>1. k # Key[j] /\ lock'[k] = lock[k] /\ pool'[k] = pool[k]
      BY <1>1, <1>2, <2>2
    <3>2. pool[k] = NULL /\ pc[lock[k]] = "connect" /\ Key[lock[k]] = k
      BY <2>2, <3>1 DEF PoolOK, PoolIsSound, LocksAreHeld
    <3> QED BY <2>2, <3>1, <3>2
  <2> QED BY <2>1, <2>2 DEF PoolIsSound, KeyOf
<1>5. LocksAreHeld'
  <2>1. ASSUME NEW i \in Jobs, pc'[i] = "connect"
        PROVE  lock'[Key[i]] = i
    <3>1. i # j /\ pc[i] = "connect"
      BY <2>1
    <3>2. Key[i] # Key[j] /\ lock[Key[i]] = i
      BY <3>1, OpenerIsAlone
    <3> QED BY <1>1, <3>2
  <2>2. ASSUME NEW k \in Keys
        PROVE  /\ lock'[k] \in Jobs => Key[lock'[k]] = k
               /\ lock'[k] = Closer => popped # NULL /\ KeyOf(popped) = k
    BY <1>1 DEF PoolOK, LocksAreHeld
  <2>3. popped # NULL => lock'[KeyOf(popped)] = Closer /\ pool'[KeyOf(popped)] = NULL
    <3> SUFFICES ASSUME popped # NULL
                 PROVE  lock'[KeyOf(popped)] = Closer /\ pool'[KeyOf(popped)] = NULL
      OBVIOUS
    <3>1. KeyOf(popped) # Key[j] /\ KeyOf(popped) \in Keys
      BY OpenerIsAlone DEF PoolOK
    <3> QED BY <1>1, <1>2, <3>1 DEF PoolOK, LocksAreHeld
  <2> QED BY <2>1, <2>2, <2>3 DEF LocksAreHeld, KeyOf
<1> QED BY <1>1, <1>2, <1>3, <1>4, <1>5 DEF PoolOK

\* release takes a session out of the pool.
LEMMA PoolReleased ==
  ASSUME PoolOK, NEW k \in Keys, Release(k)
  PROVE  PoolOK'
<1> USE SessionFacts, KeyAssumption
<1>1. /\ pool' = [pool EXCEPT ![k] = NULL] /\ popped' = pool[k] /\ lock[k] = NULL
      /\ popped = NULL /\ UNCHANGED <<live, pc, abandoned>>
      /\ lock' = IF pool[k] # NULL THEN [lock EXCEPT ![k] = Closer] ELSE lock
  BY DEF Release, Pooled, Free, jobVars
<1>2. /\ pool' \in [Keys -> Session \cup {NULL}] /\ pool'[k] = NULL
      /\ \A i \in Keys \ {k} : pool'[i] = pool[i]
      /\ popped' \in Session \cup {NULL}
  BY <1>1 DEF PoolOK
<1>3. /\ lock' \in [Keys -> Jobs \cup {Closer, NULL}]
      /\ lock'[k] = IF pool[k] # NULL THEN Closer ELSE NULL
      /\ \A i \in Keys \ {k} : lock'[i] = lock[i]
  BY <1>1 DEF PoolOK
<1>4. pool[k] # NULL => KeyOf(pool[k]) = k
  BY DEF PoolOK, PoolIsSound
<1>5. OneConnectionPerKey'
  <2>1. \A s \in live : s # NULL /\ s = pool[KeyOf(s)] /\ KeyOf(s) \in Keys
    BY <1>1 DEF PoolOK, OneConnectionPerKey
  <2>2. \A s \in live : s \in {pool'[KeyOf(s)], popped'}
    BY <1>1, <1>2, <2>1
  <2>3. \A s, t \in live : KeyOf(s) = KeyOf(t) => s = t
    BY DEF PoolOK, OneConnectionPerKey
  <2> QED BY <1>1, <2>2, <2>3 DEF OneConnectionPerKey, KeyOf
<1>6. PoolIsSound'
  <2>1. ASSUME NEW i \in Keys
        PROVE  /\ pool'[i] # NULL => KeyOf(pool'[i]) = i /\ pool'[i] \notin abandoned
               /\ lock'[i] \in Jobs => pool'[i] = NULL /\ pc[lock'[i]] = "connect"
    BY <1>2, <1>3 DEF PoolOK, PoolIsSound
  <2> QED BY <1>1, <2>1 DEF PoolIsSound, KeyOf
<1>7. LocksAreHeld'
  <2>1. \A i \in Jobs : pc[i] = "connect" => lock[Key[i]] = i /\ Key[i] # k
    BY <1>1 DEF PoolOK, LocksAreHeld
  <2>2. \A i \in Keys : /\ lock'[i] \in Jobs => Key[lock'[i]] = i
                        /\ lock'[i] = Closer => popped' # NULL /\ KeyOf(popped') = i
    BY <1>1, <1>3, <1>4 DEF PoolOK, LocksAreHeld
  <2>3. popped' # NULL => lock'[KeyOf(popped')] = Closer /\ pool'[KeyOf(popped')] = NULL
    BY <1>1, <1>2, <1>3, <1>4
  <2>4. \A i \in Jobs : pc'[i] = "connect" => lock'[Key[i]] = i
    BY <1>1, <1>3, <2>1
  <2> QED BY <2>2, <2>3, <2>4 DEF LocksAreHeld, KeyOf
<1> QED BY <1>1, <1>2, <1>3, <1>5, <1>6, <1>7 DEF PoolOK

\* The session that was taken out is closed, and the lock of its key released.
LEMMA PoolClosed ==
  ASSUME PoolOK, NEW k \in Keys, Released(k)
  PROVE  PoolOK'
<1> USE SessionFacts, KeyAssumption
<1>1. /\ lock[k] = Closer /\ live' = live \ {popped} /\ popped' = NULL
      /\ lock' = [lock EXCEPT ![k] = NULL] /\ UNCHANGED <<pool, pc, abandoned>>
  BY DEF Released, jobVars
<1>2. popped # NULL /\ KeyOf(popped) = k /\ pool[k] = NULL
  BY <1>1 DEF PoolOK, LocksAreHeld
<1>3. /\ lock' \in [Keys -> Jobs \cup {Closer, NULL}] /\ lock'[k] = NULL
      /\ \A i \in Keys \ {k} : lock'[i] = lock[i]
  BY <1>1 DEF PoolOK
<1>4. OneConnectionPerKey'
  <2>1. \A s \in live \ {popped} : s = pool[KeyOf(s)]
    BY DEF PoolOK, OneConnectionPerKey
  <2>2. \A s, t \in live : KeyOf(s) = KeyOf(t) => s = t
    BY DEF PoolOK, OneConnectionPerKey
  <2> QED BY <1>1, <2>1, <2>2 DEF OneConnectionPerKey, KeyOf
<1>5. PoolIsSound'
  <2>1. ASSUME NEW i \in Keys
        PROVE  /\ pool[i] # NULL => KeyOf(pool[i]) = i /\ pool[i] \notin abandoned
               /\ lock'[i] \in Jobs => pool[i] = NULL /\ pc[lock'[i]] = "connect"
    BY <1>3 DEF PoolOK, PoolIsSound
  <2> QED BY <1>1, <2>1 DEF PoolIsSound, KeyOf
<1>6. LocksAreHeld'
  <2>1. \A i \in Jobs : pc[i] = "connect" => lock[Key[i]] = i /\ Key[i] # k
    BY <1>1 DEF PoolOK, LocksAreHeld
  <2>2. \A i \in Keys : /\ lock'[i] \in Jobs => Key[lock'[i]] = i
                        /\ lock'[i] # Closer
    BY <1>2, <1>3 DEF PoolOK, LocksAreHeld
  <2>3. \A i \in Jobs : pc'[i] = "connect" => lock'[Key[i]] = i
    BY <1>1, <1>3, <2>1
  <2> QED BY <1>1, <2>2, <2>3 DEF LocksAreHeld, KeyOf
<1> QED BY <1>1, <1>3, <1>4, <1>5, <1>6 DEF PoolOK

\* An opening is abandoned only with its attempt.
LEMMA AbandonedKept ==
  ASSUME AbandonedOK, JobsOK, JobsOK', NEW j \in Jobs,
         \A i \in Jobs \ {j} : pc'[i] = pc[i] /\ attempts'[i] = attempts[i],
         \/ attempts'[j] = attempts[j] + 1
         \/ /\ attempts'[j] = attempts[j]
            /\ pc'[j] \in {"sleep", "end"} \/ pc[j] \notin {"sleep", "end"},
         \/ abandoned' = abandoned
         \/ /\ abandoned' = abandoned \cup {<<j, attempts[j]>>}
            /\ pc[j] \in Working /\ pc'[j] \in {"sleep", "end"}
            /\ attempts'[j] = attempts[j]
  PROVE  AbandonedOK'
<1> USE SessionFacts
<1>1. attempts[j] \in Nat /\ attempts'[j] \in Nat /\ attempts[j] <= MaxAttempts[j]
  BY DEF JobsOK
<1>2. pc[j] \in Working => <<j, attempts[j]>> \in Session
  <2>1. pc[j] \in Working => attempts[j] \in 1 .. MaxAttempts[j]
    BY <1>1, Bounds DEF JobsOK, Attempting, Working
  <2> QED BY <2>1
<1>3. abandoned' \subseteq Session
  BY <1>2 DEF AbandonedOK
<1>4. ASSUME NEW s \in abandoned'
      PROVE  /\ s[2] <= attempts'[s[1]]
             /\ s[2] = attempts'[s[1]] => pc'[s[1]] \in {"sleep", "end"}
  <2>1. CASE s \in abandoned
    <3>1. /\ s[1] \in Jobs /\ s[2] \in Nat /\ s[2] <= attempts[s[1]]
          /\ s[2] = attempts[s[1]] => pc[s[1]] \in {"sleep", "end"}
      BY <2>1, Bounds DEF AbandonedOK, AbandonedIsOver
    <3>2. CASE s[1] # j
      BY <3>1, <3>2
    <3>3. CASE s[1] = j
      BY <1>1, <3>1, <3>3
    <3> QED BY <3>2, <3>3
  <2>2. CASE s \notin abandoned
    <3>1. /\ s = <<j, attempts[j]>> /\ pc'[j] \in {"sleep", "end"}
          /\ attempts'[j] = attempts[j]
      BY <2>2
    <3>2. s[1] = j /\ s[2] = attempts[j]
      BY <3>1
    <3> QED BY <1>1, <3>1, <3>2
  <2> QED BY <2>1, <2>2
<1> QED BY <1>3, <1>4 DEF AbandonedOK, AbandonedIsOver

-----------------------------------------------------------------------------
(* The actions                                                             *)

IInv == JobsOK /\ BreakerOK /\ PoolOK /\ AbandonedOK /\ CloseOK

\* In the initial state no job has begun and the pool is empty.
LEMMA InitInv == Init => IInv
<1> SUFFICES ASSUME Init PROVE IInv
  OBVIOUS
<1> USE Bounds DEF Init
<1>1. JobsOK
  BY DEF JobsOK, Where, Status, Attempting, SavedIffSucceeded
<1>2. BreakerOK
  BY DEF BreakerOK, Breaker, BreakerIsSound
<1>3. PoolOK
  BY SessionFacts, KeyAssumption
     DEF PoolOK, OneConnectionPerKey, PoolIsSound, LocksAreHeld
<1>4. AbandonedOK /\ CloseOK
  BY DEF AbandonedOK, AbandonedIsOver, CloseOK
<1> QED BY <1>1, <1>2, <1>3, <1>4 DEF IInv

\* The beginning of an attempt keeps the invariant.
LEMMA BeginInv ==
  ASSUME IInv, NEW j \in Jobs, pc[j] \in {"new", "sleep"}, BeginAttempt(j)
  PROVE  IInv'
<1>1. /\ JobsOK' /\ BreakerOK' /\ Others(j) /\ pc'[j] # "connect"
      /\ attempts'[j] = attempts[j] + 1
  BY BeginStep DEF IInv, CloseOK
<1>2. UNCHANGED <<poolVars, closeVars, now>>
  BY DEF BeginAttempt
<1>3. PoolOK'
  BY <1>1, <1>2, PoolKept DEF IInv, poolVars, closeVars, Others
<1>4. AbandonedOK'
  BY <1>1, <1>2, AbandonedKept DEF IInv, poolVars, Others
<1>5. CloseOK'
  BY <1>2 DEF IInv, CloseOK, closeVars
<1> QED BY <1>1, <1>3, <1>4, <1>5 DEF IInv

\* A job that cannot be resolved ends without an attempt.
LEMMA ResolveInv ==
  ASSUME IInv, NEW j \in Jobs, ResolveFails(j)
  PROVE  IInv'
<1> USE DEF ResolveFails, Mark, Goto
<1>1. /\ pc' = [pc EXCEPT ![j] = "end"] /\ status' = [status EXCEPT ![j] = "queued"]
      /\ UNCHANGED <<attempts, nth, held, saved, poolVars, breaker, closeVars, now>>
      /\ pc[j] = "new"
  OBVIOUS
<1> HIDE DEF ResolveFails, Mark, Goto
<1>2. /\ pc' \in [Jobs -> Where] /\ status' \in [Jobs -> Status] /\ Others(j)
      /\ pc'[j] = "end" /\ status'[j] = "queued"
  BY <1>1 DEF IInv, JobsOK, Where, Status, Others
<1>3. /\ attempts' \in [Jobs -> Nat] /\ nth' \in [Jobs -> 1 .. 2]
      /\ held' \in [Jobs -> Session \cup {NULL}] /\ saved' \in [Jobs -> Nat]
      /\ attempts'[j] <= MaxAttempts[j]
  BY <1>1 DEF IInv, JobsOK
<1>4. saved'[j] = 0
  BY <1>1, NotYet DEF IInv
<1>5. JobsOK'
  BY <1>2, <1>3, <1>4, JobMoves DEF IInv, Working
<1>6. PoolOK'
  BY <1>1, <1>2, PoolKept DEF IInv, poolVars, closeVars, Others
<1>7. AbandonedOK'
  BY <1>1, <1>2, <1>5, AbandonedKept DEF IInv, poolVars, Others
<1>8. BreakerOK' /\ CloseOK'
  BY <1>1 DEF IInv, BreakerOK, BreakerIsSound, CloseOK, closeVars
<1> QED BY <1>5, <1>6, <1>7, <1>8 DEF IInv

\* get_or_create keeps the invariant: it finds a session, finds the pool full,
\* or takes the lock to open one.
LEMMA GetOrCreateInv ==
  ASSUME IInv, NEW j \in Jobs, GetOrCreate(j)
  PROVE  IInv'
<1>1. /\ pc[j] = "lock" /\ lock[Key[j]] = NULL /\ Key[j] \in Keys
      /\ UNCHANGED <<saved, pool, live, abandoned, closeVars, now>>
  BY KeyAssumption DEF GetOrCreate, Free
<1>2. CloseOK' /\ popped' = popped
  BY <1>1 DEF IInv, CloseOK, closeVars
<1>3. ASSUME pool[Key[j]] # NULL, Opened(j, pool[Key[j]]), UNCHANGED lock
      PROVE  IInv'
  <2>1. pool[Key[j]] \in Session
    BY <1>1, <1>3 DEF IInv, PoolOK
  <2>2. /\ JobsOK' /\ BreakerOK' /\ Others(j) /\ UNCHANGED attempts
        /\ pc'[j] \in {"lock", "use", "sleep", "end"}
    BY <1>1, <1>3, <2>1, OpenedStep DEF IInv, CloseOK
  <2>3. PoolOK'
    BY <1>1, <1>2, <1>3, <2>2, PoolKept DEF IInv, Others
  <2>4. AbandonedOK'
    BY <1>1, <2>2, AbandonedKept DEF IInv, Others
  <2> QED BY <1>2, <2>2, <2>3, <2>4 DEF IInv
<1>4. ASSUME breaker' = Failure(breaker), AttemptFails(j, "failed"),
             UNCHANGED <<lock, attempts, nth>>
      PROVE  IInv'
  <2>1. JobsOK' /\ Others(j) /\ pc'[j] \in {"sleep", "end"}
    BY <1>1, <1>4, AttemptFailsStep DEF IInv, Working
  <2>2. SoundBreaker(breaker')
    BY <1>4, BreakerIs, BreakerSteps DEF IInv, CloseOK
  <2>3. BreakerOK'
    BY <2>2 DEF BreakerOK, BreakerIsSound, SoundBreaker
  <2>4. PoolOK'
    BY <1>1, <1>2, <1>4, <2>1, PoolKept DEF IInv, Others
  <2>5. AbandonedOK'
    BY <1>1, <1>4, <2>1, AbandonedKept DEF IInv, Others
  <2> QED BY <1>2, <2>1, <2>3, <2>4, <2>5 DEF IInv
<1>5. ASSUME pool[Key[j]] = NULL, lock' = [lock EXCEPT ![Key[j]] = j], Goto(j, "connect"),
             UNCHANGED <<status, attempts, nth, held, breaker>>
      PROVE  IInv'
  <2>1. /\ pc' \in [Jobs -> Where] /\ pc'[j] = "connect" /\ Others(j)
    BY <1>1, <1>5 DEF Goto, IInv, JobsOK, Where, Others
  <2>2. /\ status' \in [Jobs -> Status] /\ attempts' \in [Jobs -> Nat]
        /\ nth' \in [Jobs -> 1 .. 2] /\ held' \in [Jobs -> Session \cup {NULL}]
        /\ saved' \in [Jobs -> Nat] /\ attempts'[j] <= MaxAttempts[j]
        /\ attempts'[j] > 0
    BY <1>1, <1>5 DEF IInv, JobsOK, Attempting
  <2>3. status'[j] # "succeeded" /\ saved'[j] = 0
    BY <1>1, <1>5, NotYet DEF IInv
  <2>4. JobsOK'
    BY <2>1, <2>2, <2>3, JobMoves DEF IInv
  <2>5. PoolOK'
    BY <1>1, <1>2, <1>5, <2>1, PoolLocked DEF IInv, Others
  <2>6. AbandonedOK'
    BY <1>1, <1>5, <2>1, <2>4, AbandonedKept DEF IInv, Others
  <2>7. BreakerOK'
    BY <1>5 DEF IInv, BreakerOK, BreakerIsSound
  <2> QED BY <1>2, <2>4, <2>5, <2>6, <2>7 DEF IInv
<1> QED BY <1>1, <1>3, <1>4, <1>5 DEF GetOrCreate, Pooled

\* The session of an attempt is one, and belongs to the job's key.
LEMMA OwnSession ==
  ASSUME JobsOK, NEW j \in Jobs, pc[j] \in Working
  PROVE  <<j, attempts[j]>> \in Session /\ KeyOf(<<j, attempts[j]>>) = Key[j]
<1>1. attempts[j] \in 1 .. MaxAttempts[j]
  BY Bounds DEF JobsOK, Attempting, Working
<1>2. <<j, attempts[j]>> \in Session
  BY <1>1, SessionFacts
<1> QED BY <1>2 DEF KeyOf

\* A session that was opened keeps the invariant: its identity is not among the
\* abandoned ones, because its attempt still runs.
LEMMA ConnectedInv ==
  ASSUME IInv, NEW j \in Jobs, Connected(j)
  PROVE  IInv'
<1> DEFINE s == <<j, attempts[j]>>
<1>1. /\ pc[j] = "connect" /\ pool' = [pool EXCEPT ![Key[j]] = s]
      /\ live' = live \cup {s} /\ lock' = [lock EXCEPT ![Key[j]] = NULL]
      /\ Opened(j, s) /\ UNCHANGED <<saved, abandoned, closeVars, now>>
  BY DEF Connected
<1>2. s \in Session /\ KeyOf(s) = Key[j] /\ s[1] = j /\ s[2] = attempts[j]
  BY <1>1, OwnSession DEF IInv, Working
<1>3. s \notin abandoned
  BY <1>1, <1>2 DEF IInv, AbandonedOK, AbandonedIsOver
<1> HIDE DEF s
<1>4. /\ JobsOK' /\ BreakerOK' /\ Others(j) /\ UNCHANGED attempts
      /\ pc'[j] \in {"lock", "use", "sleep", "end"}
  BY <1>1, <1>2, OpenedStep DEF IInv, CloseOK
<1>5. CloseOK' /\ popped' = popped
  BY <1>1 DEF IInv, CloseOK, closeVars
<1>6. PoolOK'
  BY <1>1, <1>2, <1>3, <1>4, <1>5, PoolUnlocked DEF IInv, Others
<1>7. AbandonedOK'
  BY <1>1, <1>4, AbandonedKept DEF IInv, Others
<1> QED BY <1>4, <1>5, <1>6, <1>7 DEF IInv

\* What an interrupted or failed opening leaves behind keeps pool and locks sound.
LEMMA GivesUp ==
  ASSUME IInv, NEW j \in Jobs, pc[j] = "connect", pc'[j] # "connect", Others(j), Unlock(j),
         abandoned' = abandoned \/ abandoned' = abandoned \cup {<<j, attempts[j]>>},
         UNCHANGED <<pool, live, popped>>
  PROVE  PoolOK'
<1>1. <<j, attempts[j]>> \in Session /\ KeyOf(<<j, attempts[j]>>) = Key[j]
  BY OwnSession DEF IInv, Working
<1> QED BY <1>1, PoolUnlocked DEF IInv, Others, Unlock

\* An opening that raises keeps the invariant.
LEMMA ConnectFailsInv ==
  ASSUME IInv, NEW j \in Jobs, ConnectFails(j)
  PROVE  IInv'
<1>1. PICK final \in {"failed", "timed_out"} : AttemptFails(j, final)
  BY DEF ConnectFails
<1>2. /\ pc[j] = "connect" /\ Unlock(j) /\ breaker' = Failure(breaker)
      /\ UNCHANGED <<attempts, nth, saved, pool, live, abandoned, closeVars, now>>
  BY DEF ConnectFails
<1>3. JobsOK' /\ Others(j) /\ pc'[j] \in {"sleep", "end"}
  BY <1>1, <1>2, AttemptFailsStep DEF IInv, Working
<1>4. SoundBreaker(breaker')
  BY <1>2, BreakerIs, BreakerSteps DEF IInv, CloseOK
<1>5. BreakerOK'
  BY <1>4 DEF BreakerOK, BreakerIsSound, SoundBreaker
<1>6. CloseOK' /\ popped' = popped
  BY <1>2 DEF IInv, CloseOK, closeVars
<1>7. PoolOK'
  BY <1>2, <1>3, <1>6, GivesUp
<1>8. AbandonedOK'
  BY <1>2, <1>3, AbandonedKept DEF IInv, Others
<1> QED BY <1>3, <1>5, <1>6, <1>7, <1>8 DEF IInv

\* The end of a job or of an attempt in the middle of its work: what the job
\* itself becomes is given, the rest follows.
LEMMA LeavesWork ==
  ASSUME IInv, NEW j \in Jobs, JobsOK', Others(j), pc'[j] \in {"sleep", "end"},
         attempts'[j] = attempts[j], Interrupted(j),
         UNCHANGED <<breaker, closeVars, now>>
  PROVE  IInv'
<1>1. CloseOK' /\ BreakerOK' /\ popped' = popped
  BY DEF IInv, CloseOK, closeVars, BreakerOK, BreakerIsSound
<1>2. CASE pc[j] = "connect"
  <2>1. /\ Unlock(j) /\ abandoned' = abandoned \cup {<<j, attempts[j]>>}
        /\ UNCHANGED <<pool, live>>
    BY <1>2 DEF Interrupted
  <2>2. PoolOK'
    BY <1>1, <1>2, <2>1, GivesUp
  <2>3. AbandonedOK'
    BY <1>2, <2>1, AbandonedKept DEF IInv, Others, Working
  <2> QED BY <1>1, <2>2, <2>3 DEF IInv
<1>3. CASE pc[j] # "connect"
  <2>1. UNCHANGED <<pool, lock, live, abandoned>>
    BY <1>3 DEF Interrupted, poolVars
  <2>2. PoolOK'
    BY <1>1, <1>3, <2>1, PoolKept DEF IInv, Others
  <2>3. AbandonedOK'
    BY <2>1, AbandonedKept DEF IInv, Others
  <2> QED BY <1>1, <2>2, <2>3 DEF IInv
<1> QED BY <1>2, <1>3

\* A collection that succeeds stores its one snapshot and ends the job.
LEMMA CollectedInv ==
  ASSUME IInv, NEW j \in Jobs, Collected(j)
  PROVE  IInv'
<1>1. /\ pc[j] = "use" /\ saved' = [saved EXCEPT ![j] = @ + 1]
      /\ status' = [status EXCEPT ![j] = "succeeded"] /\ pc' = [pc EXCEPT ![j] = "end"]
      /\ held' = [held EXCEPT ![j] = NULL]
      /\ UNCHANGED <<attempts, nth, poolVars, breaker, closeVars, now>>
  BY DEF Collected, Mark, Goto
<1>2. /\ pc' \in [Jobs -> Where] /\ status' \in [Jobs -> Status] /\ Others(j)
      /\ pc'[j] = "end" /\ status'[j] = "succeeded"
      /\ held' \in [Jobs -> Session \cup {NULL}] /\ saved' \in [Jobs -> Nat]
  BY <1>1 DEF IInv, JobsOK, Where, Status, Others
<1>3. saved'[j] = 1
  <2>1. saved[j] = 0
    BY <1>1, NotYet DEF IInv
  <2> QED BY <1>1, <2>1 DEF IInv, JobsOK
<1>4. /\ attempts' \in [Jobs -> Nat] /\ nth' \in [Jobs -> 1 .. 2]
      /\ attempts'[j] <= MaxAttempts[j]
  BY <1>1 DEF IInv, JobsOK
<1>5. JobsOK'
  BY <1>2, <1>3, <1>4, JobMoves DEF IInv, Working
<1>6. Interrupted(j)
  BY <1>1 DEF Interrupted
<1> QED BY <1>1, <1>2, <1>5, <1>6, LeavesWork

\* So does one that fails, or that its timeout ends.
LEMMA AttemptEndsInv ==
  ASSUME IInv, NEW j \in Jobs, CollectFails(j) \/ Timeout(j)
  PROVE  IInv'
<1>1. PICK final \in {"failed", "timed_out"} : AttemptFails(j, final)
  BY DEF CollectFails, Timeout
<1>2. /\ pc[j] \in Working /\ Interrupted(j)
      /\ UNCHANGED <<attempts, nth, saved, breaker, closeVars, now>>
  BY DEF CollectFails, Timeout, Interrupted, Working
<1>3. JobsOK' /\ Others(j) /\ pc'[j] \in {"sleep", "end"}
  BY <1>1, <1>2, AttemptFailsStep DEF IInv
<1> QED BY <1>2, <1>3, LeavesWork

\* So does a job that is cancelled.
LEMMA CancelInv ==
  ASSUME IInv, NEW j \in Jobs, Cancel(j)
  PROVE  IInv'
<1>1. /\ pc[j] \in {"lock", "connect", "use", "sleep"} /\ Interrupted(j)
      /\ pc' = [pc EXCEPT ![j] = "end"] /\ held' = [held EXCEPT ![j] = NULL]
      /\ status' = status \/ status' = [status EXCEPT ![j] = "cancelled"]
      /\ UNCHANGED <<attempts, nth, saved, breaker, closeVars, now>>
  BY DEF Cancel, Mark, Goto
<1>2. /\ pc' \in [Jobs -> Where] /\ status' \in [Jobs -> Status] /\ Others(j)
      /\ pc'[j] = "end" /\ held' \in [Jobs -> Session \cup {NULL}]
  BY <1>1 DEF IInv, JobsOK, Where, Status, Others
<1>3. saved[j] = 0 /\ status'[j] # "succeeded"
  BY <1>1, NotYet DEF IInv, JobsOK
<1>4. /\ attempts' \in [Jobs -> Nat] /\ nth' \in [Jobs -> 1 .. 2]
      /\ attempts'[j] <= MaxAttempts[j] /\ saved' \in [Jobs -> Nat] /\ saved' = saved
  BY <1>1 DEF IInv, JobsOK
<1>5. JobsOK'
  BY <1>2, <1>3, <1>4, JobMoves DEF IInv, Working
<1> QED BY <1>1, <1>2, <1>5, LeavesWork

\* A step that leaves jobs, breaker and abandoned openings alone.
LEMMA OutsideInv ==
  ASSUME IInv, UNCHANGED <<jobVars, breaker, abandoned>>, PoolOK', CloseOK'
  PROVE  IInv'
<1>1. JobsOK'
  BY DEF IInv, JobsOK, jobVars, Attempting, SavedIffSucceeded
<1>2. BreakerOK' /\ AbandonedOK'
  BY DEF IInv, BreakerOK, BreakerIsSound, AbandonedOK, AbandonedIsOver, jobVars
<1> QED BY <1>1, <1>2 DEF IInv

\* Every step keeps the invariant.
LEMMA NextInv == IInv /\ [Next]_vars => IInv'
<1> SUFFICES ASSUME IInv, [Next]_vars PROVE IInv'
  OBVIOUS
<1>1. ASSUME NEW j \in Jobs, Start(j) \/ Retry(j)
      PROVE  IInv'
  BY <1>1, BeginInv DEF Start, Retry
<1>2. ASSUME NEW j \in Jobs,
             \/ ResolveFails(j) \/ GetOrCreate(j) \/ Connected(j) \/ ConnectFails(j)
             \/ Collected(j) \/ CollectFails(j) \/ Timeout(j) \/ Cancel(j)
      PROVE  IInv'
  BY <1>2, ResolveInv, GetOrCreateInv, ConnectedInv, ConnectFailsInv, CollectedInv,
     AttemptEndsInv, CancelInv
<1>3. ASSUME NEW k \in Keys, Release(k)
      PROVE  IInv'
  <2>1. PoolOK'
    BY <1>3, PoolReleased DEF IInv
  <2>2. CloseOK' /\ UNCHANGED <<jobVars, breaker, abandoned>>
    BY <1>3 DEF IInv, CloseOK, Release
  <2> QED BY <2>1, <2>2, OutsideInv
<1>4. ASSUME NEW k \in Keys, Released(k)
      PROVE  IInv'
  <2>1. PoolOK'
    BY <1>4, PoolClosed DEF IInv
  <2>2. CloseOK' /\ UNCHANGED <<jobVars, breaker, abandoned>>
    BY <1>4 DEF IInv, CloseOK, Released
  <2> QED BY <2>1, <2>2, OutsideInv
<1>5. CASE CloseAll
  <2>1. PoolOK'
    BY <1>5, PoolKept DEF IInv, CloseAll, poolVars, jobVars
  <2>2. CloseOK' /\ UNCHANGED <<jobVars, breaker, abandoned>>
    BY <1>5, Bounds DEF IInv, CloseOK, CloseAll, poolVars, Pooled
  <2> QED BY <2>1, <2>2, OutsideInv
<1>6. CASE Tick
  <2>1. PoolOK'
    BY <1>6, PoolKept DEF IInv, Tick, poolVars, jobVars, closeVars
  <2>2. CloseOK' /\ UNCHANGED <<jobVars, breaker, abandoned>>
    BY <1>6, Bounds DEF IInv, CloseOK, Tick, poolVars, closeVars
  <2> QED BY <2>1, <2>2, OutsideInv
<1>7. ASSUME NEW s \in Session, Drop(s)
      PROVE  IInv'
  <2>1. PoolOK'
    BY <1>7, PoolKept DEF IInv, Drop, jobVars, closeVars
  <2>2. CloseOK' /\ UNCHANGED <<jobVars, breaker, abandoned>>
    BY <1>7 DEF IInv, CloseOK, Drop, closeVars
  <2> QED BY <2>1, <2>2, OutsideInv
<1>8. CASE UNCHANGED vars
  <2>1. PoolOK'
    BY <1>8, PoolKept DEF IInv, vars, poolVars, jobVars, closeVars
  <2>2. CloseOK' /\ UNCHANGED <<jobVars, breaker, abandoned>>
    BY <1>8 DEF IInv, CloseOK, vars, poolVars, closeVars
  <2> QED BY <2>1, <2>2, OutsideInv
<1> QED BY <1>1, <1>2, <1>3, <1>4, <1>5, <1>6, <1>7, <1>8 DEF Next, Run, Close

\* For any jobs, keys, attempts, pool size and thresholds: a target has at most
\* one connection that the platform knows of, the pool holds what belongs there,
\* and the circuit breaker never gets stuck open (ConnectionPool,
\* CircuitBreaker).
THEOREM CollectorInvariance == Spec => []Inv
<1>1. IInv => Inv
  BY Parts DEF IInv
<1> QED BY <1>1, InitInv, NextInv, PTL DEF Spec

\* A job stores a snapshot exactly if it succeeds, and only one
\* (CollectorExecutor.execute).
THEOREM SavesOnce == Spec => []SavedIffSucceeded
<1>1. IInv => SavedIffSucceeded
  BY Parts DEF IInv
<1> QED BY <1>1, InitInv, NextInv, PTL DEF Spec
=============================================================================
