--------------------------- MODULE FanoutProofs ---------------------------
(***************************************************************************)
(* Proofs about Fanout, for any addresses, any concurrency and any number  *)
(* of faults: the invariant action by action, the refinement of            *)
(* JobLifecycle by the parent's row, that discoveries are kept, that a     *)
(* range is left to its worker, and that trees that have ended are settled.*)
(***************************************************************************)
EXTENDS Fanout, TLAPS

-----------------------------------------------------------------------------
(* Reconciliation                                                          *)

\* A reconciled row keeps its type; it ends the job of an open or absent row
\* and leaves the others, and it reports no success that was not reported.
LEMMA ReconciledFacts ==
  ASSUME NEW row \in Child, NEW isOpen \in BOOLEAN, NEW intr \in BOOLEAN
  PROVE  /\ Reconciled(row, isOpen, intr) \in Child
         /\ Reconciled(row, isOpen, intr).st =
              IF isOpen \/ row.st = "absent" THEN Outcome(intr) ELSE row.st
         /\ Reconciled(row, isOpen, intr).res = "succeeded" => row.res = "succeeded"
<1> DEFINE st == IF isOpen \/ row.st = "absent" THEN Outcome(intr) ELSE row.st
           end == row.verdict = "none" \/ row.res \in Active \cup {"discovering"}
           res == IF end THEN Outcome(intr) ELSE row.res
           verdict == IF ~end THEN row.verdict ELSE IF intr THEN "interrupted" ELSE "cancelled"
<1>1. Outcome(intr) \in {"failed", "cancelled"}
  BY DEF Outcome
<1>2. st \in JobState /\ res \in Active \cup Terminal \cup {"discovering"} /\ verdict \in Verdict
  BY <1>1 DEF Child, JobState, Terminal, Verdict
<1>3. Reconciled(row, isOpen, intr) = [row EXCEPT !.st = st, !.res = res, !.verdict = verdict]
  BY DEF Reconciled
<1>4. res = "succeeded" => row.res = "succeeded"
  BY <1>1
<1> HIDE DEF st, res, verdict
<1>5. /\ [row EXCEPT !.st = st, !.res = res, !.verdict = verdict] \in Child
      /\ [row EXCEPT !.st = st, !.res = res, !.verdict = verdict].st = st
      /\ [row EXCEPT !.st = st, !.res = res, !.verdict = verdict].res = res
  BY <1>2 DEF Child
<1> QED BY <1>3, <1>4, <1>5 DEF st

\* What a reconciliation commits.
LEMMA ReconcileFacts ==
  ASSUME NEW ch \in [Children -> Child], NEW open, NEW intr \in BOOLEAN,
         Reconcile(ch, open, intr)
  PROVE  /\ child' \in [Children -> Child]
         /\ run' \in {"succeeded", "failed"}
         /\ \A c \in Children :
               /\ child'[c].st = "succeeded" => ch[c].st = "succeeded"
               /\ child'[c].res = "succeeded" => ch[c].res = "succeeded"
               /\ child'[c].st = "absent" => ch[c].st = "absent"
               /\ c \notin open /\ ch[c].st # "absent" => child'[c].st = ch[c].st
<1>1. PICK f \in ByAddress(ch) :
         /\ child' = [c \in Children |->
               IF c \in {f[a] : a \in Addresses} THEN Reconciled(ch[c], c \in open, intr)
                                                 ELSE ch[c]]
         /\ run' = RunStatus(child')
  BY DEF Reconcile
<1>2. ASSUME NEW c \in Children
      PROVE  /\ child'[c] \in Child
             /\ child'[c].st = "succeeded" => ch[c].st = "succeeded"
             /\ child'[c].res = "succeeded" => ch[c].res = "succeeded"
             /\ child'[c].st = "absent" => ch[c].st = "absent"
             /\ c \notin open /\ ch[c].st # "absent" => child'[c].st = ch[c].st
  <2>1. child'[c] = ch[c] \/ child'[c] = Reconciled(ch[c], c \in open, intr)
    BY <1>1
  <2>2. ch[c] \in Child /\ (c \in open) \in BOOLEAN
    OBVIOUS
  <2>3. Outcome(intr) \in {"failed", "cancelled"}
    BY DEF Outcome
  <2>4. CASE child'[c] = ch[c]
    BY <2>2, <2>4
  <2>5. CASE child'[c] = Reconciled(ch[c], c \in open, intr)
    <3> DEFINE isOpen == c \in open
    <3>1. /\ Reconciled(ch[c], isOpen, intr) \in Child
          /\ Reconciled(ch[c], isOpen, intr).st =
               IF isOpen \/ ch[c].st = "absent" THEN Outcome(intr) ELSE ch[c].st
          /\ Reconciled(ch[c], isOpen, intr).res = "succeeded" => ch[c].res = "succeeded"
      <4>1. isOpen \in BOOLEAN
        OBVIOUS
      <4> HIDE DEF isOpen
      <4> QED BY <2>2, <4>1, ReconciledFacts
    <3>2. child'[c] = Reconciled(ch[c], isOpen, intr)
      BY <2>5
    <3> QED BY <3>1, <3>2, <2>3
  <2> QED BY <2>1, <2>4, <2>5
<1>3. run' \in {"succeeded", "failed"}
  BY <1>1 DEF RunStatus
<1>4. child' = [c \in Children |-> child'[c]]
  BY <1>1
<1> QED BY <1>2, <1>3, <1>4

\* Nobody succeeds and nobody disappears between the table and the rows ch.
RowsKept(ch) == \A c \in Children :
                   /\ ch[c].st = "succeeded" => child[c].st = "succeeded"
                   /\ ch[c].st = "absent" => child[c].st = "absent"

LEMMA TreeRowsFacts ==
  ASSUME TypeOK, NEW t, t.cancel \in BOOLEAN
  PROVE  /\ TreeRows(t) \in [Children -> Child]
         /\ RowsKept(TreeRows(t))
<1>1. ASSUME NEW c \in Children
      PROVE  /\ TreeRows(t)[c] \in Child
             /\ TreeRows(t)[c].st = "succeeded" => child[c].st = "succeeded"
             /\ TreeRows(t)[c].st = "absent" => child[c].st = "absent"
  <2>1. child[c] \in Child
    BY DEF TypeOK
  <2>2. Outcome(~ t.cancel) \in {"failed", "cancelled"}
    BY DEF Outcome
  <2>3. /\ [child[c] EXCEPT !.st = Outcome(~ t.cancel)] \in Child
        /\ [child[c] EXCEPT !.st = Outcome(~ t.cancel)].st = Outcome(~ t.cancel)
    BY <2>1, <2>2 DEF Child, JobState, Terminal
  <2> QED BY <2>1, <2>2, <2>3 DEF TreeRows
<1>2. TreeRows(t) = [c \in Children |-> TreeRows(t)[c]]
  BY DEF TreeRows
<1> QED BY <1>1, <1>2 DEF RowsKept

ParentRow == [st : JobState, cancel : BOOLEAN]

\* A tree is ended only while its parent runs, and never as a success.
LEMMA EndTreeFacts ==
  ASSUME TypeOK, NEW t, t.cancel \in BOOLEAN, EndTree(t)
  PROVE  /\ parent.st = "running" /\ parent' \in ParentRow
         /\ parent'.st \in {"failed", "cancelled"}
         /\ child' \in [Children -> Child] /\ run' \in {"started", "succeeded", "failed"}
         /\ RowsKept(child')
<1>1. Outcome(~ t.cancel) \in {"failed", "cancelled"} /\ (~ t.cancel) \in BOOLEAN
  BY DEF Outcome
<1>2. parent.st = "running" /\ parent' \in ParentRow /\ parent'.st \in {"failed", "cancelled"}
  BY <1>1 DEF EndTree, TreeApplies, TypeOK, ParentRow, JobState, Terminal
<1>3. Reconcile(TreeRows(t), ActiveIn(TreeRows(t)), ~ t.cancel)
  BY DEF EndTree
<1> DEFINE ch == TreeRows(t)
           intr == ~ t.cancel
<1>4. ch \in [Children -> Child] /\ RowsKept(ch) /\ intr \in BOOLEAN
  BY <1>1, TreeRowsFacts
<1>5. Reconcile(ch, ActiveIn(ch), intr)
  BY <1>3
<1> HIDE DEF ch, intr
<1>6. /\ child' \in [Children -> Child] /\ run' \in {"succeeded", "failed"}
      /\ \A c \in Children : /\ child'[c].st = "succeeded" => ch[c].st = "succeeded"
                             /\ child'[c].st = "absent" => ch[c].st = "absent"
  BY <1>4, <1>5, ReconcileFacts
<1> QED BY <1>2, <1>4, <1>6 DEF RowsKept

\* Reconciling the table as it is, or with rows ended in it.
LEMMA ReconcileKeeps ==
  ASSUME NEW ch \in [Children -> Child], RowsKept(ch), NEW open, NEW intr \in BOOLEAN,
         Reconcile(ch, open, intr)
  PROVE  /\ child' \in [Children -> Child] /\ run' \in {"started", "succeeded", "failed"}
         /\ RowsKept(child')
BY ReconcileFacts DEF RowsKept

LEMMA AbandonFacts ==
  ASSUME TypeOK, Abandon
  PROVE  \/ UNCHANGED table
         \/ /\ parent.st = "running" /\ parent' \in ParentRow
            /\ parent'.st \in {"failed", "cancelled"}
            /\ child' \in [Children -> Child] /\ run' \in {"started", "succeeded", "failed"}
            /\ RowsKept(child')
<1>1. ReadTree.cancel \in BOOLEAN
  BY DEF ReadTree, TypeOK
<1> QED BY <1>1, EndTreeFacts DEF Abandon

-----------------------------------------------------------------------------
(* Every step keeps the invariant                                          *)

\* A step that ends the parent without success and neither revives nor removes
\* a child keeps what the invariant says beyond the types.
LEMMA TreeEnds ==
  ASSUME Inv, RowsKept(child'), parent'.st \in {"failed", "cancelled"},
         pc' \in {pc, "close", "done"}, UNCHANGED <<cpc, stale>>
  PROVE  /\ SuccessIsBacked' /\ ResultsAreTrue' /\ StaleIsOver'
         /\ SuccessIsLate' /\ StartedExist'
<1>1. Own \subseteq Children
  BY DEF Own, Children
<1>2. SuccessIsBacked' /\ ResultsAreTrue' /\ SuccessIsLate'
  BY DEF SuccessIsBacked, ResultsAreTrue, SuccessIsLate, Terminal
<1>3. StaleIsOver'
  BY <1>1 DEF Inv, StaleIsOver, RowsKept
<1>4. StartedExist'
  BY <1>1 DEF Inv, StartedExist, RowsKept
<1> QED BY <1>2, <1>3, <1>4

\* A row that may replace the row of c: it exists, reports a success only if it
\* has one, and keeps the one c has.
RowFits(c, row) ==
    /\ row \in Child /\ row.st # "absent"
    /\ parent.st \notin Terminal /\ row.res = "succeeded" => row.st = "succeeded"
    /\ child[c].st = "succeeded" => row.st = "succeeded"

LEMMA RowChanges ==
  ASSUME Inv, NEW c \in Children, NEW row, RowFits(c, row),
         child' = [child EXCEPT ![c] = row], UNCHANGED parent
  PROVE  /\ child' \in [Children -> Child]
         /\ child'[c] = row /\ \A d \in Children \ {c} : child'[d] = child[d]
         /\ SuccessIsBacked' /\ ResultsAreTrue'
         /\ \A d \in Children : child[d].st # "absent" => child'[d].st # "absent"
<1>1. child \in [Children -> Child]
  BY DEF Inv, TypeOK
<1>2. child' \in [Children -> Child]
  BY <1>1 DEF RowFits
<1>3. child'[c] = row /\ \A d \in Children \ {c} : child'[d] = child[d]
  BY <1>1
<1>4. SuccessIsBacked'
  BY <1>3 DEF Inv, SuccessIsBacked, RowFits
<1>5. ResultsAreTrue'
  BY <1>3 DEF Inv, ResultsAreTrue, RowFits
<1> QED BY <1>2, <1>3, <1>4, <1>5 DEF RowFits

LEMMA SameRow ==
  ASSUME Inv, NEW c \in Children, child[c].st # "absent", UNCHANGED child
  PROVE  RowFits(c, child[c]) /\ child' = [child EXCEPT ![c] = child[c]]
<1>1. child \in [Children -> Child]
  BY DEF Inv, TypeOK
<1>2. child' = [child EXCEPT ![c] = child[c]]
  BY <1>1
<1> QED BY <1>1, <1>2 DEF Inv, ResultsAreTrue, RowFits

LEMMA SubmitStep ==
  ASSUME Inv, Submit
  PROVE  Inv'
<1> USE DEF Submit, worker
<1>0. TypeOK
  BY DEF Inv
<1>1. TypeOK'
  <2>1. parent' \in [st : JobState, cancel : BOOLEAN]
    BY <1>0 DEF TypeOK, JobState, Active, Terminal
  <2>2. child' \in [Children -> Child]
    BY <1>0 DEF TypeOK, Child, JobState, Active, Terminal, Verdict
  <2>3. run' \in {"started", "succeeded", "failed"}
    BY <1>0 DEF TypeOK
  <2>4. good' \subseteq Children \cup {Root} /\ stale' \subseteq Children
    BY <1>0 DEF TypeOK, Children, Own
  <2>5. pc' \in PC /\ cpc' \in [Own -> CPC]
    BY <1>0 DEF TypeOK, PC, CPC
  <2> QED
    BY <1>0, <2>1, <2>2, <2>3, <2>4, <2>5, BoundAssumption DEF TypeOK
<1>2. SuccessIsBacked'
  BY <1>0 DEF Inv, SuccessIsBacked, TypeOK, Child
<1>3. ResultsAreTrue'
  BY <1>0 DEF Inv, ResultsAreTrue, TypeOK, Terminal, JobState
<1>4. StaleIsOver'
  BY <1>0 DEF Inv, StaleIsOver, TypeOK, Child
<1>5. SuccessIsLate'
  BY <1>0 DEF Inv, SuccessIsLate, TypeOK
<1>6. StartedExist'
  BY <1>0 DEF Inv, StartedExist, TypeOK
<1> QED BY <1>1, <1>2, <1>3, <1>4, <1>5, <1>6 DEF Inv

LEMMA CancelParentStep ==
  ASSUME Inv, CancelParent
  PROVE  Inv'
<1> USE DEF CancelParent, worker
<1>0. TypeOK
  BY DEF Inv
<1> DEFINE Kept == /\ parent' \in ParentRow /\ child' \in [Children -> Child]
                   /\ run' \in {"started", "succeeded", "failed"}
                   /\ SuccessIsBacked' /\ ResultsAreTrue' /\ StaleIsOver'
                   /\ SuccessIsLate' /\ StartedExist'
<1>a. parent.st = "queued" => Kept
  <2> HAVE parent.st = "queued"
  <2>1. child \in [Children -> Child] /\ RowsKept(child)
    BY <1>0 DEF TypeOK, RowsKept
  <2>2. /\ parent' = [st |-> "cancelled", cancel |-> TRUE]
        /\ Reconcile(child, ActiveIn(child), FALSE)
        /\ UNCHANGED <<pc, cpc, stale>>
    OBVIOUS
  <2>3. parent' \in ParentRow /\ parent'.st \in {"failed", "cancelled"}
    BY <2>2 DEF ParentRow, JobState, Terminal
  <2>4. /\ child' \in [Children -> Child] /\ run' \in {"started", "succeeded", "failed"}
        /\ RowsKept(child')
    BY <2>1, <2>2, ReconcileKeeps
  <2>5. /\ SuccessIsBacked' /\ ResultsAreTrue' /\ StaleIsOver'
        /\ SuccessIsLate' /\ StartedExist'
    BY <2>2, <2>3, <2>4, TreeEnds
  <2> QED BY <2>3, <2>4, <2>5
<1>b. parent.st # "queued" => Kept
  <2> HAVE parent.st # "queued"
  <2>1. /\ parent.st = "running" /\ parent' = [parent EXCEPT !.cancel = TRUE]
        /\ UNCHANGED <<child, run, pc, cpc, stale>>
    OBVIOUS
  <2>2. parent' \in ParentRow /\ parent'.st = "running"
    BY <1>0, <2>1 DEF TypeOK, ParentRow
  <2>3. child' \in [Children -> Child] /\ run' \in {"started", "succeeded", "failed"}
    BY <1>0, <2>1 DEF TypeOK
  <2>4. SuccessIsBacked' /\ ResultsAreTrue' /\ SuccessIsLate'
    BY <2>1, <2>2 DEF Inv, SuccessIsBacked, ResultsAreTrue, SuccessIsLate, Terminal
  <2>5. StaleIsOver' /\ StartedExist'
    BY <2>1 DEF Inv, StaleIsOver, StartedExist
  <2> QED BY <2>2, <2>3, <2>4, <2>5
<1>d. Kept
  BY <1>a, <1>b
<1>1. TypeOK'
  <2>1. parent' \in [st : JobState, cancel : BOOLEAN]
    BY <1>d DEF ParentRow
  <2>2. child' \in [Children -> Child]
    BY <1>d
  <2>3. run' \in {"started", "succeeded", "failed"}
    BY <1>d
  <2>4. good' \subseteq Children \cup {Root} /\ stale' \subseteq Children
    BY <1>0 DEF TypeOK, Children, Own
  <2>5. pc' \in PC /\ cpc' \in [Own -> CPC]
    BY <1>0 DEF TypeOK, PC, CPC
  <2> QED
    BY <1>0, <2>1, <2>2, <2>3, <2>4, <2>5, BoundAssumption DEF TypeOK
<1>2. SuccessIsBacked'
  BY <1>d
<1>3. ResultsAreTrue'
  BY <1>d
<1>4. StaleIsOver'
  BY <1>d
<1>5. SuccessIsLate'
  BY <1>d
<1>6. StartedExist'
  BY <1>d
<1> QED BY <1>1, <1>2, <1>3, <1>4, <1>5, <1>6 DEF Inv

LEMMA ResolveParentStep ==
  ASSUME Inv, ResolveParent
  PROVE  Inv'
<1> USE DEF ResolveParent, worker
<1>0. TypeOK
  BY DEF Inv
<1>a. \/ UNCHANGED table
      \/ /\ parent' \in ParentRow /\ parent'.st \in {"failed", "cancelled"}
         /\ child' \in [Children -> Child] /\ run' \in {"started", "succeeded", "failed"}
         /\ RowsKept(child')
  <2> DEFINE rows == [c \in Children |-> IF child[c].st = "running"
                        THEN [child[c] EXCEPT !.st = "cancelled"] ELSE child[c]]
  <2>1. ASSUME NEW c \in Children
        PROVE  /\ rows[c] \in Child
               /\ rows[c].st = "succeeded" => child[c].st = "succeeded"
               /\ rows[c].st = "absent" => child[c].st = "absent"
    <3>1. child[c] \in Child
      BY <1>0 DEF TypeOK
    <3>2. [child[c] EXCEPT !.st = "cancelled"] \in Child /\ [child[c] EXCEPT !.st = "cancelled"].st = "cancelled"
      BY <3>1 DEF Child, JobState, Terminal
    <3> QED BY <3>1, <3>2
  <2>2. rows \in [Children -> Child] /\ RowsKept(rows)
    BY <2>1 DEF RowsKept
  <2>3. parent' = [parent EXCEPT !.st = "cancelled"] /\ Reconcile(rows, ActiveIn(rows), FALSE)
    OBVIOUS
  <2>4. parent' \in ParentRow /\ parent'.st \in {"failed", "cancelled"}
    BY <1>0, <2>3 DEF TypeOK, ParentRow, JobState, Terminal
  <2> HIDE DEF rows
  <2> QED BY <2>2, <2>3, <2>4, ReconcileKeeps
<1>b. /\ parent' \in ParentRow /\ child' \in [Children -> Child]
      /\ run' \in {"started", "succeeded", "failed"}
  BY <1>0, <1>a DEF TypeOK, ParentRow, table
<1>c. /\ SuccessIsBacked' /\ ResultsAreTrue' /\ StaleIsOver'
      /\ SuccessIsLate' /\ StartedExist'
  <2>1. pc' \in {pc, "close", "done"} /\ UNCHANGED <<cpc, stale>>
    OBVIOUS
  <2>2. CASE UNCHANGED table
    <3>1. SuccessIsBacked' /\ ResultsAreTrue'
      BY <2>2 DEF Inv, SuccessIsBacked, ResultsAreTrue, table
    <3>2. StaleIsOver'
      BY <2>1, <2>2 DEF Inv, StaleIsOver, table
    <3>3. SuccessIsLate' /\ StartedExist'
      BY <2>1, <2>2 DEF Inv, SuccessIsLate, StartedExist, table
    <3> QED BY <3>1, <3>2, <3>3
  <2>3. CASE parent'.st \in {"failed", "cancelled"} /\ RowsKept(child')
    BY <2>1, <2>3, TreeEnds
  <2> QED BY <1>a, <2>2, <2>3
<1>1. TypeOK'
  <2>1. parent' \in [st : JobState, cancel : BOOLEAN]
    BY <1>b DEF ParentRow
  <2>2. child' \in [Children -> Child]
    BY <1>b
  <2>3. run' \in {"started", "succeeded", "failed"}
    BY <1>b
  <2>4. good' \subseteq Children \cup {Root} /\ stale' \subseteq Children
    BY <1>0 DEF TypeOK, Children, Own
  <2>5. pc' \in PC /\ cpc' \in [Own -> CPC]
    BY <1>0 DEF TypeOK, PC, CPC
  <2> QED
    BY <1>0, <2>1, <2>2, <2>3, <2>4, <2>5, BoundAssumption DEF TypeOK
<1>2. SuccessIsBacked'
  BY <1>c
<1>3. ResultsAreTrue'
  BY <1>c
<1>4. StaleIsOver'
  BY <1>c
<1>5. SuccessIsLate'
  BY <1>c
<1>6. StartedExist'
  BY <1>c
<1> QED BY <1>1, <1>2, <1>3, <1>4, <1>5, <1>6 DEF Inv

LEMMA CancelChildStep ==
  ASSUME Inv, NEW c \in Children, CancelChild(c)
  PROVE  Inv'
<1> USE DEF CancelChild, worker
<1>0. TypeOK
  BY DEF Inv
<1>a. c \in Children /\ Own \subseteq Children
  BY DEF Own, Children
<1>b. PICK row : RowFits(c, row) /\ child' = [child EXCEPT ![c] = row]
  <2>1. child[c] \in Child
    BY <1>0, <1>a DEF TypeOK
  <2> DEFINE row == [child[c] EXCEPT !.cancel = TRUE,
                                !.st = IF @ = "queued" THEN "cancelled" ELSE @]
  <2>2. row \in Child /\ row.st \in {"cancelled", "running"} /\ row.res = child[c].res
    BY <2>1 DEF Child, JobState, Active, Terminal
  <2>3. RowFits(c, row)
    BY <1>a, <2>1, <2>2 DEF RowFits, Inv, ResultsAreTrue, Active
  <2>4. child' = [child EXCEPT ![c] = row]
    BY <1>0, <1>a DEF TypeOK
  <2> HIDE DEF row
  <2> QED BY <2>3, <2>4
<1>c. /\ child' \in [Children -> Child]
      /\ child'[c] = row /\ \A d \in Children \ {c} : child'[d] = child[d]
      /\ SuccessIsBacked' /\ ResultsAreTrue'
      /\ \A d \in Children : child[d].st # "absent" => child'[d].st # "absent"
  <2>1. UNCHANGED parent
    OBVIOUS
  <2> QED BY <1>a, <1>b, <2>1, RowChanges
<1>d. child'[c].st # "succeeded"
  BY <1>0, <1>a DEF TypeOK, Child, Active
<1>1. TypeOK'
  <2>1. parent' \in [st : JobState, cancel : BOOLEAN]
    BY <1>0 DEF TypeOK, JobState, Active, Terminal
  <2>2. child' \in [Children -> Child]
    BY <1>c
  <2>3. run' \in {"started", "succeeded", "failed"}
    BY <1>0 DEF TypeOK
  <2>4. good' \subseteq Children \cup {Root} /\ stale' \subseteq Children
    BY <1>0 DEF TypeOK, Children, Own
  <2>5. pc' \in PC /\ cpc' \in [Own -> CPC]
    BY <1>0 DEF TypeOK, PC, CPC
  <2> QED
    BY <1>0, <2>1, <2>2, <2>3, <2>4, <2>5, BoundAssumption DEF TypeOK
<1>2. SuccessIsBacked'
  BY <1>c
<1>3. ResultsAreTrue'
  BY <1>c
<1>4. StaleIsOver'
  BY <1>0, <1>a, <1>c, <1>d DEF Inv, StaleIsOver, TypeOK
<1>5. SuccessIsLate'
  BY <1>0 DEF Inv, SuccessIsLate, TypeOK
<1>6. StartedExist'
  BY <1>0, <1>a, <1>c DEF Inv, StartedExist, TypeOK
<1> QED BY <1>1, <1>2, <1>3, <1>4, <1>5, <1>6 DEF Inv

LEMMA ResolveChildStep ==
  ASSUME Inv, NEW c \in Children, ResolveChild(c)
  PROVE  Inv'
<1> USE DEF ResolveChild, worker
<1>0. TypeOK
  BY DEF Inv
<1>1. TypeOK'
  <2>1. parent' \in [st : JobState, cancel : BOOLEAN]
    BY <1>0 DEF TypeOK, JobState, Active, Terminal
  <2>2. child' \in [Children -> Child]
    BY <1>0 DEF TypeOK, Child, JobState, Active, Terminal, Verdict
  <2>3. run' \in {"started", "succeeded", "failed"}
    BY <1>0 DEF TypeOK
  <2>4. good' \subseteq Children \cup {Root} /\ stale' \subseteq Children
    BY <1>0 DEF TypeOK, Children, Own
  <2>5. pc' \in PC /\ cpc' \in [Own -> CPC]
    BY <1>0 DEF TypeOK, PC, CPC
  <2> QED
    BY <1>0, <2>1, <2>2, <2>3, <2>4, <2>5, BoundAssumption DEF TypeOK
<1>2. SuccessIsBacked'
  BY <1>0 DEF Inv, SuccessIsBacked, TypeOK, Child
<1>3. ResultsAreTrue'
  BY <1>0 DEF Inv, ResultsAreTrue, TypeOK, Child
<1>4. StaleIsOver'
  BY <1>0 DEF Inv, StaleIsOver, TypeOK, Child
<1>5. SuccessIsLate'
  BY <1>0 DEF Inv, SuccessIsLate, TypeOK
<1>6. StartedExist'
  BY <1>0 DEF Inv, StartedExist, TypeOK
<1> QED BY <1>1, <1>2, <1>3, <1>4, <1>5, <1>6 DEF Inv

LEMMA ForeignStartsStep ==
  ASSUME Inv, NEW a \in Addresses, ForeignStarts(a)
  PROVE  Inv'
<1> USE DEF ForeignStarts, Fault, table, worker
<1>0. TypeOK
  BY DEF Inv
<1>1. TypeOK'
  <2>1. parent' \in [st : JobState, cancel : BOOLEAN]
    BY <1>0 DEF TypeOK, JobState, Active, Terminal
  <2>2. child' \in [Children -> Child]
    BY <1>0 DEF TypeOK, Child, JobState, Active, Terminal, Verdict
  <2>3. run' \in {"started", "succeeded", "failed"}
    BY <1>0 DEF TypeOK
  <2>4. good' \subseteq Children \cup {Root} /\ stale' \subseteq Children
    BY <1>0 DEF TypeOK, Children, Own
  <2>5. pc' \in PC /\ cpc' \in [Own -> CPC]
    BY <1>0 DEF TypeOK, PC, CPC
  <2> QED
    BY <1>0, <2>1, <2>2, <2>3, <2>4, <2>5, BoundAssumption DEF TypeOK
<1>2. SuccessIsBacked'
  BY <1>0 DEF Inv, SuccessIsBacked, TypeOK, Child
<1>3. ResultsAreTrue'
  BY <1>0 DEF Inv, ResultsAreTrue, TypeOK, Child
<1>4. StaleIsOver'
  BY <1>0 DEF Inv, StaleIsOver, TypeOK, Child
<1>5. SuccessIsLate'
  BY <1>0 DEF Inv, SuccessIsLate, TypeOK
<1>6. StartedExist'
  BY <1>0 DEF Inv, StartedExist, TypeOK
<1> QED BY <1>1, <1>2, <1>3, <1>4, <1>5, <1>6 DEF Inv

LEMMA ForeignEndsStep ==
  ASSUME Inv, NEW a \in Addresses, ForeignEnds(a)
  PROVE  Inv'
<1> USE DEF ForeignEnds, table, worker
<1>0. TypeOK
  BY DEF Inv
<1>1. TypeOK'
  <2>1. parent' \in [st : JobState, cancel : BOOLEAN]
    BY <1>0 DEF TypeOK, JobState, Active, Terminal
  <2>2. child' \in [Children -> Child]
    BY <1>0 DEF TypeOK, Child, JobState, Active, Terminal, Verdict
  <2>3. run' \in {"started", "succeeded", "failed"}
    BY <1>0 DEF TypeOK
  <2>4. good' \subseteq Children \cup {Root} /\ stale' \subseteq Children
    BY <1>0 DEF TypeOK, Children, Own
  <2>5. pc' \in PC /\ cpc' \in [Own -> CPC]
    BY <1>0 DEF TypeOK, PC, CPC
  <2> QED
    BY <1>0, <2>1, <2>2, <2>3, <2>4, <2>5, BoundAssumption DEF TypeOK
<1>2. SuccessIsBacked'
  BY <1>0 DEF Inv, SuccessIsBacked, TypeOK, Child
<1>3. ResultsAreTrue'
  BY <1>0 DEF Inv, ResultsAreTrue, TypeOK, Child
<1>4. StaleIsOver'
  BY <1>0 DEF Inv, StaleIsOver, TypeOK, Child
<1>5. SuccessIsLate'
  BY <1>0 DEF Inv, SuccessIsLate, TypeOK
<1>6. StartedExist'
  BY <1>0 DEF Inv, StartedExist, TypeOK
<1> QED BY <1>1, <1>2, <1>3, <1>4, <1>5, <1>6 DEF Inv

LEMMA HeartbeatStep ==
  ASSUME Inv, Heartbeat
  PROVE  Inv'
<1> USE DEF Heartbeat, Renewed, Beating, table
<1>0. TypeOK
  BY DEF Inv
<1>1. TypeOK'
  <2>1. parent' \in [st : JobState, cancel : BOOLEAN]
    BY <1>0 DEF TypeOK, JobState, Active, Terminal
  <2>2. child' \in [Children -> Child]
    BY <1>0 DEF TypeOK, Child, JobState, Active, Terminal, Verdict
  <2>3. run' \in {"started", "succeeded", "failed"}
    BY <1>0 DEF TypeOK
  <2>4. good' \subseteq Children \cup {Root} /\ stale' \subseteq Children
    BY <1>0 DEF TypeOK, Children, Own
  <2>5. pc' \in PC /\ cpc' \in [Own -> CPC]
    BY <1>0 DEF TypeOK, PC, CPC
  <2> QED
    BY <1>0, <2>1, <2>2, <2>3, <2>4, <2>5, BoundAssumption DEF TypeOK
<1>2. SuccessIsBacked'
  BY <1>0 DEF Inv, SuccessIsBacked, TypeOK, Child
<1>3. ResultsAreTrue'
  BY <1>0 DEF Inv, ResultsAreTrue, TypeOK, Child
<1>4. StaleIsOver'
  BY <1>0 DEF Inv, StaleIsOver, TypeOK, Child
<1>5. SuccessIsLate'
  BY <1>0 DEF Inv, SuccessIsLate, TypeOK
<1>6. StartedExist'
  BY <1>0 DEF Inv, StartedExist, TypeOK
<1> QED BY <1>1, <1>2, <1>3, <1>4, <1>5, <1>6 DEF Inv

LEMMA HeartbeatErrorStep ==
  ASSUME Inv, HeartbeatError
  PROVE  Inv'
<1> USE DEF HeartbeatError, Fault, Abandon, Beating, table
<1>0. TypeOK
  BY DEF Inv
<1>a. \/ UNCHANGED table
      \/ /\ parent' \in ParentRow /\ parent'.st \in {"failed", "cancelled"}
         /\ child' \in [Children -> Child] /\ run' \in {"started", "succeeded", "failed"}
         /\ RowsKept(child')
  <2>1. Abandon
    OBVIOUS
  <2> HIDE DEF Abandon
  <2> QED BY <1>0, <2>1, AbandonFacts
<1>b. /\ parent' \in ParentRow /\ child' \in [Children -> Child]
      /\ run' \in {"started", "succeeded", "failed"}
  BY <1>0, <1>a DEF TypeOK, ParentRow, table
<1>c. /\ SuccessIsBacked' /\ ResultsAreTrue' /\ StaleIsOver'
      /\ SuccessIsLate' /\ StartedExist'
  <2>1. pc' \in {pc, "close", "done"} /\ UNCHANGED <<cpc, stale>>
    OBVIOUS
  <2>2. CASE UNCHANGED table
    <3>1. SuccessIsBacked' /\ ResultsAreTrue'
      BY <2>2 DEF Inv, SuccessIsBacked, ResultsAreTrue, table
    <3>2. StaleIsOver'
      BY <2>1, <2>2 DEF Inv, StaleIsOver, table
    <3>3. SuccessIsLate' /\ StartedExist'
      BY <2>1, <2>2 DEF Inv, SuccessIsLate, StartedExist, table
    <3> QED BY <3>1, <3>2, <3>3
  <2>3. CASE parent'.st \in {"failed", "cancelled"} /\ RowsKept(child')
    BY <2>1, <2>3, TreeEnds
  <2> QED BY <1>a, <2>2, <2>3
<1>1. TypeOK'
  <2>1. parent' \in [st : JobState, cancel : BOOLEAN]
    BY <1>b DEF ParentRow
  <2>2. child' \in [Children -> Child]
    BY <1>b
  <2>3. run' \in {"started", "succeeded", "failed"}
    BY <1>b
  <2>4. good' \subseteq Children \cup {Root} /\ stale' \subseteq Children
    BY <1>0 DEF TypeOK, Children, Own
  <2>5. pc' \in PC /\ cpc' \in [Own -> CPC]
    BY <1>0 DEF TypeOK, PC, CPC
  <2> QED
    BY <1>0, <2>1, <2>2, <2>3, <2>4, <2>5, BoundAssumption DEF TypeOK
<1>2. SuccessIsBacked'
  BY <1>c
<1>3. ResultsAreTrue'
  BY <1>c
<1>4. StaleIsOver'
  BY <1>c
<1>5. SuccessIsLate'
  BY <1>c
<1>6. StartedExist'
  BY <1>c
<1> QED BY <1>1, <1>2, <1>3, <1>4, <1>5, <1>6 DEF Inv

LEMMA StopStep ==
  ASSUME Inv, Stop
  PROVE  Inv'
<1> USE DEF Stop, Fault, table
<1>0. TypeOK
  BY DEF Inv
<1>1. TypeOK'
  <2>1. parent' \in [st : JobState, cancel : BOOLEAN]
    BY <1>0 DEF TypeOK, JobState, Active, Terminal
  <2>2. child' \in [Children -> Child]
    BY <1>0 DEF TypeOK, Child, JobState, Active, Terminal, Verdict
  <2>3. run' \in {"started", "succeeded", "failed"}
    BY <1>0 DEF TypeOK
  <2>4. good' \subseteq Children \cup {Root} /\ stale' \subseteq Children
    BY <1>0 DEF TypeOK, Children, Own
  <2>5. pc' \in PC /\ cpc' \in [Own -> CPC]
    BY <1>0 DEF TypeOK, PC, CPC
  <2> QED
    BY <1>0, <2>1, <2>2, <2>3, <2>4, <2>5, BoundAssumption DEF TypeOK
<1>2. SuccessIsBacked'
  BY <1>0 DEF Inv, SuccessIsBacked, TypeOK, Child
<1>3. ResultsAreTrue'
  BY <1>0 DEF Inv, ResultsAreTrue, TypeOK, Child
<1>4. StaleIsOver'
  BY <1>0 DEF Inv, StaleIsOver, TypeOK, Child
<1>5. SuccessIsLate'
  BY <1>0 DEF Inv, SuccessIsLate, TypeOK
<1>6. StartedExist'
  BY <1>0 DEF Inv, StartedExist, TypeOK
<1> QED BY <1>1, <1>2, <1>3, <1>4, <1>5, <1>6 DEF Inv

LEMMA CrashStep ==
  ASSUME Inv, Crash
  PROVE  Inv'
<1> USE DEF Crash, Fault, table
<1>0. TypeOK
  BY DEF Inv
<1>1. TypeOK'
  <2>1. parent' \in [st : JobState, cancel : BOOLEAN]
    BY <1>0 DEF TypeOK, JobState, Active, Terminal
  <2>2. child' \in [Children -> Child]
    BY <1>0 DEF TypeOK, Child, JobState, Active, Terminal, Verdict
  <2>3. run' \in {"started", "succeeded", "failed"}
    BY <1>0 DEF TypeOK
  <2>4. good' \subseteq Children \cup {Root} /\ stale' \subseteq Children
    BY <1>0 DEF TypeOK, Children, Own
  <2>5. pc' \in PC /\ cpc' \in [Own -> CPC]
    BY <1>0 DEF TypeOK, PC, CPC
  <2> QED
    <3>1. alive' \in BOOLEAN /\ stopping' \in BOOLEAN /\ lost' \in BOOLEAN
      BY <1>0 DEF TypeOK
    <3>2. busy' \subseteq Addresses /\ faults' \in 0 .. MaxFaults
      BY <1>0, BoundAssumption DEF TypeOK
    <3>3. rival' \in {NULL} \cup [cancel : BOOLEAN, queued : SUBSET Children,
                                  running : SUBSET Children]
      BY <1>0 DEF TypeOK
    <3> QED BY <2>1, <2>2, <2>3, <2>4, <2>5, <3>1, <3>2, <3>3 DEF TypeOK
<1>2. SuccessIsBacked'
  BY <1>0 DEF Inv, SuccessIsBacked, TypeOK, Child
<1>3. ResultsAreTrue'
  BY <1>0 DEF Inv, ResultsAreTrue, TypeOK, Child
<1>4. StaleIsOver'
  BY <1>0 DEF Inv, StaleIsOver, TypeOK, Child
<1>5. SuccessIsLate'
  BY <1>0 DEF Inv, SuccessIsLate, TypeOK
<1>6. StartedExist'
  BY <1>0 DEF Inv, StartedExist, TypeOK
<1> QED BY <1>1, <1>2, <1>3, <1>4, <1>5, <1>6 DEF Inv

LEMMA LeaseExpiresStep ==
  ASSUME Inv, LeaseExpires
  PROVE  Inv'
<1> USE DEF LeaseExpires, Fault, NoFault, Unrenewed, table, worker
<1>0. TypeOK
  BY DEF Inv
<1>1. TypeOK'
  <2>1. parent' \in [st : JobState, cancel : BOOLEAN]
    BY <1>0 DEF TypeOK, JobState, Active, Terminal
  <2>2. child' \in [Children -> Child]
    BY <1>0 DEF TypeOK, Child, JobState, Active, Terminal, Verdict
  <2>3. run' \in {"started", "succeeded", "failed"}
    BY <1>0 DEF TypeOK
  <2>4. good' \subseteq Children \cup {Root} /\ stale' \subseteq Children
    BY <1>0 DEF TypeOK, Children, Own
  <2>5. pc' \in PC /\ cpc' \in [Own -> CPC]
    BY <1>0 DEF TypeOK, PC, CPC
  <2> QED
    BY <1>0, <2>1, <2>2, <2>3, <2>4, <2>5, BoundAssumption DEF TypeOK
<1>2. SuccessIsBacked'
  BY <1>0 DEF Inv, SuccessIsBacked, TypeOK, Child
<1>3. ResultsAreTrue'
  BY <1>0 DEF Inv, ResultsAreTrue, TypeOK, Child
<1>4. StaleIsOver'
  BY <1>0 DEF Inv, StaleIsOver, TypeOK, Child
<1>5. SuccessIsLate'
  BY <1>0 DEF Inv, SuccessIsLate, TypeOK
<1>6. StartedExist'
  BY <1>0 DEF Inv, StartedExist, TypeOK
<1> QED BY <1>1, <1>2, <1>3, <1>4, <1>5, <1>6 DEF Inv

LEMMA ClaimStep ==
  ASSUME Inv, Claim
  PROVE  Inv'
<1> USE DEF Claim, Step, Idle
<1>0. TypeOK
  BY DEF Inv
<1>1. TypeOK'
  <2>1. parent' \in [st : JobState, cancel : BOOLEAN]
    BY <1>0 DEF TypeOK, JobState, Active, Terminal
  <2>2. child' \in [Children -> Child]
    BY <1>0 DEF TypeOK, Child, JobState, Active, Terminal, Verdict
  <2>3. run' \in {"started", "succeeded", "failed"}
    BY <1>0 DEF TypeOK
  <2>4. good' \subseteq Children \cup {Root} /\ stale' \subseteq Children
    BY <1>0 DEF TypeOK, Children, Own
  <2>5. pc' \in PC /\ cpc' \in [Own -> CPC]
    BY <1>0 DEF TypeOK, PC, CPC
  <2> QED
    BY <1>0, <2>1, <2>2, <2>3, <2>4, <2>5, BoundAssumption DEF TypeOK
<1>2. SuccessIsBacked'
  BY <1>0 DEF Inv, SuccessIsBacked, TypeOK, Child
<1>3. ResultsAreTrue'
  BY <1>0 DEF Inv, ResultsAreTrue, TypeOK, Terminal, JobState
<1>4. StaleIsOver'
  BY <1>0 DEF Inv, StaleIsOver, TypeOK, Child
<1>5. SuccessIsLate'
  BY <1>0 DEF Inv, SuccessIsLate, TypeOK
<1>6. StartedExist'
  BY <1>0 DEF Inv, StartedExist, TypeOK
<1> QED BY <1>1, <1>2, <1>3, <1>4, <1>5, <1>6 DEF Inv

LEMMA BeginStep ==
  ASSUME Inv, Begin
  PROVE  Inv'
<1> USE DEF Begin, Step, Idle, table
<1>0. TypeOK
  BY DEF Inv
<1>1. TypeOK'
  <2>1. parent' \in [st : JobState, cancel : BOOLEAN]
    BY <1>0 DEF TypeOK, JobState, Active, Terminal
  <2>2. child' \in [Children -> Child]
    BY <1>0 DEF TypeOK, Child, JobState, Active, Terminal, Verdict
  <2>3. run' \in {"started", "succeeded", "failed"}
    BY <1>0 DEF TypeOK
  <2>4. good' \subseteq Children \cup {Root} /\ stale' \subseteq Children
    BY <1>0 DEF TypeOK, Children, Own
  <2>5. pc' \in PC /\ cpc' \in [Own -> CPC]
    BY <1>0 DEF TypeOK, PC, CPC
  <2> QED
    BY <1>0, <2>1, <2>2, <2>3, <2>4, <2>5, BoundAssumption DEF TypeOK
<1>2. SuccessIsBacked'
  BY <1>0 DEF Inv, SuccessIsBacked, TypeOK, Child
<1>3. ResultsAreTrue'
  BY <1>0 DEF Inv, ResultsAreTrue, TypeOK, Child
<1>4. StaleIsOver'
  BY <1>0 DEF Inv, StaleIsOver, TypeOK, Child
<1>5. SuccessIsLate'
  BY <1>0 DEF Inv, SuccessIsLate, TypeOK
<1>6. StartedExist'
  BY <1>0 DEF Inv, StartedExist, TypeOK
<1> QED BY <1>1, <1>2, <1>3, <1>4, <1>5, <1>6 DEF Inv

LEMMA CreateChildrenStep ==
  ASSUME Inv, CreateChildren
  PROVE  Inv'
<1> USE DEF CreateChildren, Step, Idle
<1>0. TypeOK
  BY DEF Inv
<1>a. /\ child' \in [Children -> Child] /\ Own \subseteq Children
      /\ \A c \in Own : child'[c].st = "queued" /\ child'[c].res = "queued"
      /\ \A c \in Children \ Own : child'[c] = child[c]
  <2>1. ASSUME NEW c \in Own
        PROVE  /\ c \in Children /\ Fresh(c[1], "queued") \in Child
               /\ Fresh(c[1], "queued").st = "queued" /\ Fresh(c[1], "queued").res = "queued"
    <3>1. c \in Children /\ c[1] \in Addresses
      BY DEF Own, Children
    <3>2. c[1] \in Reported
      BY <3>1 DEF Reported
    <3> QED BY <3>1, <3>2 DEF Fresh, Child, JobState, Active, Verdict
  <2>2. child' = [c \in Children |-> IF c \in Own THEN Fresh(c[1], "queued") ELSE child[c]]
    OBVIOUS
  <2> QED BY <1>0, <2>1, <2>2 DEF TypeOK
<1>1. TypeOK'
  <2>1. parent' \in [st : JobState, cancel : BOOLEAN]
    BY <1>0 DEF TypeOK, JobState, Active, Terminal
  <2>2. child' \in [Children -> Child]
    BY <1>a
  <2>3. run' \in {"started", "succeeded", "failed"}
    BY <1>0 DEF TypeOK
  <2>4. good' \subseteq Children \cup {Root} /\ stale' \subseteq Children
    BY <1>0 DEF TypeOK, Children, Own
  <2>5. pc' \in PC /\ cpc' \in [Own -> CPC]
    BY <1>0 DEF TypeOK, PC, CPC
  <2> QED
    BY <1>0, <2>1, <2>2, <2>3, <2>4, <2>5, BoundAssumption DEF TypeOK
<1>2. SuccessIsBacked'
  BY DEF Inv, SuccessIsBacked, SuccessIsLate
<1>3. ResultsAreTrue'
  BY <1>a DEF Inv, ResultsAreTrue
<1>4. StaleIsOver'
  BY DEF Inv, StaleIsOver
<1>5. SuccessIsLate'
  BY DEF Inv, SuccessIsLate
<1>6. StartedExist'
  BY <1>a DEF StartedExist
<1> QED BY <1>1, <1>2, <1>3, <1>4, <1>5, <1>6 DEF Inv

LEMMA CreateRaisesStep ==
  ASSUME Inv, CreateRaises
  PROVE  Inv'
<1> USE DEF CreateRaises, Step, Idle, table
<1>0. TypeOK
  BY DEF Inv
<1>1. TypeOK'
  <2>1. parent' \in [st : JobState, cancel : BOOLEAN]
    BY <1>0 DEF TypeOK, JobState, Active, Terminal
  <2>2. child' \in [Children -> Child]
    BY <1>0 DEF TypeOK, Child, JobState, Active, Terminal, Verdict
  <2>3. run' \in {"started", "succeeded", "failed"}
    BY <1>0 DEF TypeOK
  <2>4. good' \subseteq Children \cup {Root} /\ stale' \subseteq Children
    BY <1>0 DEF TypeOK, Children, Own
  <2>5. pc' \in PC /\ cpc' \in [Own -> CPC]
    BY <1>0 DEF TypeOK, PC, CPC
  <2> QED
    BY <1>0, <2>1, <2>2, <2>3, <2>4, <2>5, BoundAssumption DEF TypeOK
<1>2. SuccessIsBacked'
  BY <1>0 DEF Inv, SuccessIsBacked, TypeOK, Child
<1>3. ResultsAreTrue'
  BY <1>0 DEF Inv, ResultsAreTrue, TypeOK, Child
<1>4. StaleIsOver'
  BY <1>0 DEF Inv, StaleIsOver, TypeOK, Child
<1>5. SuccessIsLate'
  BY <1>0 DEF Inv, SuccessIsLate, TypeOK
<1>6. StartedExist'
  BY <1>0 DEF Inv, StartedExist, TypeOK
<1> QED BY <1>1, <1>2, <1>3, <1>4, <1>5, <1>6 DEF Inv

LEMMA GatherDoneStep ==
  ASSUME Inv, GatherDone
  PROVE  Inv'
<1> USE DEF GatherDone, Step, Idle, table
<1>0. TypeOK
  BY DEF Inv
<1>1. TypeOK'
  <2>1. parent' \in [st : JobState, cancel : BOOLEAN]
    BY <1>0 DEF TypeOK, JobState, Active, Terminal
  <2>2. child' \in [Children -> Child]
    BY <1>0 DEF TypeOK, Child, JobState, Active, Terminal, Verdict
  <2>3. run' \in {"started", "succeeded", "failed"}
    BY <1>0 DEF TypeOK
  <2>4. good' \subseteq Children \cup {Root} /\ stale' \subseteq Children
    BY <1>0 DEF TypeOK, Children, Own
  <2>5. pc' \in PC /\ cpc' \in [Own -> CPC]
    BY <1>0 DEF TypeOK, PC, CPC
  <2> QED
    BY <1>0, <2>1, <2>2, <2>3, <2>4, <2>5, BoundAssumption DEF TypeOK
<1>2. SuccessIsBacked'
  BY <1>0 DEF Inv, SuccessIsBacked, TypeOK, Child
<1>3. ResultsAreTrue'
  BY <1>0 DEF Inv, ResultsAreTrue, TypeOK, Child
<1>4. StaleIsOver'
  BY <1>0 DEF Inv, StaleIsOver, TypeOK, Child
<1>5. SuccessIsLate'
  BY <1>0 DEF Inv, SuccessIsLate, TypeOK
<1>6. StartedExist'
  BY <1>0 DEF Inv, StartedExist, TypeOK
<1> QED BY <1>1, <1>2, <1>3, <1>4, <1>5, <1>6 DEF Inv

LEMMA GatherRaisesStep ==
  ASSUME Inv, GatherRaises
  PROVE  Inv'
<1> USE DEF GatherRaises, Step, Idle, AfterInvalidTransition, table
<1>0. TypeOK
  BY DEF Inv
<1>1. TypeOK'
  <2>1. parent' \in [st : JobState, cancel : BOOLEAN]
    BY <1>0 DEF TypeOK, JobState, Active, Terminal
  <2>2. child' \in [Children -> Child]
    BY <1>0 DEF TypeOK, Child, JobState, Active, Terminal, Verdict
  <2>3. run' \in {"started", "succeeded", "failed"}
    BY <1>0 DEF TypeOK
  <2>4. good' \subseteq Children \cup {Root} /\ stale' \subseteq Children
    BY <1>0 DEF TypeOK, Children, Own
  <2>5. pc' \in PC /\ cpc' \in [Own -> CPC]
    BY <1>0 DEF TypeOK, PC, CPC
  <2> QED
    BY <1>0, <2>1, <2>2, <2>3, <2>4, <2>5, BoundAssumption DEF TypeOK
<1>2. SuccessIsBacked'
  BY <1>0 DEF Inv, SuccessIsBacked, TypeOK, Child
<1>3. ResultsAreTrue'
  BY <1>0 DEF Inv, ResultsAreTrue, TypeOK, Child
<1>4. StaleIsOver'
  BY <1>0 DEF Inv, StaleIsOver, TypeOK, Child
<1>5. SuccessIsLate'
  BY <1>0 DEF Inv, SuccessIsLate, TypeOK
<1>6. StartedExist'
  BY <1>0 DEF Inv, StartedExist, TypeOK
<1> QED BY <1>1, <1>2, <1>3, <1>4, <1>5, <1>6 DEF Inv

LEMMA ReconcileRunStep ==
  ASSUME Inv, ReconcileRun
  PROVE  Inv'
<1> USE DEF ReconcileRun, Step, Idle, Cancelled
<1>0. TypeOK
  BY DEF Inv
<1>a. child \in [Children -> Child] /\ Own \subseteq Children
  BY <1>0 DEF TypeOK, Own, Children
<1>b. parent.st # "succeeded" /\ UNCHANGED <<parent, cpc, stale>> /\ pc' = "finish"
  BY DEF Inv, SuccessIsLate
<1>c. /\ child' \in [Children -> Child]
      /\ run' \in {"succeeded", "failed"}
      /\ \A c \in Children :
            /\ child'[c].st = "succeeded" => child[c].st = "succeeded"
            /\ child'[c].res = "succeeded" => child[c].res = "succeeded"
            /\ child'[c].st = "absent" => child[c].st = "absent"
            /\ c \notin ActiveIn(child) \cup stale /\ child[c].st # "absent"
                  => child'[c].st = child[c].st
  <2> DEFINE open == ActiveIn(child) \cup stale
             intr == ~ Cancelled
  <2>1. Reconcile(child, open, intr) /\ intr \in BOOLEAN
    BY <1>0 DEF TypeOK
  <2>2. \A c \in Children : c \notin ActiveIn(child) \cup stale <=> c \notin open
    OBVIOUS
  <2> HIDE DEF open, intr
  <2> QED BY <1>a, <2>1, <2>2, ReconcileFacts
<1>1. TypeOK'
  <2>1. parent' \in [st : JobState, cancel : BOOLEAN]
    BY <1>0 DEF TypeOK, JobState, Active, Terminal
  <2>2. child' \in [Children -> Child]
    BY <1>c
  <2>3. run' \in {"started", "succeeded", "failed"}
    BY <1>c
  <2>4. good' \subseteq Children \cup {Root} /\ stale' \subseteq Children
    BY <1>0 DEF TypeOK, Children, Own
  <2>5. pc' \in PC /\ cpc' \in [Own -> CPC]
    BY <1>0 DEF TypeOK, PC, CPC
  <2> QED
    BY <1>0, <2>1, <2>2, <2>3, <2>4, <2>5, BoundAssumption DEF TypeOK
<1>2. SuccessIsBacked'
  BY <1>b DEF SuccessIsBacked
<1>3. ResultsAreTrue'
  <2> SUFFICES ASSUME parent.st \notin Terminal, NEW c \in Children, child'[c].res = "succeeded"
               PROVE  child'[c].st = "succeeded"
    BY <1>b DEF ResultsAreTrue
  <2>1. child[c].st = "succeeded"
    BY <1>c DEF Inv, ResultsAreTrue
  <2>2. c \notin ActiveIn(child) \cup stale
    BY <2>1 DEF ActiveIn, Active, Inv, StaleIsOver
  <2> QED BY <1>c, <2>1, <2>2
<1>4. StaleIsOver'
  BY <1>a, <1>b, <1>c DEF Inv, StaleIsOver
<1>5. SuccessIsLate'
  BY <1>b DEF SuccessIsLate
<1>6. StartedExist'
  BY <1>a, <1>b, <1>c DEF Inv, StartedExist
<1> QED BY <1>1, <1>2, <1>3, <1>4, <1>5, <1>6 DEF Inv

LEMMA ReconcileRaisesStep ==
  ASSUME Inv, ReconcileRaises
  PROVE  Inv'
<1> USE DEF ReconcileRaises, Step, Idle, table
<1>0. TypeOK
  BY DEF Inv
<1>1. TypeOK'
  <2>1. parent' \in [st : JobState, cancel : BOOLEAN]
    BY <1>0 DEF TypeOK, JobState, Active, Terminal
  <2>2. child' \in [Children -> Child]
    BY <1>0 DEF TypeOK, Child, JobState, Active, Terminal, Verdict
  <2>3. run' \in {"started", "succeeded", "failed"}
    BY <1>0 DEF TypeOK
  <2>4. good' \subseteq Children \cup {Root} /\ stale' \subseteq Children
    BY <1>0 DEF TypeOK, Children, Own
  <2>5. pc' \in PC /\ cpc' \in [Own -> CPC]
    BY <1>0 DEF TypeOK, PC, CPC
  <2> QED
    BY <1>0, <2>1, <2>2, <2>3, <2>4, <2>5, BoundAssumption DEF TypeOK
<1>2. SuccessIsBacked'
  BY <1>0 DEF Inv, SuccessIsBacked, TypeOK, Child
<1>3. ResultsAreTrue'
  BY <1>0 DEF Inv, ResultsAreTrue, TypeOK, Child
<1>4. StaleIsOver'
  BY <1>0 DEF Inv, StaleIsOver, TypeOK, Child
<1>5. SuccessIsLate'
  BY <1>0 DEF Inv, SuccessIsLate, TypeOK
<1>6. StartedExist'
  BY <1>0 DEF Inv, StartedExist, TypeOK
<1> QED BY <1>1, <1>2, <1>3, <1>4, <1>5, <1>6 DEF Inv

LEMMA FinishStep ==
  ASSUME Inv, Finish
  PROVE  Inv'
<1> USE DEF Finish, Step, Idle, Cancelled, table
<1>0. TypeOK
  BY DEF Inv
<1>1. TypeOK'
  <2>1. parent' \in [st : JobState, cancel : BOOLEAN]
    BY <1>0 DEF TypeOK, JobState, Active, Terminal
  <2>2. child' \in [Children -> Child]
    BY <1>0 DEF TypeOK, Child, JobState, Active, Terminal, Verdict
  <2>3. run' \in {"started", "succeeded", "failed"}
    BY <1>0 DEF TypeOK
  <2>4. good' \subseteq Children \cup {Root} /\ stale' \subseteq Children
    BY <1>0 DEF TypeOK, Children, Own
  <2>5. pc' \in PC /\ cpc' \in [Own -> CPC]
    BY <1>0 DEF TypeOK, PC, CPC
  <2> QED
    BY <1>0, <2>1, <2>2, <2>3, <2>4, <2>5, BoundAssumption DEF TypeOK
<1>2. SuccessIsBacked'
  BY <1>0 DEF Inv, SuccessIsBacked, TypeOK, Child
<1>3. ResultsAreTrue'
  BY <1>0 DEF Inv, ResultsAreTrue, TypeOK, Child
<1>4. StaleIsOver'
  BY <1>0 DEF Inv, StaleIsOver, TypeOK, Child
<1>5. SuccessIsLate'
  BY <1>0 DEF Inv, SuccessIsLate, TypeOK
<1>6. StartedExist'
  BY <1>0 DEF Inv, StartedExist, TypeOK
<1> QED BY <1>1, <1>2, <1>3, <1>4, <1>5, <1>6 DEF Inv

LEMMA FinishStateStep ==
  ASSUME Inv, FinishState
  PROVE  Inv'
<1> USE DEF FinishState, Step, Idle, AfterInvalidTransition, FinalState
<1>0. TypeOK
  BY DEF Inv
<1>1. TypeOK'
  <2>1. parent' \in [st : JobState, cancel : BOOLEAN]
    BY <1>0 DEF TypeOK, JobState, Active, Terminal
  <2>2. child' \in [Children -> Child]
    BY <1>0 DEF TypeOK, Child, JobState, Active, Terminal, Verdict
  <2>3. run' \in {"started", "succeeded", "failed"}
    BY <1>0 DEF TypeOK
  <2>4. good' \subseteq Children \cup {Root} /\ stale' \subseteq Children
    BY <1>0 DEF TypeOK, Children, Own
  <2>5. pc' \in PC /\ cpc' \in [Own -> CPC]
    BY <1>0 DEF TypeOK, PC, CPC
  <2> QED
    BY <1>0, <2>1, <2>2, <2>3, <2>4, <2>5, BoundAssumption DEF TypeOK
<1>2. SuccessIsBacked'
  <2>1. Own \subseteq Children
    BY DEF Own, Children
  <2> QED BY <1>0, <2>1 DEF Inv, SuccessIsBacked, ResultsAreTrue, TypeOK, Terminal
<1>3. ResultsAreTrue'
  BY <1>0 DEF Inv, ResultsAreTrue, TypeOK, Terminal, JobState
<1>4. StaleIsOver'
  BY <1>0 DEF Inv, StaleIsOver, TypeOK, Child
<1>5. SuccessIsLate'
  BY <1>0 DEF Inv, SuccessIsLate, TypeOK
<1>6. StartedExist'
  BY <1>0 DEF Inv, StartedExist, TypeOK
<1> QED BY <1>1, <1>2, <1>3, <1>4, <1>5, <1>6 DEF Inv

LEMMA FinishCancelStep ==
  ASSUME Inv, FinishCancel
  PROVE  Inv'
<1> USE DEF FinishCancel, Step, Idle
<1>0. TypeOK
  BY DEF Inv
<1>1. TypeOK'
  <2>1. parent' \in [st : JobState, cancel : BOOLEAN]
    BY <1>0 DEF TypeOK, JobState, Active, Terminal
  <2>2. child' \in [Children -> Child]
    BY <1>0 DEF TypeOK, Child, JobState, Active, Terminal, Verdict
  <2>3. run' \in {"started", "succeeded", "failed"}
    BY <1>0 DEF TypeOK
  <2>4. good' \subseteq Children \cup {Root} /\ stale' \subseteq Children
    BY <1>0 DEF TypeOK, Children, Own
  <2>5. pc' \in PC /\ cpc' \in [Own -> CPC]
    BY <1>0 DEF TypeOK, PC, CPC
  <2> QED
    BY <1>0, <2>1, <2>2, <2>3, <2>4, <2>5, BoundAssumption DEF TypeOK
<1>2. SuccessIsBacked'
  BY <1>0 DEF Inv, SuccessIsBacked, TypeOK, Child
<1>3. ResultsAreTrue'
  BY <1>0 DEF Inv, ResultsAreTrue, TypeOK, Terminal, JobState
<1>4. StaleIsOver'
  BY <1>0 DEF Inv, StaleIsOver, TypeOK, Child
<1>5. SuccessIsLate'
  BY <1>0 DEF Inv, SuccessIsLate, TypeOK
<1>6. StartedExist'
  BY <1>0 DEF Inv, StartedExist, TypeOK
<1> QED BY <1>1, <1>2, <1>3, <1>4, <1>5, <1>6 DEF Inv

LEMMA RaisedStep ==
  ASSUME Inv, Raised
  PROVE  Inv'
<1> USE DEF Raised, Step, Idle, table
<1>0. TypeOK
  BY DEF Inv
<1>a. \/ UNCHANGED table
      \/ /\ parent' \in ParentRow /\ parent'.st \in {"failed", "cancelled"}
         /\ child' \in [Children -> Child] /\ run' \in {"started", "succeeded", "failed"}
         /\ RowsKept(child')
  <2>1. child \in [Children -> Child] /\ RowsKept(child)
    BY <1>0 DEF TypeOK, RowsKept
  <2>2. CASE UNCHANGED table
    BY <2>2
  <2>3. CASE parent' = [parent EXCEPT !.st = "failed"] /\ Reconcile(child, ActiveIn(child), TRUE)
    <3>1. parent' \in ParentRow /\ parent'.st \in {"failed", "cancelled"}
      BY <1>0, <2>3 DEF TypeOK, ParentRow, JobState, Terminal
    <3> QED BY <2>1, <2>3, <3>1, ReconcileKeeps
  <2> QED BY <2>2, <2>3
<1>b. /\ parent' \in ParentRow /\ child' \in [Children -> Child]
      /\ run' \in {"started", "succeeded", "failed"}
  BY <1>0, <1>a DEF TypeOK, ParentRow, table
<1>c. /\ SuccessIsBacked' /\ ResultsAreTrue' /\ StaleIsOver'
      /\ SuccessIsLate' /\ StartedExist'
  <2>1. pc' \in {pc, "close", "done"} /\ UNCHANGED <<cpc, stale>>
    OBVIOUS
  <2>2. CASE UNCHANGED table
    <3>1. SuccessIsBacked' /\ ResultsAreTrue'
      BY <2>2 DEF Inv, SuccessIsBacked, ResultsAreTrue, table
    <3>2. StaleIsOver'
      BY <2>1, <2>2 DEF Inv, StaleIsOver, table
    <3>3. SuccessIsLate' /\ StartedExist'
      BY <2>1, <2>2 DEF Inv, SuccessIsLate, StartedExist, table
    <3> QED BY <3>1, <3>2, <3>3
  <2>3. CASE parent'.st \in {"failed", "cancelled"} /\ RowsKept(child')
    BY <2>1, <2>3, TreeEnds
  <2> QED BY <1>a, <2>2, <2>3
<1>1. TypeOK'
  <2>1. parent' \in [st : JobState, cancel : BOOLEAN]
    BY <1>b DEF ParentRow
  <2>2. child' \in [Children -> Child]
    BY <1>b
  <2>3. run' \in {"started", "succeeded", "failed"}
    BY <1>b
  <2>4. good' \subseteq Children \cup {Root} /\ stale' \subseteq Children
    BY <1>0 DEF TypeOK, Children, Own
  <2>5. pc' \in PC /\ cpc' \in [Own -> CPC]
    BY <1>0 DEF TypeOK, PC, CPC
  <2> QED
    BY <1>0, <2>1, <2>2, <2>3, <2>4, <2>5, BoundAssumption DEF TypeOK
<1>2. SuccessIsBacked'
  BY <1>c
<1>3. ResultsAreTrue'
  BY <1>c
<1>4. StaleIsOver'
  BY <1>c
<1>5. SuccessIsLate'
  BY <1>c
<1>6. StartedExist'
  BY <1>c
<1> QED BY <1>1, <1>2, <1>3, <1>4, <1>5, <1>6 DEF Inv

LEMMA CloseStep ==
  ASSUME Inv, Close
  PROVE  Inv'
<1> USE DEF Close, Step, Idle, Abandon, table
<1>0. TypeOK
  BY DEF Inv
<1>a. \/ UNCHANGED table
      \/ /\ parent' \in ParentRow /\ parent'.st \in {"failed", "cancelled"}
         /\ child' \in [Children -> Child] /\ run' \in {"started", "succeeded", "failed"}
         /\ RowsKept(child')
  <2>1. Abandon \/ UNCHANGED table
    OBVIOUS
  <2> HIDE DEF Abandon
  <2> QED BY <1>0, <2>1, AbandonFacts
<1>b. /\ parent' \in ParentRow /\ child' \in [Children -> Child]
      /\ run' \in {"started", "succeeded", "failed"}
  BY <1>0, <1>a DEF TypeOK, ParentRow, table
<1>c. /\ SuccessIsBacked' /\ ResultsAreTrue' /\ StaleIsOver'
      /\ SuccessIsLate' /\ StartedExist'
  <2>1. pc' \in {pc, "close", "done"} /\ UNCHANGED <<cpc, stale>>
    OBVIOUS
  <2>2. CASE UNCHANGED table
    <3>1. SuccessIsBacked' /\ ResultsAreTrue'
      BY <2>2 DEF Inv, SuccessIsBacked, ResultsAreTrue, table
    <3>2. StaleIsOver'
      BY <2>1, <2>2 DEF Inv, StaleIsOver, table
    <3>3. SuccessIsLate' /\ StartedExist'
      BY <2>1, <2>2 DEF Inv, SuccessIsLate, StartedExist, table
    <3> QED BY <3>1, <3>2, <3>3
  <2>3. CASE parent'.st \in {"failed", "cancelled"} /\ RowsKept(child')
    BY <2>1, <2>3, TreeEnds
  <2> QED BY <1>a, <2>2, <2>3
<1>1. TypeOK'
  <2>1. parent' \in [st : JobState, cancel : BOOLEAN]
    BY <1>b DEF ParentRow
  <2>2. child' \in [Children -> Child]
    BY <1>b
  <2>3. run' \in {"started", "succeeded", "failed"}
    BY <1>b
  <2>4. good' \subseteq Children \cup {Root} /\ stale' \subseteq Children
    BY <1>0 DEF TypeOK, Children, Own
  <2>5. pc' \in PC /\ cpc' \in [Own -> CPC]
    BY <1>0 DEF TypeOK, PC, CPC
  <2> QED
    BY <1>0, <2>1, <2>2, <2>3, <2>4, <2>5, BoundAssumption DEF TypeOK
<1>2. SuccessIsBacked'
  BY <1>c
<1>3. ResultsAreTrue'
  BY <1>c
<1>4. StaleIsOver'
  BY <1>c
<1>5. SuccessIsLate'
  BY <1>c
<1>6. StartedExist'
  BY <1>c
<1> QED BY <1>1, <1>2, <1>3, <1>4, <1>5, <1>6 DEF Inv

LEMMA ExecuteErrorStep ==
  ASSUME Inv, ExecuteError
  PROVE  Inv'
<1> USE DEF ExecuteError, Step, Fault, table
<1>0. TypeOK
  BY DEF Inv
<1>1. TypeOK'
  <2>1. parent' \in [st : JobState, cancel : BOOLEAN]
    BY <1>0 DEF TypeOK, JobState, Active, Terminal
  <2>2. child' \in [Children -> Child]
    BY <1>0 DEF TypeOK, Child, JobState, Active, Terminal, Verdict
  <2>3. run' \in {"started", "succeeded", "failed"}
    BY <1>0 DEF TypeOK
  <2>4. good' \subseteq Children \cup {Root} /\ stale' \subseteq Children
    BY <1>0 DEF TypeOK, Children, Own
  <2>5. pc' \in PC /\ cpc' \in [Own -> CPC]
    BY <1>0 DEF TypeOK, PC, CPC
  <2> QED
    BY <1>0, <2>1, <2>2, <2>3, <2>4, <2>5, BoundAssumption DEF TypeOK
<1>2. SuccessIsBacked'
  BY <1>0 DEF Inv, SuccessIsBacked, TypeOK, Child
<1>3. ResultsAreTrue'
  BY <1>0 DEF Inv, ResultsAreTrue, TypeOK, Child
<1>4. StaleIsOver'
  BY <1>0 DEF Inv, StaleIsOver, TypeOK, Child
<1>5. SuccessIsLate'
  BY <1>0 DEF Inv, SuccessIsLate, TypeOK
<1>6. StartedExist'
  BY <1>0 DEF Inv, StartedExist, TypeOK
<1> QED BY <1>1, <1>2, <1>3, <1>4, <1>5, <1>6 DEF Inv

LEMMA ChildEnterStep ==
  ASSUME Inv, NEW c \in Own, ChildEnter(c)
  PROVE  Inv'
<1> USE DEF ChildEnter, Move, CPU, Attached, Cancelled
<1>0. TypeOK
  BY DEF Inv
<1>1. TypeOK'
  <2>1. parent' \in [st : JobState, cancel : BOOLEAN]
    BY <1>0 DEF TypeOK, JobState, Active, Terminal
  <2>2. child' \in [Children -> Child]
    BY <1>0 DEF TypeOK, Child, JobState, Active, Terminal, Verdict
  <2>3. run' \in {"started", "succeeded", "failed"}
    BY <1>0 DEF TypeOK
  <2>4. good' \subseteq Children \cup {Root} /\ stale' \subseteq Children
    BY <1>0 DEF TypeOK, Children, Own
  <2>5. pc' \in PC /\ cpc' \in [Own -> CPC]
    BY <1>0 DEF TypeOK, PC, CPC
  <2> QED
    BY <1>0, <2>1, <2>2, <2>3, <2>4, <2>5, BoundAssumption DEF TypeOK
<1>2. SuccessIsBacked'
  BY <1>0 DEF Inv, SuccessIsBacked, TypeOK, Child
<1>3. ResultsAreTrue'
  BY <1>0 DEF Inv, ResultsAreTrue, TypeOK, Child
<1>4. StaleIsOver'
  BY <1>0 DEF Inv, StaleIsOver, TypeOK, Child
<1>5. SuccessIsLate'
  BY <1>0 DEF Inv, SuccessIsLate, TypeOK
<1>6. StartedExist'
  BY <1>0 DEF Inv, StartedExist, TypeOK
<1> QED BY <1>1, <1>2, <1>3, <1>4, <1>5, <1>6 DEF Inv

LEMMA ChildAcquireStep ==
  ASSUME Inv, NEW c \in Own, ChildAcquire(c)
  PROVE  Inv'
<1> USE DEF ChildAcquire, Move, CPU, Attached, Cancelled
<1>0. TypeOK
  BY DEF Inv
<1>a. c \in Children /\ c[1] \in Addresses /\ Own \subseteq Children
  BY DEF Own, Children
<1>b. PICK row : RowFits(c, row) /\ child' = [child EXCEPT ![c] = row]
  <2>1. child[c] \in Child /\ child[c].st # "absent"
    BY <1>0, <1>a DEF Inv, StartedExist, TypeOK
  <2>2. CASE UNCHANGED child
    BY <1>a, <2>1, <2>2, SameRow
  <2>3. CASE child' = [child EXCEPT ![c].res = "discovering"]
    <3> DEFINE row == [child[c] EXCEPT !.res = "discovering"]
    <3>1. row \in Child
      BY <2>1, <2>3 DEF Child, JobState, Active, Terminal, Verdict
    <3>2. RowFits(c, row)
      BY <1>a, <2>1, <2>3, <3>1 DEF RowFits, Child, Inv, ResultsAreTrue
    <3>3. child' = [child EXCEPT ![c] = row]
      BY <1>0, <1>a, <2>3 DEF TypeOK
    <3> HIDE DEF row
    <3> QED BY <3>2, <3>3
  <2> QED BY <2>2, <2>3
<1>c. /\ child' \in [Children -> Child]
      /\ child'[c] = row /\ \A d \in Children \ {c} : child'[d] = child[d]
      /\ SuccessIsBacked' /\ ResultsAreTrue'
      /\ \A d \in Children : child[d].st # "absent" => child'[d].st # "absent"
  <2>1. UNCHANGED parent
    OBVIOUS
  <2> QED BY <1>a, <1>b, <2>1, RowChanges
<1>1. TypeOK'
  <2>1. parent' \in [st : JobState, cancel : BOOLEAN]
    BY <1>0 DEF TypeOK, JobState, Active, Terminal
  <2>2. child' \in [Children -> Child]
    BY <1>c
  <2>3. run' \in {"started", "succeeded", "failed"}
    BY <1>0 DEF TypeOK
  <2>4. good' \subseteq Children \cup {Root} /\ stale' \subseteq Children
    BY <1>0 DEF TypeOK, Children, Own
  <2>5. pc' \in PC /\ cpc' \in [Own -> CPC]
    BY <1>0 DEF TypeOK, PC, CPC
  <2> QED
    BY <1>0, <2>1, <2>2, <2>3, <2>4, <2>5, BoundAssumption DEF TypeOK
<1>2. SuccessIsBacked'
  BY <1>c
<1>3. ResultsAreTrue'
  BY <1>c
<1>4. StaleIsOver'
  BY <1>0, <1>a, <1>c DEF Inv, StaleIsOver, TypeOK
<1>5. SuccessIsLate'
  BY <1>0 DEF Inv, SuccessIsLate, TypeOK
<1>6. StartedExist'
  BY <1>0, <1>a, <1>c DEF Inv, StartedExist, TypeOK
<1> QED BY <1>1, <1>2, <1>3, <1>4, <1>5, <1>6 DEF Inv

LEMMA ChildCancelledStep ==
  ASSUME Inv, NEW c \in Own, ChildCancelled(c)
  PROVE  Inv'
<1> USE DEF ChildCancelled, Move, CPU, Attached
<1>0. TypeOK
  BY DEF Inv
<1>a. c \in Children /\ c[1] \in Addresses /\ Own \subseteq Children
  BY DEF Own, Children
<1>b. PICK row : RowFits(c, row) /\ child' = [child EXCEPT ![c] = row]
  <2>1. child[c] \in Child /\ child[c].st # "absent"
    BY <1>0, <1>a DEF Inv, StartedExist, TypeOK
  <2>2. CASE UNCHANGED child
    BY <1>a, <2>1, <2>2, SameRow
  <2>3. CASE /\ child[c].st \in {"queued", "cancelled"}
            /\ child' = [child EXCEPT ![c] =
                  [@ EXCEPT !.st = "cancelled", !.cancel = TRUE,
                            !.res = "cancelled", !.verdict = "cancelled"]]
    <3> DEFINE row == [child[c] EXCEPT !.st = "cancelled", !.cancel = TRUE, !.res = "cancelled", !.verdict = "cancelled"]
    <3>1. row \in Child
      BY <2>1, <2>3 DEF Child, JobState, Active, Terminal, Verdict
    <3>2. RowFits(c, row)
      BY <1>a, <2>1, <2>3, <3>1 DEF RowFits, Child, Inv, ResultsAreTrue
    <3>3. child' = [child EXCEPT ![c] = row]
      BY <1>0, <1>a, <2>3 DEF TypeOK
    <3> HIDE DEF row
    <3> QED BY <3>2, <3>3
  <2>4. CASE /\ child[c].st \in {"queued", "cancelled"}
            /\ child' = [child EXCEPT ![c] = [@ EXCEPT !.st = "cancelled", !.cancel = TRUE]]
    <3> DEFINE row == [child[c] EXCEPT !.st = "cancelled", !.cancel = TRUE]
    <3>1. row \in Child
      BY <2>1, <2>4 DEF Child, JobState, Active, Terminal, Verdict
    <3>2. RowFits(c, row)
      BY <1>a, <2>1, <2>4, <3>1 DEF RowFits, Child, Inv, ResultsAreTrue
    <3>3. child' = [child EXCEPT ![c] = row]
      BY <1>0, <1>a, <2>4 DEF TypeOK
    <3> HIDE DEF row
    <3> QED BY <3>2, <3>3
  <2>5. CASE child' = [child EXCEPT ![c] =
                  [@ EXCEPT !.res = "cancelled", !.verdict = "cancelled"]]
    <3> DEFINE row == [child[c] EXCEPT !.res = "cancelled", !.verdict = "cancelled"]
    <3>1. row \in Child
      BY <2>1, <2>5 DEF Child, JobState, Active, Terminal, Verdict
    <3>2. RowFits(c, row)
      BY <1>a, <2>1, <2>5, <3>1 DEF RowFits, Child, Inv, ResultsAreTrue
    <3>3. child' = [child EXCEPT ![c] = row]
      BY <1>0, <1>a, <2>5 DEF TypeOK
    <3> HIDE DEF row
    <3> QED BY <3>2, <3>3
  <2>6. CASE child[c].st \in {"queued", "cancelled"} /\ child' = [child EXCEPT ![c] =
               IF Attached
               THEN [[@ EXCEPT !.st = "cancelled", !.cancel = TRUE]
                        EXCEPT !.res = "cancelled", !.verdict = "cancelled"]
               ELSE [@ EXCEPT !.st = "cancelled", !.cancel = TRUE]]
    BY <1>0, <1>a, <2>1, <2>3, <2>4, <2>6 DEF TypeOK, Child
  <2>7. CASE child' = [child EXCEPT ![c] =
               IF Attached THEN [@ EXCEPT !.res = "cancelled", !.verdict = "cancelled"] ELSE @]
    BY <1>0, <1>a, <2>2, <2>5, <2>7 DEF TypeOK
  <2> QED BY <2>2, <2>6, <2>7
<1>c. /\ child' \in [Children -> Child]
      /\ child'[c] = row /\ \A d \in Children \ {c} : child'[d] = child[d]
      /\ SuccessIsBacked' /\ ResultsAreTrue'
      /\ \A d \in Children : child[d].st # "absent" => child'[d].st # "absent"
  <2>1. UNCHANGED parent
    OBVIOUS
  <2> QED BY <1>a, <1>b, <2>1, RowChanges
<1>d. c \in stale' => child'[c].st # "succeeded"
  <2>1. c \notin stale
    BY DEF Inv, StaleIsOver
  <2> SUFFICES ASSUME c \in stale' PROVE child'[c].st # "succeeded"
    OBVIOUS
  <2>2. /\ child[c].st \in Active
        /\ child' = [child EXCEPT ![c] =
              IF Attached THEN [@ EXCEPT !.res = "cancelled", !.verdict = "cancelled"] ELSE @]
    BY <2>1
  <2>3. child[c] \in Child
    BY <1>0, <1>a DEF TypeOK
  <2>4. child'[c].st = child[c].st
    BY <1>0, <1>a, <2>2, <2>3 DEF TypeOK, Child
  <2> QED BY <2>2, <2>4 DEF Active
<1>1. TypeOK'
  <2>1. parent' \in [st : JobState, cancel : BOOLEAN]
    BY <1>0 DEF TypeOK, JobState, Active, Terminal
  <2>2. child' \in [Children -> Child]
    BY <1>c
  <2>3. run' \in {"started", "succeeded", "failed"}
    BY <1>0 DEF TypeOK
  <2>4. good' \subseteq Children \cup {Root} /\ stale' \subseteq Children
    BY <1>0 DEF TypeOK, Children, Own
  <2>5. pc' \in PC /\ cpc' \in [Own -> CPC]
    BY <1>0 DEF TypeOK, PC, CPC
  <2> QED
    BY <1>0, <2>1, <2>2, <2>3, <2>4, <2>5, BoundAssumption DEF TypeOK
<1>2. SuccessIsBacked'
  BY <1>c
<1>3. ResultsAreTrue'
  BY <1>c
<1>4. StaleIsOver'
  BY <1>0, <1>a, <1>c, <1>d DEF Inv, StaleIsOver, TypeOK
<1>5. SuccessIsLate'
  BY <1>0 DEF Inv, SuccessIsLate, TypeOK
<1>6. StartedExist'
  BY <1>0, <1>a, <1>c DEF Inv, StartedExist, TypeOK
<1> QED BY <1>1, <1>2, <1>3, <1>4, <1>5, <1>6 DEF Inv

LEMMA ChildClaimStep ==
  ASSUME Inv, NEW c \in Own, ChildClaim(c)
  PROVE  Inv'
<1> USE DEF ChildClaim, Move, CPU, Attached, RolledBack, Return, Tail
<1>0. TypeOK
  BY DEF Inv
<1>a. c \in Children /\ c[1] \in Addresses /\ Own \subseteq Children
  BY DEF Own, Children
<1>b. PICK row : RowFits(c, row) /\ child' = [child EXCEPT ![c] = row]
  <2>1. child[c] \in Child /\ child[c].st # "absent"
    BY <1>0, <1>a DEF Inv, StartedExist, TypeOK
  <2>2. CASE child[c].st = "queued" /\ child' = [child EXCEPT ![c].st = "running"]
    <3> DEFINE row == [child[c] EXCEPT !.st = "running"]
    <3>1. row \in Child
      BY <2>1, <2>2 DEF Child, JobState, Active, Terminal, Verdict
    <3>2. RowFits(c, row)
      BY <1>a, <2>1, <2>2, <3>1 DEF RowFits, Child, Inv, ResultsAreTrue
    <3>3. child' = [child EXCEPT ![c] = row]
      BY <1>0, <1>a, <2>2 DEF TypeOK
    <3> HIDE DEF row
    <3> QED BY <3>2, <3>3
  <2>3. CASE UNCHANGED child
    BY <1>a, <2>1, <2>3, SameRow
  <2>4. CASE child' = [child EXCEPT ![c] = Tail(child[c])]
    <3> DEFINE row == Tail(child[c])
    <3>1. row \in Child
      BY <2>1, <2>4 DEF Child, JobState, Active, Terminal, Verdict
    <3>2. RowFits(c, row)
      BY <1>a, <2>1, <2>4, <3>1 DEF RowFits, Child, Inv, ResultsAreTrue
    <3>3. child' = [child EXCEPT ![c] = row]
      BY <1>0, <1>a, <2>4 DEF TypeOK
    <3> HIDE DEF row
    <3> QED BY <3>2, <3>3
  <2> QED BY <1>0, <1>a, <2>2, <2>3, <2>4 DEF TypeOK
<1>c. /\ child' \in [Children -> Child]
      /\ child'[c] = row /\ \A d \in Children \ {c} : child'[d] = child[d]
      /\ SuccessIsBacked' /\ ResultsAreTrue'
      /\ \A d \in Children : child[d].st # "absent" => child'[d].st # "absent"
  <2>1. UNCHANGED parent
    OBVIOUS
  <2> QED BY <1>a, <1>b, <2>1, RowChanges
<1>1. TypeOK'
  <2>1. parent' \in [st : JobState, cancel : BOOLEAN]
    BY <1>0 DEF TypeOK, JobState, Active, Terminal
  <2>2. child' \in [Children -> Child]
    BY <1>c
  <2>3. run' \in {"started", "succeeded", "failed"}
    BY <1>0 DEF TypeOK
  <2>4. good' \subseteq Children \cup {Root} /\ stale' \subseteq Children
    BY <1>0 DEF TypeOK, Children, Own
  <2>5. pc' \in PC /\ cpc' \in [Own -> CPC]
    BY <1>0 DEF TypeOK, PC, CPC
  <2> QED
    BY <1>0, <2>1, <2>2, <2>3, <2>4, <2>5, BoundAssumption DEF TypeOK
<1>2. SuccessIsBacked'
  BY <1>c
<1>3. ResultsAreTrue'
  BY <1>c
<1>4. StaleIsOver'
  BY <1>0, <1>a, <1>c DEF Inv, StaleIsOver, TypeOK
<1>5. SuccessIsLate'
  BY <1>0 DEF Inv, SuccessIsLate, TypeOK
<1>6. StartedExist'
  BY <1>0, <1>a, <1>c DEF Inv, StartedExist, TypeOK
<1> QED BY <1>1, <1>2, <1>3, <1>4, <1>5, <1>6 DEF Inv

LEMMA ChildCollectedStep ==
  ASSUME Inv, NEW c \in Own, ChildCollected(c)
  PROVE  Inv'
<1> USE DEF ChildCollected, Move, CPU, Attached, Cancelled
<1>0. TypeOK
  BY DEF Inv
<1>1. TypeOK'
  <2>1. parent' \in [st : JobState, cancel : BOOLEAN]
    BY <1>0 DEF TypeOK, JobState, Active, Terminal
  <2>2. child' \in [Children -> Child]
    BY <1>0 DEF TypeOK, Child, JobState, Active, Terminal, Verdict
  <2>3. run' \in {"started", "succeeded", "failed"}
    BY <1>0 DEF TypeOK
  <2>4. good' \subseteq Children \cup {Root} /\ stale' \subseteq Children
    BY <1>0 DEF TypeOK, Children, Own
  <2>5. pc' \in PC /\ cpc' \in [Own -> CPC]
    BY <1>0 DEF TypeOK, PC, CPC
  <2> QED
    BY <1>0, <2>1, <2>2, <2>3, <2>4, <2>5, BoundAssumption DEF TypeOK
<1>2. SuccessIsBacked'
  BY <1>0 DEF Inv, SuccessIsBacked, TypeOK, Child
<1>3. ResultsAreTrue'
  BY <1>0 DEF Inv, ResultsAreTrue, TypeOK, Child
<1>4. StaleIsOver'
  BY <1>0 DEF Inv, StaleIsOver, TypeOK, Child
<1>5. SuccessIsLate'
  BY <1>0 DEF Inv, SuccessIsLate, TypeOK
<1>6. StartedExist'
  BY <1>0 DEF Inv, StartedExist, TypeOK
<1> QED BY <1>1, <1>2, <1>3, <1>4, <1>5, <1>6 DEF Inv

LEMMA ChildLeaseLostStep ==
  ASSUME Inv, NEW c \in Own, ChildLeaseLost(c)
  PROVE  Inv'
<1> USE DEF ChildLeaseLost, Move, CPU, Attached, Return, Tail
<1>0. TypeOK
  BY DEF Inv
<1>a. c \in Children /\ c[1] \in Addresses /\ Own \subseteq Children
  BY DEF Own, Children
<1>b. PICK row : RowFits(c, row) /\ child' = [child EXCEPT ![c] = row]
  <2>1. child[c] \in Child /\ child[c].st # "absent"
    BY <1>0, <1>a DEF Inv, StartedExist, TypeOK
  <2>3. CASE UNCHANGED child
    BY <1>a, <2>1, <2>3, SameRow
  <2>4. CASE child' = [child EXCEPT ![c] = Tail(child[c])]
    <3> DEFINE row == Tail(child[c])
    <3>1. row \in Child
      BY <2>1, <2>4 DEF Child, JobState, Active, Terminal, Verdict
    <3>2. RowFits(c, row)
      BY <1>a, <2>1, <2>4, <3>1 DEF RowFits, Child, Inv, ResultsAreTrue
    <3>3. child' = [child EXCEPT ![c] = row]
      BY <1>0, <1>a, <2>4 DEF TypeOK
    <3> HIDE DEF row
    <3> QED BY <3>2, <3>3
  <2> QED BY <1>0, <1>a, <2>3, <2>4 DEF TypeOK
<1>c. /\ child' \in [Children -> Child]
      /\ child'[c] = row /\ \A d \in Children \ {c} : child'[d] = child[d]
      /\ SuccessIsBacked' /\ ResultsAreTrue'
      /\ \A d \in Children : child[d].st # "absent" => child'[d].st # "absent"
  <2>1. UNCHANGED parent
    OBVIOUS
  <2> QED BY <1>a, <1>b, <2>1, RowChanges
<1>d. child'[c].st = child[c].st
  BY <1>0, <1>a DEF TypeOK, Child
<1>1. TypeOK'
  <2>1. parent' \in [st : JobState, cancel : BOOLEAN]
    BY <1>0 DEF TypeOK, JobState, Active, Terminal
  <2>2. child' \in [Children -> Child]
    BY <1>c
  <2>3. run' \in {"started", "succeeded", "failed"}
    BY <1>0 DEF TypeOK
  <2>4. good' \subseteq Children \cup {Root} /\ stale' \subseteq Children
    BY <1>0 DEF TypeOK, Children, Own
  <2>5. pc' \in PC /\ cpc' \in [Own -> CPC]
    BY <1>0 DEF TypeOK, PC, CPC
  <2> QED
    BY <1>0, <2>1, <2>2, <2>3, <2>4, <2>5, BoundAssumption DEF TypeOK
<1>2. SuccessIsBacked'
  BY <1>c
<1>3. ResultsAreTrue'
  BY <1>c
<1>4. StaleIsOver'
  BY <1>0, <1>a, <1>c, <1>d DEF Inv, StaleIsOver, TypeOK
<1>5. SuccessIsLate'
  BY <1>0 DEF Inv, SuccessIsLate, TypeOK
<1>6. StartedExist'
  BY <1>0, <1>a, <1>c DEF Inv, StartedExist, TypeOK
<1> QED BY <1>1, <1>2, <1>3, <1>4, <1>5, <1>6 DEF Inv

LEMMA ChildRaisesStep ==
  ASSUME Inv, NEW c \in Own, ChildRaises(c)
  PROVE  Inv'
<1> USE DEF ChildRaises, Move, CPU, Attached
<1>0. TypeOK
  BY DEF Inv
<1>1. TypeOK'
  <2>1. parent' \in [st : JobState, cancel : BOOLEAN]
    BY <1>0 DEF TypeOK, JobState, Active, Terminal
  <2>2. child' \in [Children -> Child]
    BY <1>0 DEF TypeOK, Child, JobState, Active, Terminal, Verdict
  <2>3. run' \in {"started", "succeeded", "failed"}
    BY <1>0 DEF TypeOK
  <2>4. good' \subseteq Children \cup {Root} /\ stale' \subseteq Children
    BY <1>0 DEF TypeOK, Children, Own
  <2>5. pc' \in PC /\ cpc' \in [Own -> CPC]
    BY <1>0 DEF TypeOK, PC, CPC
  <2> QED
    BY <1>0, <2>1, <2>2, <2>3, <2>4, <2>5, BoundAssumption DEF TypeOK
<1>2. SuccessIsBacked'
  BY <1>0 DEF Inv, SuccessIsBacked, TypeOK, Child
<1>3. ResultsAreTrue'
  BY <1>0 DEF Inv, ResultsAreTrue, TypeOK, Child
<1>4. StaleIsOver'
  BY <1>0 DEF Inv, StaleIsOver, TypeOK, Child
<1>5. SuccessIsLate'
  BY <1>0 DEF Inv, SuccessIsLate, TypeOK
<1>6. StartedExist'
  BY <1>0 DEF Inv, StartedExist, TypeOK
<1> QED BY <1>1, <1>2, <1>3, <1>4, <1>5, <1>6 DEF Inv

LEMMA ChildSucceedStep ==
  ASSUME Inv, NEW c \in Own, ChildSucceed(c)
  PROVE  Inv'
<1> USE DEF ChildSucceed, Move, CPU, Attached, RolledBack
<1>0. TypeOK
  BY DEF Inv
<1>a. c \in Children /\ c[1] \in Addresses /\ Own \subseteq Children
  BY DEF Own, Children
<1>b. PICK row : RowFits(c, row) /\ child' = [child EXCEPT ![c] = row]
  <2>1. child[c] \in Child /\ child[c].st # "absent"
    BY <1>0, <1>a DEF Inv, StartedExist, TypeOK
  <2>2. CASE UNCHANGED child
    BY <1>a, <2>1, <2>2, SameRow
  <2>3. ASSUME child[c].st = "running", NEW ip \in ReportedIP[c[1]],
               child' = [child EXCEPT ![c] =
                  [@ EXCEPT !.st = "succeeded", !.res = "succeeded",
                            !.verdict = "discovered", !.addr = ip]]
        PROVE  \E row : RowFits(c, row) /\ child' = [child EXCEPT ![c] = row]
    <3> DEFINE row == [child[c] EXCEPT !.st = "succeeded", !.res = "succeeded",
                                       !.verdict = "discovered", !.addr = ip]
    <3>0. ip \in Reported
      BY <1>a, <2>3 DEF Reported
    <3>1. row \in Child
      BY <2>1, <3>0 DEF Child, JobState, Terminal, Verdict
    <3>2. RowFits(c, row)
      BY <2>1, <3>1 DEF RowFits, Child
    <3>3. child' = [child EXCEPT ![c] = row]
      BY <1>0, <1>a, <2>3 DEF TypeOK
    <3> HIDE DEF row
    <3> QED BY <3>2, <3>3
  <2> QED BY <2>2, <2>3
<1>c. /\ child' \in [Children -> Child]
      /\ child'[c] = row /\ \A d \in Children \ {c} : child'[d] = child[d]
      /\ SuccessIsBacked' /\ ResultsAreTrue'
      /\ \A d \in Children : child[d].st # "absent" => child'[d].st # "absent"
  <2>1. UNCHANGED parent
    OBVIOUS
  <2> QED BY <1>a, <1>b, <2>1, RowChanges
<1>1. TypeOK'
  <2>1. parent' \in [st : JobState, cancel : BOOLEAN]
    BY <1>0 DEF TypeOK, JobState, Active, Terminal
  <2>2. child' \in [Children -> Child]
    BY <1>c
  <2>3. run' \in {"started", "succeeded", "failed"}
    BY <1>0 DEF TypeOK
  <2>4. good' \subseteq Children \cup {Root} /\ stale' \subseteq Children
    BY <1>0 DEF TypeOK, Children, Own
  <2>5. pc' \in PC /\ cpc' \in [Own -> CPC]
    BY <1>0 DEF TypeOK, PC, CPC
  <2> QED
    BY <1>0, <2>1, <2>2, <2>3, <2>4, <2>5, BoundAssumption DEF TypeOK
<1>2. SuccessIsBacked'
  BY <1>c
<1>3. ResultsAreTrue'
  BY <1>c
<1>4. StaleIsOver'
  BY <1>0, <1>a, <1>c, ZenonT(60) DEF Inv, StaleIsOver, TypeOK
<1>5. SuccessIsLate'
  BY <1>0 DEF Inv, SuccessIsLate, TypeOK
<1>6. StartedExist'
  BY <1>0, <1>a, <1>c DEF Inv, StartedExist, TypeOK
<1> QED BY <1>1, <1>2, <1>3, <1>4, <1>5, <1>6 DEF Inv

LEMMA ChildNotedStep ==
  ASSUME Inv, NEW c \in Own, ChildNoted(c)
  PROVE  Inv'
<1> USE DEF ChildNoted, Move, CPU, Attached
<1>0. TypeOK
  BY DEF Inv
<1>a. c \in Children /\ c[1] \in Addresses /\ Own \subseteq Children
  BY DEF Own, Children
<1>b. PICK row : RowFits(c, row) /\ child' = [child EXCEPT ![c] = row]
  <2>1. child[c] \in Child /\ child[c].st # "absent"
    BY <1>0, <1>a DEF Inv, StartedExist, TypeOK
  <2>2. CASE ~ Attached
    <3>1. UNCHANGED child
      BY <1>0, <1>a, <2>2 DEF TypeOK, Child
    <3> QED BY <1>a, <2>1, <3>1, SameRow
  <2>3. CASE Attached
    <3> DEFINE row == [child[c] EXCEPT !.verdict = "discovered"]
    <3>1. row \in Child
      BY <2>1, <2>3 DEF Child, JobState, Active, Terminal, Verdict
    <3>2. RowFits(c, row)
      BY <1>a, <2>1, <2>3, <3>1 DEF RowFits, Child, Inv, ResultsAreTrue
    <3>3. child' = [child EXCEPT ![c] = row]
      BY <1>0, <1>a, <2>3 DEF TypeOK
    <3> HIDE DEF row
    <3> QED BY <3>2, <3>3
  <2> QED BY <2>2, <2>3
<1>c. /\ child' \in [Children -> Child]
      /\ child'[c] = row /\ \A d \in Children \ {c} : child'[d] = child[d]
      /\ SuccessIsBacked' /\ ResultsAreTrue'
      /\ \A d \in Children : child[d].st # "absent" => child'[d].st # "absent"
  <2>1. UNCHANGED parent
    OBVIOUS
  <2> QED BY <1>a, <1>b, <2>1, RowChanges
<1>1. TypeOK'
  <2>1. parent' \in [st : JobState, cancel : BOOLEAN]
    BY <1>0 DEF TypeOK, JobState, Active, Terminal
  <2>2. child' \in [Children -> Child]
    BY <1>c
  <2>3. run' \in {"started", "succeeded", "failed"}
    BY <1>0 DEF TypeOK
  <2>4. good' \subseteq Children \cup {Root} /\ stale' \subseteq Children
    BY <1>0 DEF TypeOK, Children, Own
  <2>5. pc' \in PC /\ cpc' \in [Own -> CPC]
    BY <1>0 DEF TypeOK, PC, CPC
  <2> QED
    BY <1>0, <2>1, <2>2, <2>3, <2>4, <2>5, BoundAssumption DEF TypeOK
<1>2. SuccessIsBacked'
  BY <1>c
<1>3. ResultsAreTrue'
  BY <1>c
<1>4. StaleIsOver'
  BY <1>0, <1>a, <1>c DEF Inv, StaleIsOver, TypeOK
<1>5. SuccessIsLate'
  BY <1>0 DEF Inv, SuccessIsLate, TypeOK
<1>6. StartedExist'
  BY <1>0, <1>a, <1>c DEF Inv, StartedExist, TypeOK
<1> QED BY <1>1, <1>2, <1>3, <1>4, <1>5, <1>6 DEF Inv

LEMMA ChildProcessedStep ==
  ASSUME Inv, NEW c \in Own, ChildProcessed(c)
  PROVE  Inv'
<1> USE DEF ChildProcessed, Move, CPU, Attached, RolledBack
<1>0. TypeOK
  BY DEF Inv
<1>a. c \in Children /\ c[1] \in Addresses /\ Own \subseteq Children
  BY DEF Own, Children
<1>b. PICK row : RowFits(c, row) /\ child' = [child EXCEPT ![c] = row]
  <2>1. child[c] \in Child /\ child[c].st # "absent"
    BY <1>0, <1>a DEF Inv, StartedExist, TypeOK
  <2>2. CASE UNCHANGED child
    BY <1>a, <2>1, <2>2, SameRow
  <2>3. ASSUME child[c].st = "running", NEW ip \in ReportedIP[c[1]],
               child' = [child EXCEPT ![c] =
                  [@ EXCEPT !.st = "succeeded", !.res = "succeeded",
                            !.verdict = "discovered", !.addr = ip]]
        PROVE  \E row : RowFits(c, row) /\ child' = [child EXCEPT ![c] = row]
    <3> DEFINE row == [child[c] EXCEPT !.st = "succeeded", !.res = "succeeded",
                                       !.verdict = "discovered", !.addr = ip]
    <3>0. ip \in Reported
      BY <1>a, <2>3 DEF Reported
    <3>1. row \in Child
      BY <2>1, <3>0 DEF Child, JobState, Terminal, Verdict
    <3>2. RowFits(c, row)
      BY <2>1, <3>1 DEF RowFits, Child
    <3>3. child' = [child EXCEPT ![c] = row]
      BY <1>0, <1>a, <2>3 DEF TypeOK
    <3> HIDE DEF row
    <3> QED BY <3>2, <3>3
  <2> QED BY <2>2, <2>3
<1>c. /\ child' \in [Children -> Child]
      /\ child'[c] = row /\ \A d \in Children \ {c} : child'[d] = child[d]
      /\ SuccessIsBacked' /\ ResultsAreTrue'
      /\ \A d \in Children : child[d].st # "absent" => child'[d].st # "absent"
  <2>1. UNCHANGED parent
    OBVIOUS
  <2> QED BY <1>a, <1>b, <2>1, RowChanges
<1>1. TypeOK'
  <2>1. parent' \in [st : JobState, cancel : BOOLEAN]
    BY <1>0 DEF TypeOK, JobState, Active, Terminal
  <2>2. child' \in [Children -> Child]
    BY <1>c
  <2>3. run' \in {"started", "succeeded", "failed"}
    BY <1>0 DEF TypeOK
  <2>4. good' \subseteq Children \cup {Root} /\ stale' \subseteq Children
    BY <1>0 DEF TypeOK, Children, Own
  <2>5. pc' \in PC /\ cpc' \in [Own -> CPC]
    BY <1>0 DEF TypeOK, PC, CPC
  <2> QED
    BY <1>0, <2>1, <2>2, <2>3, <2>4, <2>5, BoundAssumption DEF TypeOK
<1>2. SuccessIsBacked'
  BY <1>c
<1>3. ResultsAreTrue'
  BY <1>c
<1>4. StaleIsOver'
  BY <1>0, <1>a, <1>c, ZenonT(60) DEF Inv, StaleIsOver, TypeOK
<1>5. SuccessIsLate'
  BY <1>0 DEF Inv, SuccessIsLate, TypeOK
<1>6. StartedExist'
  BY <1>0, <1>a, <1>c DEF Inv, StartedExist, TypeOK
<1> QED BY <1>1, <1>2, <1>3, <1>4, <1>5, <1>6 DEF Inv

LEMMA ChildStep7Step ==
  ASSUME Inv, NEW c \in Own, ChildStep7(c)
  PROVE  Inv'
<1> USE DEF ChildStep7, Move, CPU, Attached, RolledBack
<1>0. TypeOK
  BY DEF Inv
<1>a. c \in Children /\ c[1] \in Addresses /\ Own \subseteq Children
  BY DEF Own, Children
<1>b. PICK row : RowFits(c, row) /\ child' = [child EXCEPT ![c] = row]
  <2>1. child[c] \in Child /\ child[c].st # "absent"
    BY <1>0, <1>a DEF Inv, StartedExist, TypeOK
  <2>2. CASE UNCHANGED child
    BY <1>a, <2>1, <2>2, SameRow
  <2>3. CASE /\ child[c].st = "running"
            /\ child' = [child EXCEPT ![c] =
                  [@ EXCEPT !.st = "failed", !.res = "failed", !.verdict = "unreachable"]]
    <3> DEFINE row == [child[c] EXCEPT !.st = "failed", !.res = "failed", !.verdict = "unreachable"]
    <3>1. row \in Child
      BY <2>1, <2>3 DEF Child, JobState, Active, Terminal, Verdict
    <3>2. RowFits(c, row)
      BY <1>a, <2>1, <2>3, <3>1 DEF RowFits, Child, Inv, ResultsAreTrue
    <3>3. child' = [child EXCEPT ![c] = row]
      BY <1>0, <1>a, <2>3 DEF TypeOK
    <3> HIDE DEF row
    <3> QED BY <3>2, <3>3
  <2> QED BY <2>2, <2>3
<1>c. /\ child' \in [Children -> Child]
      /\ child'[c] = row /\ \A d \in Children \ {c} : child'[d] = child[d]
      /\ SuccessIsBacked' /\ ResultsAreTrue'
      /\ \A d \in Children : child[d].st # "absent" => child'[d].st # "absent"
  <2>1. UNCHANGED parent
    OBVIOUS
  <2> QED BY <1>a, <1>b, <2>1, RowChanges
<1>1. TypeOK'
  <2>1. parent' \in [st : JobState, cancel : BOOLEAN]
    BY <1>0 DEF TypeOK, JobState, Active, Terminal
  <2>2. child' \in [Children -> Child]
    BY <1>c
  <2>3. run' \in {"started", "succeeded", "failed"}
    BY <1>0 DEF TypeOK
  <2>4. good' \subseteq Children \cup {Root} /\ stale' \subseteq Children
    BY <1>0 DEF TypeOK, Children, Own
  <2>5. pc' \in PC /\ cpc' \in [Own -> CPC]
    BY <1>0 DEF TypeOK, PC, CPC
  <2> QED
    BY <1>0, <2>1, <2>2, <2>3, <2>4, <2>5, BoundAssumption DEF TypeOK
<1>2. SuccessIsBacked'
  BY <1>c
<1>3. ResultsAreTrue'
  BY <1>c
<1>4. StaleIsOver'
  BY <1>0, <1>a, <1>c DEF Inv, StaleIsOver, TypeOK
<1>5. SuccessIsLate'
  BY <1>0 DEF Inv, SuccessIsLate, TypeOK
<1>6. StartedExist'
  BY <1>0, <1>a, <1>c DEF Inv, StartedExist, TypeOK
<1> QED BY <1>1, <1>2, <1>3, <1>4, <1>5, <1>6 DEF Inv

LEMMA ChildFailStep ==
  ASSUME Inv, NEW c \in Own, ChildFail(c)
  PROVE  Inv'
<1> USE DEF ChildFail, Move, CPU, Attached, RolledBack
<1>0. TypeOK
  BY DEF Inv
<1>a. c \in Children /\ c[1] \in Addresses /\ Own \subseteq Children
  BY DEF Own, Children
<1>b. PICK row : RowFits(c, row) /\ child' = [child EXCEPT ![c] = row]
  <2>1. child[c] \in Child /\ child[c].st # "absent"
    BY <1>0, <1>a DEF Inv, StartedExist, TypeOK
  <2>2. CASE UNCHANGED child
    BY <1>a, <2>1, <2>2, SameRow
  <2>3. CASE /\ child[c].st = "running"
            /\ child' = [child EXCEPT ![c] =
                  [@ EXCEPT !.st = "failed", !.res = "failed", !.verdict = "unreachable"]]
    <3> DEFINE row == [child[c] EXCEPT !.st = "failed", !.res = "failed", !.verdict = "unreachable"]
    <3>1. row \in Child
      BY <2>1, <2>3 DEF Child, JobState, Active, Terminal, Verdict
    <3>2. RowFits(c, row)
      BY <1>a, <2>1, <2>3, <3>1 DEF RowFits, Child, Inv, ResultsAreTrue
    <3>3. child' = [child EXCEPT ![c] = row]
      BY <1>0, <1>a, <2>3 DEF TypeOK
    <3> HIDE DEF row
    <3> QED BY <3>2, <3>3
  <2> QED BY <2>2, <2>3
<1>c. /\ child' \in [Children -> Child]
      /\ child'[c] = row /\ \A d \in Children \ {c} : child'[d] = child[d]
      /\ SuccessIsBacked' /\ ResultsAreTrue'
      /\ \A d \in Children : child[d].st # "absent" => child'[d].st # "absent"
  <2>1. UNCHANGED parent
    OBVIOUS
  <2> QED BY <1>a, <1>b, <2>1, RowChanges
<1>1. TypeOK'
  <2>1. parent' \in [st : JobState, cancel : BOOLEAN]
    BY <1>0 DEF TypeOK, JobState, Active, Terminal
  <2>2. child' \in [Children -> Child]
    BY <1>c
  <2>3. run' \in {"started", "succeeded", "failed"}
    BY <1>0 DEF TypeOK
  <2>4. good' \subseteq Children \cup {Root} /\ stale' \subseteq Children
    BY <1>0 DEF TypeOK, Children, Own
  <2>5. pc' \in PC /\ cpc' \in [Own -> CPC]
    BY <1>0 DEF TypeOK, PC, CPC
  <2> QED
    BY <1>0, <2>1, <2>2, <2>3, <2>4, <2>5, BoundAssumption DEF TypeOK
<1>2. SuccessIsBacked'
  BY <1>c
<1>3. ResultsAreTrue'
  BY <1>c
<1>4. StaleIsOver'
  BY <1>0, <1>a, <1>c DEF Inv, StaleIsOver, TypeOK
<1>5. SuccessIsLate'
  BY <1>0 DEF Inv, SuccessIsLate, TypeOK
<1>6. StartedExist'
  BY <1>0, <1>a, <1>c DEF Inv, StartedExist, TypeOK
<1> QED BY <1>1, <1>2, <1>3, <1>4, <1>5, <1>6 DEF Inv

LEMMA ChildFinaliseStep ==
  ASSUME Inv, NEW c \in Own, ChildFinalise(c)
  PROVE  Inv'
<1> USE DEF ChildFinalise, Move, CPU, Attached, RolledBack
<1>0. TypeOK
  BY DEF Inv
<1>a. c \in Children /\ c[1] \in Addresses /\ Own \subseteq Children
  BY DEF Own, Children
<1>b. PICK row : RowFits(c, row) /\ child' = [child EXCEPT ![c] = row]
  <2>1. child[c] \in Child /\ child[c].st # "absent"
    BY <1>0, <1>a DEF Inv, StartedExist, TypeOK
  <2>2. CASE UNCHANGED child
    BY <1>a, <2>1, <2>2, SameRow
  <2>3. CASE /\ child[c].st \in {"running", "cancelled"}
            /\ child' = [child EXCEPT ![c] =
                  [@ EXCEPT !.st = "cancelled", !.cancel = TRUE, !.res = "cancelled"]]
    <3> DEFINE row == [child[c] EXCEPT !.st = "cancelled", !.cancel = TRUE, !.res = "cancelled"]
    <3>1. row \in Child
      BY <2>1, <2>3 DEF Child, JobState, Active, Terminal, Verdict
    <3>2. RowFits(c, row)
      BY <1>a, <2>1, <2>3, <3>1 DEF RowFits, Child, Inv, ResultsAreTrue
    <3>3. child' = [child EXCEPT ![c] = row]
      BY <1>0, <1>a, <2>3 DEF TypeOK
    <3> HIDE DEF row
    <3> QED BY <3>2, <3>3
  <2>4. ASSUME child[c].st \in {"running", "cancelled"},
               NEW ip \in ReportedIP[c[1]] \cup {c[1]},
               child' = [child EXCEPT ![c] =
                  [@ EXCEPT !.st = "cancelled", !.cancel = TRUE, !.res = "cancelled",
                            !.verdict = "discovered", !.addr = ip]]
        PROVE  \E row : RowFits(c, row) /\ child' = [child EXCEPT ![c] = row]
    <3> DEFINE row == [child[c] EXCEPT !.st = "cancelled", !.cancel = TRUE, !.res = "cancelled",
                                       !.verdict = "discovered", !.addr = ip]
    <3>0. ip \in Reported
      BY <1>a, <2>4 DEF Reported
    <3>1. row \in Child
      BY <2>1, <3>0 DEF Child, JobState, Active, Terminal, Verdict
    <3>2. RowFits(c, row)
      BY <2>1, <2>4, <3>1 DEF RowFits, Child
    <3>3. child' = [child EXCEPT ![c] = row]
      BY <1>0, <1>a, <2>4 DEF TypeOK
    <3> HIDE DEF row
    <3> QED BY <3>2, <3>3
  <2> QED BY <2>2, <2>3, <2>4
<1>c. /\ child' \in [Children -> Child]
      /\ child'[c] = row /\ \A d \in Children \ {c} : child'[d] = child[d]
      /\ SuccessIsBacked' /\ ResultsAreTrue'
      /\ \A d \in Children : child[d].st # "absent" => child'[d].st # "absent"
  <2>1. UNCHANGED parent
    OBVIOUS
  <2> QED BY <1>a, <1>b, <2>1, RowChanges
<1>1. TypeOK'
  <2>1. parent' \in [st : JobState, cancel : BOOLEAN]
    BY <1>0 DEF TypeOK, JobState, Active, Terminal
  <2>2. child' \in [Children -> Child]
    BY <1>c
  <2>3. run' \in {"started", "succeeded", "failed"}
    BY <1>0 DEF TypeOK
  <2>4. good' \subseteq Children \cup {Root} /\ stale' \subseteq Children
    BY <1>0 DEF TypeOK, Children, Own
  <2>5. pc' \in PC /\ cpc' \in [Own -> CPC]
    BY <1>0 DEF TypeOK, PC, CPC
  <2> QED
    BY <1>0, <2>1, <2>2, <2>3, <2>4, <2>5, BoundAssumption DEF TypeOK
<1>2. SuccessIsBacked'
  BY <1>c
<1>3. ResultsAreTrue'
  BY <1>c
<1>4. StaleIsOver'
  BY <1>0, <1>a, <1>c DEF Inv, StaleIsOver, TypeOK
<1>5. SuccessIsLate'
  BY <1>0 DEF Inv, SuccessIsLate, TypeOK
<1>6. StartedExist'
  BY <1>0, <1>a, <1>c DEF Inv, StartedExist, TypeOK
<1> QED BY <1>1, <1>2, <1>3, <1>4, <1>5, <1>6 DEF Inv

LEMMA ChildTailStep ==
  ASSUME Inv, NEW c \in Own, ChildTail(c)
  PROVE  Inv'
<1> USE DEF ChildTail, Move, CPU, Attached, Return, Tail
<1>0. TypeOK
  BY DEF Inv
<1>a. c \in Children /\ c[1] \in Addresses /\ Own \subseteq Children
  BY DEF Own, Children
<1>b. PICK row : RowFits(c, row) /\ child' = [child EXCEPT ![c] = row]
  <2>1. child[c] \in Child /\ child[c].st # "absent"
    BY <1>0, <1>a DEF Inv, StartedExist, TypeOK
  <2>3. CASE UNCHANGED child
    BY <1>a, <2>1, <2>3, SameRow
  <2>4. CASE child' = [child EXCEPT ![c] = Tail(child[c])]
    <3> DEFINE row == Tail(child[c])
    <3>1. row \in Child
      BY <2>1, <2>4 DEF Child, JobState, Active, Terminal, Verdict
    <3>2. RowFits(c, row)
      BY <1>a, <2>1, <2>4, <3>1 DEF RowFits, Child, Inv, ResultsAreTrue
    <3>3. child' = [child EXCEPT ![c] = row]
      BY <1>0, <1>a, <2>4 DEF TypeOK
    <3> HIDE DEF row
    <3> QED BY <3>2, <3>3
  <2> QED BY <1>0, <1>a, <2>3, <2>4 DEF TypeOK
<1>c. /\ child' \in [Children -> Child]
      /\ child'[c] = row /\ \A d \in Children \ {c} : child'[d] = child[d]
      /\ SuccessIsBacked' /\ ResultsAreTrue'
      /\ \A d \in Children : child[d].st # "absent" => child'[d].st # "absent"
  <2>1. UNCHANGED parent
    OBVIOUS
  <2> QED BY <1>a, <1>b, <2>1, RowChanges
<1>1. TypeOK'
  <2>1. parent' \in [st : JobState, cancel : BOOLEAN]
    BY <1>0 DEF TypeOK, JobState, Active, Terminal
  <2>2. child' \in [Children -> Child]
    BY <1>c
  <2>3. run' \in {"started", "succeeded", "failed"}
    BY <1>0 DEF TypeOK
  <2>4. good' \subseteq Children \cup {Root} /\ stale' \subseteq Children
    BY <1>0 DEF TypeOK, Children, Own
  <2>5. pc' \in PC /\ cpc' \in [Own -> CPC]
    BY <1>0 DEF TypeOK, PC, CPC
  <2> QED
    BY <1>0, <2>1, <2>2, <2>3, <2>4, <2>5, BoundAssumption DEF TypeOK
<1>2. SuccessIsBacked'
  BY <1>c
<1>3. ResultsAreTrue'
  BY <1>c
<1>4. StaleIsOver'
  BY <1>0, <1>a, <1>c DEF Inv, StaleIsOver, TypeOK
<1>5. SuccessIsLate'
  BY <1>0 DEF Inv, SuccessIsLate, TypeOK
<1>6. StartedExist'
  BY <1>0, <1>a, <1>c DEF Inv, StartedExist, TypeOK
<1> QED BY <1>1, <1>2, <1>3, <1>4, <1>5, <1>6 DEF Inv

LEMMA ChildDetachedStep ==
  ASSUME Inv, NEW c \in Own, ChildDetached(c)
  PROVE  Inv'
<1> USE DEF ChildDetached, Move, CPU, Attached
<1>0. TypeOK
  BY DEF Inv
<1>1. TypeOK'
  <2>1. parent' \in [st : JobState, cancel : BOOLEAN]
    BY <1>0 DEF TypeOK, JobState, Active, Terminal
  <2>2. child' \in [Children -> Child]
    BY <1>0 DEF TypeOK, Child, JobState, Active, Terminal, Verdict
  <2>3. run' \in {"started", "succeeded", "failed"}
    BY <1>0 DEF TypeOK
  <2>4. good' \subseteq Children \cup {Root} /\ stale' \subseteq Children
    BY <1>0 DEF TypeOK, Children, Own
  <2>5. pc' \in PC /\ cpc' \in [Own -> CPC]
    BY <1>0 DEF TypeOK, PC, CPC
  <2> QED
    BY <1>0, <2>1, <2>2, <2>3, <2>4, <2>5, BoundAssumption DEF TypeOK
<1>2. SuccessIsBacked'
  BY <1>0 DEF Inv, SuccessIsBacked, TypeOK, Child
<1>3. ResultsAreTrue'
  BY <1>0 DEF Inv, ResultsAreTrue, TypeOK, Child
<1>4. StaleIsOver'
  BY <1>0 DEF Inv, StaleIsOver, TypeOK, Child
<1>5. SuccessIsLate'
  BY <1>0 DEF Inv, SuccessIsLate, TypeOK
<1>6. StartedExist'
  BY <1>0 DEF Inv, StartedExist, TypeOK
<1> QED BY <1>1, <1>2, <1>3, <1>4, <1>5, <1>6 DEF Inv

LEMMA RecoverReadStep ==
  ASSUME Inv, RecoverRead
  PROVE  Inv'
<1> USE DEF RecoverRead, table, worker
<1>0. TypeOK
  BY DEF Inv
<1>1. TypeOK'
  <2>1. parent' \in [st : JobState, cancel : BOOLEAN]
    BY <1>0 DEF TypeOK, JobState, Active, Terminal
  <2>2. child' \in [Children -> Child]
    BY <1>0 DEF TypeOK, Child, JobState, Active, Terminal, Verdict
  <2>3. run' \in {"started", "succeeded", "failed"}
    BY <1>0 DEF TypeOK
  <2>4. good' \subseteq Children \cup {Root} /\ stale' \subseteq Children
    BY <1>0 DEF TypeOK, Children, Own
  <2>5. pc' \in PC /\ cpc' \in [Own -> CPC]
    BY <1>0 DEF TypeOK, PC, CPC
  <2> QED
    <3>1. /\ alive' \in BOOLEAN /\ stopping' \in BOOLEAN /\ lost' \in BOOLEAN
          /\ busy' \subseteq Addresses /\ faults' \in 0 .. MaxFaults
      BY <1>0 DEF TypeOK
    <3>2. rival' \in [cancel : BOOLEAN, queued : SUBSET Children, running : SUBSET Children]
      BY <1>0 DEF TypeOK, ReadTree
    <3> QED BY <2>1, <2>2, <2>3, <2>4, <2>5, <3>1, <3>2 DEF TypeOK
<1>2. SuccessIsBacked'
  BY <1>0 DEF Inv, SuccessIsBacked, TypeOK, Child
<1>3. ResultsAreTrue'
  BY <1>0 DEF Inv, ResultsAreTrue, TypeOK, Child
<1>4. StaleIsOver'
  BY <1>0 DEF Inv, StaleIsOver, TypeOK, Child
<1>5. SuccessIsLate'
  BY <1>0 DEF Inv, SuccessIsLate, TypeOK
<1>6. StartedExist'
  BY <1>0 DEF Inv, StartedExist, TypeOK
<1> QED BY <1>1, <1>2, <1>3, <1>4, <1>5, <1>6 DEF Inv

LEMMA RecoverApplyStep ==
  ASSUME Inv, RecoverApply
  PROVE  Inv'
<1> USE DEF RecoverApply, table, worker
<1>0. TypeOK
  BY DEF Inv
<1>a. \/ UNCHANGED table
      \/ /\ parent' \in ParentRow /\ parent'.st \in {"failed", "cancelled"}
         /\ child' \in [Children -> Child] /\ run' \in {"started", "succeeded", "failed"}
         /\ RowsKept(child')
  <2>1. rival.cancel \in BOOLEAN
    BY <1>0 DEF TypeOK
  <2>2. EndTree(rival) \/ UNCHANGED table
    OBVIOUS
  <2> QED BY <1>0, <2>1, <2>2, EndTreeFacts
<1>b. /\ parent' \in ParentRow /\ child' \in [Children -> Child]
      /\ run' \in {"started", "succeeded", "failed"}
  BY <1>0, <1>a DEF TypeOK, ParentRow, table
<1>c. /\ SuccessIsBacked' /\ ResultsAreTrue' /\ StaleIsOver'
      /\ SuccessIsLate' /\ StartedExist'
  <2>1. pc' \in {pc, "close", "done"} /\ UNCHANGED <<cpc, stale>>
    OBVIOUS
  <2>2. CASE UNCHANGED table
    <3>1. SuccessIsBacked' /\ ResultsAreTrue'
      BY <2>2 DEF Inv, SuccessIsBacked, ResultsAreTrue, table
    <3>2. StaleIsOver'
      BY <2>1, <2>2 DEF Inv, StaleIsOver, table
    <3>3. SuccessIsLate' /\ StartedExist'
      BY <2>1, <2>2 DEF Inv, SuccessIsLate, StartedExist, table
    <3> QED BY <3>1, <3>2, <3>3
  <2>3. CASE parent'.st \in {"failed", "cancelled"} /\ RowsKept(child')
    BY <2>1, <2>3, TreeEnds
  <2> QED BY <1>a, <2>2, <2>3
<1>1. TypeOK'
  <2>1. parent' \in [st : JobState, cancel : BOOLEAN]
    BY <1>b DEF ParentRow
  <2>2. child' \in [Children -> Child]
    BY <1>b
  <2>3. run' \in {"started", "succeeded", "failed"}
    BY <1>b
  <2>4. good' \subseteq Children \cup {Root} /\ stale' \subseteq Children
    BY <1>0 DEF TypeOK, Children, Own
  <2>5. pc' \in PC /\ cpc' \in [Own -> CPC]
    BY <1>0 DEF TypeOK, PC, CPC
  <2> QED
    BY <1>0, <2>1, <2>2, <2>3, <2>4, <2>5, BoundAssumption DEF TypeOK
<1>2. SuccessIsBacked'
  BY <1>c
<1>3. ResultsAreTrue'
  BY <1>c
<1>4. StaleIsOver'
  BY <1>c
<1>5. SuccessIsLate'
  BY <1>c
<1>6. StartedExist'
  BY <1>c
<1> QED BY <1>1, <1>2, <1>3, <1>4, <1>5, <1>6 DEF Inv

-----------------------------------------------------------------------------
(* The invariant                                                           *)

LEMMA InitInv == Init => Inv
<1> SUFFICES ASSUME Init PROVE Inv
  OBVIOUS
<1>1. ASSUME NEW c \in Children
      PROVE  Fresh(c[1], "absent") \in Child
  <2>1. c[1] \in Reported
    BY DEF Children, Reported
  <2> QED BY <2>1 DEF Fresh, Child, JobState, Active, Verdict
<1>2. child \in [Children -> Child]
  BY <1>1 DEF Init
<1>3. cpc \in [Own -> CPC] /\ pc \in PC
  BY DEF Init, CPC, PC
<1>4. TypeOK
  <2>1. parent \in [st : JobState, cancel : BOOLEAN]
    BY DEF Init, JobState
  <2>2. faults \in 0 .. MaxFaults
    BY BoundAssumption DEF Init
  <2> QED BY <1>2, <1>3, <2>1, <2>2 DEF Init, TypeOK
<1>5. \A c \in Children : child[c].res = "queued"
  BY DEF Init, Fresh
<1>6. SuccessIsBacked /\ ResultsAreTrue /\ StaleIsOver /\ SuccessIsLate
  BY <1>5 DEF Init, SuccessIsBacked, ResultsAreTrue, StaleIsOver, SuccessIsLate
<1>7. StartedExist
  BY DEF Init, StartedExist
<1> QED BY <1>4, <1>6, <1>7 DEF Inv

LEMMA StutterInv ==
  ASSUME Inv, UNCHANGED vars
  PROVE  Inv'
<1>1. TypeOK'
  BY DEF Inv, TypeOK, vars, table, worker
<1>2. SuccessIsBacked' /\ ResultsAreTrue' /\ SuccessIsLate'
  BY DEF Inv, SuccessIsBacked, ResultsAreTrue, SuccessIsLate, vars, table, worker
<1>3. StaleIsOver' /\ StartedExist'
  BY DEF Inv, StaleIsOver, StartedExist, vars, table, worker
<1> QED BY <1>1, <1>2, <1>3 DEF Inv

LEMMA NextInv ==
  ASSUME Inv, [Next]_vars
  PROVE  Inv'
<1>1. CASE Operator
  BY <1>1, SubmitStep, CancelParentStep, ResolveParentStep, CancelChildStep,
     ResolveChildStep
  DEF Operator
<1>2. CASE Environment
  BY <1>2, ForeignStartsStep, ForeignEndsStep, HeartbeatStep, HeartbeatErrorStep,
     StopStep, CrashStep, LeaseExpiresStep
  DEF Environment
<1>3. CASE Parent
  BY <1>3, ClaimStep, BeginStep, CreateChildrenStep, CreateRaisesStep,
     GatherDoneStep, GatherRaisesStep, ReconcileRunStep, ReconcileRaisesStep,
     FinishStep, FinishStateStep, FinishCancelStep, RaisedStep, CloseStep
  DEF Parent
<1>4. ASSUME NEW c \in Own, Coroutine(c) PROVE Inv'
  BY <1>4, ChildEnterStep, ChildAcquireStep, ChildCancelledStep, ChildClaimStep,
     ChildCollectedStep, ChildLeaseLostStep, ChildRaisesStep, ChildNotedStep,
     ChildSucceedStep, ChildProcessedStep, ChildStep7Step, ChildFailStep,
     ChildFinaliseStep, ChildTailStep, ChildDetachedStep
  DEF Coroutine
<1>5. CASE ExecuteError \/ RecoverRead \/ RecoverApply
  BY <1>5, ExecuteErrorStep, RecoverReadStep, RecoverApplyStep
<1>6. CASE UNCHANGED vars
  BY <1>6, StutterInv
<1> QED BY <1>1, <1>2, <1>3, <1>4, <1>5, <1>6 DEF Next

\* Whatever the worker, its coroutines, the recovering worker and the operators
\* interleave to, a range is reported as succeeded only if one of its addresses
\* was discovered (execute_discovery_job, reconcile_parent_job).
THEOREM FanoutInvariance == Spec => []Inv
BY InitInv, NextInv, PTL DEF Spec

-----------------------------------------------------------------------------
(* Refinement of JobLifecycle by the parent's row                          *)

\* What a step may do to the parent's status.
Moves == \/ parent'.st = parent.st
         \/ parent.st = "absent" /\ parent'.st = "queued"
         \/ parent.st = "queued" /\ parent'.st \in {"running", "cancelled"}
         \/ parent.st = "running" /\ parent'.st \in Terminal

LEMMA TreeMoves ==
  ASSUME Inv, Abandon \/ (rival # NULL /\ EndTree(rival)) \/ UNCHANGED table
  PROVE  Moves
<1>1. TypeOK
  BY DEF Inv
<1>2. CASE Abandon
  BY <1>1, <1>2, AbandonFacts DEF Moves, Terminal, table
<1>3. CASE rival # NULL /\ EndTree(rival)
  <2>1. rival.cancel \in BOOLEAN
    BY <1>1, <1>3 DEF TypeOK
  <2> QED BY <1>1, <1>3, <2>1, EndTreeFacts DEF Moves, Terminal
<1>4. CASE UNCHANGED table
  BY <1>4 DEF Moves, table
<1> QED BY <1>2, <1>3, <1>4

\* Every step moves the parent's status along the lifecycle.
LEMMA StepMoves ==
  ASSUME Inv, [Next]_vars
  PROVE  Moves
<1>0. parent \in [st : JobState, cancel : BOOLEAN]
  BY DEF Inv, TypeOK
<1>1. CASE Operator
  <2>1. CASE Submit
    BY <1>0, <2>1 DEF Submit, Moves
  <2>2. CASE CancelParent
    <3>1. \/ parent' = [parent EXCEPT !.cancel = TRUE]
          \/ parent.st = "queued" /\ parent' = [st |-> "cancelled", cancel |-> TRUE]
      BY <2>2 DEF CancelParent
    <3>2. [parent EXCEPT !.cancel = TRUE].st = parent.st
      BY <1>0
    <3>3. [st |-> "cancelled", cancel |-> TRUE].st = "cancelled"
      OBVIOUS
    <3> QED BY <3>1, <3>2, <3>3 DEF Moves
  <2>3. CASE ResolveParent
    BY <1>0, <2>3 DEF ResolveParent, Moves, Terminal
  <2>4. ASSUME NEW c \in Children, CancelChild(c) \/ ResolveChild(c) PROVE Moves
    BY <2>4 DEF CancelChild, ResolveChild, Moves
  <2> QED BY <1>1, <2>1, <2>2, <2>3, <2>4 DEF Operator
<1>2. CASE Environment
  <2>1. CASE HeartbeatError
    BY <2>1, TreeMoves DEF HeartbeatError
  <2>2. ASSUME NEW a \in Addresses, ForeignStarts(a) \/ ForeignEnds(a) PROVE Moves
    BY <2>2 DEF ForeignStarts, ForeignEnds, Moves, table
  <2>3. CASE Heartbeat \/ Stop \/ Crash \/ LeaseExpires
    BY <2>3 DEF Heartbeat, Stop, Crash, LeaseExpires, Moves, table
  <2> QED BY <1>2, <2>1, <2>2, <2>3 DEF Environment
<1>3. CASE Parent
  <2>1. CASE Claim
    BY <1>0, <2>1 DEF Claim, Moves
  <2>2. CASE FinishState
    BY <1>0, <2>2 DEF FinishState, FinalState, Moves, Terminal
  <2>3. CASE FinishCancel
    BY <1>0, <2>3 DEF FinishCancel, Moves, Terminal
  <2>4. CASE Raised
    BY <1>0, <2>4 DEF Raised, Moves, Terminal, table
  <2>5. CASE Close
    BY <2>5, TreeMoves DEF Close
  <2>6. CASE \/ Begin \/ CreateChildren \/ CreateRaises \/ GatherDone \/ GatherRaises
             \/ ReconcileRun \/ ReconcileRaises \/ Finish
    BY <2>6 DEF Begin, CreateChildren, CreateRaises, GatherDone, GatherRaises,
                ReconcileRun, ReconcileRaises, Finish, Moves, table
  <2> QED BY <1>3, <2>1, <2>2, <2>3, <2>4, <2>5, <2>6 DEF Parent
<1>4. ASSUME NEW c \in Own, Coroutine(c) PROVE Moves
  BY <1>4
  DEF Coroutine, ChildEnter, ChildAcquire, ChildCancelled, ChildClaim, ChildCollected,
      ChildLeaseLost, ChildRaises, ChildNoted, ChildSucceed, ChildProcessed, ChildStep7,
       ChildFail, ChildFinalise, ChildTail,
      ChildDetached, Move, Moves
<1>5. CASE ExecuteError \/ RecoverRead
  BY <1>5 DEF ExecuteError, RecoverRead, Moves, table
<1>6. CASE RecoverApply
  BY <1>6, TreeMoves DEF RecoverApply
<1>7. CASE UNCHANGED vars
  BY <1>7 DEF Moves, vars, table
<1> QED BY <1>1, <1>2, <1>3, <1>4, <1>5, <1>6, <1>7 DEF Next

\* The parent's row implements the lifecycle of a discovery job: a terminal
\* status is final, whoever of the worker, its error handler, its heartbeat,
\* the recovering worker and the operators writes last.
THEOREM ParentRefinement == Spec => ParentContract
<1> DEFINE status == [r \in {Root} |-> parent.st]
<1>1. Init => ParentJob!Init
  BY DEF Init, ParentJob!Init
<1>2. Inv /\ [Next]_vars => [ParentJob!Next]_status
  <2> SUFFICES ASSUME Inv, [Next]_vars PROVE ParentJob!Next
    OBVIOUS
  <2>1. parent'.st \in JobState
    BY NextInv DEF Inv, TypeOK
  <2>2. status' \in [{Root} -> ParentJob!Status]
    BY <2>1 DEF JobState, Active, Terminal, ParentJob!Status
  <2>3. status'[Root] = status[Root] \/ status'[Root] \in ParentJob!Allowed(status[Root])
    BY StepMoves DEF Moves, Terminal, ParentJob!Allowed
  <2> QED BY <2>2, <2>3 DEF ParentJob!Next
<1> QED BY <1>1, <1>2, FanoutInvariance, PTL DEF Spec, ParentContract, ParentJob!Spec

-----------------------------------------------------------------------------
(* Discoveries are kept                                                    *)

Discovered(row) == row.verdict = "discovered" /\ row.res \in Terminal

\* A device whose complete result says it was discovered belongs to a child that
\* has ended and whose coroutine writes no verdict any more; a result is complete
\* only when its job has ended or nobody executes it; and no coroutine runs before
\* the children are created.
DiscoveredIsOver ==
    /\ \A c \in Children : Discovered(child[c]) =>
          child[c].st \in Terminal /\ c \in Own /\ cpc[c] \in {"tail", "done"}
    /\ \A c \in Children : child[c].res \in Terminal =>
          child[c].st \in Terminal \/ (c \in Own /\ cpc[c] = "done")
    /\ pc \in {"idle", "begin", "create"} => \A c \in Own : cpc[c] = "none"

\* A step of nobody's coroutine that gives no verdicts.
LEMMA NoVerdicts ==
  ASSUME DiscoveredIsOver, UNCHANGED cpc,
         pc' \in {"idle", "begin", "create"} => pc \in {"idle", "begin", "create"},
         \A c \in Children : /\ child'[c].verdict = child[c].verdict
                             /\ child'[c].res = child[c].res
                             /\ child[c].st \in Terminal => child'[c].st \in Terminal
  PROVE  DiscoveredIsOver' /\ KeepsDiscoveries
BY DEF DiscoveredIsOver, KeepsDiscoveries, Discovered

\* A reconciliation, of the table or of rows of it that were ended before.
LEMMA ReconcileKeepsDiscoveries ==
  ASSUME DiscoveredIsOver, UNCHANGED cpc, pc' \in {pc, "finish", "close", "done"},
         NEW ch \in [Children -> Child], NEW open, ActiveIn(ch) \subseteq open,
         NEW intr \in BOOLEAN, Reconcile(ch, open, intr),
         \A c \in Children : /\ ch[c].verdict = child[c].verdict /\ ch[c].res = child[c].res
                             /\ child[c].st \in Terminal => ch[c].st \in Terminal
  PROVE  DiscoveredIsOver' /\ KeepsDiscoveries
<1>1. PICK f \in ByAddress(ch) :
         child' = [c \in Children |->
            IF c \in {f[a] : a \in Addresses} THEN Reconciled(ch[c], c \in open, intr)
                                              ELSE ch[c]]
  BY DEF Reconcile
<1>2. ASSUME NEW c \in Children
      PROVE  /\ Discovered(child[c]) => Discovered(child'[c]) /\ child'[c].st \in Terminal
             /\ Discovered(child'[c]) => Discovered(child[c])
             /\ child'[c].res \in Terminal =>
                   child'[c].st \in Terminal \/ child[c].res \in Terminal
             /\ child[c].st \in Terminal => child'[c].st \in Terminal
  <2> DEFINE isOpen == c \in open
             row == ch[c]
             st == IF isOpen \/ row.st = "absent" THEN Outcome(intr) ELSE row.st
             end == row.verdict = "none" \/ row.res \in Active \cup {"discovering"}
             res == IF end THEN Outcome(intr) ELSE row.res
             verdict == IF ~end THEN row.verdict
                        ELSE IF intr THEN "interrupted" ELSE "cancelled"
             new == [row EXCEPT !.st = st, !.res = res, !.verdict = verdict]
  <2>1. child'[c] \in {new, row}
    BY <1>1 DEF Reconciled
  <2>2. Discovered(child[c]) => row.st \in Terminal
    BY DEF DiscoveredIsOver
  <2>3. Discovered(child[c]) => ~ end /\ st \in Terminal
    BY <2>2 DEF Outcome, Terminal, Active, Discovered
  <2>4. verdict = "discovered" => ~ end /\ row.verdict = "discovered"
    OBVIOUS
  <2>5. row \in Child
    OBVIOUS
  <2>6. row.st \notin Terminal => isOpen \/ row.st = "absent"
    BY <2>5 DEF ActiveIn, Child, JobState
  <2>7. st \in Terminal
    BY <2>6 DEF Outcome, Terminal
  <2>8. ~ end => res = row.res /\ verdict = row.verdict
    OBVIOUS
  <2> HIDE DEF st, res, verdict, end
  <2>9. new.st = st /\ new.res = res /\ new.verdict = verdict
    BY <2>5 DEF Child
  <2> HIDE DEF new
  <2> QED BY <2>1, <2>2, <2>3, <2>4, <2>7, <2>8, <2>9 DEF Discovered
<1>3. DiscoveredIsOver'
  BY <1>2 DEF DiscoveredIsOver
<1>4. KeepsDiscoveries
  BY <1>2 DEF KeepsDiscoveries, Discovered
<1> QED BY <1>3, <1>4

\* The end of a tree that was read before.
LEMMA EndTreeKeepsDiscoveries ==
  ASSUME TypeOK, DiscoveredIsOver, UNCHANGED cpc, pc' \in {pc, "done"},
         NEW t, t.cancel \in BOOLEAN, EndTree(t)
  PROVE  DiscoveredIsOver' /\ KeepsDiscoveries
<1> DEFINE ch == TreeRows(t)
           intr == ~ t.cancel
<1>1. ch \in [Children -> Child] /\ intr \in BOOLEAN
  BY TreeRowsFacts
<1>2. Reconcile(ch, ActiveIn(ch), intr)
  BY DEF EndTree
<1>3. ASSUME NEW c \in Children
      PROVE  /\ ch[c].verdict = child[c].verdict /\ ch[c].res = child[c].res
             /\ child[c].st \in Terminal => ch[c].st \in Terminal
  <2>1. child[c] \in Child
    BY DEF TypeOK
  <2>2. ch[c] \in {child[c], [child[c] EXCEPT !.st = Outcome(~ t.cancel)]}
    BY DEF TreeRows
  <2> HIDE DEF ch
  <2> QED BY <2>1, <2>2 DEF Child, Outcome, Terminal
<1> HIDE DEF ch, intr
<1> QED BY <1>1, <1>2, <1>3, ReconcileKeepsDiscoveries

\* A coroutine that goes on from p to q.
LEMMA CoroutineKeepsDiscoveries ==
  ASSUME TypeOK, DiscoveredIsOver, NEW c \in Own, NEW p, NEW q, NEW row, Move(c, p, q),
         child' = [child EXCEPT ![c] = row],
         Discovered(child[c]) => row.verdict = "discovered",
         Discovered(row) => row.st \in Terminal /\ q \in {"tail", "done"},
         row.res \in Terminal => row.st \in Terminal \/ q = "done"
  PROVE  DiscoveredIsOver' /\ KeepsDiscoveries
<1>1. cpc' = [cpc EXCEPT ![c] = q] /\ pc \in {"gather", "done"} /\ pc' = pc
  BY DEF Move, Attached
<1>2. c \in Children /\ child \in [Children -> Child] /\ cpc \in [Own -> CPC]
  BY DEF Own, Children, TypeOK
<1>3. child'[c] = row /\ \A d \in Children : d # c => child'[d] = child[d]
  BY <1>2
<1>4. cpc'[c] = q /\ \A d \in Own : d # c => cpc'[d] = cpc[d]
  BY <1>1, <1>2
<1>5. cpc[c] = p /\ DiscoveredIsOver
  BY DEF Move
<1>6. DiscoveredIsOver'
  BY <1>1, <1>2, <1>3, <1>4, <1>5 DEF DiscoveredIsOver
<1>7. KeepsDiscoveries
  BY <1>3 DEF KeepsDiscoveries, Discovered
<1> QED BY <1>6, <1>7

LEMMA QuietMoveKeepsDiscoveries ==
  ASSUME TypeOK, DiscoveredIsOver, NEW c \in Own, NEW p, NEW q, Move(c, p, q),
         UNCHANGED child, p \notin {"tail", "done"} \/ q = "done"
  PROVE  DiscoveredIsOver' /\ KeepsDiscoveries
<1>1. cpc[c] = p /\ c \in Children
  BY DEF Move, Own, Children
<1>2. child' = [child EXCEPT ![c] = child[c]]
  BY DEF TypeOK
<1>3. Discovered(child[c]) =>
         /\ child[c].verdict = "discovered" /\ child[c].st \in Terminal
         /\ q \in {"tail", "done"}
  BY <1>1 DEF DiscoveredIsOver, Discovered
<1>4. child[c].res \in Terminal => child[c].st \in Terminal \/ q = "done"
  BY <1>1 DEF DiscoveredIsOver
<1> QED BY <1>2, <1>3, <1>4, CoroutineKeepsDiscoveries

LEMMA ReturnKeepsDiscoveries ==
  ASSUME TypeOK, DiscoveredIsOver, NEW c \in Own, NEW p, Move(c, p, "done"),
         Return(c, child[c])
  PROVE  DiscoveredIsOver' /\ KeepsDiscoveries
<1> DEFINE row == IF Attached THEN Tail(child[c]) ELSE child[c]
<1>1. child' = [child EXCEPT ![c] = row]
  BY DEF Return
<1>2. c \in Children /\ child[c] \in Child
  BY DEF Own, Children, TypeOK
<1>3. Discovered(child[c]) => child[c].verdict = "discovered" /\ child[c].st \in Terminal
  BY <1>2 DEF DiscoveredIsOver, Discovered
<1>4. CASE Attached
  <2>1. /\ row.st = child[c].st /\ row.res = child[c].st
        /\ row.verdict = IF child[c].verdict # "none" THEN child[c].verdict
                         ELSE IF child[c].st = "succeeded" THEN "discovered"
                         ELSE "no_management"
    BY <1>2, <1>4 DEF Tail, Child
  <2> HIDE DEF row
  <2>2. /\ Discovered(child[c]) => row.verdict = "discovered"
        /\ Discovered(row) => row.st \in Terminal
    BY <1>3, <2>1 DEF Discovered
  <2> QED BY <1>1, <2>2, CoroutineKeepsDiscoveries
<1>5. CASE ~ Attached
  <2>1. row = child[c]
    BY <1>5
  <2> HIDE DEF row
  <2> QED BY <1>1, <1>3, <2>1, CoroutineKeepsDiscoveries
<1> QED BY <1>4, <1>5

\* Operators.
LEMMA OperatorKeepsDiscoveries ==
  ASSUME TypeOK, DiscoveredIsOver, Operator
  PROVE  DiscoveredIsOver' /\ KeepsDiscoveries
<1>1. child \in [Children -> Child] /\ UNCHANGED <<pc, cpc>>
  BY DEF TypeOK, Operator, Submit, CancelParent, ResolveParent, CancelChild, ResolveChild, worker
<1>2. CASE UNCHANGED child
  BY <1>1, <1>2, NoVerdicts
<1>3. CASE CancelParent
  <2>1. UNCHANGED child \/ Reconcile(child, ActiveIn(child), FALSE)
    BY <1>3 DEF CancelParent
  <2>2. FALSE \in BOOLEAN
    OBVIOUS
  <2> QED BY <1>1, <1>2, <2>1, <2>2, ReconcileKeepsDiscoveries
<1>4. CASE ResolveParent
  <2> DEFINE rows == [c \in Children |-> IF child[c].st = "running"
                         THEN [child[c] EXCEPT !.st = "cancelled"] ELSE child[c]]
  <2>1. Reconcile(rows, ActiveIn(rows), FALSE)
    BY <1>4 DEF ResolveParent
  <2>2. ASSUME NEW c \in Children
        PROVE  /\ rows[c] \in Child
               /\ rows[c].verdict = child[c].verdict /\ rows[c].res = child[c].res
               /\ child[c].st \in Terminal => rows[c].st \in Terminal
    <3>1. child[c] \in Child
      BY <1>1
    <3> QED BY <3>1 DEF Child, JobState, Terminal
  <2>3. rows = [c \in Children |-> rows[c]] /\ FALSE \in BOOLEAN
    OBVIOUS
  <2> HIDE DEF rows
  <2>4. rows \in [Children -> Child]
    BY <2>2, <2>3
  <2> QED BY <1>1, <2>1, <2>2, <2>3, <2>4, ReconcileKeepsDiscoveries
<1>5. ASSUME NEW c \in Children, CancelChild(c) \/ ResolveChild(c)
      PROVE  DiscoveredIsOver' /\ KeepsDiscoveries
  <2>1. child[c].st \notin Terminal
    BY <1>5 DEF CancelChild, ResolveChild, Active, Terminal
  <2>2. /\ child'[c].verdict = child[c].verdict /\ child'[c].res = child[c].res
        /\ \A d \in Children : d # c => child'[d] = child[d]
    BY <1>1, <1>5 DEF CancelChild, ResolveChild, Child
  <2> QED BY <1>1, <2>1, <2>2, NoVerdicts
<1> QED BY <1>2, <1>3, <1>4, <1>5 DEF Operator, Submit

\* The worker's own steps, its heartbeat and the recovering worker.
LEMMA WorkerKeepsDiscoveries ==
  ASSUME TypeOK, DiscoveredIsOver, Parent \/ ExecuteError \/ RecoverRead \/ RecoverApply
  PROVE  DiscoveredIsOver' /\ KeepsDiscoveries
<1>1. child \in [Children -> Child]
  BY DEF TypeOK
<1>2. ReadTree.cancel \in BOOLEAN
  BY DEF ReadTree, TypeOK
<1>3. CASE Claim \/ Begin \/ CreateRaises \/ GatherDone \/ GatherRaises \/ ReconcileRaises
  <2>1. UNCHANGED <<child, cpc>>
    BY <1>3 DEF Claim, Begin, CreateRaises, GatherDone, GatherRaises, ReconcileRaises, table
  <2>2. pc' \in {"idle", "begin", "create"} => pc \in {"idle", "begin", "create"}
    BY <1>3 DEF Claim, Begin, CreateRaises, GatherDone, GatherRaises, ReconcileRaises, Step,
                AfterInvalidTransition
  <2> QED BY <2>1, <2>2, NoVerdicts
<1>4. CASE Finish \/ FinishState \/ FinishCancel \/ ExecuteError
  <2>1. UNCHANGED <<child, cpc>>
    BY <1>4 DEF Finish, FinishState, FinishCancel, ExecuteError, table
  <2>2. pc' \in {"idle", "begin", "create"} => pc \in {"idle", "begin", "create"}
    BY <1>4 DEF Finish, FinishState, FinishCancel, ExecuteError, Step, AfterInvalidTransition
  <2> QED BY <2>1, <2>2, NoVerdicts
<1>5. CASE CreateChildren
  <2>1. /\ pc = "create" /\ pc' = "gather"
        /\ child' = [c \in Children |-> IF c \in Own THEN Fresh(c[1], "queued") ELSE child[c]]
    BY <1>5 DEF CreateChildren, Step
  <2>2. \A c \in Children : ~ Discovered(child[c])
    BY <2>1 DEF DiscoveredIsOver
  <2>3. \A c \in Children : /\ ~ Discovered(child'[c])
                            /\ c \in Own => child'[c].res \notin Terminal
                            /\ c \notin Own => child'[c] = child[c]
    BY <2>1, <2>2 DEF Fresh, Discovered, Terminal
  <2> QED BY <2>1, <2>2, <2>3 DEF DiscoveredIsOver, KeepsDiscoveries, Discovered
<1>6. CASE ReconcileRun
  <2> DEFINE open == ActiveIn(child) \cup stale
             intr == ~ Cancelled
  <2>1. Reconcile(child, open, intr) /\ pc' = "finish" /\ UNCHANGED cpc
    BY <1>6 DEF ReconcileRun, Step
  <2>2. intr \in BOOLEAN /\ ActiveIn(child) \subseteq open
    OBVIOUS
  <2> HIDE DEF open, intr
  <2> QED BY <1>1, <2>1, <2>2, ReconcileKeepsDiscoveries
<1>7. CASE Raised
  <2>1. /\ UNCHANGED cpc /\ pc' = "close" /\ TRUE \in BOOLEAN
        /\ UNCHANGED child \/ Reconcile(child, ActiveIn(child), TRUE)
    BY <1>7 DEF Raised, Step, table
  <2> QED BY <1>1, <2>1, NoVerdicts, ReconcileKeepsDiscoveries
<1>8. CASE Close
  <2>1. UNCHANGED cpc /\ pc' = "done" /\ (UNCHANGED child \/ EndTree(ReadTree))
    BY <1>8 DEF Close, Step, Abandon, table
  <2> QED BY <1>2, <2>1, NoVerdicts, EndTreeKeepsDiscoveries
<1>9. CASE RecoverRead
  BY <1>9, NoVerdicts DEF RecoverRead, table, worker
<1>10. CASE RecoverApply
  <2>1. UNCHANGED <<cpc, pc>> /\ (UNCHANGED child \/ EndTree(rival))
    BY <1>10 DEF RecoverApply, table, worker
  <2>2. rival.cancel \in BOOLEAN
    BY <1>10 DEF RecoverApply, TypeOK
  <2> QED BY <2>1, <2>2, NoVerdicts, EndTreeKeepsDiscoveries
<1> QED BY <1>3, <1>4, <1>5, <1>6, <1>7, <1>8, <1>9, <1>10 DEF Parent

LEMMA EnvironmentKeepsDiscoveries ==
  ASSUME TypeOK, DiscoveredIsOver, Environment
  PROVE  DiscoveredIsOver' /\ KeepsDiscoveries
<1>1. ReadTree.cancel \in BOOLEAN
  BY DEF ReadTree, TypeOK
<1>2. CASE HeartbeatError
  <2>1. UNCHANGED <<cpc, pc>> /\ (UNCHANGED child \/ EndTree(ReadTree))
    BY <1>2 DEF HeartbeatError, Abandon, table
  <2> QED BY <1>1, <2>1, NoVerdicts, EndTreeKeepsDiscoveries
<1>3. CASE ~ HeartbeatError
  <2>1. UNCHANGED <<child, cpc, pc>>
    BY <1>3 DEF Environment, ForeignStarts, ForeignEnds, Heartbeat, Stop, Crash,
                LeaseExpires, table, worker
  <2> QED BY <2>1, NoVerdicts
<1> QED BY <1>2, <1>3

\* The coroutines of the children.
LEMMA ChildrenKeepDiscoveries ==
  ASSUME TypeOK, DiscoveredIsOver, NEW c \in Own, Coroutine(c)
  PROVE  DiscoveredIsOver' /\ KeepsDiscoveries
<1>1. c \in Children /\ child[c] \in Child
  BY DEF Own, Children, TypeOK
<1>2. /\ cpc[c] \notin {"tail", "done"} => ~ Discovered(child[c])
      /\ cpc[c] # "done" /\ child[c].res \in Terminal => child[c].st \in Terminal
  BY <1>1 DEF DiscoveredIsOver
<1>3. CASE ChildEnter(c) \/ ChildCollected(c) \/ ChildRaises(c) \/ ChildDetached(c)
  <2>1. UNCHANGED child
    BY <1>3 DEF ChildEnter, ChildCollected, ChildRaises, ChildDetached
  <2>2. PICK p \in CPC, q \in CPC : Move(c, p, q) /\ (p \in {"new", "collect"} \/ q = "done")
    BY <1>3 DEF ChildEnter, ChildCollected, ChildRaises, ChildDetached, CPC
  <2> QED BY <2>1, <2>2, QuietMoveKeepsDiscoveries
<1>4. CASE ChildAcquire(c)
  <2> DEFINE row == [child[c] EXCEPT !.res = "discovering"]
  <2>1. PICK q \in CPC : Move(c, "wait", q)
    BY <1>4 DEF ChildAcquire, CPC
  <2>2. UNCHANGED child \/ child' = [child EXCEPT ![c] = row]
    BY <1>4 DEF ChildAcquire
  <2>3. row.res \notin Terminal /\ ~ Discovered(row) /\ cpc[c] = "wait"
    BY <1>1, <2>1 DEF Child, Move, Terminal, Discovered
  <2> HIDE DEF row
  <2> QED BY <1>2, <2>1, <2>2, <2>3, QuietMoveKeepsDiscoveries, CoroutineKeepsDiscoveries
<1>5. CASE ChildCancelled(c)
  <2> DEFINE marked(row) == IF Attached
                THEN [row EXCEPT !.res = "cancelled", !.verdict = "cancelled"]
                ELSE row
             ended == [child[c] EXCEPT !.st = "cancelled", !.cancel = TRUE]
  <2>1. Move(c, "cancel", "done") /\ cpc[c] = "cancel"
    BY <1>5 DEF ChildCancelled, Move
  <2>2. \/ UNCHANGED child
        \/ child' = [child EXCEPT ![c] = marked(ended)]
        \/ child' = [child EXCEPT ![c] = marked(child[c])]
    BY <1>5 DEF ChildCancelled
  <2>3. ~ Discovered(marked(ended)) /\ ~ Discovered(marked(child[c]))
    BY <1>1, <1>2, <2>1 DEF Child, Discovered
  <2> HIDE DEF marked, ended
  <2> QED BY <1>2, <2>1, <2>2, <2>3, QuietMoveKeepsDiscoveries, CoroutineKeepsDiscoveries
<1>6. CASE ChildClaim(c)
  <2> DEFINE row == [child[c] EXCEPT !.st = "running"]
  <2>1. \/ Move(c, "claim", "done") /\ Return(c, child[c])
        \/ Move(c, "claim", "collect") /\ child' = [child EXCEPT ![c] = row]
    BY <1>6 DEF ChildClaim
  <2>2. CASE Move(c, "claim", "done") /\ Return(c, child[c])
    BY <2>2, ReturnKeepsDiscoveries
  <2>3. CASE child[c].st = "queued" /\ Move(c, "claim", "collect")
    <3>1. child' = [child EXCEPT ![c] = row]
      BY <1>6, <2>3 DEF ChildClaim
    <3>2. cpc[c] = "claim" /\ row.res = child[c].res
      BY <1>1, <2>3 DEF Child, Move
    <3>3. row.res \notin Terminal /\ ~ Discovered(row) /\ ~ Discovered(child[c])
      BY <1>2, <2>3, <3>2 DEF Terminal, Discovered
    <3> HIDE DEF row
    <3> QED BY <2>3, <3>1, <3>3, CoroutineKeepsDiscoveries
  <2> QED BY <1>6, <2>2, <2>3 DEF ChildClaim
<1>7. CASE ChildLeaseLost(c) \/ ChildTail(c)
  BY <1>7, ReturnKeepsDiscoveries DEF ChildLeaseLost, ChildTail
<1>8. CASE ChildSucceed(c) \/ ChildProcessed(c)
  <2>1. CASE UNCHANGED child
    <3>1. PICK p \in {"succeed", "process"}, q \in CPC : Move(c, p, q)
      BY <1>8 DEF ChildSucceed, ChildProcessed, CPC
    <3> QED BY <2>1, <3>1, QuietMoveKeepsDiscoveries
  <2>2. CASE ~ UNCHANGED child
    <3>1. PICK ip \in ReportedIP[c[1]] :
             child' = [child EXCEPT ![c] =
                [child[c] EXCEPT !.st = "succeeded", !.res = "succeeded",
                                 !.verdict = "discovered", !.addr = ip]]
      BY <1>8, <2>2 DEF ChildSucceed, ChildProcessed
    <3>2. PICK p \in {"succeed", "process"} : Move(c, p, "done")
      BY <1>8, <2>2 DEF ChildSucceed, ChildProcessed
    <3> DEFINE row == [child[c] EXCEPT !.st = "succeeded", !.res = "succeeded",
                                       !.verdict = "discovered", !.addr = ip]
    <3>3. row.st \in Terminal /\ row.verdict = "discovered"
      BY <1>1 DEF Child, Terminal
    <3>4. child' = [child EXCEPT ![c] = row]
      BY <3>1
    <3> HIDE DEF row
    <3> QED BY <3>2, <3>3, <3>4, CoroutineKeepsDiscoveries
  <2> QED BY <2>1, <2>2
<1>9. CASE ChildFail(c) \/ ChildStep7(c)
  <2> DEFINE row == [child[c] EXCEPT !.st = "failed", !.res = "failed", !.verdict = "unreachable"]
  <2>1. PICK p \in {"fail", "step7"}, q \in {"done", "raised", "finalise", "fail"} : Move(c, p, q)
    BY <1>9 DEF ChildFail, ChildStep7
  <2>2. UNCHANGED child \/ child' = [child EXCEPT ![c] = row]
    BY <1>9 DEF ChildFail, ChildStep7
  <2>3. row.st \in Terminal /\ ~ Discovered(row) /\ cpc[c] = p
    BY <1>1, <2>1 DEF Child, Move, Terminal, Discovered
  <2> HIDE DEF row
  <2> QED BY <1>2, <2>1, <2>2, <2>3, QuietMoveKeepsDiscoveries, CoroutineKeepsDiscoveries
<1>10. CASE ChildFinalise(c)
  <2>1. CASE child[c].st \notin {"running", "cancelled"}
    <3>1. PICK p \in {"finalise", "finaliseLate"} : Move(c, p, "raised")
      BY <1>10, <2>1 DEF ChildFinalise
    <3>2. UNCHANGED child
      BY <1>10, <2>1 DEF ChildFinalise
    <3> QED BY <3>1, <3>2, QuietMoveKeepsDiscoveries
  <2>2. CASE child[c].st \in {"running", "cancelled"} /\ cpc[c] = "finalise"
    <3> DEFINE row == [child[c] EXCEPT !.st = "cancelled", !.cancel = TRUE, !.res = "cancelled"]
    <3>1. Move(c, "finalise", "tail") /\ child' = [child EXCEPT ![c] = row]
      BY <1>10, <2>2 DEF ChildFinalise, Move
    <3>2. row.st \in Terminal /\ ~ Discovered(child[c])
      BY <1>1, <1>2, <2>2 DEF Child, Terminal
    <3> HIDE DEF row
    <3> QED BY <3>1, <3>2, CoroutineKeepsDiscoveries
  <2>3. CASE child[c].st \in {"running", "cancelled"} /\ cpc[c] # "finalise"
    <3>1. Move(c, "finaliseLate", "tail")
      BY <1>10, <2>3 DEF ChildFinalise, Move
    <3>2. PICK ip \in ReportedIP[c[1]] \cup {c[1]} :
             child' = [child EXCEPT ![c] =
                [child[c] EXCEPT !.st = "cancelled", !.cancel = TRUE, !.res = "cancelled",
                                 !.verdict = "discovered", !.addr = ip]]
      BY <1>10, <2>3 DEF ChildFinalise, Move
    <3> DEFINE row == [child[c] EXCEPT !.st = "cancelled", !.cancel = TRUE, !.res = "cancelled",
                                       !.verdict = "discovered", !.addr = ip]
    <3>3. row.st \in Terminal /\ row.verdict = "discovered"
      BY <1>1 DEF Child, Terminal
    <3>4. child' = [child EXCEPT ![c] = row]
      BY <3>2
    <3> HIDE DEF row
    <3> QED BY <3>1, <3>3, <3>4, CoroutineKeepsDiscoveries
  <2> QED BY <2>1, <2>2, <2>3
<1>11. CASE ChildNoted(c)
  <2> DEFINE row == [child[c] EXCEPT !.verdict = IF Attached THEN "discovered" ELSE @]
  <2>1. /\ Move(c, "collect", "process") /\ cpc[c] = "collect"
        /\ child' = [child EXCEPT ![c] = row] /\ child[c].st = "running"
    BY <1>1, <1>11 DEF ChildNoted, Move, TypeOK
  <2>2. row.res = child[c].res
    BY <1>1 DEF Child
  <2>3. row.res \notin Terminal /\ ~ Discovered(row) /\ ~ Discovered(child[c])
    BY <1>2, <2>1, <2>2 DEF Discovered, Terminal
  <2> HIDE DEF row
  <2> QED BY <2>1, <2>3, CoroutineKeepsDiscoveries
<1> QED BY <1>3, <1>4, <1>5, <1>6, <1>7, <1>8, <1>9, <1>10, <1>11 DEF Coroutine

LEMMA NextKeepsDiscoveries ==
  ASSUME Inv, DiscoveredIsOver, [Next]_vars
  PROVE  DiscoveredIsOver' /\ KeepsDiscoveries
<1>1. TypeOK
  BY DEF Inv
<1>2. CASE UNCHANGED vars
  <2>1. UNCHANGED <<child, cpc, pc>>
    BY <1>2 DEF vars, table, worker
  <2> QED BY <2>1, NoVerdicts
<1> QED BY <1>1, <1>2, OperatorKeepsDiscoveries, WorkerKeepsDiscoveries,
           EnvironmentKeepsDiscoveries, ChildrenKeepDiscoveries DEF Next

\* A device whose complete result says that it was discovered stays discovered,
\* for any worker that crashes, stalls or stops, any recovery that acts on what it
\* read before, and any operator who cancels the range or a child of it
\* (reconcile_parent_job, _reconcile_owned_tree, _cancel_child).
THEOREM DiscoveriesStay == Spec => DiscoveriesAreKept
<1>1. Init => DiscoveredIsOver
  <2>1. Init => \A c \in Children : child[c].res \notin Terminal
    BY DEF Init, Fresh, Terminal
  <2> QED BY <2>1 DEF Init, DiscoveredIsOver, Discovered
<1>2. Inv /\ DiscoveredIsOver /\ [Next]_vars => DiscoveredIsOver' /\ [KeepsDiscoveries]_vars
  BY NextKeepsDiscoveries
<1> QED BY <1>1, <1>2, FanoutInvariance, PTL DEF Spec, DiscoveriesAreKept

-----------------------------------------------------------------------------
(* A range is left to the worker that executes it                          *)

\* The worker executes the range and keeps its lease.
Executes == alive /\ pc \notin {"idle", "done"} /\ ~ lost /\ ~ stopping /\ parent.st = "running"

\* Meanwhile its lease is good and nobody else has read the tree.
LeaseIsKept ==
    /\ parent.st \in {"absent", "queued"} => pc = "idle" /\ rival = NULL
    /\ Executes => Root \in good /\ rival = NULL

LeftToWorker == Executes /\ parent'.st # "running" => pc' # pc \/ lost'

\* Whoever ends the range meanwhile is its worker, by a step of its own or by
\* giving up on a heartbeat: neither a recovering worker nor an operator does.
RangesAreLeftToWorkers == [][LeftToWorker]_vars

\* A step of the worker.
LEMMA WorkerKeepsLease ==
  ASSUME TypeOK, LeaseIsKept, Parent \/ ExecuteError
  PROVE  LeaseIsKept' /\ LeftToWorker
<1>1. parent \in [st : JobState, cancel : BOOLEAN]
  BY DEF TypeOK
<1>2. CASE Claim
  BY <1>1, <1>2 DEF Claim, Step, Idle, LeaseIsKept, LeftToWorker, Executes
<1>3. CASE ~ Claim
  <2>1. /\ alive /\ pc # "idle" /\ pc' # "idle" /\ (ExecuteError \/ pc' # pc)
        /\ UNCHANGED <<alive, stopping, lost>>
    BY <1>3 DEF Parent, ExecuteError, Begin, CreateChildren, CreateRaises, GatherDone,
       GatherRaises, ReconcileRun, ReconcileRaises, Finish, FinishState, FinishCancel,
       Raised, Close, Step, AfterInvalidTransition
  <2>2. UNCHANGED <<good, rival>>
    BY <1>3 DEF Parent, ExecuteError, Begin, CreateChildren, CreateRaises, GatherDone,
       GatherRaises, ReconcileRun, ReconcileRaises, Finish, FinishState, FinishCancel,
       Raised, Close, Idle
  <2>3. pc' # "done" => pc # "done"
    BY <1>3 DEF Parent, ExecuteError, Begin, CreateChildren, CreateRaises, GatherDone,
       GatherRaises, ReconcileRun, ReconcileRaises, Finish, FinishState, FinishCancel,
       Raised, Close, Step
  <2>4. CASE UNCHANGED parent
    BY <2>1, <2>2, <2>3, <2>4 DEF LeaseIsKept, LeftToWorker, Executes
  <2>5. CASE FinishState \/ FinishCancel \/ Raised \/ Close
    <3>1. UNCHANGED parent \/ parent'.st \in Terminal
      <4>1. ReadTree.cancel \in BOOLEAN
        BY DEF ReadTree, TypeOK
      <4>2. EndTree(ReadTree) => parent'.st \in Terminal
        BY <4>1, EndTreeFacts DEF Terminal
      <4> QED BY <1>1, <2>5, <4>2 DEF FinishState, FinishCancel, Raised, Close, Abandon,
                 FinalState, Terminal, table
    <3>2. pc' # pc
      BY <2>5 DEF FinishState, FinishCancel, Raised, Close, Step, AfterInvalidTransition
    <3>3. CASE parent'.st \in Terminal
      BY <3>2, <3>3 DEF LeaseIsKept, LeftToWorker, Executes, Terminal
    <3> QED BY <2>4, <3>1, <3>3
  <2>6. UNCHANGED parent \/ FinishState \/ FinishCancel \/ Raised \/ Close
    BY <1>3 DEF Parent, ExecuteError, Begin, CreateChildren, CreateRaises, GatherDone,
       GatherRaises, ReconcileRun, ReconcileRaises, Finish, table
  <2> QED BY <2>4, <2>5, <2>6
<1> QED BY <1>2, <1>3

\* A step of a child's coroutine, of the heartbeat or of the process.
LEMMA OthersKeepLease ==
  ASSUME TypeOK, LeaseIsKept, ~ CanStall, Environment \/ \E c \in Own : Coroutine(c)
  PROVE  LeaseIsKept' /\ LeftToWorker
<1>1. CASE \E c \in Own : Coroutine(c)
  <2>1. PICK c \in Own : Coroutine(c)
    BY <1>1
  <2>2. /\ UNCHANGED <<alive, stopping, pc, lost, parent, rival>> /\ good \subseteq good'
    BY <2>1 DEF Coroutine, ChildEnter, ChildAcquire, ChildCancelled, ChildClaim, ChildCollected,
       ChildLeaseLost, ChildRaises, ChildNoted, ChildSucceed, ChildProcessed, ChildStep7,
       ChildFail, ChildFinalise, ChildTail,
       ChildDetached, Move
  <2> QED BY <2>2 DEF LeaseIsKept, LeftToWorker, Executes
<1>2. CASE HeartbeatError
  <2>1. lost' /\ pc = "gather" /\ UNCHANGED <<pc, rival>>
    BY <1>2 DEF HeartbeatError, Beating
  <2>2. ReadTree.cancel \in BOOLEAN
    BY DEF ReadTree, TypeOK
  <2>3. UNCHANGED parent \/ parent'.st \in {"failed", "cancelled"}
    BY <1>2, <2>2, EndTreeFacts DEF HeartbeatError, Abandon, table
  <2> QED BY <2>1, <2>3 DEF LeaseIsKept, LeftToWorker, Executes
<1>3. CASE LeaseExpires
  BY <1>3 DEF LeaseExpires, Unrenewed, NoFault, table, worker, LeaseIsKept, LeftToWorker, Executes
<1>4. CASE \/ \E a \in Addresses : ForeignStarts(a) \/ ForeignEnds(a)
           \/ Heartbeat \/ Stop \/ Crash
  <2>1. UNCHANGED <<parent, pc, rival>> /\ good \subseteq good' /\ (alive' => alive)
    BY <1>4 DEF ForeignStarts, ForeignEnds, Heartbeat, Stop, Crash, table, worker
  <2>2. (stopping => stopping') /\ (lost => lost')
    BY <1>4 DEF ForeignStarts, ForeignEnds, Heartbeat, Beating, Stop, Crash, table, worker
  <2> QED BY <2>1, <2>2 DEF LeaseIsKept, LeftToWorker, Executes
<1> QED BY <1>1, <1>2, <1>3, <1>4 DEF Environment

\* Operators and the recovering worker.
LEMMA StrangersKeepLease ==
  ASSUME TypeOK, LeaseIsKept, Operator \/ RecoverRead \/ RecoverApply
  PROVE  LeaseIsKept' /\ LeftToWorker
<1>1. /\ parent \in [st : JobState, cancel : BOOLEAN]
      /\ rival # NULL => rival.cancel \in BOOLEAN
  BY DEF TypeOK
<1>2. UNCHANGED <<alive, stopping, pc, lost, good>>
  BY DEF Operator, Submit, CancelParent, ResolveParent, CancelChild, ResolveChild, RecoverRead,
         RecoverApply, worker
<1>3. CASE Operator
  <2>1. UNCHANGED rival
    BY <1>3 DEF Operator, Submit, CancelParent, ResolveParent, CancelChild, ResolveChild
  <2>2. \/ parent'.st = parent.st
        \/ parent.st = "absent" /\ parent'.st = "queued"
        \/ parent.st = "queued" /\ parent'.st = "cancelled"
        \/ parent.st = "running" /\ Root \notin good /\ parent'.st = "cancelled"
    <3>1. CASE Submit
      BY <1>1, <3>1 DEF Submit
    <3>2. CASE CancelParent
      <4>1. CASE parent' = [parent EXCEPT !.cancel = TRUE]
        BY <1>1, <4>1
      <4>2. CASE parent.st = "queued" /\ parent' = [st |-> "cancelled", cancel |-> TRUE]
        BY <4>2
      <4> QED BY <3>2, <4>1, <4>2 DEF CancelParent
    <3>3. CASE ResolveParent
      BY <1>1, <3>3 DEF ResolveParent
    <3>4. CASE \E c \in Children : CancelChild(c) \/ ResolveChild(c)
      BY <3>4 DEF CancelChild, ResolveChild
    <3> QED BY <1>3, <3>1, <3>2, <3>3, <3>4 DEF Operator
  <2> QED BY <1>2, <2>1, <2>2 DEF LeaseIsKept, LeftToWorker, Executes
<1>4. CASE RecoverRead
  BY <1>2, <1>4 DEF RecoverRead, table, LeaseIsKept, LeftToWorker, Executes
<1>5. CASE RecoverApply
  <2>1. rival # NULL /\ rival' = NULL
    BY <1>5 DEF RecoverApply
  <2>2. UNCHANGED parent \/ (parent.st = "running" /\ parent'.st \in {"failed", "cancelled"})
    BY <1>1, <1>5, <2>1, EndTreeFacts DEF RecoverApply, table
  <2> QED BY <1>2, <2>1, <2>2 DEF LeaseIsKept, LeftToWorker, Executes
<1> QED BY <1>3, <1>4, <1>5

\* As long as no worker is frozen past its lease, a range is ended by the worker
\* that executes it: recovery reads only trees whose lease has run out, and such
\* a lease is not renewed again (_reconcile_owned_tree, resolve_stale_cancellation,
\* renew_lease).
THEOREM WorkersKeepTheirRanges ==
  ASSUME ~ CanStall
  PROVE  Spec => RangesAreLeftToWorkers
<1>1. Init => LeaseIsKept
  BY DEF Init, LeaseIsKept, Executes
<1>2. Inv /\ LeaseIsKept /\ [Next]_vars => LeaseIsKept' /\ [LeftToWorker]_vars
  <2> SUFFICES ASSUME Inv, LeaseIsKept, [Next]_vars
               PROVE  LeaseIsKept' /\ [LeftToWorker]_vars
    OBVIOUS
  <2>1. TypeOK
    BY DEF Inv
  <2>2. CASE UNCHANGED vars
    BY <2>2 DEF vars, table, worker, LeaseIsKept, Executes
  <2> QED BY <2>1, <2>2, WorkerKeepsLease, OthersKeepLease, StrangersKeepLease DEF Next
<1> QED BY <1>1, <1>2, FanoutInvariance, PTL DEF Spec, RangesAreLeftToWorkers

-----------------------------------------------------------------------------
(* Ended trees are settled                                                 *)

\* Results are found under the address of their child, or belong to a device
\* that was discovered and calls another address its own, outside the scope;
\* a child that a reconciliation adds replaces none that is there; and only a
\* child that has ended was cancelled.
RowsSound(ch) ==
    /\ \A c \in Children :
          \/ ch[c].addr = c[1]
          \/ ch[c].addr \notin Addresses /\ ch[c].st \in Terminal /\ ch[c].verdict # "none"
    /\ \A a \in Addresses : ch[<<a, "reconcile">>].st # "absent" =>
          ch[<<a, "fanout">>].st = "absent" \/ ch[<<a, "fanout">>].addr # a
    /\ \A c \in Children : ch[c].cancel => ch[c].st \in Terminal

\* The worker has the lease, and nobody is about to end the tree for it.
Held == parent.st = "running" /\ Root \in good /\ rival = NULL

Ended == parent.st \in Terminal

Entering  == {"new", "wait", "cancel"}
Executing == {"collect", "succeed", "process", "step7", "fail", "finalise", "finaliseLate"}

\* A coroutine goes on while the parent gathers, or after the tree was ended for
\* a worker that has lost its lease or stops.  Until then it finds its row as it
\* left it, and a device that answers is believed only with the lease held.
CoroutineSound(c) ==
    /\ cpc[c] \notin {"none", "done"} =>
          IF Ended THEN pc # "reconcile" /\ (alive => lost \/ stopping) ELSE pc = "gather"
    /\ cpc[c] \notin {"none", "done", "tail"} => child[c].addr = c[1]
    /\ cpc[c] \in Entering =>
          child[c].verdict \in (IF Ended THEN {"interrupted", "cancelled"} ELSE {"none"})
    /\ cpc[c] \in Executing /\ ~ Ended => child[c].st = "running"
    /\ cpc[c] = "raised" => Ended
    /\ alive /\ cpc[c] \in {"succeed", "finaliseLate"} => pc = "gather" /\ Held

LeaseSound ==
    /\ parent.st \in {"absent", "queued"} => pc = "idle" /\ rival = NULL /\ Exists(child) = {}
    /\ alive /\ pc \in {"begin", "create"} => Held /\ Exists(child) = {}
    /\ alive /\ pc = "gather" /\ ~ lost /\ ~ stopping => Held
    /\ rival # NULL => rival.queued \cup rival.running \subseteq Exists(child)

\* The tree is complete when the parent ends, and before it does so by itself.
Complete == Ended \/ (parent.st = "running" /\ pc \in {"finish", "finishState", "finishCancel"})

TreeSettled == Complete => Settled

SInv == RowsSound(child) /\ (\A c \in Own : CoroutineSound(c)) /\ LeaseSound /\ TreeSettled

\* What a reconciliation leaves alone in a row, and the verdict it gives.
LEMMA ReconciledRow ==
  ASSUME NEW row \in Child, NEW isOpen \in BOOLEAN, NEW intr \in BOOLEAN
  PROVE  LET new == Reconciled(row, isOpen, intr)
         IN  /\ new.addr = row.addr /\ new.cancel = row.cancel
             /\ new.verdict # "none"
             /\ row.verdict = "none" => new.verdict \in {"interrupted", "cancelled"}
             /\ isOpen \/ row.st = "absent" => new.st \in Terminal
             /\ ~ isOpen /\ row.st # "absent" => new.st = row.st
<1> DEFINE st == IF isOpen \/ row.st = "absent" THEN Outcome(intr) ELSE row.st
           end == row.verdict = "none" \/ row.res \in Active \cup {"discovering"}
           res == IF end THEN Outcome(intr) ELSE row.res
           verdict == IF ~end THEN row.verdict ELSE IF intr THEN "interrupted" ELSE "cancelled"
           new == [row EXCEPT !.st = st, !.res = res, !.verdict = verdict]
<1>1. Reconciled(row, isOpen, intr) = new
  BY DEF Reconciled
<1>2. /\ isOpen \/ row.st = "absent" => st \in Terminal
      /\ ~ isOpen /\ row.st # "absent" => st = row.st
  BY DEF Outcome, Terminal
<1>3. /\ verdict # "none"
      /\ row.verdict = "none" => verdict \in {"interrupted", "cancelled"}
  OBVIOUS
<1> HIDE DEF st, res, verdict
<1>4. new.st = st /\ new.verdict = verdict /\ new.addr = row.addr /\ new.cancel = row.cancel
  BY DEF Child
<1> QED BY <1>1, <1>2, <1>3, <1>4

\* The result of a child that is found under its own address is the only one
\* there.
LEMMA OneResult ==
  ASSUME NEW ch \in [Children -> Child], RowsSound(ch), NEW a \in Addresses,
         NEW c \in ResultsAt(ch, a), NEW d \in ResultsAt(ch, a)
  PROVE  c = d /\ c[1] = a
<1>1. /\ c \in Children /\ ch[c].st # "absent" /\ ch[c].addr = a
      /\ d \in Children /\ ch[d].st # "absent" /\ ch[d].addr = a
  BY DEF ResultsAt, Exists
<1>2. c[1] = a /\ d[1] = a
  BY <1>1 DEF RowsSound
<1>3. c \in {<<a, "fanout">>, <<a, "reconcile">>} /\ d \in {<<a, "fanout">>, <<a, "reconcile">>}
  BY <1>1, <1>2 DEF Children
<1> QED BY <1>1, <1>2, <1>3 DEF RowsSound

\* A reconciliation of sound rows that knows of all active ones settles the tree.
LEMMA ReconcileSettles ==
  ASSUME NEW ch \in [Children -> Child], RowsSound(ch),
         NEW open, ActiveIn(ch) \subseteq open, NEW intr \in BOOLEAN,
         Reconcile(ch, open, intr)
  PROVE  /\ RowsSound(child') /\ Settled'
         /\ \A c \in Children :
               /\ child'[c].addr = ch[c].addr
               /\ ch[c].st # "absent" /\ ch[c].verdict = "none" =>
                     child'[c].verdict \in {"interrupted", "cancelled"}
               /\ ch[c].st # "absent" => child'[c].st # "absent"
<1>1. PICK f \in ByAddress(ch) :
         /\ child' = [c \in Children |->
               IF c \in {f[a] : a \in Addresses} THEN Reconciled(ch[c], c \in open, intr)
                                                 ELSE ch[c]]
         /\ run' = RunStatus(child')
  BY DEF Reconcile
<1> DEFINE picked == {f[a] : a \in Addresses}
<1>2. \A a \in Addresses : IF a \in Missing(ch) THEN f[a] = <<a, "reconcile">>
                                                ELSE f[a] \in ResultsAt(ch, a)
  BY <1>1 DEF ByAddress
<1>3. \A a \in Addresses : f[a] \in Children /\ f[a][1] = a
  <2> TAKE a \in Addresses
  <2>1. CASE a \in Missing(ch)
    <3>1. f[a] = <<a, "reconcile">>
      BY <1>2, <2>1
    <3> QED BY <3>1 DEF Children
  <2>2. CASE a \notin Missing(ch)
    <3>1. f[a] \in ResultsAt(ch, a)
      BY <1>2, <2>2
    <3>2. f[a][1] = a
      BY <3>1, OneResult
    <3> QED BY <3>1, <3>2 DEF ResultsAt, Exists
  <2> QED BY <2>1, <2>2
\* Every row that exists is picked, unless it belongs to a device with an address
\* outside the scope.
<1>4. ASSUME NEW c \in Children, ch[c].st # "absent", ch[c].addr = c[1]
      PROVE  c \in picked
  <2>1. c[1] \in Addresses /\ c \in ResultsAt(ch, c[1])
    BY <1>4 DEF Children, ResultsAt, Exists
  <2>2. c[1] \notin Missing(ch)
    BY <2>1 DEF Missing
  <2>3. f[c[1]] \in ResultsAt(ch, c[1])
    BY <1>2, <2>1, <2>2
  <2>4. f[c[1]] = c
    BY <2>1, <2>3, OneResult
  <2> QED BY <2>1, <2>4
<1>5. ASSUME NEW c \in Children, c \in picked
      PROVE  /\ child'[c].addr = ch[c].addr /\ child'[c].cancel = ch[c].cancel
             /\ child'[c].verdict # "none"
             /\ ch[c].verdict = "none" => child'[c].verdict \in {"interrupted", "cancelled"}
             /\ child'[c].st \in Terminal
             /\ c \notin open /\ ch[c].st # "absent" => child'[c].st = ch[c].st
  <2> DEFINE isOpen == c \in open
  <2>1. child'[c] = Reconciled(ch[c], isOpen, intr) /\ ch[c] \in Child
    BY <1>1, <1>5
  <2>2. isOpen \in BOOLEAN /\ (~ isOpen => ch[c].st \notin Active)
    BY DEF ActiveIn
  <2>3. isOpen => c \in open
    OBVIOUS
  <2>4. ch[c].st \in JobState
    BY <2>1 DEF Child
  <2>5. ~ isOpen => c \notin open
    OBVIOUS
  <2> HIDE DEF isOpen
  <2>6. LET new == child'[c]
        IN  /\ new.addr = ch[c].addr /\ new.cancel = ch[c].cancel
            /\ new.verdict # "none"
            /\ ch[c].verdict = "none" => new.verdict \in {"interrupted", "cancelled"}
            /\ isOpen \/ ch[c].st = "absent" => new.st \in Terminal
            /\ ~ isOpen /\ ch[c].st # "absent" => new.st = ch[c].st
    BY <2>1, <2>2, ReconciledRow
  <2> QED BY <2>2, <2>3, <2>4, <2>6 DEF JobState
<1>6. ASSUME NEW c \in Children, c \notin picked
      PROVE  /\ child'[c] = ch[c]
             /\ ch[c].st # "absent" => ch[c].st \in Terminal /\ ch[c].verdict # "none"
  <2>1. child'[c] = ch[c]
    BY <1>1, <1>6
  <2>2. ch[c].st # "absent" => ch[c].addr # c[1]
    BY <1>4, <1>6
  <2> QED BY <2>1, <2>2 DEF RowsSound
<1>7. \A c \in Children : /\ child'[c].addr = ch[c].addr /\ child'[c].cancel = ch[c].cancel
                          /\ ch[c].st \in Terminal => child'[c].st \in Terminal
                          /\ ch[c].verdict # "none" => child'[c].verdict # "none"
                          /\ ch[c].st # "absent" => child'[c].st # "absent"
  <2>1. "absent" \notin Terminal
    BY DEF Terminal
  <2> QED BY <1>5, <1>6, <2>1
\* A row is added only where no result was found.
<1>8. ASSUME NEW a \in Addresses, child'[<<a, "reconcile">>].st # "absent"
      PROVE  child'[<<a, "fanout">>].st = "absent" \/ child'[<<a, "fanout">>].addr # a
  <2> DEFINE r == <<a, "reconcile">>
             o == <<a, "fanout">>
  <2>1. r \in Children /\ o \in Children /\ r[1] = a /\ o[1] = a /\ r # o
    BY DEF Children
  <2>2. CASE ch[r].st # "absent"
    <3>1. ch[o].st = "absent" \/ ch[o].addr # a
      BY <2>2 DEF RowsSound
    <3>2. CASE ch[o].addr # a
      BY <1>7, <2>1, <3>2
    <3>3. CASE ch[o].st = "absent" /\ ch[o].addr = a
      <4>1. ch[r].addr = a \/ ch[r].addr # a
        OBVIOUS
      <4>2. o \notin picked
        <5> SUFFICES ASSUME o \in picked PROVE FALSE
          OBVIOUS
        <5>1. f[a] = o
          BY <1>3, <2>1
        <5>2. a \notin Missing(ch)
          BY <1>2, <2>1, <5>1
        <5> QED BY <1>2, <3>3, <5>1, <5>2 DEF ResultsAt, Exists
      <4> QED BY <1>6, <2>1, <3>3, <4>2
    <3> QED BY <3>1, <3>2, <3>3
  <2>3. CASE ch[r].st = "absent"
    <3>1. r \in picked
      BY <1>6, <1>8, <2>1, <2>3
    <3>2. f[a] = r
      BY <1>3, <2>1, <3>1
    <3>3. a \in Missing(ch)
      BY <1>2, <2>3, <3>2 DEF ResultsAt, Exists
    <3>4. ch[o].st = "absent" \/ ch[o].addr # a
      BY <2>1, <3>3 DEF Missing, ResultsAt, Exists
    <3>5. o \notin picked
      BY <1>3, <2>1, <3>2
    <3> QED BY <1>6, <1>7, <2>1, <3>4, <3>5
  <2> QED BY <2>2, <2>3
<1>9. RowsSound(child')
  <2>1. \A c \in Children :
           \/ child'[c].addr = c[1]
           \/ child'[c].addr \notin Addresses /\ child'[c].st \in Terminal
              /\ child'[c].verdict # "none"
    BY <1>7 DEF RowsSound
  <2>2. \A c \in Children : child'[c].cancel => child'[c].st \in Terminal
    BY <1>7 DEF RowsSound
  <2> QED BY <1>8, <2>1, <2>2 DEF RowsSound
<1>10. Settled'
  <2>1. \A c \in Children : child'[c].st # "absent" =>
           child'[c].st \in Terminal /\ child'[c].verdict # "none"
    BY <1>5, <1>6
  <2>2. ASSUME NEW a \in Addresses
        PROVE  \E c \in Exists(child') : c[1] = a
    <3>1. f[a] \in Children /\ f[a][1] = a /\ f[a] \in picked
      BY <1>3
    <3>2. child'[f[a]].st # "absent"
      BY <1>5, <3>1 DEF Terminal
    <3> QED BY <3>1, <3>2 DEF Exists
  <2> QED BY <1>1, <2>1, <2>2 DEF Settled, Exists
<1>11. ASSUME NEW c \in Children, ch[c].st # "absent", ch[c].verdict = "none"
       PROVE  child'[c].verdict \in {"interrupted", "cancelled"}
  <2>1. ch[c].addr = c[1]
    BY <1>11 DEF RowsSound
  <2> QED BY <1>4, <1>5, <1>11, <2>1
<1> QED BY <1>7, <1>9, <1>10, <1>11

\* The rows ch are those of the table, some of them ended.
SomeEnded(ch) ==
    /\ ch \in [Children -> Child]
    /\ \A c \in Children : \/ ch[c] = child[c]
                           \/ /\ child[c].st # "absent"
                              /\ \E o \in {"failed", "cancelled"} :
                                    ch[c] = [child[c] EXCEPT !.st = o]

LEMMA SomeEndedSound ==
  ASSUME TypeOK, RowsSound(child), NEW ch, SomeEnded(ch)
  PROVE  /\ RowsSound(ch)
         /\ \A c \in Children : /\ ch[c].addr = child[c].addr
                                /\ ch[c].verdict = child[c].verdict
                                /\ ch[c].st = "absent" <=> child[c].st = "absent"
<1>1. ASSUME NEW c \in Children
      PROVE  /\ ch[c].addr = child[c].addr /\ ch[c].verdict = child[c].verdict
             /\ ch[c].cancel = child[c].cancel
             /\ ch[c].st = "absent" <=> child[c].st = "absent"
             /\ child[c].st \in Terminal => ch[c].st \in Terminal
  <2>1. child[c] \in Child
    BY DEF TypeOK
  <2>2. CASE ch[c] = child[c]
    BY <2>2
  <2>3. CASE ch[c] # child[c]
    <3>1. PICK o \in {"failed", "cancelled"} :
             child[c].st # "absent" /\ ch[c] = [child[c] EXCEPT !.st = o]
      BY <2>3 DEF SomeEnded
    <3>2. /\ ch[c].st = o /\ ch[c].addr = child[c].addr
          /\ ch[c].verdict = child[c].verdict /\ ch[c].cancel = child[c].cancel
      BY <2>1, <3>1 DEF Child
    <3> QED BY <3>1, <3>2 DEF Terminal
  <2> QED BY <2>2, <2>3
<1>2. \A a \in Addresses : <<a, "reconcile">> \in Children /\ <<a, "fanout">> \in Children
  BY DEF Children
<1>3. RowsSound(ch)
  BY <1>1, <1>2 DEF RowsSound
<1> QED BY <1>1, <1>3

\* Who ends the tree finds no coroutine with an answer, and leaves none that
\* thinks it has the lease.
Quiet ==
    /\ \A c \in Own : cpc[c] \notin {"none", "done"} =>
          pc' # "reconcile" /\ (alive' => lost' \/ stopping')
    /\ \A c \in Own : alive' => cpc[c] \notin {"succeed", "finaliseLate"}
    /\ alive' => pc' \notin {"begin", "create"} /\ (pc' = "gather" => lost' \/ stopping')
    /\ rival' \in {rival, NULL}

\* A step that ends the parent and reconciles its tree.
LEMMA EndSettles ==
  ASSUME Inv, SInv, ~ Ended, NEW ch, SomeEnded(ch), NEW intr \in BOOLEAN,
         Reconcile(ch, ActiveIn(ch), intr), parent'.st \in {"failed", "cancelled"},
         UNCHANGED cpc, Quiet
  PROVE  SInv'
<1>1. ch \in [Children -> Child] /\ TypeOK /\ StartedExist
  BY DEF SomeEnded, Inv
<1>2. /\ RowsSound(ch)
      /\ \A c \in Children : /\ ch[c].addr = child[c].addr
                             /\ ch[c].verdict = child[c].verdict
                             /\ ch[c].st = "absent" <=> child[c].st = "absent"
  BY <1>1, SomeEndedSound DEF SInv
<1>3. /\ RowsSound(child') /\ Settled'
      /\ \A c \in Children :
            /\ child'[c].addr = ch[c].addr
            /\ ch[c].st # "absent" /\ ch[c].verdict = "none" =>
                  child'[c].verdict \in {"interrupted", "cancelled"}
            /\ ch[c].st # "absent" => child'[c].st # "absent"
  BY <1>1, <1>2, ReconcileSettles
<1>4. Ended'
  BY DEF Ended, Terminal
<1>5. ASSUME NEW c \in Own
      PROVE  CoroutineSound(c)'
  <2>1. c \in Children /\ CoroutineSound(c)
    BY DEF Own, Children, SInv
  <2>2. cpc[c] \in Entering => child'[c].verdict \in {"interrupted", "cancelled"}
    <3>1. cpc[c] \in Entering => child[c].st # "absent" /\ child[c].verdict = "none"
      BY <1>1, <2>1 DEF StartedExist, Entering, CoroutineSound
    <3> QED BY <1>2, <1>3, <2>1, <3>1
  <2>3. child'[c].addr = child[c].addr
    BY <1>2, <1>3, <2>1
  <2> QED BY <1>4, <2>1, <2>2, <2>3 DEF CoroutineSound, Quiet
<1>6. LeaseSound'
  <2>1. rival' # NULL => rival'.queued \cup rival'.running \subseteq Exists(child')
    BY <1>2, <1>3 DEF Quiet, SInv, LeaseSound, Exists
  <2> QED BY <2>1 DEF LeaseSound, Quiet
<1> QED BY <1>3, <1>5, <1>6 DEF SInv, TreeSettled, Complete

\* A tree whose rows were read while they existed.
LEMMA TreeRowsEnded ==
  ASSUME TypeOK, NEW t, t.cancel \in BOOLEAN,
         t.queued \cup t.running \subseteq Exists(child)
  PROVE  SomeEnded(TreeRows(t))
<1>1. TreeRows(t) \in [Children -> Child]
  BY TreeRowsFacts
<1>2. ASSUME NEW c \in Children
      PROVE  \/ TreeRows(t)[c] = child[c]
             \/ /\ child[c].st # "absent"
                /\ \E o \in {"failed", "cancelled"} :
                      TreeRows(t)[c] = [child[c] EXCEPT !.st = o]
  <2>1. Outcome(~ t.cancel) \in {"failed", "cancelled"}
    BY DEF Outcome
  <2>2. CASE c \in t.queued \cup t.running
    <3>1. TreeRows(t)[c] = [child[c] EXCEPT !.st = Outcome(~ t.cancel)]
      BY <2>2 DEF TreeRows
    <3> QED BY <2>1, <2>2, <3>1 DEF Exists
  <2>3. CASE c \notin t.queued \cup t.running
    BY <2>3 DEF TreeRows
  <2> QED BY <2>2, <2>3
<1> QED BY <1>1, <1>2 DEF SomeEnded

LEMMA EndTreeSettles ==
  ASSUME Inv, SInv, NEW t, t.cancel \in BOOLEAN,
         t.queued \cup t.running \subseteq Exists(child),
         EndTree(t), UNCHANGED cpc, Quiet
  PROVE  SInv'
<1>1. TypeOK
  BY DEF Inv
<1> DEFINE ch == TreeRows(t)
           intr == ~ t.cancel
<1>2. SomeEnded(ch) /\ intr \in BOOLEAN
  BY <1>1, TreeRowsEnded
<1>3. Reconcile(ch, ActiveIn(ch), intr)
  BY DEF EndTree
<1>4. parent.st = "running" /\ parent'.st \in {"failed", "cancelled"}
  BY <1>1, EndTreeFacts
<1> HIDE DEF ch, intr
<1> QED BY <1>2, <1>3, <1>4, EndSettles DEF Ended, Terminal

LEMMA ReadTreeFacts ==
  ASSUME TypeOK
  PROVE  /\ ReadTree.cancel \in BOOLEAN
         /\ ReadTree.queued \cup ReadTree.running \subseteq Exists(child)
<1>1. ReadTree.cancel \in BOOLEAN
  BY DEF ReadTree, TypeOK
<1> QED BY <1>1 DEF ReadTree, Exists

\* Who ends a tree without its worker finds the worker without its lease.
LEMMA UnheldIsQuiet ==
  ASSUME SInv, parent.st = "running", ~ Held, UNCHANGED worker, rival' \in {rival, NULL}
  PROVE  Quiet
<1>1. ~ Ended
  BY DEF Ended, Terminal
<1>2. ASSUME NEW c \in Own
      PROVE  /\ cpc[c] \notin {"none", "done"} =>
                   pc' # "reconcile" /\ (alive' => lost' \/ stopping')
             /\ alive' => cpc[c] \notin {"succeed", "finaliseLate"}
  BY <1>1 DEF SInv, CoroutineSound, LeaseSound, worker
<1> QED BY <1>2 DEF SInv, LeaseSound, Quiet, worker

\* No coroutine goes on once the worker has left the gathering of a tree that has
\* not ended.
LEMMA NoneGoesOn ==
  ASSUME SInv, ~ Ended, pc # "gather"
  PROVE  \A c \in Own : cpc[c] \in {"none", "done"}
BY DEF SInv, CoroutineSound

-----------------------------------------------------------------------------
(* Steps that leave the tree as it is                                      *)

LEMMA SettledKept ==
  ASSUME Settled, UNCHANGED <<child, run>>
  PROVE  Settled'
BY DEF Settled, Exists, RunStatus

\* What is left to show of a step that changes neither rows nor coroutines.
LEMMA SameTree ==
  ASSUME SInv, UNCHANGED <<child, run, cpc>>,
         \A c \in Own : CoroutineSound(c)', LeaseSound',
         Complete' => Settled
  PROVE  SInv'
<1>1. RowsSound(child')
  BY DEF SInv
<1>2. TreeSettled'
  BY SettledKept DEF TreeSettled, Complete
<1> QED BY <1>1, <1>2 DEF SInv

LEMMA SubmitSettles ==
  ASSUME Inv, SInv, Submit
  PROVE  SInv'
<1> USE DEF Submit, worker
<1>0. /\ parent \in [st : JobState, cancel : BOOLEAN] /\ pc \in PC
      /\ LeaseSound /\ TreeSettled
  BY DEF Inv, TypeOK, SInv
<1>1. ASSUME NEW c \in Own
      PROVE  CoroutineSound(c)'
  <2>1. CoroutineSound(c) /\ cpc[c] \in CPC
    BY DEF SInv, Inv, TypeOK
  <2> QED BY <1>0, <2>1 DEF CoroutineSound, LeaseSound, Held, Ended, Terminal
<1>2. LeaseSound'
  BY <1>0 DEF LeaseSound, Held, JobState, Terminal
<1>3. Complete' => Settled
  BY <1>0 DEF TreeSettled, Complete, LeaseSound, Held, Ended, Terminal
<1>4. UNCHANGED <<child, run, cpc>>
  BY DEF table, worker
<1> QED BY <1>1, <1>2, <1>3, <1>4, SameTree

LEMMA ForeignStartsSettles ==
  ASSUME Inv, SInv, NEW a, ForeignStarts(a)
  PROVE  SInv'
<1> USE DEF ForeignStarts, Fault, table, worker
<1>0. /\ parent \in [st : JobState, cancel : BOOLEAN] /\ pc \in PC
      /\ LeaseSound /\ TreeSettled
  BY DEF Inv, TypeOK, SInv
<1>1. ASSUME NEW c \in Own
      PROVE  CoroutineSound(c)'
  <2>1. CoroutineSound(c) /\ cpc[c] \in CPC
    BY DEF SInv, Inv, TypeOK
  <2> QED BY <1>0, <2>1 DEF CoroutineSound, LeaseSound, Held, Ended, Terminal
<1>2. LeaseSound'
  BY <1>0 DEF LeaseSound, Held, JobState, Terminal
<1>3. Complete' => Settled
  BY <1>0 DEF TreeSettled, Complete, LeaseSound, Held, Ended, Terminal
<1>4. UNCHANGED <<child, run, cpc>>
  BY DEF table, worker
<1> QED BY <1>1, <1>2, <1>3, <1>4, SameTree

LEMMA ForeignEndsSettles ==
  ASSUME Inv, SInv, NEW a, ForeignEnds(a)
  PROVE  SInv'
<1> USE DEF ForeignEnds, table, worker
<1>0. /\ parent \in [st : JobState, cancel : BOOLEAN] /\ pc \in PC
      /\ LeaseSound /\ TreeSettled
  BY DEF Inv, TypeOK, SInv
<1>1. ASSUME NEW c \in Own
      PROVE  CoroutineSound(c)'
  <2>1. CoroutineSound(c) /\ cpc[c] \in CPC
    BY DEF SInv, Inv, TypeOK
  <2> QED BY <1>0, <2>1 DEF CoroutineSound, LeaseSound, Held, Ended, Terminal
<1>2. LeaseSound'
  BY <1>0 DEF LeaseSound, Held, JobState, Terminal
<1>3. Complete' => Settled
  BY <1>0 DEF TreeSettled, Complete, LeaseSound, Held, Ended, Terminal
<1>4. UNCHANGED <<child, run, cpc>>
  BY DEF table, worker
<1> QED BY <1>1, <1>2, <1>3, <1>4, SameTree

LEMMA HeartbeatSettles ==
  ASSUME Inv, SInv, Heartbeat
  PROVE  SInv'
<1> USE DEF Heartbeat, Beating, Yielding, Renewed, table
<1>0. /\ parent \in [st : JobState, cancel : BOOLEAN] /\ pc \in PC
      /\ LeaseSound /\ TreeSettled
  BY DEF Inv, TypeOK, SInv
<1>1. ASSUME NEW c \in Own
      PROVE  CoroutineSound(c)'
  <2>1. CoroutineSound(c) /\ cpc[c] \in CPC
    BY DEF SInv, Inv, TypeOK
  <2> QED BY <1>0, <2>1 DEF CoroutineSound, LeaseSound, Held, Ended, Terminal
<1>2. LeaseSound'
  BY <1>0 DEF LeaseSound, Held, JobState, Terminal
<1>3. Complete' => Settled
  BY <1>0 DEF TreeSettled, Complete, LeaseSound, Held, Ended, Terminal
<1>4. UNCHANGED <<child, run, cpc>>
  BY DEF table, worker
<1> QED BY <1>1, <1>2, <1>3, <1>4, SameTree

LEMMA StopSettles ==
  ASSUME Inv, SInv, Stop
  PROVE  SInv'
<1> USE DEF Stop, Fault, table
<1>0. /\ parent \in [st : JobState, cancel : BOOLEAN] /\ pc \in PC
      /\ LeaseSound /\ TreeSettled
  BY DEF Inv, TypeOK, SInv
<1>1. ASSUME NEW c \in Own
      PROVE  CoroutineSound(c)'
  <2>1. CoroutineSound(c) /\ cpc[c] \in CPC
    BY DEF SInv, Inv, TypeOK
  <2> QED BY <1>0, <2>1 DEF CoroutineSound, LeaseSound, Held, Ended, Terminal
<1>2. LeaseSound'
  BY <1>0 DEF LeaseSound, Held, JobState, Terminal
<1>3. Complete' => Settled
  BY <1>0 DEF TreeSettled, Complete, LeaseSound, Held, Ended, Terminal
<1>4. UNCHANGED <<child, run, cpc>>
  BY DEF table, worker
<1> QED BY <1>1, <1>2, <1>3, <1>4, SameTree

LEMMA CrashSettles ==
  ASSUME Inv, SInv, Crash
  PROVE  SInv'
<1> USE DEF Crash, Fault, table
<1>0. /\ parent \in [st : JobState, cancel : BOOLEAN] /\ pc \in PC
      /\ LeaseSound /\ TreeSettled
  BY DEF Inv, TypeOK, SInv
<1>1. ASSUME NEW c \in Own
      PROVE  CoroutineSound(c)'
  <2>1. CoroutineSound(c) /\ cpc[c] \in CPC
    BY DEF SInv, Inv, TypeOK
  <2> QED BY <1>0, <2>1 DEF CoroutineSound, LeaseSound, Held, Ended, Terminal
<1>2. LeaseSound'
  BY <1>0 DEF LeaseSound, Held, JobState, Terminal
<1>3. Complete' => Settled
  BY <1>0 DEF TreeSettled, Complete, LeaseSound, Held, Ended, Terminal
<1>4. UNCHANGED <<child, run, cpc>>
  BY DEF table, worker
<1> QED BY <1>1, <1>2, <1>3, <1>4, SameTree

LEMMA LeaseExpiresSettles ==
  ASSUME Inv, SInv, LeaseExpires, ~ CanStall
  PROVE  SInv'
<1> USE DEF LeaseExpires, Fault, NoFault, Unrenewed, Yielding, table, worker,
        Synchronous
<1>0. /\ parent \in [st : JobState, cancel : BOOLEAN] /\ pc \in PC
      /\ LeaseSound /\ TreeSettled
  BY DEF Inv, TypeOK, SInv
<1>1. ASSUME NEW c \in Own
      PROVE  CoroutineSound(c)'
  <2>1. CoroutineSound(c) /\ cpc[c] \in CPC
    BY DEF SInv, Inv, TypeOK
  <2> QED BY <1>0, <2>1 DEF CoroutineSound, LeaseSound, Held, Ended, Terminal
<1>2. LeaseSound'
  BY <1>0 DEF LeaseSound, Held, JobState, Terminal
<1>3. Complete' => Settled
  BY <1>0 DEF TreeSettled, Complete, LeaseSound, Held, Ended, Terminal
<1>4. UNCHANGED <<child, run, cpc>>
  BY DEF table, worker
<1> QED BY <1>1, <1>2, <1>3, <1>4, SameTree

LEMMA ClaimSettles ==
  ASSUME Inv, SInv, Claim
  PROVE  SInv'
<1> USE DEF Claim, Step, Idle
<1>0. /\ parent \in [st : JobState, cancel : BOOLEAN] /\ pc \in PC
      /\ LeaseSound /\ TreeSettled
  BY DEF Inv, TypeOK, SInv
<1>a. Ended \/ \A c \in Own : cpc[c] \in {"none", "done"}
  BY NoneGoesOn
<1>1. ASSUME NEW c \in Own
      PROVE  CoroutineSound(c)'
  <2>1. CoroutineSound(c) /\ cpc[c] \in CPC
    BY DEF SInv, Inv, TypeOK
  <2> QED BY <1>0, <2>1, <1>a DEF CoroutineSound, LeaseSound, Held, Ended, Terminal
<1>2. LeaseSound'
  BY <1>0, <1>a DEF LeaseSound, Held, JobState, Terminal
<1>3. Complete' => Settled
  BY <1>0, <1>a DEF TreeSettled, Complete, LeaseSound, Held, Ended, Terminal
<1>4. UNCHANGED <<child, run, cpc>>
  BY DEF table, worker
<1> QED BY <1>1, <1>2, <1>3, <1>4, SameTree

LEMMA BeginSettles ==
  ASSUME Inv, SInv, Begin
  PROVE  SInv'
<1> USE DEF Begin, Step, Idle, table
<1>0. /\ parent \in [st : JobState, cancel : BOOLEAN] /\ pc \in PC
      /\ LeaseSound /\ TreeSettled
  BY DEF Inv, TypeOK, SInv
<1>a. Ended \/ \A c \in Own : cpc[c] \in {"none", "done"}
  BY NoneGoesOn
<1>1. ASSUME NEW c \in Own
      PROVE  CoroutineSound(c)'
  <2>1. CoroutineSound(c) /\ cpc[c] \in CPC
    BY DEF SInv, Inv, TypeOK
  <2> QED BY <1>0, <2>1, <1>a DEF CoroutineSound, LeaseSound, Held, Ended, Terminal
<1>2. LeaseSound'
  BY <1>0, <1>a DEF LeaseSound, Held, JobState, Terminal
<1>3. Complete' => Settled
  BY <1>0, <1>a DEF TreeSettled, Complete, LeaseSound, Held, Ended, Terminal
<1>4. UNCHANGED <<child, run, cpc>>
  BY DEF table, worker
<1> QED BY <1>1, <1>2, <1>3, <1>4, SameTree

LEMMA CreateRaisesSettles ==
  ASSUME Inv, SInv, CreateRaises
  PROVE  SInv'
<1> USE DEF CreateRaises, Step, Idle, table
<1>0. /\ parent \in [st : JobState, cancel : BOOLEAN] /\ pc \in PC
      /\ LeaseSound /\ TreeSettled
  BY DEF Inv, TypeOK, SInv
<1>a. Ended \/ \A c \in Own : cpc[c] \in {"none", "done"}
  BY NoneGoesOn
<1>1. ASSUME NEW c \in Own
      PROVE  CoroutineSound(c)'
  <2>1. CoroutineSound(c) /\ cpc[c] \in CPC
    BY DEF SInv, Inv, TypeOK
  <2> QED BY <1>0, <2>1, <1>a DEF CoroutineSound, LeaseSound, Held, Ended, Terminal
<1>2. LeaseSound'
  BY <1>0, <1>a DEF LeaseSound, Held, JobState, Terminal
<1>3. Complete' => Settled
  BY <1>0, <1>a DEF TreeSettled, Complete, LeaseSound, Held, Ended, Terminal
<1>4. UNCHANGED <<child, run, cpc>>
  BY DEF table, worker
<1> QED BY <1>1, <1>2, <1>3, <1>4, SameTree

LEMMA GatherDoneSettles ==
  ASSUME Inv, SInv, GatherDone
  PROVE  SInv'
<1> USE DEF GatherDone, Step, Idle, table
<1>0. /\ parent \in [st : JobState, cancel : BOOLEAN] /\ pc \in PC
      /\ LeaseSound /\ TreeSettled
  BY DEF Inv, TypeOK, SInv
<1>1. ASSUME NEW c \in Own
      PROVE  CoroutineSound(c)'
  <2>1. CoroutineSound(c) /\ cpc[c] \in CPC
    BY DEF SInv, Inv, TypeOK
  <2> QED BY <1>0, <2>1 DEF CoroutineSound, LeaseSound, Held, Ended, Terminal
<1>2. LeaseSound'
  BY <1>0 DEF LeaseSound, Held, JobState, Terminal
<1>3. Complete' => Settled
  BY <1>0 DEF TreeSettled, Complete, LeaseSound, Held, Ended, Terminal
<1>4. UNCHANGED <<child, run, cpc>>
  BY DEF table, worker
<1> QED BY <1>1, <1>2, <1>3, <1>4, SameTree

LEMMA GatherRaisesSettles ==
  ASSUME Inv, SInv, GatherRaises
  PROVE  SInv'
<1> USE DEF GatherRaises, Step, Idle, AfterInvalidTransition, table
<1>0. /\ parent \in [st : JobState, cancel : BOOLEAN] /\ pc \in PC
      /\ LeaseSound /\ TreeSettled
  BY DEF Inv, TypeOK, SInv
<1>a. Ended
  BY DEF SInv, CoroutineSound
<1>1. ASSUME NEW c \in Own
      PROVE  CoroutineSound(c)'
  <2>1. CoroutineSound(c) /\ cpc[c] \in CPC
    BY DEF SInv, Inv, TypeOK
  <2> QED BY <1>0, <2>1, <1>a DEF CoroutineSound, LeaseSound, Held, Ended, Terminal
<1>2. LeaseSound'
  BY <1>0, <1>a DEF LeaseSound, Held, JobState, Terminal
<1>3. Complete' => Settled
  BY <1>0, <1>a DEF TreeSettled, Complete, LeaseSound, Held, Ended, Terminal
<1>4. UNCHANGED <<child, run, cpc>>
  BY DEF table, worker
<1> QED BY <1>1, <1>2, <1>3, <1>4, SameTree

LEMMA ReconcileRaisesSettles ==
  ASSUME Inv, SInv, ReconcileRaises
  PROVE  SInv'
<1> USE DEF ReconcileRaises, Step, Idle, table
<1>0. /\ parent \in [st : JobState, cancel : BOOLEAN] /\ pc \in PC
      /\ LeaseSound /\ TreeSettled
  BY DEF Inv, TypeOK, SInv
<1>a. Ended \/ \A c \in Own : cpc[c] \in {"none", "done"}
  BY NoneGoesOn
<1>1. ASSUME NEW c \in Own
      PROVE  CoroutineSound(c)'
  <2>1. CoroutineSound(c) /\ cpc[c] \in CPC
    BY DEF SInv, Inv, TypeOK
  <2> QED BY <1>0, <2>1, <1>a DEF CoroutineSound, LeaseSound, Held, Ended, Terminal
<1>2. LeaseSound'
  BY <1>0, <1>a DEF LeaseSound, Held, JobState, Terminal
<1>3. Complete' => Settled
  BY <1>0, <1>a DEF TreeSettled, Complete, LeaseSound, Held, Ended, Terminal
<1>4. UNCHANGED <<child, run, cpc>>
  BY DEF table, worker
<1> QED BY <1>1, <1>2, <1>3, <1>4, SameTree

LEMMA FinishSettles ==
  ASSUME Inv, SInv, Finish
  PROVE  SInv'
<1> USE DEF Finish, Step, Idle, Cancelled, table
<1>0. /\ parent \in [st : JobState, cancel : BOOLEAN] /\ pc \in PC
      /\ LeaseSound /\ TreeSettled
  BY DEF Inv, TypeOK, SInv
<1>a. Ended \/ \A c \in Own : cpc[c] \in {"none", "done"}
  BY NoneGoesOn
<1>1. ASSUME NEW c \in Own
      PROVE  CoroutineSound(c)'
  <2>1. CoroutineSound(c) /\ cpc[c] \in CPC
    BY DEF SInv, Inv, TypeOK
  <2> QED BY <1>0, <2>1, <1>a DEF CoroutineSound, LeaseSound, Held, Ended, Terminal
<1>2. LeaseSound'
  BY <1>0, <1>a DEF LeaseSound, Held, JobState, Terminal
<1>3. Complete' => Settled
  BY <1>0, <1>a DEF TreeSettled, Complete, LeaseSound, Held, Ended, Terminal
<1>4. UNCHANGED <<child, run, cpc>>
  BY DEF table, worker
<1> QED BY <1>1, <1>2, <1>3, <1>4, SameTree

LEMMA FinishStateSettles ==
  ASSUME Inv, SInv, FinishState
  PROVE  SInv'
<1> USE DEF FinishState, Step, Idle, AfterInvalidTransition, FinalState
<1>0. /\ parent \in [st : JobState, cancel : BOOLEAN] /\ pc \in PC
      /\ LeaseSound /\ TreeSettled
  BY DEF Inv, TypeOK, SInv
<1>a. Ended \/ \A c \in Own : cpc[c] \in {"none", "done"}
  BY NoneGoesOn
<1>b. Ended => Ended' /\ pc' \in {"close", "finishCancel", "raised"}
  BY <1>0 DEF Ended, Terminal
<1>c. UNCHANGED <<cpc, child, alive, lost, stopping>> /\ pc # "gather"
  OBVIOUS
<1>1. ASSUME NEW c \in Own
      PROVE  CoroutineSound(c)'
  <2>1. CoroutineSound(c) /\ cpc[c] \in CPC
    BY DEF SInv, Inv, TypeOK
  <2>2. CASE Ended
    BY <1>b, <1>c, <2>1, <2>2 DEF CoroutineSound
  <2>3. CASE ~ Ended
    BY <1>a, <1>c, <2>3 DEF CoroutineSound, Entering, Executing
  <2> QED BY <2>2, <2>3
<1>2. LeaseSound'
  BY <1>0, <1>a DEF LeaseSound, Held, JobState, Terminal
<1>3. Complete' => Settled
  BY <1>0, <1>a DEF TreeSettled, Complete, LeaseSound, Held, Ended, Terminal
<1>4. UNCHANGED <<child, run, cpc>>
  BY DEF table, worker
<1> QED BY <1>1, <1>2, <1>3, <1>4, SameTree

LEMMA FinishCancelSettles ==
  ASSUME Inv, SInv, FinishCancel
  PROVE  SInv'
<1> USE DEF FinishCancel, Step, Idle
<1>0. /\ parent \in [st : JobState, cancel : BOOLEAN] /\ pc \in PC
      /\ LeaseSound /\ TreeSettled
  BY DEF Inv, TypeOK, SInv
<1>a. Ended \/ \A c \in Own : cpc[c] \in {"none", "done"}
  BY NoneGoesOn
<1>b. Ended => Ended' /\ pc' \in {"close", "finishCancel", "raised"}
  BY <1>0 DEF Ended, Terminal
<1>c. UNCHANGED <<cpc, child, alive, lost, stopping>> /\ pc # "gather"
  OBVIOUS
<1>1. ASSUME NEW c \in Own
      PROVE  CoroutineSound(c)'
  <2>1. CoroutineSound(c) /\ cpc[c] \in CPC
    BY DEF SInv, Inv, TypeOK
  <2>2. CASE Ended
    BY <1>b, <1>c, <2>1, <2>2 DEF CoroutineSound
  <2>3. CASE ~ Ended
    BY <1>a, <1>c, <2>3 DEF CoroutineSound, Entering, Executing
  <2> QED BY <2>2, <2>3
<1>2. LeaseSound'
  BY <1>0, <1>a DEF LeaseSound, Held, JobState, Terminal
<1>3. Complete' => Settled
  BY <1>0, <1>a DEF TreeSettled, Complete, LeaseSound, Held, Ended, Terminal
<1>4. UNCHANGED <<child, run, cpc>>
  BY DEF table, worker
<1> QED BY <1>1, <1>2, <1>3, <1>4, SameTree

LEMMA ExecuteErrorSettles ==
  ASSUME Inv, SInv, ExecuteError
  PROVE  SInv'
<1> USE DEF ExecuteError, Step, Fault, table
<1>0. /\ parent \in [st : JobState, cancel : BOOLEAN] /\ pc \in PC
      /\ LeaseSound /\ TreeSettled
  BY DEF Inv, TypeOK, SInv
<1>a. Ended \/ \A c \in Own : cpc[c] \in {"none", "done"}
  BY NoneGoesOn
<1>1. ASSUME NEW c \in Own
      PROVE  CoroutineSound(c)'
  <2>1. CoroutineSound(c) /\ cpc[c] \in CPC
    BY DEF SInv, Inv, TypeOK
  <2> QED BY <1>0, <2>1, <1>a DEF CoroutineSound, LeaseSound, Held, Ended, Terminal
<1>2. LeaseSound'
  BY <1>0, <1>a DEF LeaseSound, Held, JobState, Terminal
<1>3. Complete' => Settled
  BY <1>0, <1>a DEF TreeSettled, Complete, LeaseSound, Held, Ended, Terminal
<1>4. UNCHANGED <<child, run, cpc>>
  BY DEF table, worker
<1> QED BY <1>1, <1>2, <1>3, <1>4, SameTree

LEMMA RecoverReadSettles ==
  ASSUME Inv, SInv, RecoverRead
  PROVE  SInv'
<1> USE DEF RecoverRead, table, worker
<1>0. /\ parent \in [st : JobState, cancel : BOOLEAN] /\ pc \in PC
      /\ LeaseSound /\ TreeSettled
  BY DEF Inv, TypeOK, SInv
<1>a. ReadTree.queued \cup ReadTree.running \subseteq Exists(child)
  BY ReadTreeFacts DEF Inv
<1>1. ASSUME NEW c \in Own
      PROVE  CoroutineSound(c)'
  <2>1. CoroutineSound(c) /\ cpc[c] \in CPC
    BY DEF SInv, Inv, TypeOK
  <2> QED BY <1>0, <2>1, <1>a DEF CoroutineSound, LeaseSound, Held, Ended, Terminal
<1>2. LeaseSound'
  BY <1>0, <1>a DEF LeaseSound, Held, JobState, Terminal
<1>3. Complete' => Settled
  BY <1>0, <1>a DEF TreeSettled, Complete, LeaseSound, Held, Ended, Terminal
<1>4. UNCHANGED <<child, run, cpc>>
  BY DEF table, worker
<1> QED BY <1>1, <1>2, <1>3, <1>4, SameTree

\* A step that writes no row of the tree and ends nothing: a request to cancel, a
\* heartbeat that fails, a worker that gives up, a recovery that finds the tree
\* changed.
LEMMA NothingWritten ==
  ASSUME Inv, SInv, UNCHANGED <<child, run, cpc, good, alive, stopping>>,
         parent'.st = parent.st, lost => lost', rival' \in {rival, NULL},
         pc' = pc \/ (pc \in {"raised", "close"} /\ pc' \in {"close", "done"})
  PROVE  SInv'
<1>0. LeaseSound /\ TreeSettled
  BY DEF SInv
<1>a. Ended \/ pc = "gather" \/ \A c \in Own : cpc[c] \in {"none", "done"}
  BY NoneGoesOn
<1>b. Ended' <=> Ended
  BY DEF Ended
<1>c. Held => Held'
  BY DEF Held
<1>1. ASSUME NEW c \in Own
      PROVE  CoroutineSound(c)'
  <2>1. CoroutineSound(c)
    BY DEF SInv
  <2> QED BY <1>a, <1>b, <1>c, <2>1 DEF CoroutineSound
<1>2. LeaseSound'
  BY <1>0, <1>c DEF LeaseSound
<1>3. Complete' => Settled
  BY <1>0, <1>b DEF TreeSettled, Complete
<1> QED BY <1>1, <1>2, <1>3, SameTree

-----------------------------------------------------------------------------
(* Steps that end the tree                                                 *)

LEMMA CancelParentSettles ==
  ASSUME Inv, SInv, CancelParent
  PROVE  SInv'
<1>1. TypeOK /\ LeaseSound /\ UNCHANGED <<good, rival, alive, stopping, lost, pc, cpc>>
  BY DEF CancelParent, Inv, SInv, worker
<1>2. CASE parent.st = "running"
  <2>1. parent' = [parent EXCEPT !.cancel = TRUE] /\ UNCHANGED <<child, run>>
    BY <1>2 DEF CancelParent
  <2>2. parent'.st = parent.st
    BY <1>1, <2>1 DEF TypeOK
  <2> QED BY <1>1, <2>1, <2>2, NothingWritten
<1>3. CASE parent.st # "running"
  <2>1. /\ parent.st = "queued" /\ parent' = [st |-> "cancelled", cancel |-> TRUE]
        /\ Reconcile(child, ActiveIn(child), FALSE)
    BY <1>3 DEF CancelParent
  <2>2. SomeEnded(child)
    BY <1>1 DEF SomeEnded, TypeOK
  <2>3. ~ Ended /\ pc = "idle"
    BY <1>1, <2>1 DEF Ended, Terminal, LeaseSound
  <2>4. \A c \in Own : cpc[c] \in {"none", "done"}
    BY <2>3, NoneGoesOn
  <2>5. Quiet
    BY <1>1, <2>3, <2>4 DEF Quiet
  <2>6. parent'.st \in {"failed", "cancelled"}
    BY <2>1
  <2>7. FALSE \in BOOLEAN
    OBVIOUS
  <2> QED BY <1>1, <2>1, <2>2, <2>3, <2>5, <2>6, <2>7, EndSettles
<1> QED BY <1>2, <1>3

LEMMA ResolveParentSettles ==
  ASSUME Inv, SInv, ResolveParent
  PROVE  SInv'
<1> DEFINE rows == [c \in Children |-> IF child[c].st = "running"
                       THEN [child[c] EXCEPT !.st = "cancelled"] ELSE child[c]]
<1>1. TypeOK /\ UNCHANGED <<rival, cpc>> /\ UNCHANGED worker
  BY DEF ResolveParent, Inv, worker
<1>2. /\ parent.st = "running" /\ Root \notin good
      /\ parent' = [parent EXCEPT !.st = "cancelled"]
      /\ Reconcile(rows, ActiveIn(rows), FALSE)
  BY DEF ResolveParent
<1>3. SomeEnded(rows)
  <2>1. ASSUME NEW c \in Children
        PROVE  /\ rows[c] \in Child
               /\ \/ rows[c] = child[c]
                  \/ /\ child[c].st # "absent"
                     /\ rows[c] = [child[c] EXCEPT !.st = "cancelled"]
    <3>1. child[c] \in Child
      BY <1>1 DEF TypeOK
    <3> QED BY <3>1 DEF Child, JobState, Terminal
  <2> HIDE DEF rows
  <2>2. rows \in [Children -> Child]
    BY <2>1 DEF rows
  <2> QED BY <2>1, <2>2 DEF SomeEnded
<1>4. Quiet
  BY <1>1, <1>2, UnheldIsQuiet DEF Held
<1>5. parent'.st \in {"failed", "cancelled"} /\ ~ Ended
  BY <1>1, <1>2 DEF TypeOK, Ended, Terminal
<1>6. FALSE \in BOOLEAN
  OBVIOUS
<1> HIDE DEF rows
<1> QED BY <1>1, <1>2, <1>3, <1>4, <1>5, <1>6, EndSettles

LEMMA RecoverApplySettles ==
  ASSUME Inv, SInv, RecoverApply
  PROVE  SInv'
<1>1. TypeOK /\ LeaseSound
  BY DEF Inv, SInv
<1>2. rival # NULL /\ rival' = NULL /\ UNCHANGED worker /\ UNCHANGED good
  BY DEF RecoverApply
<1>3. UNCHANGED <<cpc, alive, stopping, lost, pc>>
  BY <1>2 DEF worker
<1>4. CASE EndTree(rival)
  <2>1. rival.cancel \in BOOLEAN
    BY <1>1, <1>2 DEF TypeOK
  <2>2. rival.queued \cup rival.running \subseteq Exists(child)
    BY <1>1, <1>2 DEF LeaseSound
  <2>3. parent.st = "running"
    BY <1>4 DEF EndTree, TreeApplies
  <2>4. Quiet
    BY <1>2, <2>3, UnheldIsQuiet DEF Held
  <2> QED BY <1>3, <1>4, <2>1, <2>2, <2>4, EndTreeSettles
<1>5. CASE UNCHANGED table
  BY <1>2, <1>3, <1>5, NothingWritten DEF table
<1> QED BY <1>4, <1>5 DEF RecoverApply

LEMMA HeartbeatErrorSettles ==
  ASSUME Inv, SInv, HeartbeatError
  PROVE  SInv'
<1>1. TypeOK /\ LeaseSound
  BY DEF Inv, SInv
<1>2. /\ Yielding /\ alive /\ pc = "gather" /\ lost' = TRUE
      /\ UNCHANGED <<good, cpc, alive, stopping, pc, rival>>
  BY DEF HeartbeatError, Beating
<1>3. CASE EndTree(ReadTree)
  <2>1. /\ ReadTree.cancel \in BOOLEAN
        /\ ReadTree.queued \cup ReadTree.running \subseteq Exists(child)
    BY <1>1, ReadTreeFacts
  <2>2. Quiet
    BY <1>2 DEF Quiet, Yielding, Synchronous
  <2> QED BY <1>2, <1>3, <2>1, <2>2, EndTreeSettles
<1>4. CASE UNCHANGED table
  BY <1>2, <1>4, NothingWritten DEF table
<1> QED BY <1>3, <1>4 DEF HeartbeatError, Abandon

LEMMA RaisedSettles ==
  ASSUME Inv, SInv, Raised
  PROVE  SInv'
<1>1. TypeOK
  BY DEF Inv
<1>2. /\ pc = "raised" /\ pc' = "close"
      /\ UNCHANGED <<good, cpc, alive, stopping, lost, rival>>
  BY DEF Raised, Step, Idle
<1>3. CASE UNCHANGED table
  BY <1>2, <1>3, NothingWritten DEF table
<1>4. CASE /\ parent.st = "running" /\ parent' = [parent EXCEPT !.st = "failed"]
           /\ Reconcile(child, ActiveIn(child), TRUE)
  <2>1. SomeEnded(child)
    BY <1>1 DEF SomeEnded, TypeOK
  <2>2. ~ Ended /\ parent'.st \in {"failed", "cancelled"}
    BY <1>1, <1>4 DEF Ended, Terminal, TypeOK
  <2>3. \A c \in Own : cpc[c] \in {"none", "done"}
    BY <1>2, <2>2, NoneGoesOn
  <2>4. Quiet
    BY <1>2, <2>3 DEF Quiet
  <2>5. TRUE \in BOOLEAN
    OBVIOUS
  <2> QED BY <1>2, <1>4, <2>1, <2>2, <2>4, <2>5, EndSettles
<1> QED BY <1>3, <1>4 DEF Raised

LEMMA CloseSettles ==
  ASSUME Inv, SInv, Close
  PROVE  SInv'
<1>1. TypeOK
  BY DEF Inv
<1>2. /\ pc = "close" /\ pc' = "done"
      /\ UNCHANGED <<good, cpc, alive, stopping, lost, rival>>
  BY DEF Close, Step, Idle
<1>3. CASE UNCHANGED table
  BY <1>2, <1>3, NothingWritten DEF table
<1>4. CASE EndTree(ReadTree)
  <2>1. /\ ReadTree.cancel \in BOOLEAN
        /\ ReadTree.queued \cup ReadTree.running \subseteq Exists(child)
    BY <1>1, ReadTreeFacts
  <2>2. ~ Ended
    BY <1>4 DEF EndTree, TreeApplies, Ended, Terminal
  <2>3. \A c \in Own : cpc[c] \in {"none", "done"}
    BY <1>2, <2>2, NoneGoesOn
  <2>4. Quiet
    BY <1>2, <2>3 DEF Quiet
  <2> QED BY <1>2, <1>4, <2>1, <2>4, EndTreeSettles
<1> QED BY <1>3, <1>4 DEF Close, Abandon

\* The closing reconciliation: every coroutine has returned.
LEMMA ReconcileRunSettles ==
  ASSUME Inv, SInv, ReconcileRun
  PROVE  SInv'
<1> DEFINE open == ActiveIn(child) \cup stale
           intr == ~ Cancelled
<1>1. TypeOK /\ LeaseSound /\ RowsSound(child) /\ child \in [Children -> Child]
  BY DEF Inv, SInv, TypeOK
<1>2. /\ pc = "reconcile" /\ pc' = "finish"
      /\ Reconcile(child, open, intr)
      /\ UNCHANGED <<parent, good, cpc, alive, stopping, lost, rival>>
  BY DEF ReconcileRun, Step, Idle
<1>3. ActiveIn(child) \subseteq open /\ intr \in BOOLEAN
  OBVIOUS
<1> HIDE DEF open, intr
<1>4. /\ RowsSound(child') /\ Settled'
      /\ \A c \in Children : child[c].st # "absent" => child'[c].st # "absent"
  BY <1>1, <1>2, <1>3, ReconcileSettles
<1>5. ASSUME NEW c \in Own
      PROVE  CoroutineSound(c)'
  <2>1. cpc[c] \in {"none", "done"}
    BY <1>2 DEF SInv, CoroutineSound
  <2> QED BY <1>2, <2>1 DEF CoroutineSound, Entering, Executing
<1>6. LeaseSound'
  <2>1. rival' # NULL => rival'.queued \cup rival'.running \subseteq Exists(child')
    BY <1>1, <1>2, <1>4 DEF LeaseSound, Exists
  <2> QED BY <1>1, <1>2, <2>1 DEF LeaseSound
<1> QED BY <1>4, <1>5, <1>6 DEF SInv, TreeSettled, Complete

LEMMA CreateChildrenSettles ==
  ASSUME Inv, SInv, CreateChildren
  PROVE  SInv'
<1>1. /\ alive /\ pc = "create" /\ pc' = "gather"
      /\ child' = [c \in Children |-> IF c \in Own THEN Fresh(c[1], "queued") ELSE child[c]]
      /\ cpc' = [c \in Own |-> "new"]
      /\ UNCHANGED <<parent, run, good, alive, stopping, lost, rival>>
  BY DEF CreateChildren, Step, Idle
<1>2. Held /\ Exists(child) = {} /\ RowsSound(child) /\ TypeOK
  BY <1>1 DEF SInv, LeaseSound, Inv
<1>3. \A c \in Own : /\ c \in Children /\ child'[c] = Fresh(c[1], "queued")
                     /\ child'[c].st = "queued" /\ child'[c].addr = c[1]
                     /\ child'[c].verdict = "none" /\ ~ child'[c].cancel
  BY <1>1 DEF Fresh, Own, Children
<1>4. \A c \in Children \ Own : child'[c] = child[c] /\ child[c].st = "absent"
  BY <1>1, <1>2 DEF Exists
<1>5. RowsSound(child')
  <2>1. \A a \in Addresses : <<a, "reconcile">> \in Children \ Own
    BY DEF Children, Own
  <2>2. \A c \in Children :
          /\ \/ child'[c].addr = c[1]
             \/ child'[c].addr \notin Addresses /\ child'[c].st \in Terminal
                /\ child'[c].verdict # "none"
          /\ child'[c].cancel => child'[c].st \in Terminal
    BY <1>2, <1>3, <1>4 DEF RowsSound
  <2> QED BY <1>4, <2>1, <2>2 DEF RowsSound
<1>6. ~ Ended' /\ Held'
  BY <1>1, <1>2 DEF Held, Ended, Terminal
<1>7. ASSUME NEW c \in Own
      PROVE  CoroutineSound(c)'
  <2>1. cpc'[c] = "new"
    BY <1>1
  <2> QED BY <1>1, <1>3, <1>6, <2>1 DEF CoroutineSound, Entering, Executing
<1>8. LeaseSound'
  BY <1>1, <1>6 DEF LeaseSound, Held
<1>9. TreeSettled'
  BY <1>1, <1>6 DEF TreeSettled, Complete
<1> QED BY <1>5, <1>7, <1>8, <1>9 DEF SInv

-----------------------------------------------------------------------------
(* Coroutines of the children                                              *)

\* What a coroutine that goes on finds.
LEMMA Going ==
  ASSUME Inv, SInv, NEW c \in Own, cpc[c] \notin {"none", "done"}
  PROVE  /\ c \in Children /\ child[c] \in Child /\ child[c].st # "absent"
         /\ CoroutineSound(c)
         /\ Ended => child[c].st \in Terminal /\ child[c].verdict # "none"
         /\ child[c].cancel => child[c].st \in Terminal
         /\ \/ child[c].addr = c[1]
            \/ /\ child[c].addr \notin Addresses
               /\ child[c].st \in Terminal /\ child[c].verdict # "none"
<1>1. c \in Children
  BY DEF Own, Children
<1>2. child[c] \in Child /\ child[c].st # "absent"
  BY <1>1 DEF Inv, TypeOK, StartedExist
<1>3. Ended => child[c].st \in Terminal /\ child[c].verdict # "none"
  BY <1>1, <1>2 DEF SInv, TreeSettled, Complete, Settled, Exists
<1> QED BY <1>1, <1>2, <1>3 DEF SInv, RowsSound

\* What the coroutine of c must leave behind when it goes on to q with the row.
GoesOn(c, row, q) ==
    /\ q \notin {"none", "done", "tail"} => row.addr = c[1]
    /\ q \in Entering =>
          row.verdict \in (IF Ended THEN {"interrupted", "cancelled"} ELSE {"none"})
    /\ q \in Executing /\ ~ Ended => row.st = "running"
    /\ q = "raised" => Ended
    /\ q \in {"succeed", "finaliseLate"} => pc = "gather" /\ Held

\* The row may replace that of c: it is found under its address or belongs to a
\* device with an address outside the scope, and in a tree that has ended it
\* counts for the report as the old one did.
MayReplace(c, row) ==
    /\ row.st # "absent"
    /\ \/ row.addr = c[1]
       \/ row.addr \notin Addresses /\ row.st \in Terminal /\ row.verdict # "none"
    /\ child[c].addr # c[1] => row.addr # c[1]
    /\ row.cancel => row.st \in Terminal
    /\ Ended => /\ row.st \in Terminal /\ row.verdict # "none"
                /\ \/ row.verdict = child[c].verdict
                   \/ {row.verdict, child[c].verdict} \subseteq {"interrupted", "cancelled"}

LEMMA RowMoves ==
  ASSUME Inv, SInv, NEW c \in Own, NEW p, NEW q, NEW row,
         p \notin {"none", "done"}, Move(c, p, q),
         child' = [child EXCEPT ![c] = row], good \subseteq good',
         MayReplace(c, row), GoesOn(c, row, q)
  PROVE  SInv'
<1>1. /\ alive /\ cpc[c] = p /\ pc \in {"gather", "done"} /\ cpc' = [cpc EXCEPT ![c] = q]
      /\ UNCHANGED <<alive, stopping, pc, lost, parent, run, rival>>
  BY DEF Move, CPU, Attached
<1>2. cpc[c] \notin {"none", "done"}
  BY <1>1
<1>3. /\ c \in Children /\ child[c].st # "absent" /\ CoroutineSound(c)
  BY <1>2, Going
<1>4. child \in [Children -> Child] /\ cpc \in [Own -> CPC]
  BY DEF Inv, TypeOK
<1>5. child'[c] = row /\ \A d \in Children : d # c => child'[d] = child[d]
  BY <1>3, <1>4
<1>6. cpc'[c] = q /\ \A d \in Own : d # c => cpc'[d] = cpc[d]
  BY <1>1, <1>4
<1>7. (Ended' <=> Ended) /\ (Held => Held')
  BY <1>1 DEF Ended, Held
<1>8. RowsSound(child')
  <2>1. RowsSound(child)
    BY DEF SInv
  <2>2. \A d \in Children :
          /\ \/ child'[d].addr = d[1]
             \/ child'[d].addr \notin Addresses /\ child'[d].st \in Terminal
                /\ child'[d].verdict # "none"
          /\ child'[d].cancel => child'[d].st \in Terminal
    BY <1>5, <2>1 DEF RowsSound, MayReplace
  <2>3. ASSUME NEW a \in Addresses, child'[<<a, "reconcile">>].st # "absent"
        PROVE  child'[<<a, "fanout">>].st = "absent" \/ child'[<<a, "fanout">>].addr # a
    <3>1. <<a, "reconcile">> \in Children /\ <<a, "reconcile">> # c /\ <<a, "fanout">> \in Children
      BY DEF Children, Own
    <3>2. child[<<a, "fanout">>].st = "absent" \/ child[<<a, "fanout">>].addr # a
      BY <1>5, <2>1, <2>3, <3>1 DEF RowsSound
    <3>3. CASE c = <<a, "fanout">>
      BY <1>3, <1>5, <3>2, <3>3 DEF MayReplace
    <3>4. CASE c # <<a, "fanout">>
      BY <1>5, <3>1, <3>2, <3>4
    <3> QED BY <3>3, <3>4
  <2> QED BY <2>2, <2>3 DEF RowsSound
<1>9. ASSUME NEW d \in Own
      PROVE  CoroutineSound(d)'
  <2>1. d \in Children /\ CoroutineSound(d)
    BY DEF Own, Children, SInv
  <2>2. CASE d # c
    <3>1. child'[d] = child[d] /\ cpc'[d] = cpc[d]
      BY <1>5, <1>6, <2>1, <2>2
    <3> QED BY <1>1, <1>7, <2>1, <3>1 DEF CoroutineSound
  <2>3. CASE d = c
    BY <1>1, <1>2, <1>3, <1>5, <1>6, <1>7, <2>3 DEF CoroutineSound, GoesOn
  <2> QED BY <2>2, <2>3
<1>10. \A d \in Children : child'[d].st # "absent" <=> child[d].st # "absent"
  BY <1>3, <1>5 DEF MayReplace
<1>11. Exists(child') = Exists(child)
  BY <1>10 DEF Exists
<1>12. LeaseSound'
  <2>1. LeaseSound
    BY DEF SInv
  <2> QED BY <1>1, <1>7, <1>11, <2>1 DEF LeaseSound
<1>13. TreeSettled'
  <2> SUFFICES ASSUME Ended
               PROVE  Settled'
    BY <1>1, <1>7 DEF TreeSettled, Complete
  <2>1. Settled
    BY DEF SInv, TreeSettled, Complete
  <2>2. \A d \in Exists(child) : /\ child'[d].st \in Terminal /\ child'[d].verdict # "none"
                                 /\ \/ child'[d].verdict = child[d].verdict
                                    \/ {child'[d].verdict, child[d].verdict}
                                          \subseteq {"interrupted", "cancelled"}
    BY <1>5, <2>1 DEF Settled, Exists, MayReplace
  <2>3. RunStatus(child') = RunStatus(child)
    <3> DEFINE V == {child[d].verdict : d \in Exists(child)}
               W == {child'[d].verdict : d \in Exists(child')}
    <3>1. "discovered" \in W <=> "discovered" \in V
      BY <1>11, <2>2
    <3>2. {"cancelled", "interrupted"} \cap W = {} <=> {"cancelled", "interrupted"} \cap V = {}
      <4>1. ASSUME NEW v \in {"cancelled", "interrupted"}, v \in W
            PROVE  \E u \in {"cancelled", "interrupted"} : u \in V
        BY <1>11, <2>2, <4>1
      <4>2. ASSUME NEW v \in {"cancelled", "interrupted"}, v \in V
            PROVE  \E u \in {"cancelled", "interrupted"} : u \in W
        BY <1>11, <2>2, <4>2
      <4> HIDE DEF V, W
      <4> QED BY <4>1, <4>2
    <3>3. /\ RunStatus(child) = IF "discovered" \in V /\ {"cancelled", "interrupted"} \cap V = {}
                                THEN "succeeded" ELSE "failed"
          /\ RunStatus(child') = IF "discovered" \in W /\ {"cancelled", "interrupted"} \cap W = {}
                                 THEN "succeeded" ELSE "failed"
      BY DEF RunStatus
    <3> HIDE DEF V, W
    <3> QED BY <3>1, <3>2, <3>3
  <2> QED BY <1>1, <1>11, <2>1, <2>2, <2>3 DEF Settled
<1> QED BY <1>8, <1>9, <1>12, <1>13 DEF SInv

\* A coroutine that goes on without writing.
LEMMA OnlyMoves ==
  ASSUME Inv, SInv, NEW c \in Own, NEW p, NEW q, p \notin {"none", "done"}, Move(c, p, q),
         UNCHANGED <<child, good>>, GoesOn(c, child[c], q)
  PROVE  SInv'
<1>1. cpc[c] \notin {"none", "done"}
  BY DEF Move
<1>2. MayReplace(c, child[c])
  BY <1>1, Going DEF MayReplace
<1>3. child' = [child EXCEPT ![c] = child[c]]
  BY DEF Inv, TypeOK
<1> QED BY <1>2, <1>3, RowMoves

\* A coroutine that returns.
LEMMA Returns ==
  ASSUME Inv, SInv, NEW c \in Own, NEW p, p \notin {"none", "done"}, Move(c, p, "done"),
         Return(c, child[c]), UNCHANGED good
  PROVE  SInv'
<1> DEFINE row == IF Attached THEN Tail(child[c]) ELSE child[c]
<1>1. cpc[c] \notin {"none", "done"}
  BY DEF Move
<1>2. child' = [child EXCEPT ![c] = row]
  BY DEF Return
<1>3. child[c] \in Child /\ child[c].st # "absent"
  BY <1>1, Going
<1>4. /\ row.st = child[c].st /\ row.addr = child[c].addr /\ row.cancel = child[c].cancel
      /\ child[c].verdict # "none" => row.verdict = child[c].verdict
  BY <1>3 DEF Tail, Child
<1> HIDE DEF row
<1>5. MayReplace(c, row)
  BY <1>1, <1>3, <1>4, Going DEF MayReplace
<1>6. GoesOn(c, row, "done")
  BY DEF GoesOn, Entering, Executing
<1> QED BY <1>2, <1>5, <1>6, RowMoves

LEMMA ChildEnterSettles ==
  ASSUME Inv, SInv, NEW c \in Own, ChildEnter(c)
  PROVE  SInv'
<1> DEFINE q == IF Cancelled THEN "cancel" ELSE "wait"
<1>1. Move(c, "new", q) /\ UNCHANGED <<child, good>> /\ cpc[c] = "new"
  BY DEF ChildEnter, Move
<1>2. q \in {"cancel", "wait"}
  OBVIOUS
<1> HIDE DEF q
<1>3. GoesOn(c, child[c], q)
  BY <1>1, <1>2, Going DEF GoesOn, CoroutineSound, Entering, Executing
<1> QED BY <1>1, <1>3, OnlyMoves

LEMMA ChildAcquireSettles ==
  ASSUME Inv, SInv, NEW c \in Own, ChildAcquire(c)
  PROVE  SInv'
<1> DEFINE q == IF Cancelled THEN "cancel" ELSE "claim"
<1>1. Move(c, "wait", q) /\ UNCHANGED good /\ cpc[c] = "wait"
  BY DEF ChildAcquire, Move
<1>2. q \in {"cancel", "claim"}
  OBVIOUS
<1>3. /\ child[c] \in Child /\ CoroutineSound(c)
  BY <1>1, Going
<1> DEFINE row == [child[c] EXCEPT !.res = "discovering"]
<1>4. UNCHANGED child \/ child' = [child EXCEPT ![c] = row]
  BY DEF ChildAcquire
<1>5. /\ row.st = child[c].st /\ row.addr = child[c].addr /\ row.cancel = child[c].cancel
      /\ row.verdict = child[c].verdict
  BY <1>3 DEF Child
<1> HIDE DEF q, row
<1>6. GoesOn(c, child[c], q) /\ GoesOn(c, row, q)
  BY <1>1, <1>2, <1>3, <1>5 DEF GoesOn, CoroutineSound, Entering, Executing
<1>7. MayReplace(c, row)
  BY <1>1, <1>5, Going DEF MayReplace
<1> QED BY <1>1, <1>4, <1>6, <1>7, OnlyMoves, RowMoves

LEMMA ChildCancelledSettles ==
  ASSUME Inv, SInv, NEW c \in Own, ChildCancelled(c)
  PROVE  SInv'
<1> DEFINE marked(row) == IF Attached
              THEN [row EXCEPT !.res = "cancelled", !.verdict = "cancelled"]
              ELSE row
<1>1. Move(c, "cancel", "done") /\ UNCHANGED good /\ cpc[c] = "cancel"
  BY DEF ChildCancelled, Move
<1>2. /\ child[c] \in Child /\ child[c].st # "absent" /\ child[c].addr = c[1]
      /\ Ended => child[c].verdict \in {"interrupted", "cancelled"} /\ child[c].st \in Terminal
      /\ child[c].cancel => child[c].st \in Terminal
  BY <1>1, Going DEF CoroutineSound, Entering
<1>3. \A row : GoesOn(c, row, "done")
  BY DEF GoesOn, Entering, Executing
<1>4. CASE child' = [child EXCEPT ![c] =
                       marked([child[c] EXCEPT !.st = "cancelled", !.cancel = TRUE])]
  <2> DEFINE row == marked([child[c] EXCEPT !.st = "cancelled", !.cancel = TRUE])
  <2>1. /\ row.st = "cancelled" /\ row.addr = child[c].addr
        /\ row.verdict \in {child[c].verdict, "cancelled"}
    BY <1>2 DEF Child
  <2>2. child' = [child EXCEPT ![c] = row]
    BY <1>4
  <2> HIDE DEF row
  <2>3. MayReplace(c, row)
    BY <1>2, <2>1 DEF MayReplace, Terminal
  <2> QED BY <1>1, <1>3, <2>2, <2>3, RowMoves
<1>5. CASE UNCHANGED child
  BY <1>1, <1>3, <1>5, OnlyMoves
<1>6. CASE child' = [child EXCEPT ![c] = marked(child[c])]
  <2> DEFINE row == marked(child[c])
  <2>1. /\ row.st = child[c].st /\ row.addr = child[c].addr /\ row.cancel = child[c].cancel
        /\ row.verdict \in {child[c].verdict, "cancelled"}
    BY <1>2 DEF Child
  <2>2. child' = [child EXCEPT ![c] = row]
    BY <1>6
  <2> HIDE DEF row
  <2>3. MayReplace(c, row)
    BY <1>2, <2>1 DEF MayReplace
  <2> QED BY <1>1, <1>3, <2>2, <2>3, RowMoves
<1> QED BY <1>4, <1>5, <1>6 DEF ChildCancelled

LEMMA ChildClaimSettles ==
  ASSUME Inv, SInv, NEW c \in Own, ChildClaim(c)
  PROVE  SInv'
<1>1. CASE child[c].st = "queued"
  <2> DEFINE row == [child[c] EXCEPT !.st = "running"]
  <2>1. /\ Move(c, "claim", "collect") /\ cpc[c] = "claim"
        /\ child' = [child EXCEPT ![c] = row] /\ good \subseteq good'
    BY <1>1 DEF ChildClaim, Move
  <2>2. child[c] \in Child /\ child[c].addr = c[1] /\ ~ Ended /\ ~ child[c].cancel
    BY <1>1, <2>1, Going DEF CoroutineSound, Terminal
  <2>3. row.st = "running" /\ row.addr = c[1] /\ ~ row.cancel
    BY <2>2 DEF Child
  <2> HIDE DEF row
  <2>4. MayReplace(c, row) /\ GoesOn(c, row, "collect")
    BY <2>2, <2>3 DEF MayReplace, GoesOn, Entering
  <2> QED BY <2>1, <2>4, RowMoves
<1>2. CASE child[c].st # "queued"
  BY <1>2, Returns DEF ChildClaim
<1> QED BY <1>1, <1>2

\* The answer of a device is believed only while the lease is held.
LEMMA ChildCollectedSettles ==
  ASSUME Inv, SInv, NEW c \in Own, ChildCollected(c)
  PROVE  SInv'
<1>1. PICK q \in {"finalise", "finaliseLate", "succeed"} : Move(c, "collect", q)
  BY DEF ChildCollected
<1>2. ~ lost /\ ~ stopping /\ alive /\ cpc[c] = "collect" /\ UNCHANGED <<child, good>>
  BY <1>1 DEF ChildCollected, Move, CPU
<1>3. CoroutineSound(c)
  BY DEF SInv
<1>4. ~ Ended /\ pc = "gather"
  BY <1>2, <1>3 DEF CoroutineSound
<1>5. Held
  BY <1>2, <1>4 DEF SInv, LeaseSound
<1>6. GoesOn(c, child[c], q)
  BY <1>2, <1>3, <1>4, <1>5 DEF GoesOn, CoroutineSound, Entering, Executing
<1> QED BY <1>1, <1>2, <1>6, OnlyMoves

LEMMA ChildLeaseLostSettles ==
  ASSUME Inv, SInv, NEW c \in Own, ChildLeaseLost(c)
  PROVE  SInv'
BY Returns DEF ChildLeaseLost

LEMMA ChildRaisesSettles ==
  ASSUME Inv, SInv, NEW c \in Own, ChildRaises(c)
  PROVE  SInv'
<1>1. PICK q \in {"finalise", "fail", "step7"} : Move(c, "collect", q)
  BY DEF ChildRaises
<1>2. cpc[c] = "collect" /\ UNCHANGED <<child, good>> /\ CoroutineSound(c)
  BY <1>1 DEF ChildRaises, Move, SInv
<1>3. GoesOn(c, child[c], q)
  BY <1>2 DEF GoesOn, CoroutineSound, Entering, Executing
<1> QED BY <1>1, <1>2, <1>3, OnlyMoves

\* A verdict that is noted before its job ends is noted while the lease is held.
LEMMA ChildNotedSettles ==
  ASSUME Inv, SInv, NEW c \in Own, ChildNoted(c)
  PROVE  SInv'
<1> DEFINE row == [child[c] EXCEPT !.verdict = IF Attached THEN "discovered" ELSE @]
<1>1. /\ Move(c, "collect", "process") /\ cpc[c] = "collect" /\ UNCHANGED good
      /\ child[c].st = "running" /\ ~ child[c].cancel
  BY DEF ChildNoted, Move
<1>2. /\ child[c] \in Child /\ CoroutineSound(c) /\ child[c].addr = c[1]
      /\ ~ Ended
  BY <1>1, Going DEF CoroutineSound, Terminal
<1>3. child' = [child EXCEPT ![c] = row]
  BY DEF ChildNoted, Inv, TypeOK
<1>4. row.st = "running" /\ row.addr = c[1] /\ ~ row.cancel
  BY <1>1, <1>2 DEF Child
<1> HIDE DEF row
<1>5. MayReplace(c, row) /\ GoesOn(c, row, "process")
  BY <1>2, <1>4 DEF MayReplace, GoesOn, Entering, Executing
<1> QED BY <1>1, <1>3, <1>5, RowMoves

\* A device that succeeds reports an address of its own.
LEMMA ChildSucceedSettles ==
  ASSUME Inv, SInv, NEW c \in Own, ChildSucceed(c),
         \A a \in Addresses : ReportedIP[a] \cap Addresses \subseteq {a}
  PROVE  SInv'
<1>1. cpc[c] = "succeed" /\ alive /\ UNCHANGED good
  BY DEF ChildSucceed, Move, CPU
<1>2. /\ child[c] \in Child /\ CoroutineSound(c)
      /\ child[c].cancel => child[c].st \in Terminal
  BY <1>1, Going
<1>3. ~ Ended /\ child[c].st = "running" /\ ~ child[c].cancel /\ child[c].addr = c[1]
  BY <1>1, <1>2 DEF CoroutineSound, Executing, Held, Ended, Terminal
<1>4. Move(c, "succeed", "done")
  BY <1>3 DEF ChildSucceed
<1>5. PICK ip \in ReportedIP[c[1]] :
         child' = [child EXCEPT ![c] =
            [child[c] EXCEPT !.st = "succeeded", !.res = "succeeded",
                             !.verdict = "discovered", !.addr = ip]]
  BY <1>3 DEF ChildSucceed
<1> DEFINE row == [child[c] EXCEPT !.st = "succeeded", !.res = "succeeded",
                                   !.verdict = "discovered", !.addr = ip]
<1>6. row.st = "succeeded" /\ row.verdict = "discovered" /\ row.addr = ip
  BY <1>2 DEF Child
<1>7. child' = [child EXCEPT ![c] = row]
  BY <1>5
<1> HIDE DEF row
<1>8. c[1] \in Addresses
  BY DEF Own
<1>9. MayReplace(c, row) /\ GoesOn(c, row, "done")
  BY <1>3, <1>6, <1>8 DEF MayReplace, GoesOn, Entering, Executing, Terminal
<1> QED BY <1>1, <1>4, <1>7, <1>9, RowMoves

LEMMA ChildProcessedSettles ==
  ASSUME Inv, SInv, NEW c \in Own, ChildProcessed(c),
         \A a \in Addresses : ReportedIP[a] \cap Addresses \subseteq {a}
  PROVE  SInv'
<1>1. cpc[c] = "process" /\ alive /\ UNCHANGED good
  BY DEF ChildProcessed, Move, CPU
<1>2. /\ child[c] \in Child /\ CoroutineSound(c)
      /\ child[c].cancel => child[c].st \in Terminal
  BY <1>1, Going
<1>3. CASE UNCHANGED child /\ ~ Move(c, "process", "done")
  <2>1. PICK q \in {"finalise", "step7"} : Move(c, "process", q)
    BY <1>3 DEF ChildProcessed
  <2>2. GoesOn(c, child[c], q)
    BY <1>1, <1>2 DEF GoesOn, CoroutineSound, Entering, Executing
  <2> QED BY <1>1, <1>3, <2>1, <2>2, OnlyMoves
<1>4. CASE Move(c, "process", "done")
  <2>1. child[c].st = "running" /\ ~ child[c].cancel
    BY <1>4 DEF ChildProcessed, Move, Inv, TypeOK
  <2>2. ~ Ended /\ child[c].addr = c[1]
    BY <1>1, <1>2, <2>1, Going DEF CoroutineSound, Terminal
  <2>3. PICK ip \in ReportedIP[c[1]] :
           child' = [child EXCEPT ![c] =
              [child[c] EXCEPT !.st = "succeeded", !.res = "succeeded",
                               !.verdict = "discovered", !.addr = ip]]
    BY <1>4 DEF ChildProcessed, Move, Inv, TypeOK
  <2> DEFINE row == [child[c] EXCEPT !.st = "succeeded", !.res = "succeeded",
                                     !.verdict = "discovered", !.addr = ip]
  <2>4. row.st = "succeeded" /\ row.verdict = "discovered" /\ row.addr = ip
    BY <1>2 DEF Child
  <2>5. child' = [child EXCEPT ![c] = row]
    BY <2>3
  <2> HIDE DEF row
  <2>6. c[1] \in Addresses
    BY DEF Own
  <2>7. MayReplace(c, row) /\ GoesOn(c, row, "done")
    BY <2>2, <2>4, <2>6 DEF MayReplace, GoesOn, Entering, Executing, Terminal
  <2> QED BY <1>1, <1>4, <2>5, <2>7, RowMoves
<1> QED BY <1>3, <1>4 DEF ChildProcessed

LEMMA ChildStep7Settles ==
  ASSUME Inv, SInv, NEW c \in Own, ChildStep7(c)
  PROVE  SInv'
<1>1. cpc[c] = "step7" /\ UNCHANGED good
  BY DEF ChildStep7, Move
<1>2. /\ child[c] \in Child /\ CoroutineSound(c) /\ child[c].addr = c[1]
      /\ child[c].cancel => child[c].st \in Terminal
      /\ Ended => child[c].st \in Terminal
  BY <1>1, Going DEF CoroutineSound
<1>3. CASE child[c].st = "running" /\ ~ child[c].cancel
  <2> DEFINE row == [child[c] EXCEPT !.st = "failed", !.res = "failed", !.verdict = "unreachable"]
  <2>1. Move(c, "step7", "done") /\ child' = [child EXCEPT ![c] = row]
    BY <1>3 DEF ChildStep7
  <2>2. row.st = "failed" /\ row.addr = c[1] /\ ~ Ended
    BY <1>2, <1>3 DEF Child, Terminal
  <2> HIDE DEF row
  <2>3. MayReplace(c, row) /\ GoesOn(c, row, "done")
    BY <1>2, <2>2 DEF MayReplace, GoesOn, Entering, Executing, Terminal
  <2> QED BY <1>1, <2>1, <2>3, RowMoves
<1>4. CASE child[c].st # "running" \/ child[c].cancel
  <2>1. PICK q \in {"finalise", "fail"} : Move(c, "step7", q) /\ UNCHANGED child
    BY <1>4 DEF ChildStep7
  <2>2. Ended
    BY <1>1, <1>2, <1>4 DEF CoroutineSound, Executing, Terminal
  <2>3. GoesOn(c, child[c], q)
    BY <1>2, <2>2 DEF GoesOn, Entering, Executing
  <2> QED BY <1>1, <2>1, <2>3, OnlyMoves
<1> QED BY <1>3, <1>4

LEMMA ChildFailSettles ==
  ASSUME Inv, SInv, NEW c \in Own, ChildFail(c)
  PROVE  SInv'
<1>1. cpc[c] = "fail" /\ UNCHANGED good
  BY DEF ChildFail, Move
<1>2. /\ child[c] \in Child /\ CoroutineSound(c) /\ child[c].addr = c[1]
      /\ child[c].cancel => child[c].st \in Terminal
      /\ Ended => child[c].st \in Terminal
  BY <1>1, Going DEF CoroutineSound
<1>3. CASE child[c].st = "running" /\ ~ child[c].cancel
  <2> DEFINE row == [child[c] EXCEPT !.st = "failed", !.res = "failed", !.verdict = "unreachable"]
  <2>1. Move(c, "fail", "done") /\ child' = [child EXCEPT ![c] = row]
    BY <1>3 DEF ChildFail
  <2>2. row.st = "failed" /\ row.addr = c[1] /\ ~ Ended
    BY <1>2, <1>3 DEF Child, Terminal
  <2> HIDE DEF row
  <2>3. MayReplace(c, row) /\ GoesOn(c, row, "done")
    BY <1>2, <2>2 DEF MayReplace, GoesOn, Entering, Executing, Terminal
  <2> QED BY <1>1, <2>1, <2>3, RowMoves
<1>4. CASE child[c].st # "running" \/ child[c].cancel
  <2>1. Move(c, "fail", "raised") /\ UNCHANGED child
    BY <1>4 DEF ChildFail
  <2>2. Ended
    BY <1>1, <1>2, <1>4 DEF CoroutineSound, Executing, Terminal
  <2>3. GoesOn(c, child[c], "raised")
    BY <1>2, <2>2 DEF GoesOn, Entering, Executing
  <2> QED BY <1>1, <2>1, <2>3, OnlyMoves
<1> QED BY <1>3, <1>4

LEMMA ChildFinaliseSettles ==
  ASSUME Inv, SInv, NEW c \in Own, ChildFinalise(c),
         \A a \in Addresses : ReportedIP[a] \cap Addresses \subseteq {a}
  PROVE  SInv'
<1>1. cpc[c] \in {"finalise", "finaliseLate"} /\ alive /\ UNCHANGED good
  BY DEF ChildFinalise, Move, CPU
<1>2. /\ child[c] \in Child /\ CoroutineSound(c) /\ child[c].addr = c[1]
      /\ Ended => child[c].verdict # "none"
  BY <1>1, Going DEF CoroutineSound
<1>3. CASE child[c].st \notin {"running", "cancelled"}
  <2>1. PICK p \in {"finalise", "finaliseLate"} : Move(c, p, "raised")
    BY <1>3 DEF ChildFinalise
  <2>2. UNCHANGED child
    BY <1>3 DEF ChildFinalise
  <2>3. Ended
    BY <1>1, <1>2, <1>3 DEF CoroutineSound, Executing
  <2>4. GoesOn(c, child[c], "raised")
    BY <1>2, <2>3 DEF GoesOn, Entering, Executing
  <2> QED BY <1>1, <2>1, <2>2, <2>4, OnlyMoves
<1>4. CASE child[c].st \in {"running", "cancelled"} /\ cpc[c] = "finalise"
  <2> DEFINE row == [child[c] EXCEPT !.st = "cancelled", !.cancel = TRUE, !.res = "cancelled"]
  <2>1. Move(c, "finalise", "tail") /\ child' = [child EXCEPT ![c] = row]
    BY <1>4 DEF ChildFinalise, Move
  <2>2. row.st = "cancelled" /\ row.addr = c[1] /\ row.verdict = child[c].verdict
    BY <1>2 DEF Child
  <2> HIDE DEF row
  <2>3. MayReplace(c, row) /\ GoesOn(c, row, "tail")
    BY <1>2, <2>2 DEF MayReplace, GoesOn, Entering, Executing, Terminal
  <2> QED BY <1>1, <2>1, <2>3, RowMoves
<1>5. CASE child[c].st \in {"running", "cancelled"} /\ cpc[c] = "finaliseLate"
  <2>1. Move(c, "finaliseLate", "tail")
    BY <1>5 DEF ChildFinalise, Move
  <2>2. PICK ip \in ReportedIP[c[1]] \cup {c[1]} :
           child' = [child EXCEPT ![c] =
              [child[c] EXCEPT !.st = "cancelled", !.cancel = TRUE, !.res = "cancelled",
                               !.verdict = "discovered", !.addr = ip]]
    BY <1>5 DEF ChildFinalise, Move
  <2> DEFINE row == [child[c] EXCEPT !.st = "cancelled", !.cancel = TRUE, !.res = "cancelled",
                                     !.verdict = "discovered", !.addr = ip]
  <2>3. child' = [child EXCEPT ![c] = row]
    BY <2>2
  <2>4. row.st = "cancelled" /\ row.verdict = "discovered" /\ row.addr = ip
    BY <1>2 DEF Child
  <2> HIDE DEF row
  <2>5. ~ Ended
    BY <1>1, <1>2, <1>5 DEF CoroutineSound, Held, Ended, Terminal
  <2>6. c[1] \in Addresses
    BY DEF Own
  <2>7. MayReplace(c, row) /\ GoesOn(c, row, "tail")
    BY <1>2, <2>4, <2>5, <2>6 DEF MayReplace, GoesOn, Entering, Executing, Terminal
  <2> QED BY <1>1, <2>1, <2>3, <2>7, RowMoves
<1> QED BY <1>1, <1>3, <1>4, <1>5

LEMMA ChildTailSettles ==
  ASSUME Inv, SInv, NEW c \in Own, ChildTail(c)
  PROVE  SInv'
BY Returns DEF ChildTail

LEMMA ChildDetachedSettles ==
  ASSUME Inv, SInv, NEW c \in Own, ChildDetached(c)
  PROVE  SInv'
<1>1. PICK p \in CPC \ {"none", "done", "raised"} : Move(c, p, "done")
  BY DEF ChildDetached
<1>2. GoesOn(c, child[c], "done") /\ UNCHANGED <<child, good>>
  BY DEF ChildDetached, GoesOn, Entering, Executing
<1> QED BY <1>1, <1>2, OnlyMoves

-----------------------------------------------------------------------------
(* The theorem                                                             *)

LEMMA InitSettles == Init => SInv
<1> SUFFICES ASSUME Init PROVE SInv
  OBVIOUS
<1>1. /\ \A c \in Children : /\ child[c].st = "absent" /\ child[c].addr = c[1]
                             /\ child[c].cancel = FALSE
      /\ \A c \in Own : cpc[c] = "none"
      /\ parent.st = "absent" /\ pc = "idle" /\ rival = NULL
  BY DEF Init, Fresh
<1>2. Exists(child) = {}
  BY <1>1 DEF Exists
<1>3. RowsSound(child)
  <2>1. \A a \in Addresses : <<a, "reconcile">> \in Children
    BY DEF Children
  <2> QED BY <1>1, <2>1 DEF RowsSound
<1>4. \A c \in Own : CoroutineSound(c)
  BY <1>1 DEF CoroutineSound, Entering, Executing
<1>5. LeaseSound /\ TreeSettled
  BY <1>1, <1>2 DEF LeaseSound, TreeSettled, Complete, Ended, Terminal
<1> QED BY <1>3, <1>4, <1>5 DEF SInv

LEMMA NextSettles ==
  ASSUME Inv, SInv, [Next]_vars, ~ CanStall, ~ SingleCancels,
         \A a \in Addresses : ReportedIP[a] \cap Addresses \subseteq {a}
  PROVE  SInv'
<1>1. CASE Operator
  <2>1. \A c \in Children : ~ CancelChild(c)
    BY DEF CancelChild
  <2>2. \A c \in Children : ~ ResolveChild(c)
    BY DEF ResolveChild, SInv, RowsSound, Terminal
  <2> QED BY <1>1, <2>1, <2>2, SubmitSettles, CancelParentSettles, ResolveParentSettles
          DEF Operator
<1>2. CASE Environment
  BY <1>2, ForeignStartsSettles, ForeignEndsSettles, HeartbeatSettles,
     HeartbeatErrorSettles, StopSettles, CrashSettles, LeaseExpiresSettles
  DEF Environment
<1>3. CASE Parent
  BY <1>3, ClaimSettles, BeginSettles, CreateChildrenSettles, CreateRaisesSettles,
     GatherDoneSettles, GatherRaisesSettles, ReconcileRunSettles, ReconcileRaisesSettles,
     FinishSettles, FinishStateSettles, FinishCancelSettles, RaisedSettles, CloseSettles
  DEF Parent
<1>4. ASSUME NEW c \in Own, Coroutine(c) PROVE SInv'
  BY <1>4, ChildEnterSettles, ChildAcquireSettles, ChildCancelledSettles,
     ChildClaimSettles, ChildCollectedSettles, ChildLeaseLostSettles, ChildRaisesSettles,
     ChildNotedSettles, ChildSucceedSettles, ChildProcessedSettles, ChildStep7Settles,
     ChildFailSettles, ChildFinaliseSettles, ChildTailSettles,
     ChildDetachedSettles
  DEF Coroutine
<1>5. CASE ExecuteError \/ RecoverRead \/ RecoverApply
  BY <1>5, ExecuteErrorSettles, RecoverReadSettles, RecoverApplySettles
<1>6. CASE UNCHANGED vars
  <2>1. /\ UNCHANGED <<child, run, cpc, good, alive, stopping, pc, lost, rival>>
        /\ parent'.st = parent.st
    BY <1>6 DEF vars, table, worker
  <2> QED BY <2>1, NothingWritten
<1> QED BY <1>1, <1>2, <1>3, <1>4, <1>5, <1>6 DEF Next

\* As long as no worker is frozen past its lease, nobody cancels single children
\* and no device claims the address of another one in the scope, a range that has
\* ended has a child for every address, each with a terminal status and a verdict,
\* and a report that agrees with them, whether the worker, its error handler, its
\* heartbeat, another worker's recovery or an operator ended it, and whatever
\* coroutines wrote after that (reconcile_parent_job, _finalize_parent_run).
THEOREM TreesAreSettled ==
  ASSUME ~ CanStall, ~ SingleCancels,
         \A a \in Addresses : ReportedIP[a] \cap Addresses \subseteq {a}
  PROVE  Spec => []EndedTreeIsSettled
<1>1. Inv /\ SInv /\ [Next]_vars => SInv'
  BY NextSettles
<1>2. SInv => EndedTreeIsSettled
  BY DEF SInv, TreeSettled, Complete, Ended, EndedTreeIsSettled
<1> QED BY <1>1, <1>2, InitSettles, FanoutInvariance, PTL DEF Spec

=============================================================================
