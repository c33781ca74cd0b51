---------------------------- MODULE CollectionProof ----------------------------
(***************************************************************************)
(* Theorems about the collection of captures: WaveRuns, for any inventory, *)
(* any number of requests in flight and any number of runs, and            *)
(* CollectionBatch, for any number of targets and vCenters and any limits. *)
(***************************************************************************)
EXTENDS WaveRuns, CollectionBatch, FiniteSetTheorems, WellFoundedInduction, TLAPS

-----------------------------------------------------------------------------
(* The highest of some run ids *)

Less == {xy \in Nat \X Nat : xy[1] < xy[2]}

\* The order of the natural numbers, in the form WFMin takes it.
LEMMA LessWellFounded == IsWellFoundedOn(Less, Nat)
BY NatLessThanWellFounded, Zenon DEF OpToRel, Less

\* A bounded, non-empty set of naturals has a greatest element.
LEMMA HasHighest ==
    ASSUME NEW m \in Nat, NEW S \in SUBSET (0..m), S # {}
    PROVE  \E x \in S : \A y \in S : y <= x
<1> DEFINE T == {n \in Nat : m - n \in S}
<1>1. T \subseteq Nat /\ T # {}
  <2>1. PICK x \in S : x \in 0..m
    OBVIOUS
  <2>2. m - x \in Nat /\ m - (m - x) = x
    BY <2>1
  <2>3. QED
    BY <2>1, <2>2
<1> HIDE DEF T
<1>2. \E x \in T : \A y \in T : ~(<<y, x>> \in Less)
    BY <1>1, LessWellFounded, WFMin, Zenon
<1>3. PICK t \in T : \A y \in T : ~(<<y, t>> \in Less)
    BY <1>2
<1>4. \A y \in T : t <= y
  <2> SUFFICES ASSUME NEW y \in T, y < t PROVE FALSE
    BY <1>1
  <2>1. <<y, t>> \in Nat \X Nat /\ <<y, t>>[1] < <<y, t>>[2]
    BY <1>1
  <2>2. <<y, t>> \in Less
    BY <2>1 DEF Less
  <2>3. QED
    BY <2>2, <1>3
<1>5. \A y \in S : y <= m - t
  <2> SUFFICES ASSUME NEW y \in S PROVE y <= m - t
    OBVIOUS
  <2>1. y \in 0..m
    OBVIOUS
  <2>2. m - y \in Nat /\ m - (m - y) = y
    BY <2>1
  <2>3. m - y \in T
    BY <2>2 DEF T
  <2>4. QED
    BY <2>1, <2>3, <1>1, <1>4
<1>6. QED
    BY <1>5 DEF T

-----------------------------------------------------------------------------
(* Type correctness *)

\* The new run's row and results are well formed.
LEMMA NewRunType ==
    ASSUME TypeOK, NEW r \in Runs, NEW k \in Kinds, NEW vs \in SUBSET VMs, NewRun(r, k, vs)
    PROVE  /\ kind' \in [Runs -> Kinds \union {"none"}]
           /\ status' \in [Runs -> RunStatuses]
           /\ outcome' \in [Runs -> [VMs -> Outcomes]]
           /\ task' \in [Runs -> TaskPhases]
<1>1. [v \in VMs |-> IF v \in vs THEN InitialOutcome(k) ELSE "none"] \in [VMs -> Outcomes]
    BY DEF InitialOutcome, Outcomes
<1>2. QED
    BY <1>1 DEF NewRun, TypeOK, RunStatuses, TaskPhases

\* The latest completed baseline run is one, if there is any.
LEMMA LatestIsCompleted ==
    ASSUME Completed # {}
    PROVE  Latest \in Completed
<1>1. Completed \in SUBSET (0..MaxRuns)
    BY MaxRunsAssumption DEF Completed, Runs
<1>2. \E b \in Completed : \A c \in Completed : c <= b
    BY <1>1, HasHighest, MaxRunsAssumption
<1>3. QED
    BY <1>2 DEF Latest

\* A validation is only ever asked for once a baseline run was completed.
ValidationsHaveABase ==
    (\E q \in Requests : txn[q].kind = "validation") \/ (\E r \in Runs : kind[r] = "validation")
        => Completed # {}

\* The initial values are well formed.
LEMMA InitTypeOK == Init => TypeOK
BY DEF Init, TypeOK, NoTxn, RunStatuses, Outcomes, TaskPhases

\* Every step keeps the types.
LEMMA NextTypeOK == TypeOK /\ ValidationsHaveABase /\ [Next]_vars => TypeOK'
<1> SUFFICES ASSUME TypeOK, ValidationsHaveABase, [Next]_vars PROVE TypeOK'
    OBVIOUS
<1>1. ASSUME NEW q \in Requests, KickRead(q) PROVE TypeOK'
    BY <1>1 DEF KickRead, TypeOK, taskVars
<1>2. ASSUME NEW q \in Requests, KickCommit(q) PROVE TypeOK'
  <2>1. txn[q].kind \in Kinds /\ txn[q].vms \in SUBSET VMs
    BY <1>2 DEF KickCommit, TypeOK
  <2>2. txn' \in [Requests -> [kind : Kinds \union {"none"}, vms : SUBSET VMs]]
    BY <1>2 DEF KickCommit, TypeOK, NoTxn
  <2>3. QED
    BY <1>2, <2>1, <2>2, NewRunType DEF KickCommit, TypeOK, taskVars
<1>3. ASSUME NEW q \in Requests, Refuse(q) PROVE TypeOK'
    BY <1>3 DEF Refuse, TypeOK, NoTxn, taskVars
<1>4. ASSUME NEW p \in Runs, RetryFailed(p) PROVE TypeOK'
  <2>1. "baseline" \in Kinds /\ {v \in VMs : outcome[p][v] = "failed"} \in SUBSET VMs
    BY DEF Kinds
  <2>2. PICK r \in Runs : NewRun(r, "baseline", {v \in VMs : outcome[p][v] = "failed"})
    BY <1>4 DEF RetryFailed
  <2>3. QED
    BY <1>4, <2>1, <2>2, NewRunType DEF RetryFailed, TypeOK, taskVars
<1>5. ASSUME NEW r \in Runs, TaskStart(r) \/ KeyUnusable(r) PROVE TypeOK'
    BY <1>5 DEF TaskStart, KeyUnusable, TypeOK, RunStatuses, TaskPhases, taskVars
<1>6. ASSUME NEW r \in Runs, LoadTargets(r) PROVE TypeOK'
  <2>1. kind[r] = "validation" => Latest \in Runs
    BY LatestIsCompleted DEF ValidationsHaveABase, Completed
  <2>2. base' \in [Runs -> Runs \union {0}]
    BY <1>6, <2>1 DEF LoadTargets, TypeOK
  <2>3. RowsOf(r) \in SUBSET VMs /\ RowsOf(Latest) \in SUBSET VMs
    BY DEF RowsOf
  <2>4. paired' \in [Runs -> SUBSET VMs] /\ todo' \in [Runs -> SUBSET VMs]
    BY <1>6, <2>3 DEF LoadTargets, TypeOK
  <2>5. task' \in [Runs -> TaskPhases]
    BY <1>6 DEF LoadTargets, TypeOK, TaskPhases
  <2>6. QED
    BY <1>6, <2>2, <2>4, <2>5 DEF LoadTargets, TypeOK
<1>7. ASSUME NEW r \in Runs, NEW v \in VMs, RecordResult(r, v) PROVE TypeOK'
  <2>1. Results(r, v) \subseteq Outcomes
    BY DEF Results, CaptureResults, Verdicts, Outcomes
  <2>2. outcome' \in [Runs -> [VMs -> Outcomes]]
    BY <1>7, <2>1 DEF RecordResult, TypeOK
  <2>3. QED
    BY <1>7, <2>2 DEF RecordResult, TypeOK
<1>8. ASSUME NEW r \in Runs, NEW v \in VMs, RowGone(r, v) \/ ResultLost(r, v) PROVE TypeOK'
    BY <1>8, ZenonT(60) DEF RowGone, ResultLost, TypeOK, TaskPhases
<1>9. ASSUME NEW r \in Runs, TaskEnd(r) PROVE TypeOK'
    BY <1>9 DEF TaskEnd, TypeOK, RunStatuses, TaskPhases
<1>10. CASE DeleteVMs
    BY <1>10 DEF taskVars, DeleteVMs, TypeOK, Outcomes
<1>11. CASE EditWave
    BY <1>11 DEF EditWave, TypeOK, taskVars
<1>12. CASE Crash \/ Start
  <2>1. CASE Crash
    <3>1. txn' \in [Requests -> [kind : Kinds \union {"none"}, vms : SUBSET VMs]]
      BY <2>1 DEF Crash, NoTxn
    <3>2. QED
      BY <2>1, <3>1 DEF Crash, TypeOK, TaskPhases
  <2>2. CASE Start
    BY <2>2 DEF Start, TypeOK, taskVars
  <2>3. QED
    BY <1>12, <2>1, <2>2
<1>13. CASE UNCHANGED vars
    BY <1>13 DEF vars, TypeOK
<1>14. ASSUME NEW r \in Runs, NEW v \in VMs, CommandHangs(r, v) PROVE TypeOK'
    BY <1>14 DEF CommandHangs, TypeOK
<1>15. QED
    BY <1>1, <1>2, <1>3, <1>4, <1>5, <1>6, <1>7, <1>8, <1>9, <1>10, <1>11, <1>12, <1>13, <1>14
       DEF Next, TaskStep

-----------------------------------------------------------------------------
(* The inductive invariant *)

\* Until its task ends a run is pending or running; a run not created has no task.
TasksMatchRuns ==
    \A r \in Runs :
        /\ task[r] = "queued" => status[r] = "pending"
        /\ task[r] \in {"started", "collecting", "broken"} => status[r] = "running"
        /\ kind[r] = "none" => task[r] = "none" /\ status[r] = "absent"

\* A collecting task still waits for every result that is pending.
PendingIsAwaited ==
    \A r \in Runs, v \in VMs :
        task[r] = "collecting" /\ outcome[r][v] = "pending" => v \in todo[r]

\* A run is collected against a baseline run completed before, and keeps it.
BaseIsCompleted ==
    \A r \in Runs :
        /\ kind[r] = "validation"
        /\ task[r] \in {"collecting", "broken"} \/ \E v \in VMs : outcome[r][v] = "compared"
        => base[r] \in Completed

\* No verdict precedes the collection.
NoEarlyVerdict ==
    \A r \in Runs, v \in VMs :
        task[r] \in {"queued", "started"} => outcome[r][v] # "compared"

RInv ==
    /\ TypeOK
    /\ ValidationsHaveABase
    /\ TasksMatchRuns
    /\ PendingIsAwaited
    /\ BaseIsCompleted
    /\ NoEarlyVerdict
    /\ CompletedRunsAreWhole
    /\ VerdictsRestOnCaptures

\* Nothing is there yet to be wrong about.
LEMMA InitRInv == Init => RInv
<1> SUFFICES ASSUME Init PROVE RInv
    OBVIOUS
<1>1. TypeOK
    BY InitTypeOK
<1>2. ValidationsHaveABase
    BY DEF Init, NoTxn, ValidationsHaveABase
<1>3. TasksMatchRuns /\ PendingIsAwaited /\ NoEarlyVerdict
    BY DEF Init, TasksMatchRuns, PendingIsAwaited, NoEarlyVerdict
<1>4. BaseIsCompleted /\ CompletedRunsAreWhole /\ VerdictsRestOnCaptures
    BY DEF Init, BaseIsCompleted, CompletedRunsAreWhole, VerdictsRestOnCaptures
<1>5. QED
    BY <1>1, <1>2, <1>3, <1>4 DEF RInv

\* A new run takes a number no run has.
LEMMA NewRunIsNew ==
    ASSUME NEW r \in Runs, NEW k, NEW vs, NewRun(r, k, vs)
    PROVE  kind[r] = "none"
<1>1. r \in Int /\ r >= r
    BY MaxRunsAssumption DEF Runs
<1>2. QED
    BY <1>1 DEF NewRun, Fresh

\* What a step may do to the runs: a completed run stays one, and a result of
\* it stays unless the VM is deleted, which deletes its results everywhere.
LEMMA CompletedStays ==
    ASSUME TypeOK, TasksMatchRuns, [Next]_vars, NEW b \in Runs, status[b] = "completed"
    PROVE  /\ status'[b] = "completed" /\ kind'[b] = kind[b]
           /\ \A v \in VMs : \/ outcome'[b][v] = outcome[b][v]
                             \/ \A r \in Runs : outcome'[r][v] = "none"
<1> DEFINE Stays == /\ status'[b] = "completed" /\ kind'[b] = kind[b]
                    /\ \A v \in VMs : \/ outcome'[b][v] = outcome[b][v]
                                      \/ \A r \in Runs : outcome'[r][v] = "none"
<1>0. kind[b] # "none" /\ task[b] \notin {"queued", "started", "collecting", "broken"}
    BY DEF TasksMatchRuns
<1>1. ASSUME NEW r \in Runs, NEW k, NEW vs, NewRun(r, k, vs) PROVE Stays
  <2>1. r # b
      BY <1>0, <1>1, NewRunIsNew
  <2>2. QED
      BY <1>1, <2>1 DEF NewRun, TypeOK
<1>2. ASSUME NEW q \in Requests, KickRead(q) \/ KickCommit(q) \/ Refuse(q) PROVE Stays
    BY <1>1, <1>2 DEF KickRead, KickCommit, Refuse
<1>3. ASSUME NEW p \in Runs, RetryFailed(p) PROVE Stays
    BY <1>1, <1>3 DEF RetryFailed
<1>4. ASSUME NEW r \in Runs, TaskStart(r) \/ KeyUnusable(r) \/ LoadTargets(r) \/ TaskEnd(r)
      PROVE  Stays
    BY <1>0, <1>4 DEF TaskStart, KeyUnusable, LoadTargets, TaskEnd, TypeOK
<1>5. ASSUME NEW r \in Runs, NEW v \in VMs, RecordResult(r, v) \/ RowGone(r, v) \/ ResultLost(r, v)
      PROVE  Stays
    BY <1>0, <1>5 DEF RecordResult, RowGone, ResultLost, TypeOK
<1>6. CASE DeleteVMs
    BY <1>6 DEF taskVars, DeleteVMs
<1>7. CASE EditWave \/ Crash \/ Start \/ UNCHANGED vars
    BY <1>7 DEF EditWave, Crash, Start, vars
<1>8. QED
    BY <1>2, <1>3, <1>4, <1>5, <1>6, <1>7 DEF Next, TaskStep, CommandHangs

-----------------------------------------------------------------------------
(* Every step keeps the invariant *)

\* A base once completed is there for every later validation.
LEMMA NextValidationsHaveABase == RInv /\ [Next]_vars => ValidationsHaveABase'
<1> SUFFICES ASSUME RInv, [Next]_vars PROVE ValidationsHaveABase'
    OBVIOUS
<1> USE DEF RInv
<1>1. Completed # {} => Completed' # {}
  <2>1. \A b \in Completed : b \in Completed'
      BY CompletedStays DEF Completed
  <2>2. QED
      BY <2>1
<1>2. CASE Completed # {}
    BY <1>1, <1>2 DEF ValidationsHaveABase
<1>3. CASE Completed = {}
  <2>1. /\ \A q \in Requests : txn[q].kind # "validation"
        /\ \A r \in Runs : kind[r] # "validation"
      BY <1>3 DEF ValidationsHaveABase
  <2>2. \A q \in Requests : txn'[q].kind # "validation"
    <3>1. ASSUME NEW q \in Requests, KickRead(q) PROVE <2>2
        BY <1>3, <2>1, <3>1 DEF KickRead, TypeOK
    <3>2. ASSUME NEW q \in Requests, KickCommit(q) \/ Refuse(q) PROVE <2>2
      <4>1. txn' = [txn EXCEPT ![q] = NoTxn] /\ txn \in [Requests -> [kind : Kinds \union {"none"}, vms : SUBSET VMs]]
          BY <3>2 DEF KickCommit, Refuse, TypeOK
      <4>2. \A p \in Requests : txn'[p] = IF p = q THEN NoTxn ELSE txn[p]
          BY <4>1
      <4>3. NoTxn.kind # "validation"
          BY DEF NoTxn
      <4>4. ASSUME NEW p \in Requests PROVE txn'[p].kind # "validation"
        <5>1. CASE p = q
            BY <4>2, <4>3, <5>1
        <5>2. CASE p # q
            BY <2>1, <4>2, <5>2
        <5>3. QED
            BY <5>1, <5>2
      <4>5. QED
          BY <4>4
    <3>3. CASE Crash
        BY <3>3 DEF Crash, NoTxn
    <3>4. CASE UNCHANGED txn
        BY <2>1, <3>4
    <3>5. QED
        BY <3>1, <3>2, <3>3, <3>4
           DEF Next, TaskStep, CommandHangs, RetryFailed, TaskStart, KeyUnusable, LoadTargets, TaskEnd,
               RecordResult, RowGone, ResultLost, DeleteVMs, EditWave, Start, vars
  <2>3. \A r \in Runs : kind'[r] # "validation"
    <3>1. ASSUME NEW q \in Requests, KickCommit(q) PROVE <2>3
        BY <2>1, <3>1 DEF KickCommit, NewRun, TypeOK
    <3>2. ASSUME NEW p \in Runs, RetryFailed(p) PROVE <2>3
        BY <2>1, <3>2 DEF RetryFailed, NewRun, TypeOK
    <3>3. CASE UNCHANGED kind
        BY <2>1, <3>3
    <3>4. QED
        BY <3>1, <3>2, <3>3
           DEF Next, TaskStep, CommandHangs, KickRead, Refuse, TaskStart, KeyUnusable, LoadTargets, TaskEnd,
               RecordResult, RowGone, ResultLost, DeleteVMs, EditWave, Crash, Start, vars
  <2>4. QED
      BY <2>2, <2>3 DEF ValidationsHaveABase
<1>4. QED
    BY <1>2, <1>3

\* The phases of a task and the status of its run go together.
LEMMA NextTasksMatchRuns == RInv /\ [Next]_vars => TasksMatchRuns'
<1> SUFFICES ASSUME RInv, [Next]_vars PROVE TasksMatchRuns'
    OBVIOUS
<1> USE DEF RInv
<1>1. ASSUME NEW r \in Runs, NEW k \in Kinds, NEW vs, NewRun(r, k, vs) PROVE TasksMatchRuns'
    BY <1>1 DEF NewRun, TasksMatchRuns, TypeOK, Kinds
<1>2. ASSUME NEW q \in Requests, KickCommit(q) PROVE TasksMatchRuns'
    BY <1>1, <1>2 DEF KickCommit, TypeOK
<1>3. ASSUME NEW p \in Runs, RetryFailed(p) PROVE TasksMatchRuns'
    BY <1>1, <1>3 DEF RetryFailed, Kinds
<1>4. ASSUME NEW r \in Runs, TaskStart(r) \/ KeyUnusable(r) \/ LoadTargets(r) \/ TaskEnd(r)
      PROVE  TasksMatchRuns'
    BY <1>4 DEF TaskStart, KeyUnusable, LoadTargets, TaskEnd, TasksMatchRuns, TypeOK
<1>5. ASSUME NEW r \in Runs, NEW v \in VMs, RowGone(r, v) PROVE TasksMatchRuns'
    BY <1>5 DEF RowGone, TasksMatchRuns, TypeOK
<1>6. CASE Crash
    BY <1>6 DEF Crash, TasksMatchRuns, TypeOK
<1>7. CASE UNCHANGED <<kind, status, task>>
    BY <1>7 DEF TasksMatchRuns
<1>8. QED
    BY <1>2, <1>3, <1>4, <1>5, <1>6, <1>7
       DEF Next, TaskStep, CommandHangs, KickRead, Refuse, RecordResult, ResultLost, DeleteVMs, EditWave,
           Start, vars

\* The callback that takes a target off the list also records its result.
LEMMA NextPendingIsAwaited == RInv /\ [Next]_vars => PendingIsAwaited'
<1> SUFFICES ASSUME RInv, [Next]_vars PROVE PendingIsAwaited'
    OBVIOUS
<1> USE DEF RInv
<1>1. ASSUME NEW r \in Runs, NEW k, NEW vs, NewRun(r, k, vs), UNCHANGED todo
      PROVE  PendingIsAwaited'
    BY <1>1 DEF NewRun, PendingIsAwaited, TypeOK
<1>2. ASSUME NEW q \in Requests, KickCommit(q) PROVE PendingIsAwaited'
    BY <1>1, <1>2 DEF KickCommit, taskVars
<1>3. ASSUME NEW p \in Runs, RetryFailed(p) PROVE PendingIsAwaited'
    BY <1>1, <1>3 DEF RetryFailed, taskVars
<1>4. ASSUME NEW r \in Runs, TaskStart(r) \/ KeyUnusable(r) \/ TaskEnd(r) PROVE PendingIsAwaited'
    BY <1>4 DEF TaskStart, KeyUnusable, TaskEnd, taskVars, PendingIsAwaited, TypeOK
<1>5. ASSUME NEW r \in Runs, LoadTargets(r) PROVE PendingIsAwaited'
    BY <1>5 DEF LoadTargets, RowsOf, PendingIsAwaited, TypeOK
<1>6. ASSUME NEW r \in Runs, NEW v \in VMs, RecordResult(r, v) PROVE PendingIsAwaited'
  <2>1. \A o \in Results(r, v) : o # "pending"
      BY DEF Results, CaptureResults, Verdicts
  <2>2. PICK o \in Results(r, v) : outcome' = [outcome EXCEPT ![r][v] = o]
      BY <1>6 DEF RecordResult
  <2>3. QED
      BY <1>6, <2>1, <2>2 DEF RecordResult, PendingIsAwaited, TypeOK
<1>7. ASSUME NEW r \in Runs, NEW v \in VMs, RowGone(r, v) PROVE PendingIsAwaited'
    BY <1>7 DEF RowGone, RowsOf, PendingIsAwaited, TypeOK
<1>8. ASSUME NEW r \in Runs, NEW v \in VMs, ResultLost(r, v) PROVE PendingIsAwaited'
    BY <1>8 DEF ResultLost, PendingIsAwaited, TypeOK
<1>9. CASE DeleteVMs
    BY <1>9 DEF taskVars, DeleteVMs, PendingIsAwaited, TypeOK
<1>10. CASE Crash
    BY <1>10 DEF Crash, PendingIsAwaited
<1>11. CASE UNCHANGED <<outcome, task, todo>>
    BY <1>11 DEF PendingIsAwaited
<1>12. QED
    BY <1>2, <1>3, <1>4, <1>5, <1>6, <1>7, <1>8, <1>9, <1>10, <1>11
       DEF Next, TaskStep, CommandHangs, KickRead, Refuse, EditWave, Start, taskVars, vars

\* Rows of a new run carry no verdict and a task records one only when it collects.
LEMMA NextNoEarlyVerdict == RInv /\ [Next]_vars => NoEarlyVerdict'
<1> SUFFICES ASSUME RInv, [Next]_vars PROVE NoEarlyVerdict'
    OBVIOUS
<1> USE DEF RInv
<1>1. ASSUME NEW r \in Runs, NEW k, NEW vs, NewRun(r, k, vs) PROVE NoEarlyVerdict'
    BY <1>1 DEF NewRun, InitialOutcome, NoEarlyVerdict, TypeOK
<1>2. ASSUME NEW q \in Requests, KickCommit(q) PROVE NoEarlyVerdict'
    BY <1>1, <1>2 DEF KickCommit
<1>3. ASSUME NEW p \in Runs, RetryFailed(p) PROVE NoEarlyVerdict'
    BY <1>1, <1>3 DEF RetryFailed
<1>4. ASSUME NEW r \in Runs, TaskStart(r) \/ KeyUnusable(r) \/ LoadTargets(r) \/ TaskEnd(r)
      PROVE  NoEarlyVerdict'
    BY <1>4 DEF TaskStart, KeyUnusable, LoadTargets, TaskEnd, NoEarlyVerdict, TypeOK
<1>5. ASSUME NEW r \in Runs, NEW v \in VMs, RecordResult(r, v) \/ RowGone(r, v)
      PROVE  NoEarlyVerdict'
  <2>1. CASE RecordResult(r, v)
    <3>1. PICK o \in Results(r, v) : outcome' = [outcome EXCEPT ![r][v] = o]
        BY <2>1 DEF RecordResult
    <3>2. task' = task /\ kind' = kind /\ task[r] = "collecting"
        BY <2>1 DEF RecordResult
    <3>3. QED
        BY <3>1, <3>2 DEF NoEarlyVerdict, TypeOK
  <2>2. CASE RowGone(r, v)
    BY <2>2 DEF RowGone, NoEarlyVerdict, TypeOK
  <2>3. QED
    BY <1>5, <2>1, <2>2
<1>6. CASE DeleteVMs
    BY <1>6 DEF taskVars, DeleteVMs, NoEarlyVerdict, TypeOK
<1>7. CASE Crash
    BY <1>7 DEF Crash, NoEarlyVerdict
<1>8. CASE UNCHANGED <<outcome, task>>
    BY <1>8 DEF NoEarlyVerdict
<1>9. QED
    BY <1>2, <1>3, <1>4, <1>5, <1>6, <1>7, <1>8
       DEF Next, TaskStep, CommandHangs, KickRead, Refuse, ResultLost, EditWave, Start, vars

\* The base is chosen among the completed runs and completed runs stay.
LEMMA NextBaseIsCompleted == RInv /\ [Next]_vars => BaseIsCompleted'
<1> SUFFICES ASSUME RInv, [Next]_vars PROVE BaseIsCompleted'
    OBVIOUS
<1> USE DEF RInv
<1> DEFINE Based(r) == /\ kind[r] = "validation"
                       /\ task[r] \in {"collecting", "broken"} \/ \E v \in VMs : outcome[r][v] = "compared"
<1>1. \A b \in Completed : b \in Completed'
    BY CompletedStays DEF Completed
<1>2. ASSUME \A r \in Runs : Based(r)' => Based(r) /\ base'[r] = base[r]
      PROVE  BaseIsCompleted'
    BY <1>1, <1>2 DEF BaseIsCompleted
<1>3. ASSUME NEW r \in Runs, NEW k, NEW vs, NewRun(r, k, vs), UNCHANGED base
      PROVE  BaseIsCompleted'
  <2>1. \A s \in Runs : Based(s)' => Based(s)
      BY <1>3 DEF NewRun, InitialOutcome, TypeOK
  <2>2. QED
      BY <1>2, <1>3, <2>1
<1>4. ASSUME NEW q \in Requests, KickCommit(q) PROVE BaseIsCompleted'
    BY <1>3, <1>4 DEF KickCommit, taskVars
<1>5. ASSUME NEW p \in Runs, RetryFailed(p) PROVE BaseIsCompleted'
    BY <1>3, <1>5 DEF RetryFailed, taskVars
<1>6. ASSUME NEW r \in Runs, TaskStart(r) \/ KeyUnusable(r) \/ TaskEnd(r) PROVE BaseIsCompleted'
  <2>1. \A s \in Runs : Based(s)' => Based(s)
      BY <1>6 DEF TaskStart, KeyUnusable, TaskEnd, TypeOK
  <2>2. QED
      BY <1>2, <1>6, <2>1 DEF TaskStart, KeyUnusable, TaskEnd, taskVars
<1>7. ASSUME NEW r \in Runs, LoadTargets(r) PROVE BaseIsCompleted'
  <2>1. kind[r] = "validation" => Latest \in Completed
      BY LatestIsCompleted DEF ValidationsHaveABase
  <2>2. /\ UNCHANGED <<kind, status, outcome>>
        /\ \A s \in Runs \ {r} : task'[s] = task[s] /\ base'[s] = base[s]
        /\ kind[r] = "validation" => base'[r] = Latest
      BY <1>7 DEF LoadTargets, TypeOK
  <2>3. ASSUME NEW s \in Runs, Based(s)' PROVE base'[s] \in Completed
    <3>1. CASE s = r
        BY <2>1, <2>2, <2>3, <3>1
    <3>2. CASE s # r
      <4>1. Based(s) /\ base'[s] = base[s]
          BY <2>2, <2>3, <3>2
      <4>2. QED
          BY <4>1 DEF BaseIsCompleted
    <3>3. QED
        BY <3>1, <3>2
  <2>4. QED
      BY <1>1, <2>3 DEF BaseIsCompleted
<1>8. ASSUME NEW r \in Runs, NEW v \in VMs, RecordResult(r, v) \/ RowGone(r, v)
      PROVE  BaseIsCompleted'
  <2>1. \A s \in Runs : Based(s)' => Based(s)
      BY <1>8 DEF RecordResult, RowGone, TypeOK
  <2>2. QED
      BY <1>2, <1>8, <2>1 DEF RecordResult, RowGone
<1>9. CASE DeleteVMs
  <2>1. \A s \in Runs : Based(s)' => Based(s)
      BY <1>9 DEF taskVars, DeleteVMs, TypeOK
  <2>2. QED
      BY <1>2, <1>9, <2>1 DEF taskVars, DeleteVMs
<1>10. CASE Crash
  <2>1. \A s \in Runs : Based(s)' => Based(s)
      BY <1>10 DEF Crash
  <2>2. QED
      BY <1>2, <1>10, <2>1 DEF Crash
<1>11. CASE UNCHANGED <<kind, task, outcome, base>>
    BY <1>2, <1>11
<1>12. QED
    BY <1>4, <1>5, <1>6, <1>7, <1>8, <1>9, <1>10, <1>11
       DEF Next, TaskStep, CommandHangs, KickRead, Refuse, ResultLost, EditWave, Start, taskVars, vars

\* A run only completes when its task ends on a usable session, all targets seen.
LEMMA NewlyCompleted ==
    ASSUME TypeOK, [Next]_vars, NEW b \in Runs, status[b] # "completed", status'[b] = "completed"
    PROVE  task[b] = "collecting" /\ todo[b] = {} /\ UNCHANGED outcome
<1> DEFINE Ended == task[b] = "collecting" /\ todo[b] = {} /\ UNCHANGED outcome
<1>1. ASSUME NEW r \in Runs, NEW k, NEW vs, NewRun(r, k, vs) PROVE Ended
    BY <1>1 DEF NewRun, TypeOK
<1>2. ASSUME NEW q \in Requests, KickCommit(q) PROVE Ended
    BY <1>1, <1>2 DEF KickCommit
<1>3. ASSUME NEW p \in Runs, RetryFailed(p) PROVE Ended
    BY <1>1, <1>3 DEF RetryFailed
<1>4. ASSUME NEW r \in Runs, TaskStart(r) \/ KeyUnusable(r) PROVE Ended
    BY <1>4 DEF TaskStart, KeyUnusable, TypeOK
<1>5. ASSUME NEW r \in Runs, TaskEnd(r) PROVE Ended
    BY <1>5 DEF TaskEnd, BatchDone, SessionUsable, TypeOK
<1>6. CASE UNCHANGED status
    BY <1>6
<1>7. QED
    BY <1>2, <1>3, <1>4, <1>5, <1>6
       DEF Next, TaskStep, CommandHangs, KickRead, Refuse, LoadTargets, RecordResult, RowGone, ResultLost,
           DeleteVMs, EditWave, Crash, Start, vars

\* No pending result is left when a run completes and none appears later.
LEMMA NextCompletedRunsAreWhole == RInv /\ [Next]_vars => CompletedRunsAreWhole'
<1> SUFFICES ASSUME RInv, [Next]_vars, NEW b \in Runs, status'[b] = "completed", NEW v \in VMs
             PROVE  outcome'[b][v] # "pending"
    BY DEF CompletedRunsAreWhole
<1> USE DEF RInv
<1>1. CASE status[b] = "completed"
  <2>1. outcome[b][v] # "pending"
      BY <1>1 DEF CompletedRunsAreWhole
  <2>2. outcome'[b][v] = outcome[b][v] \/ outcome'[b][v] = "none"
      BY <1>1, CompletedStays
  <2>3. QED
      BY <2>1, <2>2
<1>2. CASE status[b] # "completed"
  <2>1. task[b] = "collecting" /\ todo[b] = {} /\ UNCHANGED outcome
      BY <1>2, NewlyCompleted
  <2>2. QED
      BY <2>1 DEF PendingIsAwaited
<1>3. QED
    BY <1>1, <1>2

\* A verdict was there before, on the same base, or is being recorded.
LEMMA WhereVerdictsComeFrom ==
    ASSUME RInv, [Next]_vars, NEW r \in Runs, NEW v \in VMs,
           kind'[r] = "validation", outcome'[r][v] = "compared"
    PROVE  /\ kind[r] = "validation" /\ base'[r] = base[r] /\ base[r] \in Completed
           /\ outcome[r][v] = "compared" \/ outcome[base[r]][v] = "captured"
<1> USE DEF RInv
<1> DEFINE Kept == kind[r] = "validation" /\ base'[r] = base[r] /\ outcome[r][v] = "compared"
           Recorded == /\ kind[r] = "validation" /\ base'[r] = base[r] /\ task[r] = "collecting"
                       /\ outcome[base[r]][v] = "captured"
<1>1. ASSUME NEW s \in Runs, NEW k, NEW vs, NewRun(s, k, vs), UNCHANGED base PROVE Kept
    BY <1>1 DEF NewRun, InitialOutcome, TypeOK
<1>2. ASSUME NEW q \in Requests, KickCommit(q) PROVE Kept
    BY <1>1, <1>2 DEF KickCommit, taskVars
<1>3. ASSUME NEW p \in Runs, RetryFailed(p) PROVE Kept
    BY <1>1, <1>3 DEF RetryFailed, taskVars
<1>4. ASSUME NEW s \in Runs, LoadTargets(s) PROVE Kept
  <2>1. s # r
      BY <1>4 DEF LoadTargets, NoEarlyVerdict
  <2>2. QED
      BY <1>4, <2>1 DEF LoadTargets, TypeOK
<1>5. ASSUME NEW s \in Runs, NEW w \in VMs, RecordResult(s, w) PROVE Kept \/ Recorded
  <2>1. PICK o \in Results(s, w) : outcome' = [outcome EXCEPT ![s][w] = o]
      BY <1>5 DEF RecordResult
  <2>2. kind[r] = "validation" /\ base'[r] = base[r] /\ task[s] = "collecting"
      BY <1>5 DEF RecordResult
  <2>3. CASE s = r /\ w = v
    <3>1. o = "compared"
        BY <2>1, <2>3 DEF TypeOK
    <3>2. QED
        BY <2>1, <2>2, <2>3, <3>1 DEF Results, Verdicts
  <2>4. CASE ~(s = r /\ w = v)
      BY <2>1, <2>2, <2>4 DEF TypeOK
  <2>5. QED
      BY <2>3, <2>4
<1>6. ASSUME DeleteVMs PROVE Kept
    BY <1>6 DEF taskVars, DeleteVMs, TypeOK
<1>7. ASSUME UNCHANGED <<kind, outcome, base>> PROVE Kept
    BY <1>7
<1>8. Kept \/ Recorded
    BY <1>2, <1>3, <1>4, <1>5, <1>6, <1>7
       DEF Next, TaskStep, CommandHangs, KickRead, Refuse, TaskStart, KeyUnusable, RowGone, ResultLost, TaskEnd,
           EditWave, Crash, Start, taskVars, vars
<1>9. base[r] \in Completed
    BY <1>8 DEF BaseIsCompleted
<1>10. QED
    BY <1>8, <1>9

\* What the base run captured stays as long as the verdict about it.
LEMMA NextVerdictsRest == RInv /\ [Next]_vars => VerdictsRestOnCaptures'
<1> SUFFICES ASSUME RInv, [Next]_vars, NEW r \in Runs, NEW v \in VMs,
                    kind'[r] = "validation", outcome'[r][v] = "compared"
             PROVE  /\ kind'[base'[r]] = "baseline" /\ status'[base'[r]] = "completed"
                    /\ outcome'[base'[r]][v] = "captured"
    BY DEF VerdictsRestOnCaptures
<1> USE DEF RInv
<1>1. /\ kind[r] = "validation" /\ base'[r] = base[r] /\ base[r] \in Completed
      /\ outcome[r][v] = "compared" \/ outcome[base[r]][v] = "captured"
    BY WhereVerdictsComeFrom
<1>2. outcome[base[r]][v] = "captured"
    BY <1>1 DEF VerdictsRestOnCaptures
<1>3. base[r] \in Runs /\ status[base[r]] = "completed" /\ kind[base[r]] = "baseline"
    BY <1>1 DEF Completed
<1>4. /\ status'[base[r]] = "completed" /\ kind'[base[r]] = kind[base[r]]
      /\ \/ outcome'[base[r]][v] = outcome[base[r]][v]
         \/ \A s \in Runs : outcome'[s][v] = "none"
    BY <1>3, CompletedStays
<1>5. outcome'[base[r]][v] = outcome[base[r]][v]
    BY <1>4
<1>6. QED
    BY <1>1, <1>2, <1>3, <1>4, <1>5

-----------------------------------------------------------------------------
(* The theorems *)

\* The invariant holds, whatever requests, deletions, edits and crashes
\* interleave with the collections.
THEOREM InvariantHolds == Spec => []RInv
<1>1. Init => RInv
    BY InitRInv
<1>2. RInv /\ [Next]_vars => RInv'
  <2> SUFFICES ASSUME RInv, [Next]_vars PROVE RInv'
      OBVIOUS
  <2>1. TypeOK'
      BY NextTypeOK DEF RInv
  <2>2. ValidationsHaveABase' /\ TasksMatchRuns' /\ PendingIsAwaited'
      BY NextValidationsHaveABase, NextTasksMatchRuns, NextPendingIsAwaited
  <2>3. BaseIsCompleted' /\ NoEarlyVerdict'
      BY NextBaseIsCompleted, NextNoEarlyVerdict
  <2>4. CompletedRunsAreWhole' /\ VerdictsRestOnCaptures'
      BY NextCompletedRunsAreWhole, NextVerdictsRest
  <2>5. QED
      BY <2>1, <2>2, <2>3, <2>4 DEF RInv
<1>3. QED
    BY <1>1, <1>2, PTL DEF Spec

\* Every reachable state of the runs is well formed.
THEOREM TypeCorrect == Spec => []TypeOK
<1>1. RInv => TypeOK
    BY DEF RInv
<1>2. QED
    BY <1>1, InvariantHolds, PTL

\* A verdict compares a VM with what a completed baseline run captured on it.
THEOREM VerdictsRest == Spec => []VerdictsRestOnCaptures
<1>1. RInv => VerdictsRestOnCaptures
    BY DEF RInv
<1>2. QED
    BY <1>1, InvariantHolds, PTL

\* A run that says completed misses no result.
THEOREM CompletedWhole == Spec => []CompletedRunsAreWhole
<1>1. RInv => CompletedRunsAreWhole
    BY DEF RInv
<1>2. QED
    BY <1>1, InvariantHolds, PTL

-----------------------------------------------------------------------------
(* CollectionBatch: type correctness *)

\* A collection ends in one of three ways.
LEMMA ThreeOutcomes == BatchOutcomes \subseteq {"ok", "quirky", "down"}
<1>1. \A category : OutcomeOf(category) \in {"ok", "quirky", "down"}
    BY DEF OutcomeOf
<1>2. QED
    BY <1>1 DEF BatchOutcomes

\* A reported result keeps the types of what Report writes.
LEMMA ReportType ==
    ASSUME BatchTypeOK, NEW t \in Targets, NEW o \in BatchOutcomes \union {"short"}, Report(t, o)
    PROVE  /\ phase' \in [Targets -> {"queued", "waiting", "connecting", "hung", "done"}]
           /\ result' \in [Targets -> BatchOutcomes \union {"none", "short"}]
           /\ results' \in Seq(Targets)
BY DEF Report, BatchTypeOK

\* Every step keeps the types.
LEMMA NextBatchTypeOK == BatchTypeOK /\ [BatchNext]_batchVars => BatchTypeOK'
<1> SUFFICES ASSUME BatchTypeOK, [BatchNext]_batchVars PROVE BatchTypeOK'
    OBVIOUS
<1>1. ASSUME NEW t \in Targets, ShortCircuit(t) PROVE BatchTypeOK'
  <2>1. vcenter[t] \in VCenters
      BY <1>1 DEF ShortCircuit, BreakerOpen, HasVCenter
  <2>2. streak' \in [VCenters -> Nat]
      BY <1>1, <2>1 DEF ShortCircuit, BatchTypeOK
  <2>3. QED
      BY <1>1, <2>2, ReportType DEF ShortCircuit, BatchTypeOK
<1>2. ASSUME NEW t \in Targets, Admit(t) \/ Connect(t) \/ Hang(t) PROVE BatchTypeOK'
  <2>1. AfterAdmission(t) \in {"waiting", "connecting"}
      BY DEF AfterAdmission
  <2>2. QED
      BY <1>2, <2>1 DEF Admit, Connect, Hang, BatchTypeOK
<1>3. ASSUME NEW t \in Targets, Finish(t) PROVE BatchTypeOK'
  <2>1. PICK o \in BatchOutcomes :
           /\ Report(t, o)
           /\ IF Threshold # 0 /\ HasVCenter(t)
              THEN LET c == vcenter[t]
                   IN  /\ streak' = [streak EXCEPT ![c] = StreakAfter(c, o)]
                       /\ tripped' = IF Trips(c, o) THEN tripped \union {c} ELSE tripped
              ELSE UNCHANGED <<streak, tripped>>
      BY <1>3 DEF Finish
  <2>2. HasVCenter(t) => StreakAfter(vcenter[t], o) \in Nat
      BY ThreeOutcomes DEF StreakAfter, HasVCenter, BatchTypeOK
  <2>3. streak' \in [VCenters -> Nat] /\ tripped' \subseteq VCenters
      BY <2>1, <2>2 DEF HasVCenter, BatchTypeOK
  <2>4. QED
      BY <1>3, <2>1, <2>3, ReportType DEF Finish, BatchTypeOK
<1>4. CASE UNCHANGED batchVars
    BY <1>4 DEF batchVars, BatchTypeOK
<1>5. QED
    BY <1>1, <1>2, <1>3, <1>4 DEF BatchNext, Step, Returned

\* Every reachable state of a batch is well formed.
THEOREM BatchTypeCorrect == BatchSpec => []BatchTypeOK
<1>1. BatchInit => BatchTypeOK
    BY DEF BatchInit, BatchTypeOK
<1>2. QED
    BY <1>1, NextBatchTypeOK, PTL DEF BatchSpec

-----------------------------------------------------------------------------
(* The caps *)

\* Targets are finitely many, and so are those that hold something.
LEMMA HoldersAreFinite ==
    ASSUME NEW S \in SUBSET Targets
    PROVE  IsFiniteSet(S) /\ Cardinality(S) \in Nat
<1>1. IsFiniteSet(Targets)
    BY BatchAssumption, FS_Interval DEF Targets
<1>2. IsFiniteSet(S)
    BY <1>1, FS_Subset
<1>3. QED
    BY <1>2, FS_CardinalityType

\* One more holder than before, at most.
LEMMA OneMore ==
    ASSUME NEW S \in SUBSET Targets, NEW t \in Targets, NEW T \in SUBSET (S \union {t})
    PROVE  Cardinality(T) <= Cardinality(S) + 1
<1>1. IsFiniteSet(S) /\ Cardinality(S) \in Nat
    BY HoldersAreFinite
<1>2. IsFiniteSet(S \union {t}) /\ Cardinality(S \union {t}) <= Cardinality(S) + 1
    BY <1>1, FS_AddElement, SMTT(60)
<1>3. Cardinality(T) <= Cardinality(S \union {t})
    BY <1>2, FS_Subset
<1>4. S \union {t} \in SUBSET Targets /\ T \in SUBSET Targets
    OBVIOUS
<1>5. Cardinality(S \union {t}) \in Nat /\ Cardinality(T) \in Nat
    BY <1>4, HoldersAreFinite
<1>6. QED
    BY <1>1, <1>2, <1>3, <1>5

\* Not more holders than before.
LEMMA NoMore ==
    ASSUME NEW S \in SUBSET Targets, NEW T \in SUBSET S
    PROVE  Cardinality(T) <= Cardinality(S)
<1>1. IsFiniteSet(S)
    BY HoldersAreFinite
<1>2. QED
    BY <1>1, FS_Subset

\* No step takes a global slot that is not free.
LEMMA NextGlobalCap ==
    BatchTypeOK /\ Cardinality(Admitted) <= MaxConcurrency /\ [BatchNext]_batchVars
        => Cardinality(Admitted') <= MaxConcurrency
<1> SUFFICES ASSUME BatchTypeOK, Cardinality(Admitted) <= MaxConcurrency, [BatchNext]_batchVars
             PROVE  Cardinality(Admitted') <= MaxConcurrency
    OBVIOUS
<1>1. /\ Admitted \in SUBSET Targets /\ Admitted' \in SUBSET Targets
      /\ Cardinality(Admitted) \in Nat /\ Cardinality(Admitted') \in Nat
  <2>1. Admitted \in SUBSET Targets /\ Admitted' \in SUBSET Targets
      BY DEF Admitted, InPhase
  <2>2. QED
      BY <2>1, HoldersAreFinite
<1>2. ASSUME Admitted' \subseteq Admitted PROVE Cardinality(Admitted') <= MaxConcurrency
  <2>1. Cardinality(Admitted') <= Cardinality(Admitted)
      BY <1>1, <1>2, NoMore
  <2>2. QED
      BY <1>1, <2>1, BatchAssumption
<1>3. ASSUME NEW t \in Targets, Admit(t) PROVE Cardinality(Admitted') <= MaxConcurrency
  <2>1. Cardinality(Admitted) < MaxConcurrency
      BY <1>3 DEF Admit, NextAdmitted
  <2>2. Admitted' \subseteq Admitted \union {t}
      BY <1>3 DEF Admit, Admitted, InPhase, BatchTypeOK
  <2>3. Cardinality(Admitted') <= Cardinality(Admitted) + 1
      BY <1>1, <2>2, OneMore
  <2>4. QED
      BY <1>1, <2>1, <2>3, BatchAssumption
<1>4. ASSUME NEW t \in Targets, ShortCircuit(t) \/ Connect(t) \/ Finish(t) \/ Hang(t)
      PROVE  Admitted' \subseteq Admitted
    BY <1>4 DEF ShortCircuit, Connect, Finish, Hang, Report, Admitted, InPhase, BatchTypeOK
<1>5. CASE UNCHANGED batchVars
    BY <1>2, <1>5 DEF batchVars, Admitted, InPhase
<1>6. QED
    BY <1>2, <1>3, <1>4, <1>5 DEF BatchNext, Step, Returned

\* No step takes a slot of a vCenter that is not free.
LEMMA NextVCenterCap ==
    ASSUME BatchTypeOK, [BatchNext]_batchVars, PerVCenter # 0, NEW c \in VCenters,
           Cardinality(Connecting(c)) <= PerVCenter
    PROVE  Cardinality(Connecting(c)') <= PerVCenter
<1>1. /\ Connecting(c) \in SUBSET Targets /\ Connecting(c)' \in SUBSET Targets
      /\ Cardinality(Connecting(c)) \in Nat /\ Cardinality(Connecting(c)') \in Nat
  <2>1. Connecting(c) \in SUBSET Targets /\ Connecting(c)' \in SUBSET Targets
      BY DEF Connecting, Of
  <2>2. QED
      BY <2>1, HoldersAreFinite
<1>2. ASSUME Connecting(c)' \subseteq Connecting(c) PROVE Cardinality(Connecting(c)') <= PerVCenter
  <2>1. Cardinality(Connecting(c)') <= Cardinality(Connecting(c))
      BY <1>1, <1>2, NoMore
  <2>2. QED
      BY <1>1, <2>1, BatchAssumption
<1>3. ASSUME NEW t \in Targets, SlotFree(c), Connecting(c)' \subseteq Connecting(c) \union {t}
      PROVE  Cardinality(Connecting(c)') <= PerVCenter
  <2>1. Cardinality(Connecting(c)') <= Cardinality(Connecting(c)) + 1
      BY <1>1, <1>3, OneMore
  <2>2. QED
      BY <1>1, <1>3, <2>1, BatchAssumption DEF SlotFree
<1>4. ASSUME NEW t \in Targets, Admit(t) PROVE Cardinality(Connecting(c)') <= PerVCenter
  <2>1. Connecting(c)' \subseteq Connecting(c) \union (Of(c) \intersect {t})
      BY <1>4 DEF Admit, Connecting, Of, InPhase, BatchTypeOK
  <2>2. CASE t \notin Of(c)
      BY <1>2, <2>1, <2>2
  <2>3. CASE t \in Of(c) /\ AfterAdmission(t) = "connecting"
    <3>1. Limited(t) /\ vcenter[t] = c
        BY <2>3 DEF Limited, HasVCenter, Of
    <3>2. SlotFree(c)
        BY <2>3, <3>1 DEF AfterAdmission
    <3>3. QED
        BY <1>3, <2>1, <3>2
  <2>4. CASE AfterAdmission(t) # "connecting"
    <3>1. AfterAdmission(t) = "waiting"
        BY <2>4 DEF AfterAdmission
    <3>2. Connecting(c)' \subseteq Connecting(c)
        BY <1>4, <3>1 DEF Admit, Connecting, Of, InPhase, BatchTypeOK
    <3>3. QED
        BY <1>2, <3>2
  <2>5. QED
      BY <2>2, <2>3, <2>4
<1>5. ASSUME NEW t \in Targets, Connect(t) PROVE Cardinality(Connecting(c)') <= PerVCenter
  <2>1. Connecting(c)' \subseteq Connecting(c) \union (Of(c) \intersect {t})
      BY <1>5 DEF Connect, Connecting, Of, InPhase, BatchTypeOK
  <2>2. CASE t \notin Of(c)
      BY <1>2, <2>1, <2>2
  <2>3. CASE t \in Of(c)
    <3>1. SlotFree(c)
        BY <1>5, <2>3 DEF Connect, Of
    <3>2. QED
        BY <1>3, <2>1, <3>1
  <2>4. QED
      BY <2>2, <2>3
<1>6. ASSUME NEW t \in Targets, ShortCircuit(t) \/ Finish(t) \/ Hang(t)
      PROVE  Connecting(c)' \subseteq Connecting(c)
    BY <1>6 DEF ShortCircuit, Finish, Hang, Report, Connecting, Of, InPhase, BatchTypeOK
<1>7. CASE UNCHANGED batchVars
    BY <1>2, <1>7 DEF batchVars, Connecting, Of, InPhase
<1>8. QED
    BY <1>2, <1>4, <1>5, <1>6, <1>7 DEF BatchNext, Step, Returned

\* No session more than the caps allow, in whatever order the targets of a
\* batch wait, connect, finish and hang.
THEOREM CapsHold == BatchSpec => []WithinCaps
<1>1. BatchInit => WithinCaps
  <2> SUFFICES ASSUME BatchInit PROVE WithinCaps
      OBVIOUS
  <2>1. Admitted = {} /\ \A c \in VCenters : Connecting(c) = {}
      BY DEF BatchInit, Admitted, Connecting, Of, InPhase
  <2>2. Cardinality({}) = 0
      BY FS_EmptySet
  <2>3. QED
      BY <2>1, <2>2, BatchAssumption DEF WithinCaps
<1>2. BatchTypeOK /\ WithinCaps /\ [BatchNext]_batchVars => WithinCaps'
  <2> SUFFICES ASSUME BatchTypeOK, WithinCaps, [BatchNext]_batchVars PROVE WithinCaps'
      OBVIOUS
  <2>1. Cardinality(Admitted') <= MaxConcurrency
      BY NextGlobalCap DEF WithinCaps
  <2>2. ASSUME PerVCenter # 0, NEW c \in VCenters PROVE Cardinality(Connecting(c)') <= PerVCenter
    <3>1. Cardinality(Connecting(c)) <= PerVCenter
        BY <2>2 DEF WithinCaps
    <3>2. QED
        BY <2>2, <3>1, NextVCenterCap
  <2>3. QED
      BY <2>1, <2>2 DEF WithinCaps
<1>3. QED
    BY <1>1, <1>2, BatchTypeCorrect, PTL DEF BatchSpec

-----------------------------------------------------------------------------
(* The breaker *)

Length == Len(results)

\* The results that follow the last success of c are those its streak counts.
Counted(c) ==
    \E i \in 1..(Length + 1) :
       /\ i > 1 => vcenter[results[i - 1]] = c /\ result[results[i - 1]] = "ok"
       /\ NoSuccess(c, i, Length)
       /\ streak[c] = Cardinality(Failures(c, i, Length))

\* A reported target is done, so its result stays; without a breaker none trips.
BreakerInv ==
    /\ \A k \in 1..Length : phase[results[k]] = "done"
    /\ Threshold = 0 => tripped = {}
    /\ Threshold # 0 => \A c \in VCenters : Counted(c)
    /\ BreakerMatchesResults

\* The failures of a stretch of results are finitely many.
LEMMA FailuresAreFinite ==
    ASSUME NEW c, NEW i \in Nat, NEW n \in Nat
    PROVE  IsFiniteSet(Failures(c, i, n)) /\ Cardinality(Failures(c, i, n)) \in Nat
<1>1. IsFiniteSet(i..n)
    BY FS_Interval
<1>2. IsFiniteSet(Failures(c, i, n))
    BY <1>1, FS_Subset DEF Failures
<1>3. QED
    BY <1>2, FS_CardinalityType

\* The last result of a stretch is one failure more, or none.
LEMMA OneMoreFailure ==
    ASSUME NEW c, NEW i \in Nat \ {0}, NEW n \in Nat, i <= n + 1
    PROVE  LET last == results[n + 1]
               fails == vcenter[last] = c /\ result[last] \in {"down", "short"}
           IN  Cardinality(Failures(c, i, n + 1)) =
                  Cardinality(Failures(c, i, n)) + (IF fails THEN 1 ELSE 0)
<1> DEFINE fails == vcenter[results[n + 1]] = c /\ result[results[n + 1]] \in {"down", "short"}
<1>1. IsFiniteSet(Failures(c, i, n)) /\ Cardinality(Failures(c, i, n)) \in Nat
    BY FailuresAreFinite
<1>2. n + 1 \notin Failures(c, i, n)
    BY DEF Failures
<1>3. i..(n + 1) = (i..n) \union {n + 1}
    OBVIOUS
<1>4. CASE fails
  <2>1. Failures(c, i, n + 1) = Failures(c, i, n) \union {n + 1}
      BY <1>3, <1>4 DEF Failures
  <2>2. Cardinality(Failures(c, i, n) \union {n + 1}) = Cardinality(Failures(c, i, n)) + 1
      BY <1>1, <1>2, FS_AddElement
  <2>3. QED
      BY <1>4, <2>1, <2>2
<1>5. CASE ~fails
  <2>1. Failures(c, i, n + 1) = Failures(c, i, n)
      BY <1>3, <1>5 DEF Failures
  <2>2. QED
      BY <1>1, <1>5, <2>1
<1>6. QED
    BY <1>4, <1>5

\* A later start leaves no more failures.
LEMMA FewerFailures ==
    ASSUME NEW c, NEW i \in Nat, NEW j \in Nat, NEW n \in Nat, i <= j
    PROVE  Cardinality(Failures(c, j, n)) <= Cardinality(Failures(c, i, n))
<1>1. IsFiniteSet(Failures(c, i, n))
    BY FailuresAreFinite
<1>2. Failures(c, j, n) \subseteq Failures(c, i, n)
    BY DEF Failures
<1>3. QED
    BY <1>1, <1>2, FS_Subset

\* A streak is not lost by what comes after it.
LEMMA StreakStays ==
    ASSUME NEW c, NEW m \in Nat, NEW n \in Nat, m <= n, HadStreak(c, m)
    PROVE  HadStreak(c, n)
<1>1. 1..m \subseteq 1..n
    OBVIOUS
<1>2. QED
    BY <1>1 DEF HadStreak

\* What the last result adds to the streaks of c, when the results before it
\* that follow the last success of c are those from the i-th on.
LEMMA LastOfStreak ==
    ASSUME BatchAssumption, Threshold # 0, NEW c, NEW n \in Nat, NEW i \in 1..(n + 1),
           i > 1 => vcenter[results[i - 1]] = c /\ result[results[i - 1]] = "ok",
           NoSuccess(c, i, n)
    PROVE  LET last == results[n + 1]
               fails == vcenter[last] = c /\ result[last] \in {"down", "short"}
           IN  HadStreak(c, n + 1) <=>
                  \/ HadStreak(c, n)
                  \/ fails /\ Cardinality(Failures(c, i, n)) + 1 >= Threshold
<1> DEFINE fails == vcenter[results[n + 1]] = c /\ result[results[n + 1]] \in {"down", "short"}
<1>1. Threshold \in Nat \ {0} /\ Cardinality(Failures(c, i, n)) \in Nat
    BY BatchAssumption, FailuresAreFinite
<1>2. HadStreak(c, n) => HadStreak(c, n + 1)
    BY StreakStays
<1>3. ASSUME fails, Cardinality(Failures(c, i, n)) + 1 >= Threshold PROVE HadStreak(c, n + 1)
  <2>1. Cardinality(Failures(c, i, n + 1)) >= Threshold
      BY <1>1, <1>3, OneMoreFailure
  <2>2. NoSuccess(c, i, n + 1)
      BY <1>3 DEF NoSuccess
  <2>3. i \in 1..(n + 1) /\ n + 1 \in 1..(n + 1)
      OBVIOUS
  <2>4. QED
      BY <2>1, <2>2, <2>3 DEF HadStreak
<1>4. ASSUME HadStreak(c, n + 1), ~HadStreak(c, n)
      PROVE  fails /\ Cardinality(Failures(c, i, n)) + 1 >= Threshold
  <2>1. PICK a \in 1..(n + 1), b \in 1..(n + 1) :
           NoSuccess(c, a, b) /\ Cardinality(Failures(c, a, b)) >= Threshold
      BY <1>4 DEF HadStreak
  <2>2. a <= b
    <3>1. SUFFICES ASSUME b < a PROVE FALSE
        OBVIOUS
    <3>2. Failures(c, a, b) = {}
        BY <3>1 DEF Failures
    <3>3. QED
        BY <1>1, <2>1, <3>2, FS_EmptySet
  <2>3. b = n + 1
    <3>1. SUFFICES ASSUME b <= n PROVE FALSE
        OBVIOUS
    <3>2. a \in 1..n /\ b \in 1..n
        BY <2>2, <3>1
    <3>3. QED
        BY <1>4, <2>1, <3>2 DEF HadStreak
  <2>4. i <= a
    <3>1. SUFFICES ASSUME a < i PROVE FALSE
        OBVIOUS
    <3>2. i - 1 \in a..b /\ i > 1
        BY <2>3, <3>1
    <3>3. QED
        BY <2>1, <3>2 DEF NoSuccess
  <2>5. fails
    <3>1. SUFFICES ASSUME ~fails PROVE FALSE
        OBVIOUS
    <3>2. Cardinality(Failures(c, a, n)) >= Threshold
      <4>1. Cardinality(Failures(c, a, n)) \in Nat
          BY FailuresAreFinite
      <4>2. Cardinality(Failures(c, a, n + 1)) = Cardinality(Failures(c, a, n)) + 0
          BY <3>1, OneMoreFailure
      <4>3. QED
          BY <2>1, <2>3, <4>1, <4>2
    <3>3. NoSuccess(c, a, n)
        BY <2>1, <2>3 DEF NoSuccess
    <3>4. a <= n
      <4>1. SUFFICES ASSUME n < a PROVE FALSE
          OBVIOUS
      <4>2. Failures(c, a, n) = {}
          BY <4>1 DEF Failures
      <4>3. QED
          BY <1>1, <3>2, <4>2, FS_EmptySet
    <3>5. a \in 1..n /\ n \in 1..n
        BY <3>4
    <3>6. QED
        BY <1>4, <3>2, <3>3, <3>5 DEF HadStreak
  <2>6. Cardinality(Failures(c, a, n + 1)) <= Cardinality(Failures(c, i, n + 1))
      BY <2>4, FewerFailures
  <2>7. Cardinality(Failures(c, i, n + 1)) = Cardinality(Failures(c, i, n)) + 1
      BY <2>5, OneMoreFailure
  <2>8. Cardinality(Failures(c, a, n + 1)) \in Nat
      BY FailuresAreFinite
  <2>9. QED
      BY <1>1, <2>1, <2>3, <2>5, <2>6, <2>7, <2>8
<1>5. QED
    BY <1>2, <1>3, <1>4

\* Both of the next state.
LEMMA NextOneMoreFailure ==
    \A c : \A n \in Nat : \A i \in 1..(n + 1) :
       (LET last == results[n + 1]
            fails == vcenter[last] = c /\ result[last] \in {"down", "short"}
        IN  Cardinality(Failures(c, i, n + 1)) =
               Cardinality(Failures(c, i, n)) + (IF fails THEN 1 ELSE 0))'
<1>1. \A c : \A n \in Nat : \A i \in 1..(n + 1) :
         LET last == results[n + 1]
             fails == vcenter[last] = c /\ result[last] \in {"down", "short"}
         IN  Cardinality(Failures(c, i, n + 1)) =
                Cardinality(Failures(c, i, n)) + (IF fails THEN 1 ELSE 0)
    BY OneMoreFailure
<1>2. (\A c : \A n \in Nat : \A i \in 1..(n + 1) :
          LET last == results[n + 1]
              fails == vcenter[last] = c /\ result[last] \in {"down", "short"}
          IN  Cardinality(Failures(c, i, n + 1)) =
                 Cardinality(Failures(c, i, n)) + (IF fails THEN 1 ELSE 0))'
    BY <1>1, PTL
<1>3. QED
    BY <1>2

LEMMA NextLastOfStreak ==
    \A c : \A n \in Nat : \A i \in 1..(n + 1) :
       (/\ Threshold # 0
        /\ i > 1 => vcenter[results[i - 1]] = c /\ result[results[i - 1]] = "ok"
        /\ NoSuccess(c, i, n)
        => LET last == results[n + 1]
               fails == vcenter[last] = c /\ result[last] \in {"down", "short"}
           IN  HadStreak(c, n + 1) <=>
                  \/ HadStreak(c, n)
                  \/ fails /\ Cardinality(Failures(c, i, n)) + 1 >= Threshold)'
<1>1. \A c : \A n \in Nat : \A i \in 1..(n + 1) :
         /\ Threshold # 0
         /\ i > 1 => vcenter[results[i - 1]] = c /\ result[results[i - 1]] = "ok"
         /\ NoSuccess(c, i, n)
         => LET last == results[n + 1]
                fails == vcenter[last] = c /\ result[last] \in {"down", "short"}
            IN  HadStreak(c, n + 1) <=>
                   \/ HadStreak(c, n)
                   \/ fails /\ Cardinality(Failures(c, i, n)) + 1 >= Threshold
    BY LastOfStreak, BatchAssumption
<1>2. (\A c : \A n \in Nat : \A i \in 1..(n + 1) :
          /\ Threshold # 0
          /\ i > 1 => vcenter[results[i - 1]] = c /\ result[results[i - 1]] = "ok"
          /\ NoSuccess(c, i, n)
          => LET last == results[n + 1]
                 fails == vcenter[last] = c /\ result[last] \in {"down", "short"}
             IN  HadStreak(c, n + 1) <=>
                    \/ HadStreak(c, n)
                    \/ fails /\ Cardinality(Failures(c, i, n)) + 1 >= Threshold)'
    BY <1>1, PTL
<1>3. QED
    BY <1>2

\* A report appends a target that was in no result, and changes no other result.
LEMMA ReportAppends ==
    ASSUME BatchTypeOK, BreakerInv, NEW t \in Targets, phase[t] # "done", NEW o, Report(t, o)
    PROVE  /\ Length \in Nat /\ Length' = Length + 1
           /\ results'[Length + 1] = t /\ result'[t] = o
           /\ \A k \in 1..Length : /\ results'[k] = results[k]
                                   /\ result'[results[k]] = result[results[k]]
           /\ \A k \in 1..Length' : phase'[results'[k]] = "done"
<1>1. /\ Length \in Nat /\ Length' = Length + 1 /\ results'[Length + 1] = t
      /\ \A k \in 1..Length : results'[k] = results[k] /\ results[k] \in Targets
    BY DEF Report, BatchTypeOK, Length
<1>2. \A k \in 1..Length : results[k] # t /\ phase[results[k]] = "done"
    BY DEF BreakerInv
<1>3. /\ result'[t] = o /\ \A u \in Targets \ {t} : result'[u] = result[u]
      /\ phase'[t] = "done" /\ \A u \in Targets \ {t} : phase'[u] = phase[u]
    BY DEF Report, BatchTypeOK
<1>4. \A k \in 1..Length : result'[results[k]] = result[results[k]] /\ phase'[results[k]] = "done"
    BY <1>1, <1>2, <1>3
<1>5. \A k \in 1..Length' : k \in 1..Length \/ k = Length + 1
    BY <1>1
<1>6. QED
    BY <1>1, <1>3, <1>4, <1>5

\* What was said of the results before it stays true.
LEMMA EarlierResults ==
    ASSUME BatchTypeOK, vcenter' = vcenter, NEW m \in Nat,
           \A k \in 1..m : results'[k] = results[k] /\ result'[results[k]] = result[results[k]],
           NEW c, NEW n \in 0..m
    PROVE  /\ \A i \in Nat \ {0} : /\ Failures(c, i, n)' = Failures(c, i, n)
                                   /\ NoSuccess(c, i, n)' <=> NoSuccess(c, i, n)
           /\ HadStreak(c, n)' <=> HadStreak(c, n)
<1>1. ASSUME NEW j \in 0..m, NEW i \in Nat \ {0}
      PROVE  /\ Failures(c, i, j)' = Failures(c, i, j)
             /\ NoSuccess(c, i, j)' <=> NoSuccess(c, i, j)
  <2>1. \A k \in i..j : k \in 1..m
      OBVIOUS
  <2>2. QED
      BY <2>1 DEF Failures, NoSuccess
<1>2. \A i, j \in 1..n : i \in Nat \ {0} /\ j \in 0..m
    OBVIOUS
<1>3. HadStreak(c, n)' <=> HadStreak(c, n)
    BY <1>1, <1>2 DEF HadStreak
<1>4. QED
    BY <1>1, <1>3

\* What a report must do to the streaks and the breakers for BreakerInv to stay.
Counts(t, o) ==
    /\ Threshold = 0 => tripped' = {}
    /\ Threshold # 0 => \A c \in VCenters :
          /\ streak'[c] = CASE vcenter[t] = c /\ o \in {"down", "short"} -> streak[c] + 1
                            [] vcenter[t] = c /\ o = "ok" -> 0
                            [] OTHER -> streak[c]
          /\ c \in tripped' <=>
                \/ c \in tripped
                \/ vcenter[t] = c /\ o \in {"down", "short"} /\ streak[c] + 1 >= Threshold
    /\ tripped' \subseteq VCenters
    /\ vcenter' = vcenter

LEMMA ReportKeepsBreaker ==
    ASSUME BatchTypeOK, BreakerInv, NEW t \in Targets, phase[t] # "done",
           NEW o \in {"ok", "quirky", "down", "short"}, Report(t, o), Counts(t, o)
    PROVE  BreakerInv'
<1> PICK m \in Nat : m = Length
    BY DEF Length, BatchTypeOK
<1>1. /\ Length' = m + 1
      /\ results'[m + 1] = t /\ result'[t] = o
      /\ \A k \in 1..m : /\ results'[k] = results[k]
                         /\ result'[results[k]] = result[results[k]]
      /\ \A k \in 1..Length' : phase'[results'[k]] = "done"
      /\ vcenter' = vcenter
    BY ReportAppends DEF Counts
<1>2. ASSUME NEW c
      PROVE  /\ \A i \in Nat \ {0} : /\ Failures(c, i, m)' = Failures(c, i, m)
                                     /\ NoSuccess(c, i, m)' <=> NoSuccess(c, i, m)
             /\ HadStreak(c, m)' <=> HadStreak(c, m)
  <2>1. m \in 0..m
      OBVIOUS
  <2>2. QED
      BY <1>1, <2>1, EarlierResults
<1>3. ASSUME Threshold # 0, NEW c \in VCenters
      PROVE  Counted(c)' /\ (c \in tripped' <=> HadStreak(c, m + 1)')
  <2> DEFINE fails == vcenter[t] = c /\ o \in {"down", "short"}
  <2>1. PICK i \in 1..(m + 1) :
           /\ i > 1 => vcenter[results[i - 1]] = c /\ result[results[i - 1]] = "ok"
           /\ NoSuccess(c, i, m)
           /\ streak[c] = Cardinality(Failures(c, i, m))
      BY <1>3 DEF BreakerInv, Counted
  <2>2. /\ i > 1 => vcenter'[results'[i - 1]] = c /\ result'[results'[i - 1]] = "ok"
        /\ NoSuccess(c, i, m)'
        /\ streak[c] = Cardinality(Failures(c, i, m)')
    <3>1. i > 1 => i - 1 \in 1..m
        OBVIOUS
    <3>2. i \in Nat \ {0}
        OBVIOUS
    <3>3. QED
        BY <1>1, <1>2, <2>1, <3>1, <3>2
  <2>3. c \in tripped <=> HadStreak(c, m)
      BY <1>3 DEF BreakerInv, BreakerMatchesResults, Length
  <2>4. HadStreak(c, m + 1)' <=> HadStreak(c, m)' \/ (fails /\ streak[c] + 1 >= Threshold)
      BY <1>1, <1>3, <2>2, NextLastOfStreak
  <2>5. c \in tripped' <=> c \in tripped \/ (fails /\ streak[c] + 1 >= Threshold)
      BY <1>3 DEF Counts
  <2>6. c \in tripped' <=> HadStreak(c, m + 1)'
      BY <1>2, <2>3, <2>4, <2>5
  <2>7. Cardinality(Failures(c, i, m + 1)') = streak[c] + (IF fails THEN 1 ELSE 0)
      BY <1>1, <2>2, NextOneMoreFailure
  <2>8. CASE vcenter[t] = c /\ o = "ok"
    <3>1. Failures(c, m + 2, m + 1)' = {} /\ NoSuccess(c, m + 2, m + 1)'
        BY DEF Failures, NoSuccess
    <3>2. streak'[c] = Cardinality(Failures(c, m + 2, m + 1)')
        BY <1>3, <2>8, <3>1, FS_EmptySet DEF Counts
    <3>3. vcenter'[results'[(m + 2) - 1]] = c /\ result'[results'[(m + 2) - 1]] = "ok"
        BY <1>1, <2>8
    <3>4. m + 2 \in 1..((m + 1) + 1)
        OBVIOUS
    <3>5. Counted(c)'
        BY <1>1, <3>1, <3>2, <3>3, <3>4 DEF Counted
    <3>6. QED
        BY <2>6, <3>5
  <2>9. CASE ~(vcenter[t] = c /\ o = "ok")
    <3>1. NoSuccess(c, i, m + 1)'
      <4>1. \A k \in i..(m + 1) : k \in i..m \/ k = m + 1
          OBVIOUS
      <4>2. QED
          BY <1>1, <2>2, <2>9, <4>1 DEF NoSuccess
    <3>2. streak[c] \in Nat
        BY DEF BatchTypeOK
    <3>3. streak'[c] = streak[c] + (IF fails THEN 1 ELSE 0)
        BY <1>3, <2>9, <3>2 DEF Counts
    <3>4. i \in 1..((m + 1) + 1)
        OBVIOUS
    <3>5. Counted(c)'
        BY <1>1, <2>2, <2>7, <3>1, <3>3, <3>4 DEF Counted
    <3>6. QED
        BY <2>6, <3>5
  <2>10. QED
      BY <2>8, <2>9
<1>4. BreakerMatchesResults'
  <2>1. Len(results)' = m + 1
      BY <1>1 DEF Length
  <2>2. tripped' \subseteq VCenters
      BY DEF Counts
  <2>3. QED
      BY <1>3, <2>1, <2>2 DEF BreakerMatchesResults
<1>5. QED
    BY <1>1, <1>3, <1>4 DEF BreakerInv, Counts

\* Every step keeps the count of each breaker.
LEMMA NextBreaker == BatchTypeOK /\ BreakerInv /\ [BatchNext]_batchVars => BreakerInv'
<1> SUFFICES ASSUME BatchTypeOK, BreakerInv, [BatchNext]_batchVars PROVE BreakerInv'
    OBVIOUS
<1>1. ASSUME NEW t \in Targets, ShortCircuit(t) PROVE BreakerInv'
  <2>1. phase[t] # "done" /\ vcenter[t] \in tripped /\ vcenter[t] \in VCenters
      BY <1>1 DEF ShortCircuit, NextAdmitted, BreakerOpen, HasVCenter
  <2>2. Threshold # 0
      BY <2>1 DEF BreakerInv
  <2>3. Counts(t, "short")
      BY <1>1, <2>1, <2>2 DEF Counts, ShortCircuit, BatchTypeOK
  <2>4. QED
      BY <1>1, <2>1, <2>3, ReportKeepsBreaker DEF ShortCircuit
<1>2. ASSUME NEW t \in Targets, Finish(t) PROVE BreakerInv'
  <2>1. PICK o \in BatchOutcomes :
           /\ Report(t, o)
           /\ IF Threshold # 0 /\ HasVCenter(t)
              THEN LET c == vcenter[t]
                   IN  /\ streak' = [streak EXCEPT ![c] = StreakAfter(c, o)]
                       /\ tripped' = IF Trips(c, o) THEN tripped \union {c} ELSE tripped
              ELSE UNCHANGED <<streak, tripped>>
      BY <1>2 DEF Finish
  <2>2. o \in {"ok", "quirky", "down"} /\ phase[t] # "done" /\ vcenter' = vcenter
      BY <1>2, ThreeOutcomes DEF Finish
  <2>3. CASE Threshold # 0 /\ HasVCenter(t)
    <3>1. /\ streak' = [streak EXCEPT ![vcenter[t]] = StreakAfter(vcenter[t], o)]
          /\ tripped' = IF Trips(vcenter[t], o) THEN tripped \union {vcenter[t]} ELSE tripped
          /\ vcenter[t] \in VCenters
        BY <2>1, <2>3 DEF HasVCenter
    <3>2. Trips(vcenter[t], o) <=> o = "down" /\ streak[vcenter[t]] + 1 >= Threshold
        BY DEF Trips, StreakAfter
    <3>3. tripped' \subseteq VCenters
        BY <3>1 DEF BatchTypeOK
    <3>4. \A c \in VCenters :
             streak'[c] = CASE vcenter[t] = c /\ o \in {"down", "short"} -> streak[c] + 1
                            [] vcenter[t] = c /\ o = "ok" -> 0
                            [] OTHER -> streak[c]
        BY <2>2, <3>1 DEF StreakAfter, BatchTypeOK
    <3>5. Counts(t, o)
        BY <2>2, <2>3, <3>1, <3>2, <3>3, <3>4 DEF Counts
    <3>6. QED
        BY <2>1, <2>2, <3>5, ReportKeepsBreaker
  <2>4. CASE ~(Threshold # 0 /\ HasVCenter(t))
    <3>1. Counts(t, o)
        BY <2>1, <2>2, <2>4 DEF Counts, HasVCenter, BatchTypeOK, BreakerInv
    <3>2. QED
        BY <2>1, <2>2, <3>1, ReportKeepsBreaker
  <2>5. QED
      BY <2>3, <2>4
<1>3. ASSUME UNCHANGED <<vcenter, result, results, streak, tripped>>,
             \A t \in Targets : phase[t] = "done" => phase'[t] = "done"
      PROVE  BreakerInv'
  <2>1. /\ \A c, i, n : Failures(c, i, n)' = Failures(c, i, n)
        /\ \A c, i, n : NoSuccess(c, i, n)' <=> NoSuccess(c, i, n)
        /\ Length' = Length
      BY <1>3 DEF Failures, NoSuccess, Length
  <2>2. \A c, n : HadStreak(c, n)' <=> HadStreak(c, n)
      BY <2>1 DEF HadStreak
  <2>3. \A c : Counted(c)' <=> Counted(c)
      BY <1>3, <2>1 DEF Counted
  <2>4. \A k \in 1..Length : results[k] \in Targets
      BY DEF BatchTypeOK, Length
  <2>5. \A k \in 1..Length' : phase'[results'[k]] = "done"
      BY <1>3, <2>1, <2>4 DEF BreakerInv
  <2>6. BreakerMatchesResults'
      BY <1>3, <2>2 DEF BreakerInv, BreakerMatchesResults
  <2>7. QED
      BY <1>3, <2>3, <2>5, <2>6 DEF BreakerInv
<1>4. ASSUME NEW t \in Targets, Admit(t) \/ Connect(t) \/ Hang(t)
      PROVE  \A u \in Targets : phase[u] = "done" => phase'[u] = "done"
    BY <1>4 DEF Admit, NextAdmitted, Connect, Hang, BatchTypeOK
<1>5. ASSUME NEW t \in Targets, Admit(t) \/ Connect(t) \/ Hang(t) PROVE BreakerInv'
    BY <1>3, <1>4, <1>5 DEF Admit, Connect, Hang
<1>6. CASE UNCHANGED batchVars
    BY <1>3, <1>6 DEF batchVars
<1>7. QED
    BY <1>1, <1>2, <1>5, <1>6 DEF BatchNext, Step, Returned

LEMMA BreakerInvariant == BatchSpec => []BreakerInv
<1>1. BatchInit => BreakerInv
  <2> SUFFICES ASSUME BatchInit PROVE BreakerInv
      OBVIOUS
  <2>1. Length = 0 /\ tripped = {} /\ Len(results) = 0
      BY DEF BatchInit, Length
  <2>2. \A c, i, n : n = 0 /\ i \in Nat \ {0} => Failures(c, i, n) = {} /\ NoSuccess(c, i, n)
      BY DEF Failures, NoSuccess
  <2>3. \A c \in VCenters : Counted(c)
    <3>1. SUFFICES ASSUME NEW c \in VCenters PROVE Counted(c)
        OBVIOUS
    <3>2. Failures(c, 1, Length) = {} /\ NoSuccess(c, 1, Length)
        BY <2>1, <2>2
    <3>3. streak[c] = Cardinality(Failures(c, 1, Length))
        BY <3>2, FS_EmptySet DEF BatchInit
    <3>4. 1 \in 1..(Length + 1)
        BY <2>1
    <3>5. QED
        BY <3>2, <3>3, <3>4 DEF Counted
  <2>4. \A c : ~HadStreak(c, Len(results))
      BY <2>1 DEF HadStreak
  <2>5. QED
      BY <2>1, <2>3, <2>4 DEF BreakerInv, BreakerMatchesResults
<1>2. QED
    BY <1>1, NextBreaker, BatchTypeCorrect, PTL DEF BatchSpec

\* The breaker of a vCenter is open exactly when its results contain a streak of
\* failures, in whatever order the targets of all vCenters finish.
THEOREM BreakerFollowsResults == BatchSpec => []BreakerMatchesResults
<1>1. BreakerInv => BreakerMatchesResults
    BY DEF BreakerInv
<1>2. QED
    BY <1>1, BreakerInvariant, PTL

-----------------------------------------------------------------------------
(* The stragglers *)

\* The results of c that came in from a connection made with its breaker open.
Late(c) ==
    {k \in 1..Length : /\ vcenter[results[k]] = c
                       /\ result[results[k]] # "short"
                       /\ HadStreak(c, k - 1)}

LEMMA StragglersAre ==
    ASSUME BatchTypeOK, NEW c
    PROVE  /\ Stragglers(c) = (Of(c) \intersect Admitted) \union {results[k] : k \in Late(c)}
           /\ Stragglers(c) \in SUBSET Targets
<1>1. Stragglers(c) = (Of(c) \intersect Admitted) \union {results[k] : k \in Late(c)}
    BY DEF Stragglers, Late, Length
<1>2. \A k \in 1..Length : results[k] \in Targets
    BY DEF BatchTypeOK, Length
<1>3. QED
    BY <1>1, <1>2 DEF Of, Late

\* A result is late when it comes in, or never.
LEMMA ReportLate ==
    ASSUME BatchTypeOK, BreakerInv, NEW t \in Targets, phase[t] # "done", NEW o, Report(t, o),
           vcenter' = vcenter, NEW c,
           NEW x, x \in {results[k] : k \in Late(c)}', x \notin {results[k] : k \in Late(c)}
    PROVE  x = t /\ o # "short" /\ vcenter[t] = c /\ HadStreak(c, Length)
<1> PICK m \in Nat : m = Length
    BY DEF Length, BatchTypeOK
<1>1. /\ Length' = m + 1
      /\ results'[m + 1] = t /\ result'[t] = o
      /\ \A k \in 1..m : /\ results'[k] = results[k]
                         /\ result'[results[k]] = result[results[k]]
    BY ReportAppends
<1>2. PICK k \in 1..(m + 1) :
         /\ x = results'[k]
         /\ vcenter[results'[k]] = c /\ result'[results'[k]] # "short" /\ HadStreak(c, k - 1)'
    BY <1>1 DEF Late
<1>3. HadStreak(c, k - 1)
  <2>1. k - 1 \in 0..m
      OBVIOUS
  <2>2. QED
      BY <1>1, <1>2, <2>1, EarlierResults
<1>4. CASE k \in 1..m
    BY <1>1, <1>2, <1>3, <1>4 DEF Late
<1>5. CASE k = m + 1
    BY <1>1, <1>2, <1>3, <1>5
<1>6. QED
    BY <1>4, <1>5

\* With the breaker of c open nobody becomes a straggler.
LEMMA OpenAdmitsNobody ==
    ASSUME BatchTypeOK, BreakerInv, [BatchNext]_batchVars, NEW c \in tripped
    PROVE  Stragglers(c)' \subseteq Stragglers(c)
<1> DEFINE late == {results[k] : k \in Late(c)}
<1>1. /\ Stragglers(c) = (Of(c) \intersect Admitted) \union late
      /\ Stragglers(c)' = (Of(c)' \intersect Admitted') \union late'
  <2>1. BatchTypeOK'
      BY NextBatchTypeOK
  <2>2. \A d : Stragglers(d) = (Of(d) \intersect Admitted) \union {results[k] : k \in Late(d)}
      BY StragglersAre
  <2>3. Stragglers(c)' = ((Of(c) \intersect Admitted) \union late)'
      BY <2>1 DEF Stragglers, Late, Length
  <2>4. QED
      BY <2>2, <2>3
<1>2. ASSUME NEW t \in Targets, ShortCircuit(t) PROVE Stragglers(c)' \subseteq Stragglers(c)
  <2>1. phase[t] # "done" /\ Report(t, "short") /\ vcenter' = vcenter
      BY <1>2 DEF ShortCircuit, NextAdmitted
  <2>2. late' \subseteq late
      BY <2>1, ReportLate
  <2>3. Of(c)' = Of(c) /\ Admitted' \subseteq Admitted
      BY <2>1 DEF Of, Report, Admitted, InPhase, BatchTypeOK
  <2>4. QED
      BY <1>1, <2>2, <2>3
<1>3. ASSUME NEW t \in Targets, Finish(t) PROVE Stragglers(c)' \subseteq Stragglers(c)
  <2>1. /\ phase[t] = "connecting" /\ vcenter' = vcenter
        /\ \E o \in BatchOutcomes : Report(t, o)
      BY <1>3 DEF Finish
  <2>2. late' \subseteq late \union (Of(c) \intersect {t})
      BY <2>1, ReportLate, ZenonT(60) DEF Of
  <2>3. Of(c)' = Of(c) /\ Admitted' \subseteq Admitted /\ t \in Admitted
      BY <2>1 DEF Of, Report, Admitted, InPhase, BatchTypeOK
  <2>4. QED
      BY <1>1, <2>2, <2>3
<1>4. ASSUME UNCHANGED <<vcenter, result, results>>,
             Of(c) \intersect Admitted' \subseteq Of(c) \intersect Admitted
      PROVE  Stragglers(c)' \subseteq Stragglers(c)
  <2>1. \A n : HadStreak(c, n)' <=> HadStreak(c, n)
      BY <1>4 DEF HadStreak, NoSuccess, Failures
  <2>2. late' = late /\ Of(c)' = Of(c)
      BY <1>4, <2>1 DEF Late, Length, Of
  <2>3. QED
      BY <1>1, <1>4, <2>2
<1>5. ASSUME NEW t \in Targets, Admit(t) PROVE Stragglers(c)' \subseteq Stragglers(c)
  <2>1. t \notin Of(c)
      BY <1>5 DEF Admit, BreakerOpen, HasVCenter, Of, BatchTypeOK
  <2>2. Admitted' \subseteq Admitted \union {t}
      BY <1>5 DEF Admit, Admitted, InPhase, BatchTypeOK
  <2>3. QED
      BY <1>4, <1>5, <2>1, <2>2 DEF Admit
<1>6. ASSUME NEW t \in Targets, Connect(t) \/ Hang(t) PROVE Stragglers(c)' \subseteq Stragglers(c)
  <2>1. Admitted' \subseteq Admitted
      BY <1>6 DEF Connect, Hang, Admitted, InPhase, BatchTypeOK
  <2>2. QED
      BY <1>4, <1>6, <2>1 DEF Connect, Hang
<1>7. CASE UNCHANGED batchVars
  <2>1. Admitted' = Admitted
      BY <1>7 DEF batchVars, Admitted, InPhase
  <2>2. QED
      BY <1>4, <1>7, <2>1 DEF batchVars
<1>8. QED
    BY <1>2, <1>3, <1>5, <1>6, <1>7 DEF BatchNext, Step, Returned

\* When the breaker of c trips, those who were admitted with the last failure are left.
LEMMA TripLeavesOthers ==
    ASSUME BatchTypeOK, BreakerInv, WithinCaps, [BatchNext]_batchVars, Threshold # 0,
           NEW c, c \in tripped', c \notin tripped
    PROVE  Cardinality(Stragglers(c)') <= MaxConcurrency - 1
<1>1. PICK t \in Targets : Finish(t) /\ vcenter[t] = c
  <2>1. ASSUME NEW t \in Targets, ShortCircuit(t) \/ Admit(t) \/ Connect(t) \/ Hang(t)
        PROVE  FALSE
      BY <2>1 DEF ShortCircuit, Admit, Connect, Hang
  <2>2. ASSUME UNCHANGED batchVars PROVE FALSE
      BY <2>2 DEF batchVars
  <2>3. ASSUME NEW t \in Targets, Finish(t), vcenter[t] # c PROVE FALSE
      BY <2>3 DEF Finish
  <2>4. QED
      BY <2>1, <2>2, <2>3 DEF BatchNext, Step, Returned
<1>2. PICK o \in BatchOutcomes : Report(t, o) /\ phase[t] = "connecting" /\ vcenter' = vcenter
    BY <1>1 DEF Finish
<1>3. c \in VCenters /\ ~HadStreak(c, Length)
  <2>1. c \in VCenters
      BY NextBatchTypeOK DEF BatchTypeOK
  <2>2. QED
      BY <2>1 DEF BreakerInv, BreakerMatchesResults, Length
<1>4. {results[k] : k \in Late(c)} = {}
  <2>1. SUFFICES ASSUME NEW k \in Late(c) PROVE FALSE
      OBVIOUS
  <2>2. k - 1 \in Nat /\ Length \in Nat /\ k - 1 <= Length /\ HadStreak(c, k - 1)
      BY DEF Late, Length, BatchTypeOK
  <2>3. QED
      BY <1>3, <2>2, StreakStays
<1>5. {results[k] : k \in Late(c)}' = {}
    BY <1>2, <1>3, <1>4, ReportLate
<1>6. Stragglers(c)' = (Of(c)' \intersect Admitted') \union {results[k] : k \in Late(c)}'
    BY DEF Stragglers, Late, Length
<1>7. Admitted' \subseteq Admitted \ {t} /\ t \in Admitted
    BY <1>2 DEF Report, Admitted, InPhase, BatchTypeOK
<1>8. Stragglers(c)' \subseteq Admitted \ {t}
    BY <1>5, <1>6, <1>7
<1>9. /\ IsFiniteSet(Admitted) /\ Cardinality(Admitted) \in Nat
      /\ IsFiniteSet(Admitted \ {t}) /\ Cardinality(Admitted \ {t}) = Cardinality(Admitted) - 1
  <2>1. Admitted \in SUBSET Targets
      BY DEF Admitted, InPhase
  <2>2. IsFiniteSet(Admitted) /\ Cardinality(Admitted) \in Nat
      BY <2>1, HoldersAreFinite
  <2>3. QED
      BY <1>7, <2>2, FS_RemoveElement
<1>10. /\ Cardinality(Stragglers(c)') <= Cardinality(Admitted \ {t})
       /\ Cardinality(Stragglers(c)') \in Nat
  <2>1. IsFiniteSet(Stragglers(c)') /\ Cardinality(Stragglers(c)') <= Cardinality(Admitted \ {t})
      BY <1>8, <1>9, FS_Subset
  <2>2. QED
      BY <2>1, FS_CardinalityType
<1>11. QED
    BY <1>9, <1>10, BatchAssumption DEF WithinCaps

\* No step makes too many stragglers.
LEMMA NextStragglers ==
    BatchTypeOK /\ BreakerInv /\ WithinCaps /\ FewStragglers /\ [BatchNext]_batchVars => FewStragglers'
<1> SUFFICES ASSUME BatchTypeOK, BreakerInv, WithinCaps, FewStragglers, [BatchNext]_batchVars,
                    Threshold # 0, NEW c \in tripped'
             PROVE  Cardinality(Stragglers(c)') <= MaxConcurrency - 1
    BY DEF FewStragglers
<1>1. CASE c \in tripped
  <2>1. Stragglers(c)' \subseteq Stragglers(c) /\ Stragglers(c) \in SUBSET Targets
      BY <1>1, OpenAdmitsNobody, StragglersAre
  <2>2. Cardinality(Stragglers(c)') <= Cardinality(Stragglers(c))
      BY <2>1, NoMore
  <2>3. Cardinality(Stragglers(c)') \in Nat /\ Cardinality(Stragglers(c)) \in Nat
      BY <2>1, HoldersAreFinite
  <2>4. Cardinality(Stragglers(c)) <= MaxConcurrency - 1
      BY <1>1 DEF FewStragglers
  <2>5. QED
      BY <2>2, <2>3, <2>4, BatchAssumption
<1>2. CASE c \notin tripped
    BY <1>2, TripLeavesOthers
<1>3. QED
    BY <1>1, <1>2

\* The breaker is checked before the wait for a slot: what still connects to a
\* vCenter after its breaker has opened is bounded by the other global slots.
THEOREM StragglersAreFew == BatchSpec => []FewStragglers
<1>1. BatchInit => FewStragglers
    BY DEF BatchInit, FewStragglers
<1>2. QED
    BY <1>1, NextStragglers, BatchTypeCorrect, CapsHold, BreakerInvariant, PTL DEF BatchSpec

=============================================================================
