------------------------------- MODULE WaveRuns -------------------------------
(***************************************************************************)
(* Baseline and validation runs over the VMs of one migration wave: the    *)
(* handlers that create them (api/waves.py) and the background tasks that  *)
(* drive them (core/collection/wave_jobs.py).                              *)
(*                                                                         *)
(* A task keeps one database session for the whole run and the session     *)
(* holds the rows of its VMs.  Deleting a VM cascades to those rows, so    *)
(* the commit of its result finds nothing to update (StaleDataError); the  *)
(* orchestrator swallows the exception of the callback, but the session    *)
(* refuses everything until a rollback nobody issues.                      *)
(***************************************************************************)
EXTENDS Integers, FiniteSets

CONSTANTS
    VMs,        \* inventory rows
    Requests,   \* kick-off requests in flight at once
    MaxRuns     \* bound: runs ever created, of both kinds

ASSUME MaxRunsAssumption == MaxRuns \in Nat \ {0}

VARIABLES
    rows,      \* VMs that are in the inventory
    wave,      \* the vm_ids of the wave in MigrationPlan.waves
    kind,      \* "baseline" or "validation", "none" for a run not yet created
    status,    \* BaselineRun.status, ValidationRun.status
    outcome,   \* per run and VM: Baseline.status or VMValidation.verdict, "none" without a row
    base,      \* the baseline run a validation task compares with, 0 if none
    paired,    \* the VMs of its baselines_by_vm
    task,      \* where the run's BackgroundTask is
    todo,      \* targets whose result the callback has not seen
    stuck,     \* those of them that run a command which never exits
    txn,       \* what a kick-off request has read
    up         \* is the backend process serving

vars == <<rows, wave, kind, status, outcome, base, paired, task, todo, stuck, txn,
          up>>

Runs == 1..MaxRuns

Kinds       == {"baseline", "validation"}
RunStatuses == {"absent", "pending", "running", "completed", "failed"}
\* "compared" stands for the verdicts of a diff: pass, warn and fail.
Outcomes    == {"none", "pending", "captured", "failed", "compared", "unreachable"}
TaskPhases  == {"none", "queued", "started", "collecting", "broken"}

NoTxn == [kind |-> "none", vms |-> {}]

TypeOK ==
    /\ rows \subseteq VMs
    /\ wave \subseteq VMs
    /\ kind \in [Runs -> Kinds \union {"none"}]
    /\ status \in [Runs -> RunStatuses]
    /\ outcome \in [Runs -> [VMs -> Outcomes]]
    /\ base \in [Runs -> Runs \union {0}]
    /\ paired \in [Runs -> SUBSET VMs]
    /\ task \in [Runs -> TaskPhases]
    /\ todo \in [Runs -> SUBSET VMs]
    /\ stuck \in [Runs -> SUBSET VMs]
    /\ txn \in [Requests -> [kind : Kinds \union {"none"}, vms : SUBSET VMs]]
    /\ up \in BOOLEAN

-----------------------------------------------------------------------------
(* Helpers *)

InProgress(r) == status[r] \in {"pending", "running"}
Terminal(r)   == status[r] \in {"completed", "failed"}

\* The VMs that have a row in run r.
RowsOf(r) == {v \in VMs : outcome[r][v] # "none"}

Completed_AnyStatus == {b \in Runs : kind[b] = "baseline"}
Completed == {b \in Runs : kind[b] = "baseline" /\ status[b] = "completed"}

\* _latest_completed_baseline_run: the highest id.
Latest == CHOOSE b \in Completed : \A c \in Completed : c <= b

Fresh(r) == \A q \in Runs : kind[q] = "none" <=> q >= r

\* What a run's rows are created with.
InitialOutcome(k) == IF k = "baseline" THEN "pending" ELSE "unreachable"

NewRun(r, k, vs) ==
    /\ Fresh(r)
    /\ kind' = [kind EXCEPT ![r] = k]
    /\ status' = [status EXCEPT ![r] = "pending"]
    /\ outcome' = [outcome EXCEPT
                     ![r] = [v \in VMs |-> IF v \in vs THEN InitialOutcome(k) ELSE "none"]]
    /\ task' = [task EXCEPT ![r] = "queued"]

taskVars == <<base, paired, todo, stuck>>

Init ==
    /\ rows = VMs
    /\ wave \in (SUBSET VMs) \ {{}}
    /\ kind = [r \in Runs |-> "none"]
    /\ status = [r \in Runs |-> "absent"]
    /\ outcome = [r \in Runs |-> [v \in VMs |-> "none"]]
    /\ base = [r \in Runs |-> 0]
    /\ paired = [r \in Runs |-> {}]
    /\ task = [r \in Runs |-> "none"]
    /\ todo = [r \in Runs |-> {}]
    /\ stuck = [r \in Runs |-> {}]
    /\ txn = [q \in Requests |-> NoTxn]
    /\ up = TRUE

-----------------------------------------------------------------------------
(* POST /plans/{id}/waves/{n}/baseline and /validate: the plan row is read  *)
(* without a lock, the run is inserted later.                               *)

KickRead(q) ==
    /\ up
    /\ txn[q].kind = "none"
    /\ wave # {}
    /\ wave \subseteq rows
    /\ \E k \in Kinds :
          /\ k = "validation" => Completed # {}
          /\ txn' = [txn EXCEPT ![q] = [kind |-> k, vms |-> wave]]
    /\ UNCHANGED <<rows, wave, kind, status, outcome, taskVars, task, up>>

\* The foreign keys of the new rows still have to hold.
KickCommit(q) ==
    /\ txn[q].kind # "none"
    /\ txn[q].vms \subseteq rows
    /\ \E r \in Runs : NewRun(r, txn[q].kind, txn[q].vms)
    /\ txn' = [txn EXCEPT ![q] = NoTxn]
    /\ UNCHANGED <<rows, wave, taskVars, up>>

Refuse(q) ==
    /\ txn[q].kind # "none"
    /\ txn' = [txn EXCEPT ![q] = NoTxn]
    /\ UNCHANGED <<rows, wave, kind, status, outcome, taskVars, task, up>>

\* POST /baseline-runs/{id}/retry-failed: a new run of the failed VMs only.
RetryFailed(p) ==
    /\ up
    /\ kind[p] = "baseline"
    /\ Terminal(p)
    /\ LET failed == {v \in VMs : outcome[p][v] = "failed"}
       IN  /\ failed # {}
           /\ \E r \in Runs : NewRun(r, "baseline", failed)
    /\ UNCHANGED <<rows, wave, taskVars, txn, up>>

-----------------------------------------------------------------------------
(* run_baseline_task and run_validation_task *)

TaskStart(r) ==
    /\ task[r] = "queued"
    /\ status' = [status EXCEPT ![r] = "running"]
    /\ task' = [task EXCEPT ![r] = "started"]
    /\ UNCHANGED <<rows, wave, kind, outcome, taskVars, txn, up>>

\* Key not found, retired, or its private file missing.
KeyUnusable(r) ==
    /\ task[r] = "started"
    /\ status' = [status EXCEPT ![r] = "failed"]
    /\ task' = [task EXCEPT ![r] = "none"]
    /\ UNCHANGED <<rows, wave, kind, outcome, taskVars, txn, up>>

\* The rows of the run and, for a validation, those of the baseline run.
LoadTargets(r) ==
    /\ task[r] = "started"
    /\ IF kind[r] = "validation"
       THEN /\ base' = [base EXCEPT ![r] = Latest]
            /\ paired' = [paired EXCEPT ![r] = RowsOf(Latest)]
       ELSE UNCHANGED <<base, paired>>
    /\ todo' = [todo EXCEPT ![r] = RowsOf(r)]
    /\ task' = [task EXCEPT ![r] = "collecting"]
    /\ UNCHANGED <<rows, wave, kind, status, outcome, stuck, txn, up>>

CaptureResults == {"captured", "failed"}

\* A result without captured data to compare with is called unreachable.
Verdicts(r, v) ==
    IF outcome[base[r]][v] = "captured" THEN {"compared", "unreachable"}
                                        ELSE {"unreachable"}

Results(r, v) == IF kind[r] = "baseline" THEN CaptureResults ELSE Verdicts(r, v)

\* on_complete, its commit done.  VMs finish in any order.
RecordResult(r, v) ==
    /\ task[r] = "collecting"
    /\ v \in (todo[r] \ stuck[r]) \intersect RowsOf(r)
    /\ \E o \in Results(r, v) : outcome' = [outcome EXCEPT ![r][v] = o]
    /\ todo' = [todo EXCEPT ![r] = @ \ {v}]
    /\ UNCHANGED <<rows, wave, kind, status, base, paired, task, stuck, txn, up>>

\* on_complete for a VM deleted meanwhile: reading baseline.id raises before
\* anything is assigned, otherwise it is the flush that raises.
RowGone(r, v) ==
    /\ task[r] = "collecting"
    /\ v \in (todo[r] \ stuck[r]) \ RowsOf(r)
    /\ todo' = [todo EXCEPT ![r] = @ \ {v}]
    /\ task' = [task EXCEPT ![r] = IF v \in paired[r] THEN "collecting" ELSE "broken"]
    /\ UNCHANGED <<rows, wave, kind, status, outcome, base, paired, stuck, txn, up>>

\* on_complete on a session that waits for a rollback: PendingRollbackError.
ResultLost(r, v) ==
    /\ task[r] = "broken"
    /\ v \in todo[r] \ stuck[r]
    /\ todo' = [todo EXCEPT ![r] = @ \ {v}]
    /\ UNCHANGED <<rows, wave, kind, status, outcome, base, paired, task, stuck, txn, up>>

\* A command on v never exits: waiting for an exit status has no timeout, so the
\* thread, and with it the batch, waits until the process stops.
CommandHangs(r, v) ==
    /\ task[r] \in {"collecting", "broken"}
    /\ v \in todo[r] \ stuck[r]
    /\ stuck' = [stuck EXCEPT ![r] = @ \union {v}]
    /\ UNCHANGED <<rows, wave, kind, status, outcome, base, paired, task, todo, txn, up>>

BatchDone_AllCaptured(r) ==
    todo[r] = {} /\ \A v \in RowsOf(r) : outcome[r][v] \in {"captured", "compared"}
BatchDone(r) == todo[r] = {}

SessionUsable_Always(r) == TRUE
SessionUsable(r) == task[r] = "collecting"

\* The final commit raises on a broken session and the run keeps its status.
TaskEnd(r) ==
    /\ task[r] \in {"collecting", "broken"}
    /\ BatchDone(r)
    /\ status' = [status EXCEPT ![r] = IF SessionUsable(r) THEN "completed" ELSE @]
    /\ task' = [task EXCEPT ![r] = "none"]
    /\ paired' = [paired EXCEPT ![r] = {}]
    /\ UNCHANGED <<rows, wave, kind, outcome, base, todo, stuck, txn, up>>

TaskStep(r) ==
    \/ TaskStart(r) \/ KeyUnusable(r) \/ LoadTargets(r) \/ TaskEnd(r)
    \/ \E v \in VMs : RecordResult(r, v) \/ RowGone(r, v) \/ ResultLost(r, v)

-----------------------------------------------------------------------------
(* The rest of the system *)

\* Inventory deletions; baselines and vm_validations cascade.
DeleteVMs ==
    /\ up
    /\ \E gone \in (SUBSET rows) \ {{}} :
          /\ rows' = rows \ gone
          /\ outcome' = [r \in Runs |->
                           [v \in VMs |-> IF v \in gone THEN "none" ELSE outcome[r][v]]]
    /\ UNCHANGED <<wave, kind, status, taskVars, task, txn, up>>

\* A plan edit rebuilds the wave.  It holds the plan row FOR UPDATE, which keeps
\* inserts of runs (they reference the plan) out until it has committed.
EditWave ==
    /\ up
    /\ \A r \in Runs : ~InProgress(r)
    /\ \E vs \in (SUBSET rows) \ {{}} : vs # wave /\ wave' = vs
    /\ UNCHANGED <<rows, kind, status, outcome, taskVars, task, txn, up>>

\* The process stops.  No startup sweep looks at runs.
Crash ==
    /\ up
    /\ up' = FALSE
    /\ txn' = [q \in Requests |-> NoTxn]
    /\ task' = [r \in Runs |-> "none"]
    /\ paired' = [r \in Runs |-> {}]
    /\ todo' = [r \in Runs |-> {}]
    /\ stuck' = [r \in Runs |-> {}]
    /\ UNCHANGED <<rows, wave, kind, status, outcome, base>>

Start ==
    /\ ~up
    /\ up' = TRUE
    /\ UNCHANGED <<rows, wave, kind, status, outcome, taskVars, task, txn>>

Next ==
    \/ \E q \in Requests : KickRead(q) \/ KickCommit(q) \/ Refuse(q)
    \/ \E r \in Runs : RetryFailed(r) \/ TaskStep(r)
    \/ \E r \in Runs, v \in VMs : CommandHangs(r, v)
    \/ DeleteVMs
    \/ EditWave
    \/ Crash
    \/ Start

Spec == Init /\ [][Next]_vars

\* The thread pool runs every task.  A collection ends unless a command hangs:
\* connecting and reading have timeouts.
Fairness == \A r \in Runs : WF_vars(TaskStep(r))

FairSpec == Spec /\ Fairness

-----------------------------------------------------------------------------
(* Properties *)

(***************************************************************************)
(* A verdict other than unreachable compares the VM with what a completed  *)
(* baseline run captured on it: never with a run still collecting, whose   *)
(* rows other callbacks are filling in, nor with a failed capture.         *)
(***************************************************************************)
VerdictsRestOnCaptures ==
    \A r \in Runs, v \in VMs :
        kind[r] = "validation" /\ outcome[r][v] = "compared" =>
            /\ kind[base[r]] = "baseline" /\ status[base[r]] = "completed"
            /\ outcome[base[r]][v] = "captured"

(***************************************************************************)
(* models/baseline_run.py: "completed" means every VM reached a terminal   *)
(* state.  VMs may be deleted and callbacks may raise while the run        *)
(* collects, and no result may be missing once it says completed.          *)
(***************************************************************************)
CompletedRunsAreWhole ==
    \A b \in Runs : status[b] = "completed" => \A v \in VMs : outcome[b][v] # "pending"

(***************************************************************************)
(* A run whose task is under way reaches completed or failed unless the    *)
(* process stops, the deletion of one of its VMs broke its session, or a   *)
(* command hangs on one of its VMs.                                        *)
(***************************************************************************)
RunsSettle ==
    \A r \in Runs :
        InProgress(r) /\ task[r] # "none"
            ~> (~InProgress(r) \/ ~up \/ task[r] = "broken" \/ stuck[r] # {})

=============================================================================
