---------------------------- MODULE PlanLifecycle ----------------------------
(***************************************************************************)
(* Plan membership of VMs: the lifecycle state of every VM                 *)
(* (core/vm_lifecycle.py), the plan rows that commit VMs to a migration    *)
(* (api/plans.py, api/plan_edits.py), the background generation of a       *)
(* series of plans (core/plan_generation.py) and the sweep at process      *)
(* start (core/startup.py).                                                *)
(*                                                                         *)
(* A request that reads VMs before it locks them is two steps: the read,   *)
(* which fills the session's identity map, and the commit, which re-reads  *)
(* the rows FOR UPDATE but keeps the attributes already loaded             *)
(* (SQLAlchemy does not refresh them without populate_existing).  What the *)
(* commit believes about a VM is therefore what the first step saw.        *)
(* Requests whose first read of a row is already FOR UPDATE are one step.  *)
(***************************************************************************)
EXTENDS Integers, FiniteSets

CONSTANTS
    VMs,        \* inventory rows
    Selections, \* bound: sets of VMs that POSTs select
    Deletable,  \* bound: VMs whose rows requests delete
    Requests,   \* HTTP requests in flight at once
    Faults,     \* what may go wrong with a process, of those below
    MaxPlans    \* bound: plan rows ever created

ASSUME MaxPlansAssumption == MaxPlans \in Nat \ {0}

\* no_sweep: fail_orphan_plans raised at the start and was skipped.
\* no_backend: the active LLM backend lacks its configuration.
ASSUME FaultsAssumption == Faults \subseteq {"no_sweep", "no_backend"}

VARIABLES
    lifecycle,    \* VM.lifecycle_state, "deleted" once the row is gone
    status,       \* MigrationPlan.status, "absent" before and "deleted" after the row
    members,      \* MigrationPlan.vm_ids
    series,       \* MigrationPlan.series_id: the first plan id of the POST, 0 if absent
    task,         \* the vm_ids argument of the plan's BackgroundTask, while it reads it
    gen,          \* where that BackgroundTask is: "created" until the request queues it
    txn,          \* what a request's open session has read
    up,           \* is the one backend process serving
    faults        \* what is wrong with it since its start

vars == <<lifecycle, status, members, series, task, gen, txn, up, faults>>

Plans == 1..MaxPlans

LifecycleStates ==
    {"available", "planned", "migrated", "rolled_back", "deleted"}

\* "generating" stands for validating, partitioning, splitting, packing,
\* analyzing_concurrency, annotating and emitting_yaml, which nothing tells apart.
PlanStatuses ==
    {"absent", "pending", "generating", "complete", "migrated", "failed", "deleted"}

GenPhases == {"none", "created", "queued", "loaded", "failing", "recording"}

EditOps == {"add", "remove", "move_to_wave", "move_to_plan"}
TxnOps  == EditOps \union {"none", "create", "revert", "reopen"}

\* matched: the VMs whose row this session saw in the state its transition needs.
\* dropped: the members without an inventory row in the waves an edit rebuilds.
Txns == [op : TxnOps, plan : Plans \union {0}, target : Plans \union {0},
         vms : SUBSET VMs, matched : SUBSET VMs, dropped : SUBSET VMs]

VMTxn(op, vs, matched) == [op |-> op, plan |-> 0, target |-> 0,
                           vms |-> vs, matched |-> matched, dropped |-> {}]

NoTxn == VMTxn("none", {}, {})

TypeOK ==
    /\ lifecycle \in [VMs -> LifecycleStates]
    /\ status \in [Plans -> PlanStatuses]
    /\ members \in [Plans -> SUBSET VMs]
    /\ series \in [Plans -> Plans \union {0}]
    /\ task \in [Plans -> SUBSET VMs]
    /\ gen \in [Plans -> GenPhases]
    /\ txn \in [Requests -> Txns]
    /\ up \in BOOLEAN
    /\ faults \in SUBSET Faults

-----------------------------------------------------------------------------
(* Helpers *)

Exists(p) == status[p] \notin {"absent", "deleted"}

OrphanStatuses == {"pending", "generating"}
InProgress(p) == status[p] \in OrphanStatuses

\* A plan that still commits its VMs.
Live(p) == status[p] \in {"pending", "generating", "complete"}

In(state) == {v \in VMs : lifecycle[v] = state}
Rows      == VMs \ In("deleted")

\* _apply: every VM of vs to the target state.
Apply(vs, target) == [v \in VMs |-> IF v \in vs THEN target ELSE lifecycle[v]]

\* _release_planned_to_available takes what is planned now, whoever planned it.
ReleasedState == "available"

Release(vs) == Apply(vs \cap In("planned"), ReleasedState)

\* SELECT ... FOR UPDATE on the plan rows of an edit, held until it ends.
Locked_NoRowLock(p) == FALSE
Locked(p) == \E r \in Requests : /\ txn[r].op \in EditOps
                                 /\ p \in {txn[r].plan, txn[r].target}

End(r) == txn' = [txn EXCEPT ![r] = NoTxn]

planVars == <<status, members, series, task, gen>>
procVars == <<up, faults>>

Init ==
    /\ lifecycle = [v \in VMs |-> "available"]
    /\ status = [p \in Plans |-> "absent"]
    /\ members = [p \in Plans |-> {}]
    /\ series = [p \in Plans |-> 0]
    /\ task = [p \in Plans |-> {}]
    /\ gen = [p \in Plans |-> "none"]
    /\ txn = [r \in Requests |-> NoTxn]
    /\ up = TRUE
    /\ faults \in SUBSET (Faults \ {"no_sweep"})

-----------------------------------------------------------------------------
(* POST /api/plans *)

\* Load the selection, drop or refuse what cannot be planned, partition it.
CreateRead(r) ==
    /\ up
    /\ txn[r].op = "none"
    /\ \E vs \in Selections \cap ((SUBSET Rows) \ {{}}) :
          txn' = [txn EXCEPT ![r] = VMTxn("create", vs, vs \cap In("available"))]
    /\ UNCHANGED <<lifecycle, planVars, procVars>>

\* The ids the plan table hands out to the rows of one POST.
FreshIds(ids) ==
    \E first \in Plans, last \in Plans :
        /\ first <= last
        /\ ids = first..last
        /\ \A p \in Plans : (status[p] # "absent") <=> (p < first)

\* Every VM of the selection lands in exactly one batch, no batch is empty.
Batches(vs, ids, batch) ==
    /\ \A p \in ids : batch[p] # {}
    /\ UNION {batch[p] : p \in ids} = vs
    /\ \A p, q \in ids : p # q => batch[p] \cap batch[q] = {}

FirstOf(ids) == CHOOSE p \in ids : \A q \in ids : p <= q

\* One transaction adds every plan row and plans its VMs.  The tasks are queued
\* later, by CreateQueue.
CreateCommit(r) ==
    /\ txn[r].op = "create"
    /\ txn[r].vms \subseteq Rows \cap txn[r].matched
    /\ \E ids \in SUBSET Plans :
          /\ ids # {}
          /\ FreshIds(ids)
          /\ \E batch \in [ids -> SUBSET txn[r].vms] :
                /\ Batches(txn[r].vms, ids, batch)
                /\ status' = [p \in Plans |-> IF p \in ids THEN "pending" ELSE status[p]]
                /\ members' = [p \in Plans |-> IF p \in ids THEN batch[p] ELSE members[p]]
                /\ task' = [p \in Plans |-> IF p \in ids THEN batch[p] ELSE task[p]]
                /\ series' = [p \in Plans |-> IF p \in ids THEN FirstOf(ids) ELSE series[p]]
                /\ gen' = [p \in Plans |-> IF p \in ids THEN "created" ELSE gen[p]]
    /\ lifecycle' = Apply(txn[r].vms, "planned")
    /\ End(r)
    /\ UNCHANGED procVars

\* The plans of series s whose request has not come to add_task.
Created(s) == {p \in Plans : series[p] = s /\ gen[p] = "created"}

\* After its commit the request refreshes every plan, then queues every task.
CreateQueue(s) ==
    /\ Created(s) # {}
    /\ \A p \in Created(s) : status[p] # "deleted"
    /\ gen' = [p \in Plans |-> IF p \in Created(s) THEN "queued" ELSE gen[p]]
    /\ UNCHANGED <<lifecycle, status, members, series, task, txn, procVars>>

\* A plan of the series was deleted meanwhile: its refresh raises, and the
\* request ends with status 500 before it has queued a task of any plan.
CreateLost(s) ==
    /\ \E p \in Created(s) : status[p] = "deleted"
    /\ gen' = [p \in Plans |-> IF p \in Created(s) THEN "none" ELSE gen[p]]
    /\ task' = [p \in Plans |-> IF p \in Created(s) THEN {} ELSE task[p]]
    /\ UNCHANGED <<lifecycle, status, members, series, txn, procVars>>

\* 404, 409, 422 or a failed transition: the session is rolled back.
Refuse(r) ==
    /\ txn[r].op # "none"
    /\ End(r)
    /\ UNCHANGED <<lifecycle, planVars, procVars>>

-----------------------------------------------------------------------------
(* DELETE /api/plans/{id} and POST /api/plans/{id}/mark-succeeded: the plan *)
(* row is locked first, then the VMs are read for the first time.           *)

DeletePlan(p) ==
    /\ up
    /\ Exists(p)
    /\ ~Locked(p)
    /\ lifecycle' = Release(members[p])
    /\ status' = [status EXCEPT ![p] = "deleted"]
    /\ members' = [members EXCEPT ![p] = {}]
    /\ UNCHANGED <<series, task, gen, txn, procVars>>

Markable_AnyStatus == PlanStatuses \ {"absent", "deleted"}
Markable == {"complete", "migrated"}

MarkSucceeded(p) ==
    /\ up
    /\ status[p] \in Markable
    /\ ~Locked(p)
    /\ members[p] \subseteq In("planned") \union In("migrated")
    /\ lifecycle' = Apply(members[p] \cap In("planned"), "migrated")
    /\ status' = [status EXCEPT ![p] = "migrated"]
    /\ UNCHANGED <<members, series, task, gen, txn, procVars>>

-----------------------------------------------------------------------------
(* POST /api/plans/{id}/edits: every plan row involved is locked in id order, *)
(* then the VMs are read without a lock, then both are written.               *)

\* What prepare() insists on before it looks at the VMs one by one.
Editable_AnyStatus(p) == Exists(p) /\ ~Locked(p)
Editable(p) == status[p] = "complete" /\ ~Locked(p)

\* prepare(): the requests it neither refuses nor finds a blocking violation in.
Admissible(op, p, q, vs) ==
    /\ vs # {}
    /\ vs \subseteq Rows
    /\ (op = "move_to_plan") <=> (p # q)
    /\ IF op = "add"
       THEN vs \cap members[p] = {} /\ vs \subseteq In("available")
       ELSE vs \subseteq members[p]
    /\ op = "move_to_plan" => vs \cap members[q] = {}
    /\ op \in {"remove", "move_to_plan"} => members[p] \ vs # {}

EditPrepare(r) ==
    /\ up
    /\ txn[r].op = "none"
    /\ \E op \in EditOps, p, q \in Plans, vs \in SUBSET VMs :
          /\ Editable(p)
          /\ Editable(q)
          /\ Admissible(op, p, q, vs)
          /\ \E dropped \in SUBSET ((members[p] \union members[q]) \ Rows) :
                txn' = [txn EXCEPT ![r] =
                          [op |-> op, plan |-> p, target |-> q, vms |-> vs,
                           matched |-> IF op = "add" THEN vs ELSE vs \cap In("planned"),
                           dropped |-> dropped]]
    /\ UNCHANGED <<lifecycle, planVars, procVars>>

\* apply(): transition_to_planned, then the new waves and vm_ids.
AddVMs(r) ==
    /\ txn[r].op = "add"
    /\ txn[r].vms \subseteq Rows
    /\ lifecycle' = Apply(txn[r].vms, "planned")
    /\ members' = [members EXCEPT ![txn[r].plan] = (@ \union txn[r].vms) \ txn[r].dropped]
    /\ End(r)
    /\ UNCHANGED <<status, series, task, gen, procVars>>

\* apply(): transition_to_available_from_plan_edit releases what it saw planned.
RemoveVMs(r) ==
    /\ txn[r].op = "remove"
    /\ lifecycle' = Apply(txn[r].matched \cap Rows, ReleasedState)
    /\ members' = [members EXCEPT ![txn[r].plan] = @ \ (txn[r].vms \union txn[r].dropped)]
    /\ End(r)
    /\ UNCHANGED <<status, series, task, gen, procVars>>

\* apply(): record_plan_reassignment checks the state and changes none.
MoveToPlan(r) ==
    /\ txn[r].op = "move_to_plan"
    /\ txn[r].vms \subseteq Rows \cap txn[r].matched
    /\ members' = [members EXCEPT
                     ![txn[r].plan]   = @ \ (txn[r].vms \union txn[r].dropped),
                     ![txn[r].target] = (@ \union txn[r].vms) \ txn[r].dropped]
    /\ End(r)
    /\ UNCHANGED <<lifecycle, status, series, task, gen, procVars>>

\* apply(): the VMs stay in the plan, a rebuilt wave loses the deleted ones.
MoveToWave(r) ==
    /\ txn[r].op = "move_to_wave"
    /\ members' = [members EXCEPT ![txn[r].plan] = @ \ txn[r].dropped]
    /\ End(r)
    /\ UNCHANGED <<lifecycle, status, series, task, gen, procVars>>

-----------------------------------------------------------------------------
(* PATCH /api/vms/{id} {lifecycle_state} and the inventory deletions *)

PatchRead(r) ==
    /\ up
    /\ txn[r].op = "none"
    /\ \E v \in VMs :
          \/ /\ lifecycle[v] = "migrated"
             /\ txn' = [txn EXCEPT ![r] = VMTxn("revert", {v}, {v})]
          \/ /\ lifecycle[v] = "rolled_back"
             /\ txn' = [txn EXCEPT ![r] = VMTxn("reopen", {v}, {v})]
    /\ UNCHANGED <<lifecycle, planVars, procVars>>

PatchTarget(op) == IF op = "revert" THEN "rolled_back" ELSE "available"

PatchCommit(r) ==
    /\ txn[r].op \in {"revert", "reopen"}
    /\ txn[r].vms \subseteq Rows
    /\ lifecycle' = Apply(txn[r].vms, PatchTarget(txn[r].op))
    /\ End(r)
    /\ UNCHANGED <<planVars, procVars>>

\* DELETE /api/vms/{id}, /api/vms and /api/vms/all look at no plan.
DeleteVMs ==
    /\ up
    /\ \E gone \in (SUBSET (Rows \cap Deletable)) \ {{}} : lifecycle' = Apply(gone, "deleted")
    /\ UNCHANGED <<planVars, txn, procVars>>

-----------------------------------------------------------------------------
(* run_simple_plan_generation, one task per plan, a series in id order *)

\* Starlette runs the tasks of one response one after the other.
EarlierTasksDone_Inclusive(p) ==
    \A q \in Plans : series[q] = series[p] /\ q <= p => gen[q] = "none"
EarlierTasksDone(p) ==
    \A q \in Plans : series[q] = series[p] /\ q < p => gen[q] = "none"

\* The argument of a task that has ended, or has written it back, is not read again.
DropRead ==
    task' = [p \in Plans |-> IF gen'[p] \in {"none", "recording"} THEN {} ELSE task[p]]

Running(p) == gen[p] = "queued" /\ EarlierTasksDone(p)

\* The row is gone: nothing to update, nothing to load, the task returns.
GenSkip(p) ==
    /\ Running(p)
    /\ status[p] = "deleted"
    /\ gen' = [gen EXCEPT ![p] = "none"]
    /\ DropRead
    /\ UNCHANGED <<lifecycle, status, members, series, txn, procVars>>

\* Status "validating", then the VMs and the plan row are loaded.
GenLoad(p) ==
    /\ Running(p)
    /\ status[p] # "deleted"
    /\ status' = [status EXCEPT ![p] = "generating"]
    /\ gen' = [gen EXCEPT ![p] = IF task[p] \subseteq Rows THEN "loaded" ELSE "failing"]
    /\ UNCHANGED <<lifecycle, members, series, task, txn, procVars>>

\* The pipeline raised: _fail_plan_with_lifecycle_release reads the row again.
GenError(p) ==
    /\ gen[p] = "loaded"
    /\ gen' = [gen EXCEPT ![p] = IF status[p] = "deleted" THEN "none" ELSE "failing"]
    /\ DropRead
    /\ UNCHANGED <<lifecycle, status, members, series, txn, procVars>>

\* The tasks that are still to run once the one of p has failed.
AfterFailure_Raises(p) == [q \in Plans |-> IF series[q] = series[p] THEN "none" ELSE gen[q]]
AfterFailure(p) == [gen EXCEPT ![p] = "none"]

GenFail(p) ==
    /\ gen[p] = "failing"
    /\ status[p] # "deleted"
    /\ status' = [status EXCEPT ![p] = "failed"]
    /\ lifecycle' = Release(members[p])
    /\ gen' = AfterFailure(p)
    /\ DropRead
    /\ UNCHANGED <<members, series, txn, procVars>>

GenComplete(p) ==
    /\ gen[p] = "loaded"
    /\ status[p] # "deleted"
    /\ status' = [status EXCEPT ![p] = "complete"]
    /\ members' = [members EXCEPT ![p] = task[p]]
    /\ gen' = [gen EXCEPT ![p] = "recording"]
    /\ DropRead
    /\ UNCHANGED <<lifecycle, series, txn, procVars>>

\* The inference log and the audit row, after the plan was committed.
GenRecord(p) ==
    /\ gen[p] = "recording"
    /\ status[p] # "deleted"
    /\ gen' = [gen EXCEPT ![p] = "none"]
    /\ DropRead
    /\ UNCHANGED <<lifecycle, status, members, series, txn, procVars>>

\* An exception leaves the task: the remaining tasks of the response never run.
Abandon(p) ==
    /\ gen' = [q \in Plans |-> IF series[q] = series[p] THEN "none" ELSE gen[q]]
    /\ DropRead
    /\ UNCHANGED <<lifecycle, status, members, series, txn, procVars>>

\* The plan object in hand is written or reloaded, but its row is gone:
\* StaleDataError or ObjectDeletedError.
GenStale(p) ==
    /\ gen[p] \in {"loaded", "failing", "recording"}
    /\ status[p] = "deleted"
    /\ Abandon(p)

\* get_active_backend() raises, outside the try that would fail the plan.
GenNoBackend(p) ==
    /\ "no_backend" \in faults
    /\ gen[p] = "loaded"
    /\ Abandon(p)

\* What becomes of a series and of a plan once the series is committed.
GenStep(p) == CreateQueue(p) \/ CreateLost(p)
                \/ GenSkip(p) \/ GenLoad(p) \/ GenError(p) \/ GenFail(p) \/ GenComplete(p)
                \/ GenRecord(p) \/ GenStale(p) \/ GenNoBackend(p)

-----------------------------------------------------------------------------
(* The process stops and starts; nothing in memory survives *)

Crash ==
    /\ up
    /\ up' = FALSE
    /\ txn' = [r \in Requests |-> NoTxn]
    /\ gen' = [p \in Plans |-> "none"]
    /\ DropRead
    /\ UNCHANGED <<lifecycle, status, members, series, faults>>

Orphans_NotPending == {p \in Plans : status[p] = "generating"}
Orphans == {p \in Plans : InProgress(p)}

\* fail_orphan_plans, before the first request is served.
StartSweep ==
    /\ ~up
    /\ status' = [p \in Plans |-> IF p \in Orphans THEN "failed" ELSE status[p]]
    /\ lifecycle' = Release(UNION {members[p] : p \in Orphans})
    /\ up' = TRUE
    /\ faults' \in SUBSET (Faults \ {"no_sweep"})
    /\ UNCHANGED <<members, series, task, gen, txn>>

\* The sweep raised; the start goes on without it.
StartWithoutSweep ==
    /\ ~up
    /\ up' = TRUE
    /\ faults' \in {f \in SUBSET Faults : "no_sweep" \in f}
    /\ UNCHANGED <<lifecycle, planVars, txn>>

-----------------------------------------------------------------------------

RequestStep(r) == \/ CreateRead(r) \/ CreateCommit(r)
                  \/ EditPrepare(r) \/ AddVMs(r) \/ RemoveVMs(r)
                  \/ MoveToPlan(r) \/ MoveToWave(r)
                  \/ PatchRead(r) \/ PatchCommit(r)
                  \/ Refuse(r)

Next ==
    \/ \E r \in Requests : RequestStep(r)
    \/ \E p \in Plans : DeletePlan(p) \/ MarkSucceeded(p) \/ GenStep(p)
    \/ DeleteVMs
    \/ Crash
    \/ StartSweep
    \/ StartWithoutSweep

Spec == Init /\ [][Next]_vars

\* A request that has committed a series goes on, the thread pool runs every task
\* it was given, and the orchestrator restarts the container.  No operator, no
\* other request and no crash is ever owed.
Fairness ==
    /\ \A p \in Plans : WF_vars(GenStep(p))
    /\ WF_vars(StartSweep \/ StartWithoutSweep)

FairSpec == Spec /\ Fairness

-----------------------------------------------------------------------------
(* Safety *)

(***************************************************************************)
(* No VM is committed to nothing: a VM in "planned" is a member of a plan  *)
(* that is being generated or is complete.  A planned VM that no such plan *)
(* holds can be neither planned again nor released by any request, which   *)
(* is what every release path of core/vm_lifecycle.py is there to prevent. *)
(***************************************************************************)
NoOrphanedCommitment ==
    \A v \in In("planned") : \E p \in Plans : Live(p) /\ v \in members[p]

(***************************************************************************)
(* The row locks of edit_plan do their work: until an edit ends, the plans *)
(* it evaluated stay complete, and no other open edit has evaluated them.  *)
(***************************************************************************)
EditsHoldTheirPlans ==
    \A r \in Requests : txn[r].op \in EditOps =>
        /\ \A p \in {txn[r].plan, txn[r].target} : p \in Plans /\ status[p] = "complete"
        /\ \A s \in Requests \ {r} : txn[s].op \in EditOps =>
              {txn[r].plan, txn[r].target} \cap {txn[s].plan, txn[s].target} = {}

\* A plan of the same POST as p has been deleted.
SeriesDeleted(p) == \E q \in Plans : series[q] = series[p] /\ status[q] = "deleted"

\* What a pending plan that nobody will work on has to show for it: the request
\* that created it, or the task of an earlier plan, fell over a deleted plan.
Excused(p) == status[p] = "pending" /\ SeriesDeleted(p)

(***************************************************************************)
(* While the process serves, a plan whose status says it is being worked   *)
(* on has a task, or a request about to queue it, unless the LLM backend   *)
(* was not configured or the startup sweep failed.  The one exception is a *)
(* plan that never left "pending" and of whose series a plan, earlier or   *)
(* later, was deleted: before the tasks were queued this takes all of them *)
(* down, afterwards those that come later.  No task that has started is    *)
(* lost.  This is what main.py runs fail_orphan_plans for.                 *)
(***************************************************************************)
StrandedOnlyByDelete ==
    \A p \in Plans : up /\ InProgress(p) /\ gen[p] = "none"
                        => Excused(p) \/ faults # {}

(***************************************************************************)
(* The inductive strengthening of NoOrphanedCommitment.  Some live plan    *)
(* holds the planned VM, and no open "remove" on that plan overlooks it: a *)
(* remove releases only the VMs its session saw planned, so if it had read *)
(* the VM as anything else it would drop the last membership of a planned  *)
(* VM and leave the state.                                                 *)
(***************************************************************************)
Overlooks(r, p, v) ==
    /\ txn[r].op = "remove"
    /\ txn[r].plan = p
    /\ v \in txn[r].vms \ txn[r].matched

Holder(p, v) ==
    /\ Live(p)
    /\ v \in members[p]
    /\ \A r \in Requests : ~Overlooks(r, p, v)

CommitmentsHeld == \A v \in In("planned") : \E p \in Plans : Holder(p, v)

\* An edit drops from the membership only VMs whose row is gone for good.
DroppedAreGone == \A r \in Requests : txn[r].dropped \cap Rows = {}

\* Only move_to_plan involves two plans.
TwoPlansOnlyWhenMoving ==
    \A r \in Requests : txn[r].op \in EditOps \ {"move_to_plan"} => txn[r].target = txn[r].plan

\* The status agrees with the task, and until it ends the row holds the
\* task's own VMs: what GenComplete writes back is what is there.
TasksMatchPlans ==
    \A p \in Plans :
        /\ gen[p] \in {"created", "queued"} => status[p] \in {"pending", "deleted"}
        /\ gen[p] \in {"loaded", "failing"} => status[p] \in {"generating", "deleted"}
        /\ gen[p] = "recording" => status[p] \in {"complete", "migrated", "deleted"}
        /\ InProgress(p) /\ gen[p] # "none" => members[p] = task[p]

\* A process that is down has no open session and no task.
IdleWhenDown == ~up => /\ \A r \in Requests : txn[r] = NoTxn
                       /\ \A p \in Plans : gen[p] = "none"

\* The tasks of a series have run or been dropped up to the one that runs now.
RunsInOrder ==
    \A p, q \in Plans :
        series[q] = series[p] /\ q < p /\ gen[p] \notin {"none", "created", "queued"}
            => gen[q] = "none"

IInv ==
    /\ TypeOK
    /\ CommitmentsHeld
    /\ EditsHoldTheirPlans
    /\ DroppedAreGone
    /\ TwoPlansOnlyWhenMoving
    /\ TasksMatchPlans
    /\ IdleWhenDown
    /\ RunsInOrder
    /\ StrandedOnlyByDelete

-----------------------------------------------------------------------------
(* Action properties *)

(***************************************************************************)
(* Generation, its failure path, the sweep, mark-succeeded and delete all  *)
(* write MigrationPlan.status, three of them without a row lock; a status  *)
(* still only moves forward, and no terminal status is overwritten.        *)
(***************************************************************************)
Forward == {<<"absent", "pending">>, <<"pending", "generating">>, <<"pending", "failed">>,
            <<"generating", "complete">>, <<"generating", "failed">>,
            <<"complete", "migrated">>}
             \union ((PlanStatuses \ {"absent", "deleted"}) \X {"deleted"})

StatusStep ==
    \A p \in Plans : status'[p] # status[p] => <<status[p], status'[p]>> \in Forward

StatusOnlyMovesForward == [][StatusStep]_vars

(***************************************************************************)
(* vm_ids of a plan changes only while the plan is complete: an edit never *)
(* reaches a plan that is generating (whose task writes its own vm_ids     *)
(* argument back at the end) nor one already declared migrated.            *)
(***************************************************************************)
MembershipStep ==
    \A p \in Plans : members'[p] # members[p]
        => status[p] \in {"absent", "complete"} \/ status'[p] = "deleted"

MembershipChangesOnlyWhileComplete == [][MembershipStep]_vars

-----------------------------------------------------------------------------
(* The abstract specification *)

Stage(p) ==
    CASE status[p] = "absent"   -> "absent"
      [] InProgress(p)          -> "working"
      [] status[p] = "complete" -> "open"
      [] OTHER                  -> "closed"

Contract == INSTANCE Commitments
    WITH committed <- In("planned"),
         stage     <- [p \in Plans |-> Stage(p)],
         held      <- [p \in Plans |-> IF Live(p) THEN members[p] ELSE {}]

(***************************************************************************)
(* Requests that read before they lock, tasks that write back what they    *)
(* were given, crashes and the startup sweep: every step of them is one    *)
(* step of Commitments or none.  A VM is never planned without the plan    *)
(* that takes it, closing a plan (failure, deletion, mark-succeeded, the   *)
(* sweep) frees all it holds, and only edits of complete plans exchange.   *)
(***************************************************************************)
KeepsCommitments == Contract!Spec

-----------------------------------------------------------------------------
(* Liveness *)

(***************************************************************************)
(* Every plan leaves its in-progress status: its task finishes or fails    *)
(* it, or the sweep of the next start does.  Only an unconfigured LLM      *)
(* backend or a failed sweep may leave it there, and, while it is pending, *)
(* the deletion of a plan of its series.  There are at most MaxPlans       *)
(* plans, so a time comes again and again when all have left it.           *)
(***************************************************************************)
GenerationSettles ==
    []<>(\A p \in Plans : InProgress(p) => Excused(p) \/ faults # {})

-----------------------------------------------------------------------------
(* What the repository says and the code does not do *)

(***************************************************************************)
(* api/plans.py, create_plan: "if any VM is already in another plan the    *)
(* whole call fails": two live plans have no member in common.             *)
(***************************************************************************)
OneLivePlanPerVM ==
    \A p, q \in Plans : Live(p) /\ Live(q) /\ p # q => members[p] \cap members[q] = {}

=============================================================================
