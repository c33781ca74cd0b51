------------------------- MODULE PlanLifecycleProof -------------------------
(***************************************************************************)
(* Theorems about PlanLifecycle, for any inventory, any number of requests *)
(* in flight and any number of plans; the last one is that it implements   *)
(* Commitments.                                                            *)
(***************************************************************************)
EXTENDS PlanLifecycle, TLAPS

-----------------------------------------------------------------------------
(* Type correctness *)

\* The first id of a series is one of its ids.
LEMMA FirstOfIsAPlan ==
    ASSUME NEW ids \in SUBSET Plans, ids # {}, FreshIds(ids)
    PROVE  FirstOf(ids) \in ids
<1>1. PICK first \in Plans, last \in Plans : first <= last /\ ids = first..last
    BY DEF FreshIds
<1>2. first \in ids /\ \A q \in ids : first <= q
    BY <1>1, MaxPlansAssumption DEF Plans
<1>3. QED
    BY <1>2 DEF FirstOf

\* The initial values are well formed.
LEMMA InitTypeOK == Init => TypeOK
<1> SUFFICES ASSUME Init PROVE TypeOK
    OBVIOUS
<1>1. NoTxn \in Txns
    BY DEF NoTxn, VMTxn, Txns, TxnOps
<1>2. txn \in [Requests -> Txns]
    BY <1>1 DEF Init
<1>3. lifecycle \in [VMs -> LifecycleStates]
    BY DEF Init, LifecycleStates
<1>4. /\ status \in [Plans -> PlanStatuses]
      /\ gen \in [Plans -> GenPhases]
    BY DEF Init, PlanStatuses, GenPhases
<1>5. /\ members \in [Plans -> SUBSET VMs]
      /\ task \in [Plans -> SUBSET VMs]
      /\ series \in [Plans -> Plans \union {0}]
    BY DEF Init
<1>6. /\ up \in BOOLEAN
      /\ faults \in SUBSET Faults
    BY DEF Init
<1>7. QED
    BY <1>2, <1>3, <1>4, <1>5, <1>6 DEF TypeOK

\* Moving some VMs to a lifecycle state leaves a lifecycle function.
LEMMA ApplyType ==
    ASSUME TypeOK, NEW vs, NEW target \in LifecycleStates
    PROVE  Apply(vs, target) \in [VMs -> LifecycleStates]
BY DEF TypeOK, Apply

\* A release leaves a lifecycle function.
LEMMA ReleaseType ==
    ASSUME TypeOK, NEW vs
    PROVE  Release(vs) \in [VMs -> LifecycleStates]
BY ApplyType DEF Release, ReleasedState, LifecycleStates

\* Ending a transaction leaves well-formed transactions.
LEMMA EndType ==
    ASSUME TypeOK, NEW r \in Requests, End(r)
    PROVE  txn' \in [Requests -> Txns]
BY DEF TypeOK, End, NoTxn, VMTxn, Txns, TxnOps

\* The rows, tasks and transitions of a created series are well formed.
LEMMA CreateCommitType ==
    ASSUME TypeOK, NEW r \in Requests, CreateCommit(r)
    PROVE  TypeOK'
<1>1. PICK ids \in SUBSET Plans :
         /\ ids # {}
         /\ FreshIds(ids)
         /\ \E batch \in [ids -> SUBSET txn[r].vms] :
                /\ status' = [p \in Plans |-> IF p \in ids THEN "pending" ELSE status[p]]
                /\ members' = [p \in Plans |-> IF p \in ids THEN batch[p] ELSE members[p]]
                /\ task' = [p \in Plans |-> IF p \in ids THEN batch[p] ELSE task[p]]
                /\ series' = [p \in Plans |-> IF p \in ids THEN FirstOf(ids) ELSE series[p]]
                /\ gen' = [p \in Plans |-> IF p \in ids THEN "created" ELSE gen[p]]
    BY DEF CreateCommit
<1>2. txn[r].vms \in SUBSET VMs
    BY DEF TypeOK, Txns
<1>3. FirstOf(ids) \in Plans
    BY <1>1, FirstOfIsAPlan
<1>4. /\ status' \in [Plans -> PlanStatuses]
      /\ members' \in [Plans -> SUBSET VMs]
      /\ task' \in [Plans -> SUBSET VMs]
      /\ series' \in [Plans -> Plans \union {0}]
      /\ gen' \in [Plans -> GenPhases]
    BY <1>1, <1>2, <1>3 DEF TypeOK, PlanStatuses, GenPhases
<1>5. lifecycle' \in [VMs -> LifecycleStates]
    BY ApplyType DEF CreateCommit, LifecycleStates
<1>6. txn' \in [Requests -> Txns]
    BY EndType DEF CreateCommit
<1>7. QED
    BY <1>4, <1>5, <1>6 DEF TypeOK, CreateCommit, procVars

\* Each step of a request, a worker, an operator or the process keeps the types.
LEMMA NextTypeOK == TypeOK /\ [Next]_vars => TypeOK'
<1> SUFFICES ASSUME TypeOK, [Next]_vars PROVE TypeOK'
    OBVIOUS
<1>1. ASSUME NEW r \in Requests, CreateRead(r) PROVE TypeOK'
    BY <1>1 DEF CreateRead, TypeOK, VMTxn, Txns, TxnOps, Rows, planVars, procVars
<1>2. ASSUME NEW r \in Requests, CreateCommit(r) PROVE TypeOK'
    BY <1>2, CreateCommitType
<1>3. ASSUME NEW r \in Requests, EditPrepare(r) PROVE TypeOK'
    BY <1>3 DEF EditPrepare, TypeOK, Txns, TxnOps, planVars, procVars
<1>4. ASSUME NEW r \in Requests, AddVMs(r) PROVE TypeOK'
  <2>1. lifecycle' \in [VMs -> LifecycleStates]
    BY <1>4, ApplyType DEF AddVMs, LifecycleStates
  <2>2. txn' \in [Requests -> Txns]
    BY <1>4, EndType DEF AddVMs
  <2>3. QED
    BY <1>4, <2>1, <2>2 DEF AddVMs, TypeOK, Txns, procVars
<1>5. ASSUME NEW r \in Requests, RemoveVMs(r) PROVE TypeOK'
  <2>1. lifecycle' \in [VMs -> LifecycleStates]
    BY <1>5, ApplyType DEF RemoveVMs, ReleasedState, LifecycleStates
  <2>2. txn' \in [Requests -> Txns]
    BY <1>5, EndType DEF RemoveVMs
  <2>3. QED
    BY <1>5, <2>1, <2>2 DEF RemoveVMs, TypeOK, Txns, procVars
<1>6. ASSUME NEW r \in Requests, MoveToPlan(r) PROVE TypeOK'
  <2>1. txn' \in [Requests -> Txns]
    BY <1>6, EndType DEF MoveToPlan
  <2>2. QED
    BY <1>6, <2>1 DEF MoveToPlan, TypeOK, Txns, procVars
<1>7. ASSUME NEW r \in Requests, MoveToWave(r) PROVE TypeOK'
  <2>1. txn' \in [Requests -> Txns]
    BY <1>7, EndType DEF MoveToWave
  <2>2. QED
    BY <1>7, <2>1 DEF MoveToWave, TypeOK, Txns, procVars
<1>8. ASSUME NEW r \in Requests, PatchRead(r) PROVE TypeOK'
    BY <1>8 DEF PatchRead, TypeOK, VMTxn, Txns, TxnOps, planVars, procVars
<1>9. ASSUME NEW r \in Requests, PatchCommit(r) PROVE TypeOK'
  <2>1. lifecycle' \in [VMs -> LifecycleStates]
    BY <1>9, ApplyType DEF PatchCommit, PatchTarget, LifecycleStates
  <2>2. txn' \in [Requests -> Txns]
    BY <1>9, EndType DEF PatchCommit
  <2>3. QED
    BY <1>9, <2>1, <2>2 DEF PatchCommit, TypeOK, planVars, procVars
<1>10. ASSUME NEW r \in Requests, Refuse(r) PROVE TypeOK'
    BY <1>10, EndType DEF Refuse, TypeOK, planVars, procVars
<1>11. ASSUME NEW p \in Plans, DeletePlan(p) PROVE TypeOK'
    BY <1>11, ReleaseType DEF DeletePlan, TypeOK, PlanStatuses, procVars
<1>12. ASSUME NEW p \in Plans, MarkSucceeded(p) PROVE TypeOK'
    BY <1>12, ApplyType DEF MarkSucceeded, TypeOK, PlanStatuses, LifecycleStates, procVars
<1>13. ASSUME NEW p \in Plans, GenStep(p) PROVE TypeOK'
    BY <1>13, ReleaseType
       DEF GenStep, CreateQueue, CreateLost, Created, GenSkip, GenLoad, GenError,
           GenFail, GenComplete, GenRecord, GenStale, GenNoBackend, Abandon,
           AfterFailure, DropRead, TypeOK, PlanStatuses, GenPhases,
           procVars
<1>14. CASE DeleteVMs
    BY <1>14, ApplyType DEF DeleteVMs, TypeOK, LifecycleStates, planVars, procVars
<1>15. CASE Crash
    BY <1>15 DEF Crash, DropRead, TypeOK, NoTxn, VMTxn, Txns, TxnOps, GenPhases
<1>16. CASE StartSweep
    BY <1>16, ReleaseType DEF StartSweep, TypeOK, PlanStatuses
<1>17. CASE StartWithoutSweep
    BY <1>17 DEF StartWithoutSweep, TypeOK, planVars
<1>18. CASE UNCHANGED vars
    BY <1>18 DEF vars, TypeOK
<1>19. QED
    BY <1>1, <1>2, <1>3, <1>4, <1>5, <1>6, <1>7, <1>8, <1>9, <1>10, <1>11, <1>12, <1>13, <1>14,
       <1>15, <1>16, <1>17, <1>18
       DEF Next, RequestStep

(***************************************************************************)
(* Every reachable state is well formed: lifecycle states, plan statuses,  *)
(* memberships and open transactions stay within their domains.            *)
(***************************************************************************)
THEOREM TypeCorrect == Spec => []TypeOK
<1>1. QED
    BY InitTypeOK, NextTypeOK, PTL DEF Spec

-----------------------------------------------------------------------------
(* The inductive invariant *)

\* Creating a series leaves every other plan row and its task alone.
LEMMA CreateCommitOnlyAdds ==
    ASSUME TypeOK, NEW r \in Requests, CreateCommit(r)
    PROVE  \A p \in Plans : status[p] # "absent" =>
              /\ status'[p] = status[p]
              /\ members'[p] = members[p]
              /\ task'[p] = task[p]
              /\ gen'[p] = gen[p]
BY MaxPlansAssumption DEF CreateCommit, FreshIds, Plans

\* Every VM of a created series is in one of its new, pending plans.
LEMMA CreateCommitHolds ==
    ASSUME TypeOK, NEW r \in Requests, CreateCommit(r)
    PROVE  \A v \in txn[r].vms : \E p \in Plans :
              status[p] = "absent" /\ status'[p] = "pending" /\ v \in members'[p]
<1>0. PICK ids \in SUBSET Plans :
         /\ FreshIds(ids)
         /\ \E batch \in [ids -> SUBSET txn[r].vms] :
              /\ Batches(txn[r].vms, ids, batch)
              /\ status' = [p \in Plans |-> IF p \in ids THEN "pending" ELSE status[p]]
              /\ members' = [p \in Plans |-> IF p \in ids THEN batch[p] ELSE members[p]]
    BY DEF CreateCommit
<1>1. PICK batch \in [ids -> SUBSET txn[r].vms] :
         /\ Batches(txn[r].vms, ids, batch)
         /\ status' = [p \in Plans |-> IF p \in ids THEN "pending" ELSE status[p]]
         /\ members' = [p \in Plans |-> IF p \in ids THEN batch[p] ELSE members[p]]
    BY <1>0
<1>2. \A p \in ids : status[p] = "absent"
    BY <1>0, MaxPlansAssumption DEF FreshIds, Plans
<1>3. \A v \in txn[r].vms : \E p \in ids : v \in batch[p]
    BY <1>1 DEF Batches
<1>4. QED
    BY <1>1, <1>2, <1>3

\* An in-flight edit owns the rows it locked, and is the only one that does.
LEMMA NextEditsHoldTheirPlans == IInv /\ [Next]_vars => EditsHoldTheirPlans'
<1> SUFFICES ASSUME IInv, [Next]_vars PROVE EditsHoldTheirPlans'
    OBVIOUS
<1> USE DEF EditsHoldTheirPlans
<1>1. ASSUME NEW r \in Requests, CreateRead(r) PROVE EditsHoldTheirPlans'
    BY <1>1 DEF CreateRead, IInv, VMTxn, EditOps, planVars
<1>2. ASSUME NEW r \in Requests, CreateCommit(r) PROVE EditsHoldTheirPlans'
  <2>1. \A p \in Plans : status[p] = "complete" => status'[p] = "complete"
    BY <1>2, CreateCommitOnlyAdds DEF IInv
  <2>2. txn' = [txn EXCEPT ![r] = NoTxn]
    BY <1>2 DEF CreateCommit, End
  <2>3. QED
    BY <2>1, <2>2 DEF IInv, NoTxn, VMTxn, EditOps
<1>3. ASSUME NEW r \in Requests, EditPrepare(r) PROVE EditsHoldTheirPlans'
    BY <1>3 DEF EditPrepare, IInv, Editable, planVars
<1>4. ASSUME NEW r \in Requests, AddVMs(r) PROVE EditsHoldTheirPlans'
    BY <1>4 DEF AddVMs, IInv, End, NoTxn, VMTxn, EditOps
<1>5. ASSUME NEW r \in Requests, RemoveVMs(r) PROVE EditsHoldTheirPlans'
    BY <1>5 DEF RemoveVMs, IInv, End, NoTxn, VMTxn, EditOps
<1>6. ASSUME NEW r \in Requests, MoveToPlan(r) PROVE EditsHoldTheirPlans'
    BY <1>6 DEF MoveToPlan, IInv, End, NoTxn, VMTxn, EditOps
<1>7. ASSUME NEW r \in Requests, MoveToWave(r) PROVE EditsHoldTheirPlans'
    BY <1>7 DEF MoveToWave, IInv, End, NoTxn, VMTxn, EditOps
<1>8. ASSUME NEW r \in Requests, PatchRead(r) PROVE EditsHoldTheirPlans'
    BY <1>8 DEF PatchRead, IInv, TypeOK, VMTxn, EditOps, planVars
<1>9. ASSUME NEW r \in Requests, PatchCommit(r) PROVE EditsHoldTheirPlans'
    BY <1>9 DEF PatchCommit, IInv, End, NoTxn, VMTxn, EditOps, planVars
<1>10. ASSUME NEW r \in Requests, Refuse(r) PROVE EditsHoldTheirPlans'
    BY <1>10 DEF Refuse, IInv, End, NoTxn, VMTxn, EditOps, planVars
<1>11. ASSUME NEW p \in Plans, DeletePlan(p) PROVE EditsHoldTheirPlans'
    BY <1>11 DEF DeletePlan, IInv, Locked, procVars
<1>12. ASSUME NEW p \in Plans, MarkSucceeded(p) PROVE EditsHoldTheirPlans'
    BY <1>12 DEF MarkSucceeded, IInv, Locked, procVars
<1>13. ASSUME NEW p \in Plans, GenStep(p) PROVE EditsHoldTheirPlans'
    BY <1>13
       DEF TasksMatchPlans, GenStep, CreateQueue, CreateLost, Created, GenSkip, GenLoad,
           GenError, GenFail, GenComplete,
           GenRecord, GenStale, GenNoBackend, Abandon, Running, IInv, TypeOK
<1>14. CASE DeleteVMs
    BY <1>14 DEF DeleteVMs, IInv, planVars, procVars
<1>15. CASE Crash
    BY <1>15 DEF Crash, NoTxn, VMTxn, EditOps
<1>16. CASE StartSweep
    BY <1>16 DEF StartSweep, Orphans, InProgress, OrphanStatuses, IInv
<1>17. CASE StartWithoutSweep
    BY <1>17 DEF StartWithoutSweep, IInv, planVars, procVars
<1>18. CASE UNCHANGED vars
    BY <1>18 DEF vars, IInv, planVars, procVars
<1>19. QED
    BY <1>1, <1>2, <1>3, <1>4, <1>5, <1>6, <1>7, <1>8, <1>9, <1>10, <1>11, <1>12, <1>13, <1>14,
       <1>15, <1>16, <1>17, <1>18
       DEF Next, RequestStep

\* What an edit drops had no row, and a deleted row never comes back.
LEMMA NextDroppedAreGone == IInv /\ [Next]_vars => DroppedAreGone'
<1> SUFFICES ASSUME IInv, [Next]_vars PROVE DroppedAreGone'
    OBVIOUS
<1> USE DEF DroppedAreGone
<1>1. ASSUME NEW r \in Requests, CreateRead(r) PROVE DroppedAreGone'
    BY <1>1 DEF CreateRead, IInv, VMTxn, Rows, In
<1>2. ASSUME NEW r \in Requests, CreateCommit(r) PROVE DroppedAreGone'
    BY <1>2 DEF CreateCommit, IInv, End, NoTxn, VMTxn, Rows, In, Apply
<1>3. ASSUME NEW r \in Requests, EditPrepare(r) PROVE DroppedAreGone'
    BY <1>3 DEF EditPrepare, IInv, Rows, In
<1>4. ASSUME NEW r \in Requests, AddVMs(r) PROVE DroppedAreGone'
    BY <1>4 DEF AddVMs, IInv, End, NoTxn, VMTxn, Rows, In, Apply
<1>5. ASSUME NEW r \in Requests, RemoveVMs(r) PROVE DroppedAreGone'
    BY <1>5 DEF RemoveVMs, IInv, End, NoTxn, VMTxn, Rows, In, Apply
<1>6. ASSUME NEW r \in Requests, MoveToPlan(r) PROVE DroppedAreGone'
    BY <1>6 DEF MoveToPlan, IInv, End, NoTxn, VMTxn, Rows, In
<1>7. ASSUME NEW r \in Requests, MoveToWave(r) PROVE DroppedAreGone'
    BY <1>7 DEF MoveToWave, IInv, End, NoTxn, VMTxn, Rows, In
<1>8. ASSUME NEW r \in Requests, PatchRead(r) PROVE DroppedAreGone'
    BY <1>8 DEF PatchRead, IInv, TypeOK, VMTxn, Rows, In
<1>9. ASSUME NEW r \in Requests, PatchCommit(r) PROVE DroppedAreGone'
    BY <1>9 DEF PatchCommit, IInv, End, NoTxn, VMTxn, Rows, In, Apply
<1>10. ASSUME NEW r \in Requests, Refuse(r) PROVE DroppedAreGone'
    BY <1>10 DEF Refuse, IInv, End, NoTxn, VMTxn, Rows, In
<1>11. ASSUME NEW p \in Plans, DeletePlan(p) PROVE DroppedAreGone'
    BY <1>11 DEF DeletePlan, IInv, Rows, In, Apply, Release
<1>12. ASSUME NEW p \in Plans, MarkSucceeded(p) PROVE DroppedAreGone'
    BY <1>12 DEF MarkSucceeded, IInv, Rows, In, Apply
<1>13. ASSUME NEW p \in Plans, GenStep(p) PROVE DroppedAreGone'
    BY <1>13
       DEF GenStep, CreateQueue, CreateLost, Created, GenSkip, GenLoad, GenError,
           GenFail, GenComplete, GenRecord, GenStale, GenNoBackend, Abandon, IInv, Rows, In, Apply, Release
<1>14. CASE DeleteVMs
    BY <1>14 DEF DeleteVMs, IInv, Rows, In, Apply
<1>15. CASE Crash
    BY <1>15 DEF Crash, NoTxn, VMTxn, procVars
<1>16. CASE StartSweep
    BY <1>16 DEF StartSweep, IInv, Rows, In, Apply, Release
<1>17. CASE StartWithoutSweep
    BY <1>17 DEF StartWithoutSweep, IInv, Rows, In
<1>18. CASE UNCHANGED vars
    BY <1>18 DEF vars, IInv, Rows, In
<1>19. QED
    BY <1>1, <1>2, <1>3, <1>4, <1>5, <1>6, <1>7, <1>8, <1>9, <1>10, <1>11, <1>12, <1>13, <1>14,
       <1>15, <1>16, <1>17, <1>18
       DEF Next, RequestStep

\* An edit keeps the plans it was prepared for.
LEMMA NextTwoPlansOnlyWhenMoving == IInv /\ [Next]_vars => TwoPlansOnlyWhenMoving'
<1> SUFFICES ASSUME IInv, [Next]_vars PROVE TwoPlansOnlyWhenMoving'
    OBVIOUS
<1> USE DEF TwoPlansOnlyWhenMoving
<1>1. ASSUME NEW r \in Requests, CreateRead(r) PROVE TwoPlansOnlyWhenMoving'
    BY <1>1 DEF CreateRead, IInv, VMTxn, procVars
<1>2. ASSUME NEW r \in Requests, CreateCommit(r) PROVE TwoPlansOnlyWhenMoving'
    BY <1>2 DEF CreateCommit, IInv, End, NoTxn, VMTxn
<1>3. ASSUME NEW r \in Requests, EditPrepare(r) PROVE TwoPlansOnlyWhenMoving'
    BY <1>3 DEF EditPrepare, IInv, Admissible, procVars
<1>4. ASSUME NEW r \in Requests, AddVMs(r) PROVE TwoPlansOnlyWhenMoving'
    BY <1>4 DEF AddVMs, IInv, End, NoTxn, VMTxn
<1>5. ASSUME NEW r \in Requests, RemoveVMs(r) PROVE TwoPlansOnlyWhenMoving'
    BY <1>5 DEF RemoveVMs, IInv, End, NoTxn, VMTxn
<1>6. ASSUME NEW r \in Requests, MoveToPlan(r) PROVE TwoPlansOnlyWhenMoving'
    BY <1>6 DEF MoveToPlan, IInv, End, NoTxn, VMTxn
<1>7. ASSUME NEW r \in Requests, MoveToWave(r) PROVE TwoPlansOnlyWhenMoving'
    BY <1>7 DEF MoveToWave, IInv, End, NoTxn, VMTxn
<1>8. ASSUME NEW r \in Requests, PatchRead(r) PROVE TwoPlansOnlyWhenMoving'
    BY <1>8 DEF PatchRead, IInv, TypeOK, VMTxn
<1>9. ASSUME NEW r \in Requests, PatchCommit(r) PROVE TwoPlansOnlyWhenMoving'
    BY <1>9 DEF PatchCommit, IInv, End, NoTxn, VMTxn
<1>10. ASSUME NEW r \in Requests, Refuse(r) PROVE TwoPlansOnlyWhenMoving'
    BY <1>10 DEF Refuse, IInv, End, NoTxn, VMTxn
<1>11. ASSUME NEW p \in Plans, DeletePlan(p) PROVE TwoPlansOnlyWhenMoving'
    BY <1>11 DEF DeletePlan, IInv, planVars, procVars
<1>12. ASSUME NEW p \in Plans, MarkSucceeded(p) PROVE TwoPlansOnlyWhenMoving'
    BY <1>12 DEF MarkSucceeded, IInv, planVars, procVars
<1>13. ASSUME NEW p \in Plans, GenStep(p) PROVE TwoPlansOnlyWhenMoving'
    BY <1>13
       DEF GenStep, CreateQueue, CreateLost, Created, GenSkip, GenLoad, GenError,
           GenFail, GenComplete, GenRecord, GenStale, GenNoBackend, Abandon, IInv
<1>14. CASE DeleteVMs
    BY <1>14 DEF DeleteVMs, IInv, planVars, procVars
<1>15. CASE Crash
    BY <1>15 DEF Crash, NoTxn, VMTxn, procVars
<1>16. CASE StartSweep
    BY <1>16 DEF StartSweep, IInv, planVars, procVars
<1>17. CASE StartWithoutSweep
    BY <1>17 DEF StartWithoutSweep, IInv, planVars, procVars
<1>18. CASE UNCHANGED vars
    BY <1>18 DEF vars, IInv, planVars, procVars
<1>19. QED
    BY <1>1, <1>2, <1>3, <1>4, <1>5, <1>6, <1>7, <1>8, <1>9, <1>10, <1>11, <1>12, <1>13, <1>14,
       <1>15, <1>16, <1>17, <1>18
       DEF Next, RequestStep

\* Task phase, status and members of a plan move together.
LEMMA NextTasksMatchPlans == IInv /\ [Next]_vars => TasksMatchPlans'
<1> SUFFICES ASSUME IInv, [Next]_vars PROVE TasksMatchPlans'
    OBVIOUS
<1> USE DEF TasksMatchPlans, InProgress, OrphanStatuses
<1>1. ASSUME NEW r \in Requests, CreateRead(r) PROVE TasksMatchPlans'
    BY <1>1 DEF CreateRead, IInv, planVars, procVars
<1>2. ASSUME NEW r \in Requests, CreateCommit(r) PROVE TasksMatchPlans'
    BY <1>2 DEF CreateCommit, IInv, planVars, procVars
<1>3. ASSUME NEW r \in Requests, EditPrepare(r) PROVE TasksMatchPlans'
    BY <1>3 DEF EditPrepare, IInv, planVars, procVars
<1>4. ASSUME NEW r \in Requests, AddVMs(r) PROVE TasksMatchPlans'
    BY <1>4 DEF AddVMs, IInv, EditsHoldTheirPlans, EditOps
<1>5. ASSUME NEW r \in Requests, RemoveVMs(r) PROVE TasksMatchPlans'
    BY <1>5 DEF RemoveVMs, IInv, EditsHoldTheirPlans, EditOps
<1>6. ASSUME NEW r \in Requests, MoveToPlan(r) PROVE TasksMatchPlans'
    BY <1>6 DEF MoveToPlan, IInv, TypeOK, EditsHoldTheirPlans, EditOps
<1>7. ASSUME NEW r \in Requests, MoveToWave(r) PROVE TasksMatchPlans'
    BY <1>7 DEF MoveToWave, IInv, EditsHoldTheirPlans, EditOps
<1>8. ASSUME NEW r \in Requests, PatchRead(r) PROVE TasksMatchPlans'
    BY <1>8 DEF PatchRead, IInv, planVars, procVars
<1>9. ASSUME NEW r \in Requests, PatchCommit(r) PROVE TasksMatchPlans'
    BY <1>9 DEF PatchCommit, IInv, planVars, procVars
<1>10. ASSUME NEW r \in Requests, Refuse(r) PROVE TasksMatchPlans'
    BY <1>10 DEF Refuse, IInv, planVars, procVars
<1>11. ASSUME NEW p \in Plans, DeletePlan(p) PROVE TasksMatchPlans'
    BY <1>11 DEF DeletePlan, IInv, TypeOK, procVars
<1>12. ASSUME NEW p \in Plans, MarkSucceeded(p) PROVE TasksMatchPlans'
    BY <1>12 DEF MarkSucceeded, IInv, Markable, procVars
<1>13. ASSUME NEW p \in Plans, GenStep(p) PROVE TasksMatchPlans'
    BY <1>13
       DEF GenStep, CreateQueue, CreateLost, Created, GenSkip, GenLoad, GenError,
           GenFail, GenComplete, GenRecord, GenStale, GenNoBackend, Abandon,
           AfterFailure, DropRead, Running, IInv, TypeOK
<1>14. CASE DeleteVMs
    BY <1>14 DEF DeleteVMs, IInv, planVars, procVars
<1>15. CASE Crash
    BY <1>15 DEF Crash, IInv, planVars, procVars
<1>16. CASE StartSweep
    BY <1>16 DEF StartSweep, IdleWhenDown, IInv, procVars
<1>17. CASE StartWithoutSweep
    BY <1>17 DEF StartWithoutSweep, IInv, planVars, procVars
<1>18. CASE UNCHANGED vars
    BY <1>18 DEF vars, IInv, planVars, procVars
<1>19. QED
    BY <1>1, <1>2, <1>3, <1>4, <1>5, <1>6, <1>7, <1>8, <1>9, <1>10, <1>11, <1>12, <1>13, <1>14,
       <1>15, <1>16, <1>17, <1>18
       DEF Next, RequestStep

\* Requests and tasks start only while the process serves.
LEMMA NextIdleWhenDown == IInv /\ [Next]_vars => IdleWhenDown'
<1> SUFFICES ASSUME IInv, [Next]_vars PROVE IdleWhenDown'
    OBVIOUS
<1> USE DEF IdleWhenDown
<1>1. ASSUME NEW r \in Requests, RequestStep(r) PROVE IdleWhenDown'
  <2>1. up
    BY <1>1
       DEF RequestStep, CreateRead, CreateCommit, EditPrepare, AddVMs, RemoveVMs, MoveToPlan,
           MoveToWave, PatchRead, PatchCommit, Refuse, IInv, NoTxn, VMTxn
  <2>2. up' = up
    BY <1>1
       DEF RequestStep, CreateRead, CreateCommit, EditPrepare, AddVMs, RemoveVMs, MoveToPlan,
           MoveToWave, PatchRead, PatchCommit, Refuse, procVars
  <2>3. QED
    BY <2>1, <2>2 DEF IInv, TypeOK
<1>2. ASSUME NEW p \in Plans, DeletePlan(p) \/ MarkSucceeded(p) PROVE IdleWhenDown'
    BY <1>2 DEF DeletePlan, MarkSucceeded, procVars, IInv
<1>3. ASSUME NEW p \in Plans, GenStep(p) PROVE IdleWhenDown'
  <2>1. up
    BY <1>3
       DEF GenStep, CreateQueue, CreateLost, Created, GenSkip, GenLoad, GenError,
           GenFail, GenComplete, GenRecord, GenStale, GenNoBackend, Running, IInv
  <2>2. up' = up
    BY <1>3
       DEF GenStep, CreateQueue, CreateLost, Created, GenSkip, GenLoad, GenError,
           GenFail, GenComplete, GenRecord, GenStale, GenNoBackend, Abandon, procVars
  <2>3. QED
    BY <2>1, <2>2
<1>4. CASE DeleteVMs
    BY <1>4 DEF DeleteVMs, planVars, procVars, IInv
<1>5. CASE Crash
    BY <1>5 DEF Crash
<1>6. CASE StartSweep \/ StartWithoutSweep
    BY <1>6 DEF StartSweep, StartWithoutSweep
<1>7. CASE UNCHANGED vars
    BY <1>7 DEF vars, IInv
<1>8. QED
    BY <1>1, <1>2, <1>3, <1>4, <1>5, <1>6, <1>7 DEF Next

\* A task starts only when the earlier ones of its series have ended.
LEMMA NextRunsInOrder == IInv /\ [Next]_vars => RunsInOrder'
<1> SUFFICES ASSUME IInv, [Next]_vars,
                    NEW p \in Plans, NEW q \in Plans,
                    series'[q] = series'[p], q < p, gen'[p] \notin {"none", "created", "queued"}
             PROVE  gen'[q] = "none"
    BY DEF RunsInOrder
<1>a. TypeOK /\ RunsInOrder /\ TasksMatchPlans
    BY DEF IInv
<1>1. ASSUME NEW r \in Requests, CreateCommit(r) PROVE gen'[q] = "none"
  <2>1. PICK ids \in SUBSET Plans :
          /\ FreshIds(ids)
          /\ series' = [x \in Plans |-> IF x \in ids THEN FirstOf(ids) ELSE series[x]]
          /\ gen' = [x \in Plans |-> IF x \in ids THEN "created" ELSE gen[x]]
    BY <1>1 DEF CreateCommit
  <2>2. p \notin ids /\ status[p] # "absent"
    BY <2>1, <1>a DEF TasksMatchPlans, TypeOK, GenPhases
  <2>3. q \notin ids
    BY <2>1, <2>2 DEF FreshIds, Plans
  <2>4. QED
    BY <2>1, <2>2, <2>3, <1>a DEF RunsInOrder
<1>2. ASSUME NEW x \in Plans, GenStep(x) PROVE gen'[q] = "none"
    BY <1>2, <1>a
       DEF GenStep, CreateQueue, CreateLost, Created, GenSkip, GenLoad, GenError,
           GenFail, GenComplete, GenRecord, GenStale, GenNoBackend, Abandon,
           AfterFailure, Running, EarlierTasksDone, RunsInOrder, TypeOK
<1>3. CASE Crash
    BY <1>3 DEF Crash
<1>4. CASE UNCHANGED <<series, gen>>
    BY <1>4, <1>a DEF RunsInOrder
<1>5. QED
    BY <1>1, <1>2, <1>3, <1>4
       DEF Next, RequestStep, CreateRead, EditPrepare, AddVMs, RemoveVMs, MoveToPlan,
           MoveToWave, PatchRead, PatchCommit, Refuse, DeletePlan, MarkSucceeded, DeleteVMs,
           StartSweep, StartWithoutSweep, planVars, vars

\* A plan loses its task while it is in progress only as the invariant says.
LEMMA NextStrandedOnlyByDelete == IInv /\ [Next]_vars => StrandedOnlyByDelete'
<1> SUFFICES ASSUME IInv, [Next]_vars,
                    NEW p \in Plans, up', InProgress(p)', gen'[p] = "none",
                    faults' = {}
             PROVE  Excused(p)'
    BY DEF StrandedOnlyByDelete
<1> USE DEF InProgress, OrphanStatuses
<1>a. TypeOK /\ StrandedOnlyByDelete /\ TasksMatchPlans /\ RunsInOrder
    BY DEF IInv
<1>b. ASSUME Excused(p), UNCHANGED series, status'[p] = status[p],
             \A q \in Plans : status[q] = "deleted" => status'[q] = "deleted"
      PROVE  Excused(p)'
    BY <1>b DEF Excused, SeriesDeleted
<1>1. ASSUME NEW r \in Requests, CreateCommit(r) PROVE Excused(p)'
  <2>1. PICK ids \in SUBSET Plans :
          /\ FreshIds(ids)
          /\ status' = [x \in Plans |-> IF x \in ids THEN "pending" ELSE status[x]]
          /\ series' = [x \in Plans |-> IF x \in ids THEN FirstOf(ids) ELSE series[x]]
          /\ gen' = [x \in Plans |-> IF x \in ids THEN "created" ELSE gen[x]]
    BY <1>1 DEF CreateCommit
  <2>2. \A x \in ids : status[x] = "absent"
    BY <2>1 DEF FreshIds, Plans
  <2>3. p \notin ids
    BY <2>1
  <2>4. Excused(p)
    BY <1>1, <1>a, <2>1, <2>3 DEF CreateCommit, procVars, StrandedOnlyByDelete
  <2>5. QED
    BY <2>1, <2>2, <2>3, <2>4 DEF Excused, SeriesDeleted
<1>2. ASSUME NEW q \in Plans, GenStale(q) PROVE Excused(p)'
  <2>0. status[q] = "deleted" /\ UNCHANGED <<status, series, up, faults>>
    BY <1>2 DEF GenStale, Abandon, procVars
  <2>1. CASE gen[p] = "none"
    BY <2>0, <1>a, <1>b, <2>1 DEF StrandedOnlyByDelete
  <2>2. CASE gen[p] # "none"
    <3>1. series[q] = series[p]
        BY <1>2, <2>2, <1>a DEF GenStale, Abandon, TypeOK
    <3>2. p # q
        BY <2>0
    <3>3. gen[p] \in {"created", "queued"}
        BY <1>2, <2>2, <3>1, <3>2, <1>a DEF GenStale, RunsInOrder, Plans, TypeOK, GenPhases
    <3>4. QED
        BY <2>0, <3>1, <3>3, <1>a DEF TasksMatchPlans, Excused, SeriesDeleted
  <2>3. QED
    BY <2>1, <2>2
<1>3. ASSUME NEW q \in Plans,
             GenSkip(q) \/ GenLoad(q) \/ GenError(q) \/ GenFail(q) \/ GenComplete(q)
               \/ GenRecord(q)
      PROVE  Excused(p)'
  <2>1. gen[p] = "none" /\ status'[p] = status[p]
    BY <1>3, <1>a
       DEF GenSkip, GenLoad, GenError, GenFail, GenComplete, GenRecord, AfterFailure,
           TasksMatchPlans, Running, TypeOK
  <2>2. Excused(p)
    BY <1>3, <1>a, <2>1
       DEF GenSkip, GenLoad, GenError, GenFail, GenComplete, GenRecord, procVars,
           StrandedOnlyByDelete
  <2>3. \A x \in Plans : status[x] = "deleted" => status'[x] = "deleted"
    BY <1>3, <1>a DEF GenSkip, GenLoad, GenError, GenFail, GenComplete, GenRecord, TypeOK
  <2>4. QED
    BY <1>3, <2>1, <2>2, <2>3, <1>b
       DEF GenSkip, GenLoad, GenError, GenFail, GenComplete, GenRecord
<1>4. ASSUME NEW q \in Plans, GenNoBackend(q) PROVE Excused(p)'
    BY <1>4 DEF GenNoBackend, Abandon, procVars
<1>5. CASE Crash
    BY <1>5 DEF Crash
<1>6. CASE StartSweep
    BY <1>6, <1>a DEF StartSweep, Orphans, TypeOK
<1>7. CASE StartWithoutSweep
    BY <1>7 DEF StartWithoutSweep
<1>8. ASSUME NEW q \in Plans, DeletePlan(q) \/ MarkSucceeded(q) PROVE Excused(p)'
    BY <1>8, <1>a, <1>b
       DEF DeletePlan, MarkSucceeded, Markable, procVars, StrandedOnlyByDelete, TypeOK
<1>9. CASE UNCHANGED <<status, series, gen, up, faults>>
    BY <1>9, <1>a DEF StrandedOnlyByDelete, Excused, SeriesDeleted
<1>10. ASSUME NEW q \in Plans, CreateQueue(q) PROVE Excused(p)'
  <2>1. gen[p] = "none" /\ UNCHANGED <<status, series, up, faults>>
    BY <1>10 DEF CreateQueue, procVars
  <2>2. QED
    BY <2>1, <1>a, <1>b DEF StrandedOnlyByDelete
<1>11. ASSUME NEW q \in Plans, CreateLost(q) PROVE Excused(p)'
  <2>1. UNCHANGED <<status, series, up, faults>>
    BY <1>11 DEF CreateLost, procVars
  <2>2. CASE p \in Created(q)
    BY <1>11, <2>1, <2>2, <1>a DEF CreateLost, Created, TasksMatchPlans, Excused, SeriesDeleted
  <2>3. CASE p \notin Created(q)
    BY <1>11, <2>1, <2>3, <1>a, <1>b DEF CreateLost, StrandedOnlyByDelete
  <2>4. QED
    BY <2>2, <2>3
<1>12. QED
    BY <1>1, <1>2, <1>3, <1>4, <1>5, <1>6, <1>7, <1>8, <1>9, <1>10, <1>11
       DEF Next, RequestStep, GenStep, CreateRead, EditPrepare, AddVMs, RemoveVMs, MoveToPlan,
           MoveToWave, PatchRead, PatchCommit, Refuse, DeleteVMs, planVars, procVars, vars

\* An open transaction that has ended overlooks nothing.
LEMMA EndOverlooksNothing ==
    ASSUME TypeOK, NEW r \in Requests, End(r), NEW p \in Plans, NEW v \in VMs,
           \A s \in Requests : ~Overlooks(s, p, v)
    PROVE  \A s \in Requests : ~Overlooks(s, p, v)'
BY DEF End, NoTxn, VMTxn, Overlooks

\* A plan locked by one edit is overlooked by no other.
LEMMA OwnerOverlooksAlone ==
    ASSUME IInv, NEW r \in Requests, txn[r].op \in EditOps, End(r),
           NEW p \in {txn[r].plan, txn[r].target}, NEW v \in VMs
    PROVE  \A s \in Requests : ~Overlooks(s, p, v)'
BY DEF IInv, TypeOK, EditsHoldTheirPlans, EditOps, End, NoTxn, VMTxn, Overlooks

(***************************************************************************)
(* The heart of the argument: whatever makes a VM planned gives it a       *)
(* holder, and whatever takes a holder away releases the VM or hands it to *)
(* another holder.                                                         *)
(***************************************************************************)
LEMMA NextCommitmentsHeld == IInv /\ [Next]_vars => CommitmentsHeld'
<1> SUFFICES ASSUME IInv, [Next]_vars,
                    NEW v \in VMs, lifecycle'[v] = "planned"
             PROVE  \E p \in Plans : Holder(p, v)'
    BY DEF CommitmentsHeld, In
<1> USE DEF In
<1>a. TypeOK /\ EditsHoldTheirPlans /\ DroppedAreGone /\ TasksMatchPlans
    BY DEF IInv
<1>b. lifecycle[v] = "planned" => \E p \in Plans : Holder(p, v)
    BY DEF IInv, CommitmentsHeld
<1>c. lifecycle[v] = "planned" => \A r \in Requests : v \notin txn[r].dropped
    BY <1>a DEF DroppedAreGone, Rows
<1>1. ASSUME NEW r \in Requests, CreateRead(r) PROVE \E p \in Plans : Holder(p, v)'
    BY <1>1, <1>a, <1>b DEF CreateRead, VMTxn, Holder, Live, Overlooks, planVars
<1>2. ASSUME NEW r \in Requests, CreateCommit(r) PROVE \E p \in Plans : Holder(p, v)'
  <2>1. End(r)
    BY <1>2 DEF CreateCommit
  <2>2. CASE v \in txn[r].vms
    <3>1. PICK p \in Plans : status[p] = "absent" /\ status'[p] = "pending" /\ v \in members'[p]
        BY <1>2, <1>a, <2>2, CreateCommitHolds
    <3>2. \A s \in Requests : ~Overlooks(s, p, v)
        BY <3>1, <1>a DEF Overlooks, EditsHoldTheirPlans, EditOps
    <3>3. QED
        BY <3>1, <3>2, <2>1, <1>a, EndOverlooksNothing DEF Holder, Live
  <2>3. CASE v \notin txn[r].vms
    <3>1. lifecycle[v] = "planned"
        BY <1>2, <2>3 DEF CreateCommit, Apply
    <3>2. PICK p \in Plans : Holder(p, v)
        BY <3>1, <1>b
    <3>3. status'[p] = status[p] /\ members'[p] = members[p]
        BY <1>2, <1>a, <3>2, CreateCommitOnlyAdds DEF Holder, Live
    <3>4. QED
        BY <3>2, <3>3, <2>1, <1>a, EndOverlooksNothing DEF Holder, Live
  <2>4. QED
    BY <2>2, <2>3
<1>3. ASSUME NEW r \in Requests, EditPrepare(r) PROVE \E p \in Plans : Holder(p, v)'
    BY <1>3, <1>a, <1>b DEF EditPrepare, Holder, Live, Overlooks, planVars
<1>4. ASSUME NEW r \in Requests, AddVMs(r) PROVE \E p \in Plans : Holder(p, v)'
  <2>1. End(r) /\ txn[r].op \in EditOps
    BY <1>4 DEF AddVMs, EditOps
  <2>2. CASE v \in txn[r].vms
    <3>1. /\ txn[r].plan \in Plans
          /\ status'[txn[r].plan] = "complete"
        BY <1>4, <2>1, <1>a DEF AddVMs, EditsHoldTheirPlans
    <3>2. v \in members'[txn[r].plan]
        BY <1>4, <2>2, <3>1, <1>a DEF AddVMs, DroppedAreGone, TypeOK
    <3>3. QED
        BY <3>1, <3>2, <2>1, OwnerOverlooksAlone DEF Holder, Live
  <2>3. CASE v \notin txn[r].vms
    <3>1. lifecycle[v] = "planned"
        BY <1>4, <2>3 DEF AddVMs, Apply
    <3>2. PICK p \in Plans : Holder(p, v)
        BY <3>1, <1>b
    <3>3. status'[p] = status[p] /\ v \in members'[p]
        BY <1>4, <1>a, <1>c, <3>1, <3>2 DEF AddVMs, Holder, TypeOK
    <3>4. QED
        BY <3>2, <3>3, <2>1, <1>a, EndOverlooksNothing DEF Holder, Live
  <2>4. QED
    BY <2>2, <2>3
<1>5. ASSUME NEW r \in Requests, RemoveVMs(r) PROVE \E p \in Plans : Holder(p, v)'
  <2>1. /\ lifecycle[v] = "planned"
        /\ v \notin txn[r].matched
    BY <1>5 DEF RemoveVMs, Apply, ReleasedState, Rows
  <2>2. PICK p \in Plans : Holder(p, v)
    BY <2>1, <1>b
  <2>3. p = txn[r].plan => v \notin txn[r].vms
    BY <1>5, <2>1, <2>2 DEF RemoveVMs, Holder, Overlooks
  <2>4. status'[p] = status[p] /\ v \in members'[p]
    BY <1>5, <1>a, <1>c, <2>1, <2>2, <2>3 DEF RemoveVMs, Holder, TypeOK
  <2>5. End(r)
    BY <1>5 DEF RemoveVMs
  <2>6. QED
    BY <2>2, <2>4, <2>5, <1>a, EndOverlooksNothing DEF Holder, Live
<1>6. ASSUME NEW r \in Requests, MoveToPlan(r) PROVE \E p \in Plans : Holder(p, v)'
  <2>1. End(r) /\ txn[r].op \in EditOps /\ lifecycle[v] = "planned"
    BY <1>6 DEF MoveToPlan, EditOps
  <2>2. CASE v \in txn[r].vms
    <3>1. /\ txn[r].target \in Plans
          /\ status'[txn[r].target] = "complete"
        BY <1>6, <2>1, <1>a DEF MoveToPlan, EditsHoldTheirPlans
    <3>2. v \in members'[txn[r].target]
        BY <1>6, <2>1, <2>2, <3>1, <1>a, <1>c DEF MoveToPlan, TypeOK
    <3>3. QED
        BY <3>1, <3>2, <2>1, OwnerOverlooksAlone DEF Holder, Live
  <2>3. CASE v \notin txn[r].vms
    <3>1. PICK p \in Plans : Holder(p, v)
        BY <2>1, <1>b
    <3>2. status'[p] = status[p] /\ v \in members'[p]
        BY <1>6, <1>a, <1>c, <2>1, <2>3, <3>1 DEF MoveToPlan, Holder, TypeOK
    <3>3. QED
        BY <3>1, <3>2, <2>1, <1>a, EndOverlooksNothing DEF Holder, Live
  <2>4. QED
    BY <2>2, <2>3
<1>7. ASSUME NEW r \in Requests, MoveToWave(r) PROVE \E p \in Plans : Holder(p, v)'
  <2>1. PICK p \in Plans : Holder(p, v)
    BY <1>7, <1>b DEF MoveToWave
  <2>2. status'[p] = status[p] /\ v \in members'[p]
    BY <1>7, <1>a, <1>c, <2>1 DEF MoveToWave, Holder, TypeOK
  <2>3. End(r)
    BY <1>7 DEF MoveToWave
  <2>4. QED
    BY <2>1, <2>2, <2>3, <1>a, EndOverlooksNothing DEF Holder, Live
<1>8. ASSUME NEW r \in Requests, PatchRead(r) PROVE \E p \in Plans : Holder(p, v)'
    BY <1>8, <1>a, <1>b DEF PatchRead, VMTxn, Holder, Live, Overlooks, TypeOK, planVars
<1>9. ASSUME NEW r \in Requests, PatchCommit(r) PROVE \E p \in Plans : Holder(p, v)'
  <2>1. lifecycle[v] = "planned"
    BY <1>9 DEF PatchCommit, Apply, PatchTarget
  <2>2. End(r) /\ UNCHANGED <<status, members>>
    BY <1>9 DEF PatchCommit, planVars
  <2>3. QED
    BY <2>1, <2>2, <1>a, <1>b, EndOverlooksNothing DEF Holder, Live
<1>10. ASSUME NEW r \in Requests, Refuse(r) PROVE \E p \in Plans : Holder(p, v)'
  <2>1. lifecycle[v] = "planned" /\ End(r) /\ UNCHANGED <<status, members>>
    BY <1>10 DEF Refuse, planVars
  <2>2. QED
    BY <2>1, <1>a, <1>b, EndOverlooksNothing DEF Holder, Live
<1>11. ASSUME NEW q \in Plans, DeletePlan(q) PROVE \E p \in Plans : Holder(p, v)'
    BY <1>11, <1>a, <1>b
       DEF DeletePlan, Release, Apply, ReleasedState, Holder, Live, Overlooks
<1>12. ASSUME NEW q \in Plans, MarkSucceeded(q) PROVE \E p \in Plans : Holder(p, v)'
    BY <1>12, <1>a, <1>b DEF MarkSucceeded, Apply, Holder, Live, Overlooks
<1>13. ASSUME NEW q \in Plans, GenStep(q) PROVE \E p \in Plans : Holder(p, v)'
  <2>1. CASE CreateQueue(q) \/ CreateLost(q) \/ GenSkip(q) \/ GenError(q) \/ GenRecord(q)
               \/ GenStale(q) \/ GenNoBackend(q)
    BY <2>1, <1>b
       DEF CreateQueue, CreateLost, GenSkip, GenError, GenRecord, GenStale, GenNoBackend,
           Abandon, Holder, Live, Overlooks
  <2>2. CASE GenLoad(q)
    BY <2>2, <1>a, <1>b DEF GenLoad, Holder, Live, Overlooks
  <2>3. CASE GenFail(q)
    BY <2>3, <1>a, <1>b DEF GenFail, Release, Apply, ReleasedState, Holder, Live, Overlooks
  <2>4. CASE GenComplete(q)
    <3>1. members'[q] = members[q]
        BY <2>4, <1>a DEF GenComplete, TasksMatchPlans, InProgress, OrphanStatuses
    <3>2. QED
        BY <2>4, <3>1, <1>a, <1>b DEF GenComplete, Holder, Live, Overlooks
  <2>5. QED
    BY <1>13, <2>1, <2>2, <2>3, <2>4 DEF GenStep
<1>14. CASE DeleteVMs
    BY <1>14, <1>b DEF DeleteVMs, Apply, Holder, Live, Overlooks, planVars
<1>15. CASE Crash
    BY <1>15, <1>b DEF Crash, Holder, Live, Overlooks, NoTxn, VMTxn
<1>16. CASE StartSweep
    BY <1>16, <1>a, <1>b
       DEF StartSweep, Release, Apply, ReleasedState, Holder, Live, Overlooks
<1>17. CASE StartWithoutSweep
    BY <1>17, <1>b DEF StartWithoutSweep, Holder, Live, Overlooks, planVars
<1>18. CASE UNCHANGED vars
    BY <1>18, <1>b DEF vars, Holder, Live, Overlooks
<1>19. QED
    BY <1>1, <1>2, <1>3, <1>4, <1>5, <1>6, <1>7, <1>8, <1>9, <1>10, <1>11, <1>12, <1>13, <1>14,
       <1>15, <1>16, <1>17, <1>18
       DEF Next, RequestStep

\* Nothing is planned, open or queued at first.
LEMMA InitIInv == Init => IInv
<1> SUFFICES ASSUME Init PROVE IInv
    OBVIOUS
<1>1. TypeOK
    BY InitTypeOK
<1>2. CommitmentsHeld
    BY DEF Init, CommitmentsHeld, In
<1>3. EditsHoldTheirPlans /\ DroppedAreGone /\ TwoPlansOnlyWhenMoving
    BY DEF Init, EditsHoldTheirPlans, DroppedAreGone, TwoPlansOnlyWhenMoving, EditOps, NoTxn,
           VMTxn
<1>4. TasksMatchPlans /\ IdleWhenDown
    BY DEF Init, TasksMatchPlans, IdleWhenDown, OrphanStatuses
<1>5. RunsInOrder /\ StrandedOnlyByDelete
    BY DEF Init, RunsInOrder, StrandedOnlyByDelete, InProgress, OrphanStatuses
<1>6. QED
    BY <1>1, <1>2, <1>3, <1>4, <1>5 DEF IInv

(***************************************************************************)
(* The strengthened invariant holds in every reachable state.              *)
(***************************************************************************)
THEOREM InvariantHolds == Spec => []IInv
<1>1. IInv /\ [Next]_vars => IInv'
    BY NextTypeOK, NextCommitmentsHeld, NextEditsHoldTheirPlans, NextDroppedAreGone,
       NextTwoPlansOnlyWhenMoving, NextTasksMatchPlans, NextIdleWhenDown, NextRunsInOrder,
       NextStrandedOnlyByDelete
       DEF IInv
<1>2. QED
    BY InitIInv, <1>1, PTL DEF Spec

(***************************************************************************)
(* A VM in "planned" is always a member of a plan that is being generated  *)
(* or is complete, however requests, workers and restarts interleave.      *)
(***************************************************************************)
THEOREM NothingOrphaned == Spec => []NoOrphanedCommitment
<1>1. IInv => NoOrphanedCommitment
    BY DEF IInv, CommitmentsHeld, NoOrphanedCommitment, Holder
<1>2. QED
    BY InvariantHolds, <1>1, PTL

(***************************************************************************)
(* The plan-row locks: an open edit keeps its plans complete and to itself. *)
(***************************************************************************)
THEOREM EditsExclusive == Spec => []EditsHoldTheirPlans
<1>1. IInv => EditsHoldTheirPlans
    BY DEF IInv
<1>2. QED
    BY InvariantHolds, <1>1, PTL

(***************************************************************************)
(* A serving process leaves a plan in progress without a task only without *)
(* an LLM backend, after a failed sweep, or in "pending" after a plan of   *)
(* its series was deleted.                                                 *)
(***************************************************************************)
THEOREM StrandingExplained == Spec => []StrandedOnlyByDelete
<1>1. IInv => StrandedOnlyByDelete
    BY DEF IInv
<1>2. QED
    BY InvariantHolds, <1>1, PTL

(***************************************************************************)
(* However its writers interleave, the status of a plan only moves         *)
(* forward.                                                                *)
(***************************************************************************)
THEOREM StatusForward == Spec => StatusOnlyMovesForward
<1>1. IInv /\ [Next]_vars => [StatusStep]_vars
  <2> SUFFICES ASSUME IInv, [Next]_vars, NEW p \in Plans, status'[p] # status[p]
               PROVE  <<status[p], status'[p]>> \in Forward
      BY DEF StatusStep
  <2>a. TypeOK /\ TasksMatchPlans
      BY DEF IInv
  <2>1. ASSUME NEW r \in Requests, CreateCommit(r) PROVE <<status[p], status'[p]>> \in Forward
    <3>1. PICK ids \in SUBSET Plans :
            /\ FreshIds(ids)
            /\ status' = [x \in Plans |-> IF x \in ids THEN "pending" ELSE status[x]]
        BY <2>1 DEF CreateCommit
    <3>2. status[p] = "absent" /\ status'[p] = "pending"
        BY <3>1 DEF FreshIds, Plans
    <3>3. QED
        BY <3>2 DEF Forward
  <2>2. ASSUME NEW q \in Plans, DeletePlan(q) PROVE <<status[p], status'[p]>> \in Forward
      BY <2>2, <2>a DEF DeletePlan, Exists, Forward, TypeOK
  <2>3. ASSUME NEW q \in Plans, MarkSucceeded(q) PROVE <<status[p], status'[p]>> \in Forward
      BY <2>3, <2>a DEF MarkSucceeded, Markable, Forward, TypeOK
  <2>4. ASSUME NEW q \in Plans, GenLoad(q) PROVE <<status[p], status'[p]>> \in Forward
      BY <2>4, <2>a DEF GenLoad, Running, TasksMatchPlans, Forward
  <2>5. ASSUME NEW q \in Plans, GenFail(q) \/ GenComplete(q)
        PROVE  <<status[p], status'[p]>> \in Forward
      BY <2>5, <2>a DEF GenFail, GenComplete, TasksMatchPlans, Forward, TypeOK
  <2>6. CASE StartSweep
      BY <2>6, <2>a DEF StartSweep, Orphans, InProgress, OrphanStatuses, Forward
  <2>7. CASE UNCHANGED status
      BY <2>7
  <2>8. QED
      BY <2>1, <2>2, <2>3, <2>4, <2>5, <2>6, <2>7
         DEF Next, RequestStep, CreateRead, EditPrepare, AddVMs, RemoveVMs, MoveToPlan,
             MoveToWave, PatchRead, PatchCommit, Refuse, DeleteVMs, Crash, StartWithoutSweep,
             GenStep, CreateQueue, CreateLost, GenSkip, GenError, GenRecord, GenStale,
             GenNoBackend, Abandon, planVars, vars
<1>2. QED
    BY InvariantHolds, <1>1, PTL DEF Spec, StatusOnlyMovesForward

(***************************************************************************)
(* The members of a plan change only while it is complete: an edit and a   *)
(* generation never write the vm_ids of one plan over each other.          *)
(***************************************************************************)
THEOREM MembershipStable == Spec => MembershipChangesOnlyWhileComplete
<1>1. IInv /\ [Next]_vars => [MembershipStep]_vars
  <2> SUFFICES ASSUME IInv, [Next]_vars, NEW p \in Plans, members'[p] # members[p]
               PROVE  status[p] \in {"absent", "complete"} \/ status'[p] = "deleted"
      BY DEF MembershipStep
  <2>a. TypeOK /\ EditsHoldTheirPlans /\ TasksMatchPlans
      BY DEF IInv
  <2> DEFINE Stays == status[p] \in {"absent", "complete"} \/ status'[p] = "deleted"
  <2>1. ASSUME NEW r \in Requests, CreateCommit(r) PROVE Stays
      BY <2>1, <2>a, CreateCommitOnlyAdds
  <2>2. ASSUME NEW r \in Requests,
               AddVMs(r) \/ RemoveVMs(r) \/ MoveToPlan(r) \/ MoveToWave(r)
        PROVE  Stays
      BY <2>2, <2>a
         DEF AddVMs, RemoveVMs, MoveToPlan, MoveToWave, EditsHoldTheirPlans, EditOps, TypeOK
  <2>3. ASSUME NEW q \in Plans, DeletePlan(q) PROVE Stays
      BY <2>3, <2>a DEF DeletePlan, TypeOK
  <2>4. ASSUME NEW q \in Plans, GenComplete(q) PROVE Stays
      BY <2>4, <2>a DEF GenComplete, TasksMatchPlans, InProgress, OrphanStatuses
  <2>5. CASE UNCHANGED members
      BY <2>5
  <2>6. QED
      BY <2>1, <2>2, <2>3, <2>4, <2>5
         DEF Next, RequestStep, CreateRead, EditPrepare, PatchRead, PatchCommit, Refuse,
             MarkSucceeded, DeleteVMs, Crash, StartSweep, StartWithoutSweep, GenStep, CreateQueue,
           CreateLost, GenSkip,
             GenLoad, GenError, GenFail, GenRecord, GenStale, GenNoBackend, Abandon, planVars,
             vars
<1>2. QED
    BY InvariantHolds, <1>1, PTL DEF Spec, MembershipChangesOnlyWhileComplete

-----------------------------------------------------------------------------
(* A second invariant: the VMs a remove saw planned are members of its plan. *)

RemovesOnlyMembers ==
    \A r \in Requests : txn[r].op = "remove" => txn[r].matched \subseteq members[txn[r].plan]

\* The plan of an open edit gains and loses members by that edit alone.
LEMMA OthersLeaveMembersAlone ==
    ASSUME IInv, [Next]_vars,
           NEW r \in Requests, txn[r].op = "remove", txn'[r] = txn[r],
           IInv'
    PROVE  members'[txn[r].plan] = members[txn[r].plan]
<1> DEFINE p == txn[r].plan
<1>a. /\ TypeOK /\ TasksMatchPlans /\ EditsHoldTheirPlans
      /\ p \in Plans /\ status[p] = "complete"
      /\ TypeOK' /\ status'[p] = "complete"
    BY DEF IInv, EditsHoldTheirPlans, EditOps
<1> HIDE DEF p
<1>b. \A s \in Requests : txn[s].op \in EditOps /\ End(s) =>
          p \notin {txn[s].plan, txn[s].target}
  <2> SUFFICES ASSUME NEW s \in Requests, txn[s].op \in EditOps, End(s)
               PROVE  p \notin {txn[s].plan, txn[s].target}
    OBVIOUS
  <2>1. txn'[s] = NoTxn
    BY <1>a DEF End, TypeOK
  <2>2. s # r
    BY <2>1 DEF NoTxn, VMTxn
  <2>3. QED
    BY <2>2, <1>a DEF p, EditsHoldTheirPlans, EditOps
<1>1. ASSUME NEW s \in Requests, CreateCommit(s) PROVE members'[p] = members[p]
    BY <1>1, <1>a, CreateCommitOnlyAdds
<1>2. ASSUME NEW s \in Requests, AddVMs(s) \/ RemoveVMs(s) \/ MoveToPlan(s) \/ MoveToWave(s)
      PROVE  members'[p] = members[p]
    BY <1>2, <1>a, <1>b DEF AddVMs, RemoveVMs, MoveToPlan, MoveToWave, EditOps, TypeOK
<1>3. ASSUME NEW q \in Plans, DeletePlan(q) PROVE members'[p] = members[p]
    BY <1>3, <1>a DEF DeletePlan, TypeOK
<1>4. ASSUME NEW q \in Plans, GenComplete(q) PROVE members'[p] = members[p]
    BY <1>4, <1>a DEF GenComplete, TasksMatchPlans, TypeOK
<1>5. CASE UNCHANGED members
    BY <1>5
<1>6. QED
    BY <1>1, <1>2, <1>3, <1>4, <1>5
       DEF p, Next, RequestStep, CreateRead, EditPrepare, PatchRead, PatchCommit, Refuse,
           MarkSucceeded, DeleteVMs, Crash, StartSweep, StartWithoutSweep, GenStep, CreateQueue,
           CreateLost, GenSkip,
           GenLoad, GenError, GenFail, GenRecord, GenStale, GenNoBackend, Abandon, planVars,
           vars

\* A step opens a transaction, ends one, or leaves it as it is.
LEMMA TransactionSteps ==
    ASSUME TypeOK, [Next]_vars, NEW r \in Requests, txn'[r] # txn[r], txn'[r].op = "remove"
    PROVE  EditPrepare(r)
<1>1. ASSUME NEW s \in Requests, End(s) PROVE FALSE
    BY <1>1 DEF End, NoTxn, VMTxn, TypeOK
<1>2. ASSUME NEW s \in Requests, CreateRead(s) \/ PatchRead(s) PROVE FALSE
    BY <1>2 DEF CreateRead, PatchRead, VMTxn, TypeOK
<1>3. ASSUME NEW s \in Requests, EditPrepare(s) PROVE s = r
    BY <1>3 DEF EditPrepare, TypeOK
<1>4. CASE Crash
    BY <1>4 DEF Crash, NoTxn, VMTxn
<1>5. CASE UNCHANGED txn
    BY <1>5
<1>6. QED
    BY <1>1, <1>2, <1>3, <1>4, <1>5
       DEF Next, RequestStep, CreateCommit, AddVMs, RemoveVMs, MoveToPlan, MoveToWave,
           PatchCommit, Refuse, DeletePlan,
           MarkSucceeded, DeleteVMs, StartSweep, StartWithoutSweep, GenStep, CreateQueue,
           CreateLost, GenSkip,
           GenLoad, GenError, GenFail, GenComplete, GenRecord, GenStale, GenNoBackend, Abandon,
           vars

(***************************************************************************)
(* What a remove releases belongs to the plan it edits: the plan row is    *)
(* locked from the evaluation of the edit to its commit.                   *)
(***************************************************************************)
THEOREM RemovesReleaseMembers == Spec => []RemovesOnlyMembers
<1>1. Init => RemovesOnlyMembers
    BY DEF Init, RemovesOnlyMembers, NoTxn, VMTxn
<1>2. IInv /\ IInv' /\ RemovesOnlyMembers /\ [Next]_vars => RemovesOnlyMembers'
  <2> SUFFICES ASSUME IInv, IInv', RemovesOnlyMembers, [Next]_vars,
                      NEW r \in Requests, txn'[r].op = "remove"
               PROVE  txn'[r].matched \subseteq members'[txn'[r].plan]
    BY DEF RemovesOnlyMembers
  <2>1. CASE txn'[r] = txn[r]
    BY <2>1, OthersLeaveMembersAlone DEF RemovesOnlyMembers
  <2>2. CASE txn'[r] # txn[r]
    <3>1. EditPrepare(r) /\ TypeOK
      BY <2>2, TransactionSteps DEF IInv
    <3>2. QED
      BY <3>1 DEF EditPrepare, Admissible, TypeOK, planVars
  <2>3. QED
    BY <2>1, <2>2
<1>3. QED
    BY InvariantHolds, <1>1, <1>2, PTL DEF Spec

-----------------------------------------------------------------------------
(* Every step is a step of Commitments, or none *)

Holds(p) == IF Live(p) THEN members[p] ELSE {}
StageMap == [p \in Plans |-> Stage(p)]
HeldMap  == [p \in Plans |-> Holds(p)]

\* What a step must do to the plans and the commitments to be a Take.
LEMMA TakeStep ==
    ASSUME TypeOK, TypeOK', NEW new \in SUBSET Plans,
           \A p \in new : Stage(p) = "absent" /\ Stage(p)' = "working",
           \A p \in Plans \ new : Stage(p)' = Stage(p) /\ Holds(p)' = Holds(p),
           \A p, q \in new : p # q => Holds(p)' \cap Holds(q)' = {},
           In("planned")' = In("planned") \union UNION {Holds(p)' : p \in new}
    PROVE  Contract!Take
<1>1. HeldMap' \in [Plans -> SUBSET VMs]
    BY DEF HeldMap, Holds, TypeOK
<1>2. \A p \in new : HeldMap'[p] = Holds(p)'
    BY DEF HeldMap
<1>3. {HeldMap'[p] : p \in new} = {Holds(p)' : p \in new}
    BY <1>2
<1>4. /\ new \in SUBSET {p \in Plans : StageMap[p] = "absent"}
      /\ StageMap' = [p \in Plans |-> IF p \in new THEN "working" ELSE StageMap[p]]
    BY DEF StageMap
<1>5. /\ \A p \in Plans \ new : HeldMap'[p] = HeldMap[p]
      /\ \A p, q \in new : p # q => HeldMap'[p] \cap HeldMap'[q] = {}
    BY DEF HeldMap
<1>6. In("planned")' = In("planned") \union UNION {HeldMap'[p] : p \in new}
    BY <1>3
<1>7. \E n \in SUBSET {p \in Plans : StageMap[p] = "absent"} :
        /\ StageMap' = [p \in Plans |-> IF p \in n THEN "working" ELSE StageMap[p]]
        /\ HeldMap' \in [Plans -> SUBSET VMs]
        /\ \A p \in Plans \ n : HeldMap'[p] = HeldMap[p]
        /\ \A p, q \in n : p # q => HeldMap'[p] \cap HeldMap'[q] = {}
        /\ In("planned")' = In("planned") \union UNION {HeldMap'[p] : p \in n}
    BY <1>1, <1>4, <1>5, <1>6
<1>8. QED
    BY <1>7, Zenon DEF Contract!Take, StageMap, HeldMap, Holds

\* An edit changes what at most two open plans hold.
LEMMA EditStep ==
    ASSUME TypeOK, TypeOK', NEW p \in Plans, NEW q \in Plans,
           Stage(p) = "open", Stage(q) = "open",
           \A o \in Plans : Stage(o)' = Stage(o),
           \A o \in Plans \ {p, q} : Holds(o)' = Holds(o),
           In("planned") \ In("planned")' \subseteq Holds(p),
           In("planned")' \ In("planned") \subseteq Holds(p)',
           \A v \in In("planned")' : \E o \in Plans : v \in Holds(o)'
    PROVE  Contract!Edit
<1>1. HeldMap' \in [Plans -> SUBSET VMs]
    BY DEF HeldMap, Holds, TypeOK
<1>2. /\ StageMap[p] = "open" /\ StageMap[q] = "open"
      /\ StageMap' = StageMap
    BY DEF StageMap
<1>3. /\ \A o \in Plans \ {p, q} : HeldMap'[o] = HeldMap[o]
      /\ In("planned") \ In("planned")' \subseteq HeldMap[p]
      /\ In("planned")' \ In("planned") \subseteq HeldMap'[p]
    BY DEF HeldMap
<1>4. \A v \in In("planned")' : \E o \in Plans : v \in HeldMap'[o]
    BY DEF HeldMap
<1>5. In("planned")' \subseteq UNION {HeldMap'[o] : o \in Plans}
    BY <1>4
<1>6. \E a, b \in Plans :
        /\ StageMap[a] = "open" /\ StageMap[b] = "open"
        /\ HeldMap' \in [Plans -> SUBSET VMs]
        /\ \A o \in Plans \ {a, b} : HeldMap'[o] = HeldMap[o]
        /\ In("planned") \ In("planned")' \subseteq HeldMap[a]
        /\ In("planned")' \ In("planned") \subseteq HeldMap'[a]
        /\ In("planned")' \subseteq UNION {HeldMap'[o] : o \in Plans}
        /\ StageMap' = StageMap
    BY <1>1, <1>2, <1>3, <1>5
<1>7. QED
    BY <1>6, Zenon DEF Contract!Edit, StageMap, HeldMap, Holds

\* Plans that close release all they hold and nothing else.
LEMMA CloseStep ==
    ASSUME NEW closing \in SUBSET Plans,
           \A p \in closing : /\ Stage(p) \in {"working", "open"}
                              /\ Stage(p)' = "closed"
                              /\ Holds(p)' = {},
           \A p \in Plans \ closing : Stage(p)' = Stage(p) /\ Holds(p)' = Holds(p),
           In("planned")' = In("planned") \ UNION {Holds(p) : p \in closing}
    PROVE  Contract!Close
<1>1. \A p \in closing : HeldMap[p] = Holds(p)
    BY DEF HeldMap
<1>2. {HeldMap[p] : p \in closing} = {Holds(p) : p \in closing}
    BY <1>1
<1>3. closing \in SUBSET {p \in Plans : StageMap[p] \in {"working", "open"}}
    BY DEF StageMap
<1>4. StageMap' = [p \in Plans |-> IF p \in closing THEN "closed" ELSE StageMap[p]]
    BY DEF StageMap
<1>5. HeldMap' = [p \in Plans |-> IF p \in closing THEN {} ELSE HeldMap[p]]
    BY DEF HeldMap
<1>6. \E c \in SUBSET {p \in Plans : StageMap[p] \in {"working", "open"}} :
        /\ StageMap' = [p \in Plans |-> IF p \in c THEN "closed" ELSE StageMap[p]]
        /\ HeldMap' = [p \in Plans |-> IF p \in c THEN {} ELSE HeldMap[p]]
        /\ In("planned")' = In("planned") \ UNION {HeldMap[p] : p \in c}
    BY <1>2, <1>3, <1>4, <1>5
<1>7. QED
    BY <1>6, Zenon DEF Contract!Close, StageMap, HeldMap, Holds

\* A step that changes no plan may only free VMs.
LEMMA FreeStep ==
    ASSUME \A p \in Plans : Stage(p)' = Stage(p) /\ Holds(p)' = Holds(p),
           In("planned")' \subseteq In("planned")
    PROVE  Contract!Free
<1>1. StageMap' = StageMap
    BY DEF StageMap
<1>2. HeldMap' = HeldMap
    BY DEF HeldMap
<1>3. QED
    BY <1>1, <1>2, Zenon DEF Contract!Free, StageMap, HeldMap, Holds

\* One plan opens with what it was given.
LEMMA OpenStep ==
    ASSUME NEW p \in Plans, Stage(p) = "working", Stage(p)' = "open",
           \A o \in Plans \ {p} : Stage(o)' = Stage(o),
           \A o \in Plans : Holds(o)' = Holds(o),
           In("planned")' = In("planned")
    PROVE  Contract!Open
<1>1. StageMap[p] = "working" /\ StageMap' = [StageMap EXCEPT ![p] = "open"]
    BY DEF StageMap
<1>2. HeldMap' = HeldMap
    BY DEF HeldMap
<1>3. QED
    BY <1>1, <1>2, Zenon DEF Contract!Open, StageMap, HeldMap, Holds

\* Stages and holdings are read off the status and the members of a plan.
LEMMA SameRowsSameStage ==
    ASSUME NEW p \in Plans, status'[p] = status[p]
    PROVE  /\ Stage(p)' = Stage(p)
           /\ members'[p] = members[p] => Holds(p)' = Holds(p)
BY DEF Stage, Holds, Live, InProgress, OrphanStatuses

-----------------------------------------------------------------------------

\* A created series takes its selection.
LEMMA CreateCommitTakes ==
    ASSUME IInv, IInv', NEW r \in Requests, CreateCommit(r)
    PROVE  Contract!Take
<1>0. PICK ids \in SUBSET Plans :
         /\ FreshIds(ids)
         /\ \E batch \in [ids -> SUBSET txn[r].vms] :
              /\ Batches(txn[r].vms, ids, batch)
              /\ status' = [p \in Plans |-> IF p \in ids THEN "pending" ELSE status[p]]
              /\ members' = [p \in Plans |-> IF p \in ids THEN batch[p] ELSE members[p]]
    BY DEF CreateCommit
<1>1. PICK batch \in [ids -> SUBSET txn[r].vms] :
         /\ Batches(txn[r].vms, ids, batch)
         /\ status' = [p \in Plans |-> IF p \in ids THEN "pending" ELSE status[p]]
         /\ members' = [p \in Plans |-> IF p \in ids THEN batch[p] ELSE members[p]]
    BY <1>0
<1>2. \A p \in ids : status[p] = "absent"
    BY <1>0, MaxPlansAssumption DEF FreshIds, Plans
<1>3. \A p \in ids : /\ Stage(p) = "absent"
                     /\ Stage(p)' = "working"
                     /\ Holds(p)' = batch[p]
    BY <1>1, <1>2 DEF Stage, Holds, Live, InProgress, OrphanStatuses
<1>4. \A p \in Plans \ ids : Stage(p)' = Stage(p) /\ Holds(p)' = Holds(p)
    BY <1>1, SameRowsSameStage
<1>5. \A p, q \in ids : p # q => Holds(p)' \cap Holds(q)' = {}
    BY <1>1, <1>3 DEF Batches
<1>6. {Holds(p)' : p \in ids} = {batch[p] : p \in ids}
    BY <1>3
<1>7. UNION {Holds(p)' : p \in ids} = txn[r].vms
    BY <1>1, <1>6 DEF Batches
<1>8. txn[r].vms \subseteq VMs
    BY DEF IInv, TypeOK, Txns
<1>9. In("planned")' = In("planned") \union txn[r].vms
    BY <1>8 DEF CreateCommit, In, Apply
<1>10. QED
    BY <1>3, <1>4, <1>5, <1>7, <1>9, TakeStep DEF IInv

\* An edit that commits is an edit of the plans it locked.
LEMMA EditsEdit ==
    ASSUME IInv, IInv', RemovesOnlyMembers, NEW r \in Requests,
           AddVMs(r) \/ RemoveVMs(r) \/ MoveToPlan(r) \/ MoveToWave(r)
    PROVE  Contract!Edit
<1>a. TypeOK /\ TypeOK' /\ DroppedAreGone
    BY DEF IInv
<1>b. PICK p \in Plans, q \in Plans :
        /\ p = txn[r].plan /\ q = txn[r].target
        /\ status[p] = "complete" /\ status[q] = "complete"
    BY DEF IInv, EditsHoldTheirPlans, EditOps, AddVMs, RemoveVMs, MoveToPlan, MoveToWave
<1>c. status' = status
    BY DEF AddVMs, RemoveVMs, MoveToPlan, MoveToWave
<1>d. /\ Stage(p) = "open" /\ Stage(q) = "open"
      /\ Holds(p) = members[p] /\ Holds(p)' = members'[p]
    BY <1>b, <1>c DEF Stage, Holds, Live, InProgress, OrphanStatuses
<1>1. \A o \in Plans : Stage(o)' = Stage(o)
    BY <1>c, SameRowsSameStage
<1>2. \A o \in Plans \ {p, q} : members'[o] = members[o]
    BY <1>a, <1>b DEF AddVMs, RemoveVMs, MoveToPlan, MoveToWave, TypeOK
<1>3. \A o \in Plans \ {p, q} : Holds(o)' = Holds(o)
    BY <1>2, <1>c, SameRowsSameStage
<1>4. In("planned") \ In("planned")' \subseteq Holds(p)
  <2>1. CASE AddVMs(r)
    BY <2>1 DEF AddVMs, In, Apply
  <2>2. CASE RemoveVMs(r)
    BY <2>2, <1>b, <1>d DEF RemoveVMs, In, Apply, RemovesOnlyMembers
  <2>3. CASE MoveToPlan(r) \/ MoveToWave(r)
    BY <2>3 DEF MoveToPlan, MoveToWave, In
  <2>4. QED
    BY <2>1, <2>2, <2>3
<1>5. In("planned")' \ In("planned") \subseteq Holds(p)'
  <2>1. CASE AddVMs(r)
    BY <2>1, <1>a, <1>b, <1>d DEF AddVMs, In, Apply, DroppedAreGone, TypeOK, Rows
  <2>2. CASE RemoveVMs(r)
    BY <2>2 DEF RemoveVMs, In, Apply, ReleasedState
  <2>3. CASE MoveToPlan(r) \/ MoveToWave(r)
    BY <2>3 DEF MoveToPlan, MoveToWave, In
  <2>4. QED
    BY <2>1, <2>2, <2>3
<1>6. \A v \in In("planned")' : \E o \in Plans : v \in Holds(o)'
    BY DEF IInv, CommitmentsHeld, Holder, Holds
<1>7. QED
    BY <1>a, <1>b, <1>d, <1>1, <1>3, <1>4, <1>5, <1>6, EditStep

\* Deleting a live plan closes it, deleting another one frees at most.
LEMMA DeletePlanClosesOrFrees ==
    ASSUME IInv, NEW p \in Plans, DeletePlan(p)
    PROVE  Contract!Close \/ Contract!Free
<1>a. TypeOK
    BY DEF IInv
<1>b. /\ \A o \in Plans \ {p} : status'[o] = status[o] /\ members'[o] = members[o]
      /\ status'[p] = "deleted"
      /\ status[p] \notin {"absent", "deleted"}
      /\ In("planned")' = In("planned") \ members[p]
    BY <1>a DEF DeletePlan, Exists, Release, Apply, ReleasedState, In, TypeOK
<1>c. \A o \in Plans \ {p} : Stage(o)' = Stage(o) /\ Holds(o)' = Holds(o)
    BY <1>b, SameRowsSameStage
<1>d. Stage(p)' = "closed" /\ Holds(p)' = {}
    BY <1>b DEF Stage, Holds, Live, InProgress, OrphanStatuses
<1>1. CASE Live(p)
  <2>1. Stage(p) \in {"working", "open"} /\ Holds(p) = members[p]
    BY <1>1 DEF Stage, Holds, Live, InProgress, OrphanStatuses
  <2>2. In("planned")' = In("planned") \ UNION {Holds(o) : o \in {p}}
    BY <1>b, <2>1
  <2>3. \A o \in {p} : Stage(o) \in {"working", "open"} /\ Stage(o)' = "closed" /\ Holds(o)' = {}
    BY <1>d, <2>1
  <2>4. {p} \in SUBSET Plans
    OBVIOUS
  <2>5. QED
    BY <1>c, <2>2, <2>3, <2>4, CloseStep
<1>2. CASE ~Live(p)
  <2>1. Stage(p) = "closed" /\ Holds(p) = {}
    BY <1>2, <1>b DEF Stage, Holds, Live, InProgress, OrphanStatuses
  <2>2. \A o \in Plans : Stage(o)' = Stage(o) /\ Holds(o)' = Holds(o)
    BY <1>c, <1>d, <2>1
  <2>3. QED
    BY <2>2, <1>b, FreeStep
<1>3. QED
    BY <1>1, <1>2

\* Marking a complete plan closes it, marking a migrated one again frees at most.
LEMMA MarkSucceededClosesOrFrees ==
    ASSUME IInv, NEW p \in Plans, MarkSucceeded(p)
    PROVE  Contract!Close \/ Contract!Free
<1>a. TypeOK
    BY DEF IInv
<1>b. /\ \A o \in Plans \ {p} : status'[o] = status[o]
      /\ members' = members
      /\ status'[p] = "migrated"
      /\ status[p] \in {"complete", "migrated"}
      /\ In("planned")' = In("planned") \ members[p]
    BY <1>a DEF MarkSucceeded, Markable, Apply, In, TypeOK
<1>c. \A o \in Plans \ {p} : Stage(o)' = Stage(o) /\ Holds(o)' = Holds(o)
    BY <1>b, SameRowsSameStage
<1>d. Stage(p)' = "closed" /\ Holds(p)' = {}
    BY <1>b DEF Stage, Holds, Live, InProgress, OrphanStatuses
<1>1. CASE status[p] = "complete"
  <2>1. Stage(p) = "open" /\ Holds(p) = members[p]
    BY <1>1 DEF Stage, Holds, Live, InProgress, OrphanStatuses
  <2>2. In("planned")' = In("planned") \ UNION {Holds(o) : o \in {p}}
    BY <1>b, <2>1
  <2>3. \A o \in {p} : Stage(o) \in {"working", "open"} /\ Stage(o)' = "closed" /\ Holds(o)' = {}
    BY <1>d, <2>1
  <2>4. {p} \in SUBSET Plans
    OBVIOUS
  <2>5. QED
    BY <1>c, <2>2, <2>3, <2>4, CloseStep
<1>2. CASE status[p] = "migrated"
  <2>1. Stage(p) = "closed" /\ Holds(p) = {}
    BY <1>2 DEF Stage, Holds, Live, InProgress, OrphanStatuses
  <2>2. \A o \in Plans : Stage(o)' = Stage(o) /\ Holds(o)' = Holds(o)
    BY <1>c, <1>d, <2>1
  <2>3. QED
    BY <2>2, <1>b, FreeStep
<1>3. QED
    BY <1>b, <1>1, <1>2

\* A plan that finishes opens with what it took, one that fails lets go of it.
LEMMA GenStepSteps ==
    ASSUME IInv, NEW p \in Plans, GenStep(p)
    PROVE  Contract!Open \/ Contract!Close \/ Contract!Free
<1>a. TypeOK /\ TasksMatchPlans
    BY DEF IInv
<1>1. CASE GenComplete(p)
  <2>1. /\ \A o \in Plans \ {p} : status'[o] = status[o]
        /\ status[p] = "generating" /\ status'[p] = "complete"
        /\ members' = members
        /\ In("planned")' = In("planned")
    BY <1>1, <1>a
       DEF GenComplete, TasksMatchPlans, InProgress, OrphanStatuses, In, TypeOK
  <2>2. /\ Stage(p) = "working" /\ Stage(p)' = "open"
        /\ Holds(p)' = Holds(p)
    BY <2>1 DEF Stage, Holds, Live, InProgress, OrphanStatuses
  <2>3. \A o \in Plans \ {p} : Stage(o)' = Stage(o) /\ Holds(o)' = Holds(o)
    BY <2>1, SameRowsSameStage
  <2>4. QED
    BY <2>1, <2>2, <2>3, OpenStep
<1>2. CASE GenFail(p)
  <2>1. /\ \A o \in Plans \ {p} : status'[o] = status[o]
        /\ status[p] = "generating" /\ status'[p] = "failed"
        /\ members' = members
        /\ In("planned")' = In("planned") \ members[p]
    BY <1>2, <1>a DEF GenFail, TasksMatchPlans, Release, Apply, ReleasedState, In, TypeOK
  <2>2. /\ Stage(p) = "working" /\ Stage(p)' = "closed"
        /\ Holds(p) = members[p] /\ Holds(p)' = {}
    BY <2>1 DEF Stage, Holds, Live, InProgress, OrphanStatuses
  <2>3. \A o \in Plans \ {p} : Stage(o)' = Stage(o) /\ Holds(o)' = Holds(o)
    BY <2>1, SameRowsSameStage
  <2>4. \A o \in {p} : Stage(o) \in {"working", "open"} /\ Stage(o)' = "closed" /\ Holds(o)' = {}
    BY <2>2
  <2>5. In("planned")' = In("planned") \ UNION {Holds(o) : o \in {p}}
    BY <2>1, <2>2
  <2>6. {p} \in SUBSET Plans
    OBVIOUS
  <2>7. QED
    BY <2>3, <2>4, <2>5, <2>6, CloseStep
<1>3. CASE GenLoad(p)
  <2>1. /\ \A o \in Plans \ {p} : status'[o] = status[o]
        /\ status[p] = "pending" /\ status'[p] = "generating"
        /\ members' = members
        /\ In("planned")' = In("planned")
    BY <1>3, <1>a DEF GenLoad, Running, TasksMatchPlans, In, TypeOK
  <2>2. Stage(p)' = Stage(p) /\ Holds(p)' = Holds(p)
    BY <2>1 DEF Stage, Holds, Live, InProgress, OrphanStatuses
  <2>3. \A o \in Plans \ {p} : Stage(o)' = Stage(o) /\ Holds(o)' = Holds(o)
    BY <2>1, SameRowsSameStage
  <2>4. \A o \in Plans : Stage(o)' = Stage(o) /\ Holds(o)' = Holds(o)
    BY <2>2, <2>3
  <2>5. QED
    BY <2>1, <2>4, FreeStep
<1>4. CASE \/ CreateQueue(p) \/ CreateLost(p) \/ GenSkip(p) \/ GenError(p)
           \/ GenRecord(p) \/ GenStale(p) \/ GenNoBackend(p)
  <2>1. status' = status /\ members' = members /\ In("planned")' = In("planned")
    BY <1>4
       DEF CreateQueue, CreateLost, GenSkip, GenError, GenRecord, GenStale, GenNoBackend,
           Abandon, In
  <2>2. \A o \in Plans : Stage(o)' = Stage(o) /\ Holds(o)' = Holds(o)
    BY <2>1, SameRowsSameStage
  <2>3. QED
    BY <2>1, <2>2, FreeStep
<1>5. QED
    BY <1>1, <1>2, <1>3, <1>4 DEF GenStep

\* The sweep closes every plan that was in progress.
LEMMA SweepCloses ==
    ASSUME IInv, StartSweep
    PROVE  Contract!Close
<1>a. TypeOK
    BY DEF IInv
<1>1. Orphans \in SUBSET Plans
    BY DEF Orphans
<1>2. \A p \in Orphans : /\ status[p] \in {"pending", "generating"}
                         /\ status'[p] = "failed"
    BY DEF StartSweep, Orphans, InProgress, OrphanStatuses
<1>3. \A p \in Plans \ Orphans : status'[p] = status[p] /\ members'[p] = members[p]
    BY DEF StartSweep, Orphans
<1>4. \A p \in Orphans : /\ Stage(p) \in {"working", "open"}
                         /\ Stage(p)' = "closed"
                         /\ Holds(p)' = {}
    BY <1>1, <1>2 DEF Stage, Holds, Live, InProgress, OrphanStatuses
<1>5. \A p \in Orphans : Holds(p) = members[p]
    BY <1>1, <1>2 DEF Holds, Live
<1>6. \A p \in Plans \ Orphans : Stage(p)' = Stage(p) /\ Holds(p)' = Holds(p)
    BY <1>3, SameRowsSameStage
<1>7. {Holds(p) : p \in Orphans} = {members[p] : p \in Orphans}
    BY <1>5
<1>8. In("planned")' = In("planned") \ UNION {members[p] : p \in Orphans}
    BY <1>a DEF StartSweep, Release, Apply, ReleasedState, In, TypeOK
<1>9. In("planned")' = In("planned") \ UNION {Holds(p) : p \in Orphans}
    BY <1>7, <1>8
<1>10. QED
    BY <1>1, <1>4, <1>6, <1>9, CloseStep

\* What reads, refuses, stops or deletes VMs changes no plan and plans no VM.
LEMMA OtherStepsFree ==
    ASSUME UNCHANGED <<status, members>>, In("planned")' \subseteq In("planned")
    PROVE  Contract!Free
<1>1. \A o \in Plans : Stage(o)' = Stage(o) /\ Holds(o)' = Holds(o)
    BY SameRowsSameStage
<1>2. QED
    BY <1>1, FreeStep

(***************************************************************************)
(* The requests, tasks, sweep and crashes of PlanLifecycle implement the   *)
(* contract of Commitments: no VM is planned without the plan that takes   *)
(* it, a plan opens with what it took, only edits exchange VMs between     *)
(* open plans, and closing a plan frees all it held.                       *)
(***************************************************************************)
THEOREM CommitmentsKept == Spec => KeepsCommitments
<1>1. Init => Contract!Init
  <2> SUFFICES ASSUME Init PROVE Contract!Init
    OBVIOUS
  <2>1. In("planned") = {}
    BY DEF Init, In
  <2>2. \A p \in Plans : Stage(p) = "absent" /\ ~Live(p)
    BY DEF Init, Stage, Live, InProgress, OrphanStatuses
  <2>3. QED
    BY <2>1, <2>2 DEF Contract!Init
<1>2. IInv /\ IInv' /\ RemovesOnlyMembers /\ [Next]_vars => [Contract!Next]_Contract!vars
  <2> SUFFICES ASSUME IInv, IInv', RemovesOnlyMembers, [Next]_vars PROVE Contract!Next
    OBVIOUS
  <2>1. ASSUME NEW r \in Requests, CreateCommit(r) PROVE Contract!Next
    BY <2>1, CreateCommitTakes DEF Contract!Next
  <2>2. ASSUME NEW r \in Requests,
               AddVMs(r) \/ RemoveVMs(r) \/ MoveToPlan(r) \/ MoveToWave(r)
        PROVE  Contract!Next
    BY <2>2, EditsEdit DEF Contract!Next
  <2>3. ASSUME NEW p \in Plans, DeletePlan(p) PROVE Contract!Next
    BY <2>3, DeletePlanClosesOrFrees DEF Contract!Next
  <2>4. ASSUME NEW p \in Plans, MarkSucceeded(p) PROVE Contract!Next
    BY <2>4, MarkSucceededClosesOrFrees DEF Contract!Next
  <2>5. ASSUME NEW p \in Plans, GenStep(p) PROVE Contract!Next
    BY <2>5, GenStepSteps DEF Contract!Next
  <2>6. CASE StartSweep
    BY <2>6, SweepCloses DEF Contract!Next
  <2>7. ASSUME UNCHANGED <<status, members>>, In("planned")' \subseteq In("planned")
        PROVE  Contract!Next
    BY <2>7, OtherStepsFree DEF Contract!Next
  <2>8. ASSUME NEW r \in Requests, CreateRead(r) \/ EditPrepare(r) \/ PatchRead(r) \/ Refuse(r)
        PROVE  UNCHANGED <<status, members>> /\ In("planned")' \subseteq In("planned")
    BY <2>8 DEF CreateRead, EditPrepare, PatchRead, Refuse, planVars, In
  <2>9. ASSUME NEW r \in Requests, PatchCommit(r)
        PROVE  UNCHANGED <<status, members>> /\ In("planned")' \subseteq In("planned")
    BY <2>9 DEF PatchCommit, PatchTarget, Apply, planVars, In
  <2>10. CASE DeleteVMs
    <3>1. UNCHANGED <<status, members>> /\ In("planned")' \subseteq In("planned")
      BY <2>10 DEF DeleteVMs, Apply, planVars, In
    <3>2. QED
      BY <2>7, <3>1
  <2>11. CASE Crash \/ StartWithoutSweep \/ UNCHANGED vars
    <3>1. UNCHANGED <<status, members>> /\ In("planned")' \subseteq In("planned")
      BY <2>11 DEF Crash, StartWithoutSweep, planVars, vars, In
    <3>2. QED
      BY <2>7, <3>1
  <2>12. QED
    BY <2>1, <2>2, <2>3, <2>4, <2>5, <2>6, <2>7, <2>8, <2>9, <2>10, <2>11
       DEF Next, RequestStep
<1>3. QED
    BY InvariantHolds, RemovesReleaseMembers, <1>1, <1>2, PTL
       DEF Spec, KeepsCommitments, Contract!Spec

=============================================================================
