------------------------------ MODULE PlanWaves ------------------------------
(***************************************************************************)
(* The waves of one migration plan: manual edits that rearrange them       *)
(* (core/plan_edit.py), the background tasks that ask the LLM to explain   *)
(* the waves an edit touched (core/plan_reannotation.py), the startup      *)
(* sweep over the explanations a stopped process left queued, and the      *)
(* collection runs that refer to a wave by its number.                     *)
(*                                                                         *)
(* An edit locks the plan row, evaluates and writes: one step.  A task     *)
(* reads the waves, asks the model, locks the row and copies the waves,    *)
(* then logs the first inference.  record_inference commits, and that      *)
(* commit releases the lock: the copy is written back in a later step.     *)
(***************************************************************************)
EXTENDS Integers, FiniteSets

CONSTANTS
    VMs,         \* inventory rows
    MaxNumber,   \* bound: wave numbers
    MaxTasks,    \* bound: re-annotation tasks ever queued
    Collected    \* bound: the wave numbers runs are started for

ASSUME MaxNumberAssumption == MaxNumber \in Nat \ {0}
ASSUME MaxTasksAssumption == MaxTasks \in Nat
ASSUME CollectedAssumption == Collected \subseteq 1..MaxNumber

VARIABLES
    rows,      \* VMs that are in the inventory
    status,    \* MigrationPlan.status
    waves,     \* MigrationPlan.waves, by wave_number; a number without VMs has no document
    vmIds,     \* MigrationPlan.vm_ids
    seq,       \* MigrationPlan.wave_number_seq
    task,      \* the re-annotation tasks
    lastTask,  \* how many were queued so far
    kick,      \* the wave a kick-off request has read, 0 if none
    run,       \* collection runs of a wave number
    up         \* is the backend process serving

vars == <<rows, status, waves, vmIds, seq, task, lastTask, kick, run, up>>

Numbers == 1..MaxNumber
Tasks   == 1..MaxTasks

\* text: the VMs the wave's description was written about.
\* token: the request that stamped the wave last; a token is a uuid of one
\* wave, but a task compares the tokens of its own request only.
Docs == [vms : SUBSET VMs, text : SUBSET VMs, token : Tasks \union {0},
         state : {"none", "queued", "done", "abandoned"}]

NoDoc == [vms |-> {}, text |-> {}, token |-> 0, state |-> "none"]
Waves == [Numbers -> Docs]

NoWaves == [n \in Numbers |-> NoDoc]
NoJobs  == [n \in Numbers |-> {}]

\* tokens: the waves it was queued for.  jobs: the VMs it asks the model about,
\* per wave.  copy: the waves as of its second read.
TaskRecords == [phase : {"none", "queued", "asked", "copied"}, tokens : SUBSET Numbers,
                jobs : [Numbers -> SUBSET VMs], copy : Waves]

NoTask == [phase |-> "none", tokens |-> {}, jobs |-> NoJobs, copy |-> NoWaves]

\* "lost" stands for a run whose process stopped: still in progress by its status.
RunStates == {"none", "active", "lost", "over"}

TypeOK ==
    /\ rows \subseteq VMs
    /\ status \in {"complete", "migrated", "deleted"}
    /\ waves \in Waves
    /\ vmIds \subseteq VMs
    /\ seq \in Numbers \union {0}
    /\ task \in [Tasks -> TaskRecords]
    /\ lastTask \in Tasks \union {0}
    /\ kick \in Numbers \union {0}
    /\ run \in [Numbers -> RunStates]
    /\ up \in BOOLEAN

-----------------------------------------------------------------------------
(* Helpers *)

Keys(ws)    == {n \in Numbers : ws[n].vms # {}}
Members(ws) == UNION {ws[n].vms : n \in Numbers}

Highest(S) == CHOOSE x \in S : \A y \in S : y <= x

Busy(n) == run[n] \in {"active", "lost"}

\* next_wave_number: past every number this plan ever used.
NextNumber_IgnoresSeq == Highest({0} \union Keys(waves)) + 1
NextNumber == Highest({seq} \union Keys(waves)) + 1

Init ==
    /\ rows = VMs
    /\ status = "complete"
    /\ \E vs \in (SUBSET VMs) \ {{}}, k \in Numbers :
          \E at \in [vs -> 1..k] :
             /\ \A n \in 1..k : \E v \in vs : at[v] = n
             /\ waves = [n \in Numbers |->
                           LET here == {v \in vs : at[v] = n}
                           IN  [NoDoc EXCEPT !.vms = here, !.text = here]]
             /\ vmIds = vs
    /\ seq = 0
    /\ task = [t \in Tasks |-> NoTask]
    /\ lastTask = 0
    /\ kick = 0
    /\ run = [n \in Numbers |-> "none"]
    /\ up = TRUE

-----------------------------------------------------------------------------
(* POST /api/plans/{id}/edits, seen by one plan: VMs leave it (remove,      *)
(* move_to_plan), enter it (add, move_to_plan) or change their wave.        *)

\* The VM ids of wave n once vs are in wave dest, 0 for none of this plan's.
After_Copies(vs, dest, n) == IF n = dest THEN waves[n].vms \union vs ELSE waves[n].vms
After(vs, dest, n) == IF n = dest THEN waves[n].vms \union vs ELSE waves[n].vms \ vs

Touched(vs, dest) == {n \in Numbers : After(vs, dest, n) # waves[n].vms}

\* A rebuilt wave loses the VMs without an inventory row.
Rebuilt(vs, dest, n) == After(vs, dest, n) \intersect rows

\* The waves of the edit that are left and that task t is to explain.
Explained(vs, dest) == {n \in Touched(vs, dest) : Rebuilt(vs, dest, n) # {}}

EditedWaves(vs, dest) ==
    [n \in Numbers |->
        IF n \notin Touched(vs, dest) THEN waves[n]
        ELSE IF n \notin Explained(vs, dest) THEN NoDoc
        ELSE [vms |-> Rebuilt(vs, dest, n), text |-> Rebuilt(vs, dest, n),
              token |-> lastTask + 1, state |-> "queued"]]

\* What prepare() refuses.
Allowed(vs, dest) ==
    /\ vs # {} /\ vs \subseteq rows
    /\ vs \subseteq Members(waves) \/ vs \intersect Members(waves) = {}
    /\ dest = 0 => vs \subseteq Members(waves)
    /\ dest # 0 => dest \in Keys(waves) \union {NextNumber}
    /\ Touched(vs, dest) # {}
    /\ \E n \in Numbers : After(vs, dest, n) # {}
    /\ \A n \in Touched(vs, dest) \intersect Keys(waves) : ~Busy(n)

Queue(ns) ==
    IF ns = {} THEN UNCHANGED <<task, lastTask>>
    ELSE /\ lastTask < MaxTasks
         /\ lastTask' = lastTask + 1
         /\ task' = [task EXCEPT ![lastTask + 1] =
                       [NoTask EXCEPT !.phase = "queued", !.tokens = ns]]

Edit(vs, dest) ==
    /\ up
    /\ status = "complete"
    /\ dest \in Numbers \union {0}
    /\ Allowed(vs, dest)
    /\ waves' = EditedWaves(vs, dest)
    /\ vmIds' = Members(EditedWaves(vs, dest))
    /\ seq' = Highest({seq, dest} \union Keys(waves))
    /\ Queue(Explained(vs, dest))
    /\ UNCHANGED <<rows, status, kick, run, up>>

\* POST /api/plans/{id}/waves/{n}/reannotate
Reannotate(n) ==
    /\ up
    /\ status = "complete"
    /\ n \in Keys(waves)
    /\ waves' = [waves EXCEPT ![n].token = lastTask + 1, ![n].state = "queued"]
    /\ Queue({n})
    /\ UNCHANGED <<rows, status, vmIds, seq, kick, run, up>>

-----------------------------------------------------------------------------
(* reannotate_waves_task *)

Done(t) == task' = [task EXCEPT ![t] = NoTask]

Stamped_Any(ws, t) == {n \in task[t].tokens : ws[n].vms # {}}
Stamped(ws, t) == {n \in task[t].tokens : ws[n].token = t}

\* What the model is asked: the waves that still carry the task's token.
Questions(t) ==
    [n \in Numbers |-> IF n \in Stamped(waves, t) THEN waves[n].vms \intersect rows ELSE {}]

TaskAsk(t) ==
    /\ task[t].phase = "queued"
    /\ IF status # "complete" \/ Questions(t) = NoJobs
       THEN Done(t)
       ELSE task' = [task EXCEPT ![t].phase = "asked", ![t].jobs = Questions(t)]
    /\ UNCHANGED <<rows, status, waves, vmIds, seq, lastTask, kick, run, up>>

\* The row is locked and read afresh, then the first record_inference commits.
TaskCopy(t) ==
    /\ task[t].phase = "asked"
    /\ IF status = "deleted"
       THEN Done(t)
       ELSE task' = [task EXCEPT ![t].phase = "copied", ![t].copy = waves]
    /\ UNCHANGED <<rows, status, waves, vmIds, seq, lastTask, kick, run, up>>

Answered(t) == {n \in Stamped(task[t].copy, t) : task[t].jobs[n] # {}}

\* The waves that stop waiting, whether the model or the fallback wrote the text.
Settled_LlmOnly(t, llm) == llm
Settled(t, llm) == Answered(t)

\* The copy, with the answer in the waves the model answered and the mechanical
\* text kept in the others.  The row may be gone: StaleDataError, swallowed.
TaskWrite(t) ==
    /\ task[t].phase = "copied"
    /\ Done(t)
    /\ IF Answered(t) = {} \/ status = "deleted"
       THEN UNCHANGED waves
       ELSE \E llm \in SUBSET Answered(t) :
               waves' = [n \in Numbers |->
                           IF n \notin Answered(t) THEN task[t].copy[n]
                           ELSE [task[t].copy[n] EXCEPT
                                   !.state = IF n \in Settled(t, llm) THEN "done" ELSE @,
                                   !.text = IF n \in llm THEN task[t].jobs[n] ELSE @]]
    /\ UNCHANGED <<rows, status, vmIds, seq, lastTask, kick, run, up>>

TaskStep(t) == TaskAsk(t) \/ TaskCopy(t) \/ TaskWrite(t)

-----------------------------------------------------------------------------
(* Collection runs, as far as a wave number is concerned *)

KickRead(n) ==
    /\ up
    /\ status # "deleted"
    /\ kick = 0
    /\ n \in Keys(waves) \intersect Collected
    /\ waves[n].vms \subseteq rows
    /\ kick' = n
    /\ UNCHANGED <<rows, status, waves, vmIds, seq, task, lastTask, run, up>>

KickInsert ==
    /\ kick # 0
    /\ status # "deleted"
    /\ run' = [run EXCEPT ![kick] = IF @ = "lost" THEN @ ELSE "active"]
    /\ kick' = 0
    /\ UNCHANGED <<rows, status, waves, vmIds, seq, task, lastTask, up>>

KickRefuse ==
    /\ kick # 0
    /\ kick' = 0
    /\ UNCHANGED <<rows, status, waves, vmIds, seq, task, lastTask, run, up>>

RunEnds(n) ==
    /\ run[n] = "active"
    /\ run' = [run EXCEPT ![n] = "over"]
    /\ UNCHANGED <<rows, status, waves, vmIds, seq, task, lastTask, kick, up>>

-----------------------------------------------------------------------------
(* The rest of the system *)

\* mark-succeeded, DELETE /api/plans/{id}
PlanEnds ==
    /\ up
    /\ \/ status = "complete" /\ status' = "migrated"
       \/ status # "deleted" /\ status' = "deleted"
    /\ UNCHANGED <<rows, waves, vmIds, seq, task, lastTask, kick, run, up>>

DeleteVMs ==
    /\ up
    /\ \E gone \in (SUBSET rows) \ {{}} : rows' = rows \ gone
    /\ UNCHANGED <<status, waves, vmIds, seq, task, lastTask, kick, run, up>>

Crash ==
    /\ up
    /\ up' = FALSE
    /\ task' = [t \in Tasks |-> NoTask]
    /\ kick' = 0
    /\ run' = [n \in Numbers |-> IF run[n] = "active" THEN "lost" ELSE run[n]]
    /\ UNCHANGED <<rows, status, waves, vmIds, seq, lastTask>>

AbandonedState == "abandoned"

\* abandon_stale_reannotations, of plans in "complete".
Swept == [n \in Numbers |-> IF status = "complete" /\ waves[n].state = "queued"
                            THEN [waves[n] EXCEPT !.state = AbandonedState]
                            ELSE waves[n]]

\* The start goes on when the sweep raises.
Start ==
    /\ ~up
    /\ up' = TRUE
    /\ waves' \in {Swept, waves}
    /\ UNCHANGED <<rows, status, vmIds, seq, task, lastTask, kick, run>>

Next ==
    \/ \E vs \in SUBSET VMs, dest \in Numbers \union {0} : Edit(vs, dest)
    \/ \E n \in Numbers : Reannotate(n) \/ KickRead(n) \/ RunEnds(n)
    \/ KickInsert \/ KickRefuse
    \/ \E t \in Tasks : TaskStep(t)
    \/ PlanEnds \/ DeleteVMs \/ Crash \/ Start

Spec == Init /\ [][Next]_vars

\* A model call returns or times out, and mechanical text stands in for it.
Fairness == \A t \in Tasks : WF_vars(TaskStep(t))

FairSpec == Spec /\ Fairness

-----------------------------------------------------------------------------
(* Safety *)

(***************************************************************************)
(* An operator who reads a wave's rationale reads about the VMs that are   *)
(* in it: whatever edits, answers and deletions came in between, the text  *)
(* of a wave is about its VMs, at most short of those deleted since.       *)
(***************************************************************************)
TextDescribesWave ==
    \A n \in Numbers : /\ waves[n].text \subseteq waves[n].vms
                       /\ waves[n].vms \intersect rows \subseteq waves[n].text

(***************************************************************************)
(* No VM is in two waves, whichever task or edit wrote the waves last: the *)
(* membership_corrupt check of _rebuild_plan never fires.                  *)
(***************************************************************************)
WavesDisjoint ==
    \A m, n \in Numbers : m # n => waves[m].vms \intersect waves[n].vms = {}

(***************************************************************************)
(* A wave number identifies one wave for good: no edit opens a new wave    *)
(* under a number that a run was recorded for or is being started for,     *)
(* so a baseline never passes for that of other VMs.                       *)
(***************************************************************************)
OpensWave(n) == n \notin Keys(waves) /\ lastTask' # lastTask /\ waves'[n].vms # {}

NewWavesHaveNewNumbers ==
    [][\A n \in Numbers : OpensWave(n) => run[n] = "none" /\ kick # n]_vars

(***************************************************************************)
(* A task that is queued comes to where every wave that still carries its  *)
(* stamp has its answer, unless the plan stops being complete, the VMs of  *)
(* the wave are deleted from the inventory or the process stops.           *)
(***************************************************************************)
AnswersLand ==
    \A t \in Tasks :
        task[t].phase = "queued" /\ up
            ~> \/ \A n \in Numbers : \/ waves[n].state = "done" \/ waves[n].token # t
                                      \/ waves[n].vms \intersect rows = {}
               \/ status # "complete" \/ ~up

-----------------------------------------------------------------------------
(* What the repository says and the code does not do *)

(***************************************************************************)
(* core/plan_reannotation.py: "The LLM cannot change structure" and "A     *)
(* later edit - including one that moves a VM out and back - wins": a task *)
(* that ends leaves every VM in the wave it is in.                         *)
(***************************************************************************)
LaterEditWins ==
    [][\A t \in Tasks : task[t].phase = "copied" /\ task'[t].phase = "none"
          => \A n \in Numbers : waves'[n].vms = waves[n].vms]_vars

=============================================================================
