# VirtValidate: a TLA+ model of its migration planning and collection

VirtValidate plans the migration of virtual machines (VMs) from vCenter to
OpenShift Virtualization and checks, over SSH, that a VM is the same afterwards. Operators
import an inventory, select VMs, have the backend generate *plans* made of *waves*,
rearrange the waves by hand, capture *baselines* of a wave, and *validate* the VMs
against them after the migration.

The backend is one FastAPI process (`replicas: 1`, `strategy: Recreate`) on a
PostgreSQL database. Request handlers and background tasks run on a thread pool, each
with its own SQLAlchemy session; what they share is the database. Three facts about
that set-up shape every model here:

- a session keeps what it read. `autoflush` is off and a later `SELECT ... FOR UPDATE`
  without `populate_existing` takes the lock but leaves attributes already loaded as they
  were, so a handler can decide on values older than its lock;
- a commit ends the transaction and with it every row lock the handler took, also when
  the commit is hidden in a helper such as `record_inference`;
- a background task lives in memory only. When the process stops, tasks are lost and the
  rows they were working on keep their status; the next start sweeps some of them.

## 1. Inventory

Paths are relative to `src/backend/app/`.

| Component | State | Operations | What makes it correct |
|---|---|---|---|
| VM lifecycle (`core/vm_lifecycle.py`) | `VM.lifecycle_state` | plan, release, mark migrated, revert, reopen; deletion of rows | a planned VM is held by a plan that may still use or release it |
| Plans (`api/plans.py`) | `MigrationPlan` rows: status, `vm_ids`, series | create (a series of rows at once), delete, mark succeeded | a VM is committed to one live plan; the status moves forward only |
| Generation (`core/plan_generation.py`) | one background task per plan, in order within a series | validate, run the pipeline, write waves, fail and release | every plan leaves its in-progress status; failure releases the VMs |
| Startup sweeps (`core/startup.py`, `main.py`) | none of its own | fail orphaned plans, abandon queued explanations, fail orphaned imports | nothing stays in progress without a task |
| Manual edits (`core/plan_edit.py`, `api/plan_edits.py`) | the waves of a plan, `wave_number_seq` | add, remove, move to a wave, move to a plan, dry run | waves are disjoint, numbers are never reused, a wave with a run in progress is left alone |
| Re-annotation (`core/plan_reannotation.py`) | tokens and states inside the wave documents | queue, ask the LLM, write back | the text of a wave is about its VMs; the write back undoes no edit; every queued text arrives |
| Runs (`api/waves.py`, `core/collection/wave_jobs.py`) | `BaselineRun`, `ValidationRun` and their per-VM rows | kick off, retry failed, run, record each result | a verdict rests on a completed capture; a run ends |
| Collection batch (`core/collection/orchestrator.py`) | semaphores, failure streaks, tripped breakers | run a batch | caps hold, the breaker follows the results, the batch returns |
| Collection engine (`core/ssh.py`, `core/collection/engine.py`) | none | connect, run commands, parse, categorize | one result per VM whatever the host does |
| Import jobs (`core/import_jobs.py`, `api/imports.py`) | `ImportJob` rows, uploaded files, VM rows | upload, scan, start, cancel, batches, missing sweep | one import at a time; missing flags match the file |
| Planning pipeline (`core/plan_pipeline.py`, `preclassifier.py`, `wave_skeleton.py`, `family.py`, `concurrency.py`, `plan_chunking.py`) | the stage of a task | partition, group, pack, colour, annotate, emit | every VM in exactly one wave, limits respected |
| Target resolution, mappings (`core/target_resolution.py`, `mapping_*.py`, `mtv.py`) | none (pure) | resolve, Stage 0, preflight, emit | readers of one mapping agree |
| Target catalog (`api/target_entities.py`, `targets.py`) | clusters, networks, storage classes, namespaces, mappings | CRUD, paste import | one default per type; no reference left dangling |
| Capture and validation of single VMs (`core/capture.py`, `validation*.py`, `bulk_*.py`, `scheduler.py`) | in-memory jobs, snapshots, results, LLM cache, `VM.status` | capture, validate, in bulk, on schedule | the status is the latest verdict; a verdict has an author |
| LLM backends, inference log (`core/llm/`) | active backend, log rows | configure, call, record, probe | a failed call falls back to rules or review |
| RVTools parser, assessment, reviews, keys, settings, audit, reports, health | rows, files | parsing, formatting, CRUD | no protocol of their own |
| Frontend | none authoritative | polls the API | - |

How they interact: the API handlers call the lifecycle functions in their own
transaction; creating a plan queues generation tasks, an edit queues a re-annotation task,
a kick-off queues a collection task. A collection task calls the orchestrator, which calls
back once per VM into the task's session. Deleting VMs cascades to the per-VM rows of runs
but not to the `vm_ids` and waves of plans, which are JSON. Runs refer to waves by number.

What is hard about it: overlapping requests that decide on stale reads; tasks that write
back what they copied before an edit; deletions under a running task; a process that stops
between any two commits; failures inside a callback that poison a shared session; caps and
breakers that many coroutines check and change. `PROJECT.json` lists these hazards line by line,
each with the properties that would catch it, or the reason none does yet.

## 2. Plan of the project

Done, in this order:

1. `PlanLifecycle` - who holds which VM: requests, generation, sweeps, crashes.
2. `PlanWaves` - edits, re-annotation and runs over the waves of one plan.
3. `WaveRuns` - baseline and validation runs, per-VM results, deletions.
4. `CollectionBatch`, on `SSHCollector` - the orchestrator under the runs and what a host leads to.
5. `ImportJobs` - uploads, scans, batches, cancels, the missing sweep and the start's.
6. `Preclassifier`, `WaveSkeleton`, `TargetMapping`, `MappingChecks`, `WaveMaps`: the pure
   algorithms, and `PlanPipeline`, one plan from selection to YAML over them.
7. `PlanEdits` - the rules of manual edits, over the same algorithms.
8. `TargetCatalog` - CRUD of clusters, their catalog and mappings, without foreign keys.
9. `StateDiff`, `LLMBackends`, `Validations` - captures and validations of single VMs.
10. `Commitments` - the abstract specification that `PlanLifecycle` implements.
11. Proofs: invariants and the refinement of `PlanLifecycle`, invariants and action properties of
    `PlanWaves`, `WaveRuns`, `CollectionBatch`, `ImportJobs`, `TargetCatalog`, `PlanEdits`,
    `Validations` and `PlanPipeline`: every safety property that a run checks.

Next:

12. The key revocation of a wave, the cache of the active backend, the mapping suggestions.

How the modules use each other:

```
Preclassifier <- WaveSkeleton <-+- PlanPipeline
                                +- PlanEdits
TargetMapping <-+- MappingChecks <- WaveMaps <- PlanPipeline
                +- PlanEdits
                +- TargetCatalog
StateDiff, LLMBackends <- Validations        SSHCollector <- CollectionBatch, MCValidations
Commitments <- PlanLifecycle (INSTANCE)
M <- MProof for PlanLifecycle, PlanWaves, ImportJobs, PlanEdits, TargetCatalog, Validations
     and PlanPipeline
WaveRuns, CollectionBatch <- CollectionProof
```

## 3. The modules

### PlanLifecycle

State: `lifecycle` per VM; `status`, `members`, `series`, `task`, `gen` per plan row; `txn` per
request in flight; `up` and `faults` of the process. Deleted rows stay as "deleted" so that a
task that still holds one can be followed.

| Action | Code |
|---|---|
| `CreateRead`, `CreateCommit` | `create_plan`: VMs are read and checked; then one transaction adds the rows and plans the VMs. `transition_to_planned` locks the VMs but judges them by the first read |
| `CreateQueue`, `CreateLost` | after its commit `create_plan` refreshes every row and only then queues the tasks (`plans.py:448-458`). A plan of the series that is deleted in between makes its refresh raise: the request ends with status 500, and no plan of the series has a task |
| `DeletePlan`, `MarkSucceeded` | `delete_plan`, `mark_plan_succeeded`: the plan row is locked first, one step |
| `EditPrepare`, then `AddVMs`, `RemoveVMs`, `MoveToPlan`, `MoveToWave` | `edit_plan`: `prepare` locks the plan rows and reads the VMs, `apply` writes both |
| `PatchRead`, `PatchCommit` | `PATCH /api/vms/{id}` of `lifecycle_state` |
| `Refuse` | any 4xx or failed transition, deadlock aborts included |
| `DeleteVMs` | single, bulk and full deletion of inventory rows |
| `GenSkip` ... `GenNoBackend` | `run_simple_plan_generation`, one step per commit or per point where an exception leaves it |
| `Crash`, `StartSweep`, `StartWithoutSweep` | the process stops; `lifespan` runs `fail_orphan_plans`, whose failure is logged and ignored |

Abstractions: a selection is an arbitrary set of VMs, the partition into series an arbitrary
partition; the statuses between "validating" and "emitting_yaml" are one; the refreshes of a series, which write nothing, are one
step with what follows them; an edit's waves are only the members they leave. `members` takes `vm_ids` and the waves to agree: `PlanWaves` shows where they may not.

### PlanWaves

One plan: its wave documents by number (`waves`: VMs, the VMs its text was written about, the token of the
request that stamped it last, the state of its explanation), `vmIds`, `seq`, the
re-annotation tasks, one kick-off in flight, the runs per number.

| Action | Code |
|---|---|
| `Edit` | `prepare` and `apply` under the plan's row lock: touched waves are rebuilt from the inventory, stamped, and a task is queued |
| `Reannotate` | `POST .../waves/{n}/reannotate` |
| `TaskAsk`, `TaskCopy`, `TaskWrite` | `reannotate_waves_task`: read and ask the model; lock, read afresh, and log the first inference, whose commit drops the lock; write the copy |
| `KickRead`, `KickInsert`, `KickRefuse`, `RunEnds` | the handlers of `api/waves.py`, as far as a number is concerned |
| `PlanEnds`, `DeleteVMs`, `Crash`, `Start` | the rest of the system; `Start` sweeps queued explanations or survives the sweep's failure |

The uuid token of a wave becomes the number of the task it was made for; a task compares only its own
tokens, so nothing is lost.

### WaveRuns

Runs over one wave: `status` and `outcome` per VM, the baseline a validation compares with
(`base`, `paired`), the task and the targets whose callback is still to come. `RecordResult` is the
callback and its commit. `RowGone` is the callback of a VM deleted meanwhile: the commit raises, the
orchestrator swallows it, and the session then refuses everything (`ResultLost`, `TaskEnd`) because nobody
rolls it back. `CommandHangs` is a command that never exits (`ssh.py:415`): its target's callback never comes, and the
batch that `wave_jobs.py:239` and `:470` wait for does not return. `Crash` loses the task and no start looks at runs. `EditWave` is one step
because inserting a run takes a key lock on the plan row that the edit holds.

### CollectionBatch and SSHCollector

The coroutines of `run_collection_batch`. They interleave only where they wait (global slot,
vCenter slot, thread), so `ShortCircuit`, `Admit`, `Connect` and `Finish` are the stretches between waits.
Its specification is `BatchSpec`, since its proofs share a module with those of `WaveRuns`.
Both semaphores serve first come first served. What a thread ends with is what `SSHCollector` makes
of a host: every combination of link, host key, login and fault is mapped to the category the engine
reports, and from there to "ok", "quirky" (reachable, or not recognized as unreachable) or "down" (the breaker
counts it). `Hang` is the fifth way: `_run` awaits the exit status of a command before the read that has the
timeout, so a command that never exits keeps its thread, its slots, and possibly the batch.

Reading it shows where categories are not what their names say: paramiko words a
refused connection so that it becomes `command_failed` and never trips the breaker, while a read timeout in an
open session does; "partial" is never reported, because a failing command leaves an empty section.

`SSHCollector` also has the collected state: `Collected` maps what the commands of a Linux or a Windows host
print to the sections both comparisons read.

### ImportJobs

A file is the set of machines it routes to one vCenter. Requests are a step that reads and a step that
commits; a batch is `Match` against the index the importer keeps and `Write`; `Conflict` is the
IntegrityError whose handler replays the batch row by row, and the index starts afresh, the VMs seen so far
forgotten. `SweepRead` and `SweepCommit` flag the machines not seen; `Restart` loses
the tasks and runs the sweep of active jobs or survives its failure. `replayed` and `deleted` are history, in terms of
which the properties name the two known ways out: a replayed batch makes the sweep flag VMs that are in the file
(`import_jobs.py:14` says otherwise), and a VM deleted under the importer strands the job.

### Preclassifier, WaveSkeleton

`core/preclassifier.py`, `family.py`, `wave_skeleton.py` and `concurrency.py` as operators over the attributes
of VMs: role and statefulness heuristics, groups by key, merging of small partitions, HA marks, families
and their caps, topological order, packing, colours. What the code does in a loop over ordered groups or VMs
(seeding clusters, packing) is a function that is recursive over that order. Texts are members of small sets; a name is its stem, HA word
and number. VMs are numbered in the order of their ids.

### TargetMapping, MappingChecks, WaveMaps

One set of mapping rows and its readers: the resolution that partitions a selection
(`core/target_resolution.py`), Stage 0 (`mapping_validation.py`), the checks against the declared
catalog and the support matrix of platform features (`mapping_checks.py`, `platform_features.py`), which preflight and
wave card report, and the emitter (`mtv.py`). They differ on purpose or by accident: resolution takes the last
row of a source, Stage 0 any, the emitter the first; the emitter asks the namespace strategy before the VM's override,
which `models/vm.py:117` says wins. `PlanPipeline`'s properties state under which conditions they agree.

### PlanPipeline

One plan of a series: `Create` gates, partitions and cuts a selection; `Load`, `Validate`, `PartitionVMs`,
`Split`, `Pack`, `Analyze`, `Emit` are the stages of the task; `Ask`, `Retry`, `Invalid`, `Flagged`,
`Unreachable` and `Answer` what becomes of the concurrent calls about waves; `DownloadWave` and `DownloadBundle` render
again from what is stored. Meanwhile VMs, mappings, vCenters and clusters change. A group's id is what
`GroupKey.as_string` renders it to; two groups with one id lose VMs, against `docs/PLANNING_ARCHITECTURE.md:63`.

What the packer keeps apart are HA peers, told by the preclassifier's families. `PeersApart` says how far it goes: the
groups of one family that are within their own allowance (1 with a primary, `MaxPeers` without) together exceed it in no
wave. A group beyond its allowance, a primary with a replica say, is placed without regard to its family, as the
comment at `wave_skeleton.py:423` has it; that "primaries never share a wave with another peer"
(`wave_skeleton.py:418`) is then not so, and such a wave is the exception of `PeersApart`. The
cap of name families (`family.py`) is kept by every group (`GroupsWithinCap`) but not by waves, because the packer
reads other families and joins what was split: `FamilyCapHolds` is refuted.

### PlanEdits

`POST /api/plans/{id}/edits` over several plans: which VMs may move where (`Admits`), what the wave rules say of
the layout before and after (`CheckWaves`, `Introduced`, `NewlyBroken`), what needs a confirmation, what
blocks, and the rebuilt wave documents with overrides, YAML and colours.

| Action | Code |
|---|---|
| `MoveToWave`, `MoveToPlan`, `RemoveVMs`, `AddVMs` (by `Prepare`) | the plan rows are locked (`plan_edits.py:359-367`), then `prepare` reads VMs and mappings, which are not, and the whole change is computed |
| `Commit`, `Refuse` | `apply` writes the change as it was computed; the lifecycle functions lock the VMs and judge them by the state the session read or by the present one |
| `EditVM` | a `PATCH` of a VM, its labels or targets; or an import that renames it (`import_jobs.py:246-248`) |
| `EditMappings`, `DeleteVM`, `MarkSucceeded` | what else touches these rows, the locked plans excepted |

`req` holds the edits that were evaluated and not committed, with the rows they will write; its field `stale` says
that a VM or a mapping changed since. Such an edit may take a VM out of its plan's partition, which `EditsKeepPartitions`
excuses, and two of them may add one VM to two plans, as two creates may (`one_live_plan`): nothing here says that
a VM is in one plan. Two more history variables mark the ways the record of broken rules goes wrong: `dropped`, rules are counted with
deleted VMs, which the rebuild then leaves out; `renamed`, a VM joins or leaves a name family and no rule is evaluated for
it. `changed` says that a target or a mapping is no longer what it was, and `pair` is the vCenter and cluster of a plan's
mappings.

The reads of `prepare` are one step. A VM that is in both plans of a move would be in the target twice, which the code
refuses with an internal error; here it is refused. Runs and the deletion of plans are in `PlanWaves` and `PlanLifecycle`.

### TargetCatalog

Names and ids are the only references between mappings, plans and catalog entries, so each handler is a step that
reads and a step that commits at READ COMMITTED, several of them at a time: create, rename, retype,
redefault and delete of entries, the paste import, namespaces, mappings, overrides, cascading deletions. A `PATCH` of a
mapping computes the status from the row it read and its own fields, and the ORM writes the columns that differ
(`Column`, `Updated`). Two that overlap mix: one completes the networks while another empties the datastores, and
the row says "complete" and covers nothing. So `CompleteMappingsCover` speaks of a save whose row is still the one it read.
Each property names the interleavings under which it does not hold, with the condition on what was read.

### StateDiff, LLMBackends, Validations

`StateDiff` holds both engines that compare two captures: `compute_diff` with the tiers of the validation
endpoints and `diff_collection` of the wave runs. `LLMBackends` maps an environment to which backend can be
made, and a reply to what `chat` raises or returns. `Validations` runs jobs over VMs: each job has one session per
VM, or one for all (bulk, schedule), that keeps what it read until it commits; `work` records for each VM how far the
task is and whether the session held the row alone. The cache is keyed by diff and OS family. A restart
forgets the jobs, which are in memory. The snapshot that a validation compares with is any of the VM's: the code takes the
latest `collected_at`, the start of the transaction that wrote it, and so not always the last one numbered
where captures overlap. A validation here may thus compare with more than the code's would, and no property depends on which.

The engines differ over cron. For `compute_diff` it is a set of lines, each with its user or its system file
(`client.py:618-632`); `diff_collection` compares a system file with the list of its lines, in the order of the file, as
one entry (`diff.py:208-209`). A system file with its lines in another order, or repeated, is nothing to the tiers and a warning to
the runs (`ReorderedCronFileDisagrees`), which `PassesAgree` names as the one way in which cron passes here and
not there.

### Commitments

What plan membership promises, without sessions, locks, tasks and sweeps: `Take`, `Open`, `Edit`, `Close`, `Free`.
`PlanLifecycle` instantiates it with `committed` the planned VMs, `stage` the status as one
of four, and `held` the members of plans that are alive, and `KeepsCommitments == Contract!Spec`. The
abstract specification does not promise that a VM has one plan: the code does not (`one_live_plan`).

The `MC...` modules are what TLC runs. `MCPlanLifecycle`, `MCImportJobs`, `MCTargetCatalog` and `MCValidations` add
symmetries, used only by runs that check no liveness. `MCValidations` also evaluates assumptions about
`SSHCollector` on a Linux and a Windows host that print something for every command.

## 4. Runs

| Run | Question | Bounds |
|---|---|---|
| `plan_lifecycle` | Is a planned VM always held, do statuses and memberships move only where the handlers mean them to, is a plan without a task explained, does every plan leave its in-progress status but for the documented reasons, is every step one of `Commitments`? | 3 VMs, all of which a `POST` selects and one of which may be deleted (`Selections`, `Deletable`), 2 plans: a series of one or two, edits of each kind between and within them, and a second creation after the first; a failed sweep and no backend, alone and together; fair tasks. One request is evaluated at a time, next to deletions, completions, tasks and crashes; requests that overlap are in `one_live_plan`, and the theorems have any number of them, any selection and any deletion |
| `plan_waves` | Are waves disjoint, is a text about its wave's VMs, does a new wave never get a number some run knows, does every queued text arrive? | 2 VMs, 3 numbers, 2 tasks, runs of number 3 (the highest number is the one that disappears and could come back); fair tasks |
| `wave_runs` | Do verdicts rest on completed captures, are completed runs whole, do runs end? | 2 VMs, 2 kick-offs, 2 runs: a baseline and its retry, a second baseline, or a validation; any command may hang; fair tasks |
| `collection_batch` | Do the caps hold, does the breaker follow the results, how many targets connect after it opens, does the batch return? | 5 targets of a vCenter or of none (which is capped as one), 3 at a time, 1 per vCenter, threshold 2: enough for a wait at a vCenter, a trip with others in flight and a target after it; fair coroutines |
| `imports` | Does an active job have a task, do completed imports leave nothing out, who is flagged missing? | 3 machines, a file of two of them, one in the file and one outside it that other requests create or delete, 2 jobs, 2 requests, 2 tasks, 1 event (cancel, restart, creation or deletion): two starts that race, a batch that conflicts, a cancel or restart in the middle |
| `pipeline` | Is every VM placed, do waves respect their rules, do Stage 0, preflight, resolution, generation and download agree? | fleets of up to 3 VMs of 6 kinds, of 4 with a plain one or with directory servers only, and four odd ones, 3 sets of mappings, 2 clusters, waves of 2, small partitions below 3, 1 model call at a time, 2 attempts, 1 change: every stage splits or merges something |
| `plan_edits` | Is every broken rule on record, does an edit keep a plan in one partition, do offered plans accept? | 2 cold plans and 4 VMs of which 3 share a family, or a cold and a warm plan and 3 VMs of which 2 share one, 2 wave numbers, waves and plans of 2, 2 edits in flight, 3 edits or changes from outside in all: any edit can break the size and the family rule, any plan can fill, two edits of different plans overlap, and a change comes before, between or after them |
| `catalog` | Do defaults stay unique, do references survive, does "complete" pass Stage 0? | 1 cluster, 2 vCenters, 1 VM, 1 plan, 3 requests, all of which may be in flight at once, 2 networks and 2 classes, 2 pastes: every pair of handlers overlaps with, or after, every third, and each way to lose a reference that `ReferencesAreKept` names takes at most 3 |
| `validations` | Does the status follow the verdict, does a verdict have an author, do the two engines agree on a pass but where they are meant to differ? | 2 VMs, one with a baseline that its guest no longer matches and one without, 2 jobs, 2 guest states, 1 event; three backends of which one has no key and one no chat. Two jobs cross in every way two sessions can, and a rule decides in one direction and the model in the other |
| `one_live_plan`, `later_edit_wins`, `family_cap` | Each refutes one sentence of the repository, below | as small as the counterexample allows |

Every property of a passing run has a mutant in `PROJECT.json`: a plausible bug in one
definition (a dropped lock, a missing reset, a wrong status) under which TLC finds the property violated.

Deadlock is checked except where the system may stop: `imports`, `catalog` and `plan_edits` when all jobs ended
or the bounded events are spent, `validations` likewise, `collection_batch` when a hung command holds the batch.

### What the refuting runs show

- `one_live_plan`: `create_plan` promises that a call with a VM of another plan fails as a whole. Two calls that
  overlap both read the VM as available; the second waits for the first one's lock and then goes by what it
  read before. The VM ends up in two live plans.
- `later_edit_wins`: `reannotate_waves_task` locks the row so that an edit that comes in between wins, but the
  first `record_inference` commits and releases it. An edit that commits then is overwritten by the copy, while
  `vm_ids` keeps the edit's answer.
- `family_cap`: `core/family.py:133` says that no wave has more than half of a name family. The split sees to it that
  no *group* has; the packer then fills waves by size and HA peers (`wave_skeleton.py:463`), so two groups that were
  split may meet again. `wave_constraints.py:23` knows of it.

Other disagreements met while modelling are not runs of their own; they are the exceptions the properties
name (`StrandedOnlyByDelete`: a plan deleted before the tasks of its series are queued leaves all of it pending, and a backend
that cannot be made ends a task before its `try`; `RunsSettle`: a VM deleted under a run, or a command that never exits,
leaves it "running"; `PassesAgree`: reordered cron files; `PeersApart`: groups beyond their allowance;
`CompleteMappingsCover`: overlapping saves; `EditsKeepPartitions`: stale edits; `SeenVMsAreNotFlagged`, `VMsArePlaced`,
`DefaultsStayUnique`, `BatchReturns`, with the lines in the module sections above and among the hazards).

## 5. Fairness

Tasks have weak fairness: the thread pool runs everything it was given, and the calls a task waits for
(connecting, reading, the model) have timeouts, with one exception: the exit status of a command is awaited without one
(`ssh.py:415`). A target whose command hangs is therefore owed nothing: `WaveRuns` enables no step of it any more, and `RunsSettle`
excuses a run with such a target, as it does the process that stops and the deletion that breaks the session; in
`CollectionBatch` a hung thread is never resumed, and `BatchReturns` excuses only that. A request that has committed a
series goes on to queue its tasks or to fail (`CreateQueue`, `CreateLost`): it waits for nobody. `PlanLifecycle` also has weak
fairness of the start, because the orchestrator of the container restarts it. No other request, no operator, deletion,
hang or crash is ever owed, and `GenNoBackend` is possible but never forced. The batch has weak fairness of each coroutine:
the event loop resumes whatever can run. `ImportJobs`, `PlanPipeline`, `PlanEdits`, `TargetCatalog` and
`Validations` are checked for safety only and state no fairness.

## 6. Proofs

All theorems hold for every value of the constants: any sets of VMs and requests, any faults, any number of
plans, waves, tasks and runs.

| Module | Theorem | Statement |
|---|---|---|
| `PlanLifecycleProof` | `TypeCorrect` | `Spec => []TypeOK` |
| | `InvariantHolds` | `Spec => []IInv` |
| | `NothingOrphaned` | `Spec => []NoOrphanedCommitment` |
| | `EditsExclusive` | `Spec => []EditsHoldTheirPlans` |
| | `StrandingExplained` | `Spec => []StrandedOnlyByDelete` |
| | `StatusForward` | `Spec => StatusOnlyMovesForward` |
| | `MembershipStable` | `Spec => MembershipChangesOnlyWhileComplete` |
| | `RemovesReleaseMembers` | `Spec => []RemovesOnlyMembers` |
| | `CommitmentsKept` | `Spec => KeepsCommitments` |
| `PlanWavesProof` | `TypeCorrect`, `InvariantHolds` | `Spec => []TypeOK`, `Spec => []WInv` |
| | `NoVMInTwoWaves` | `Spec => []WavesDisjoint` |
| | `TextsDescribeWaves` | `Spec => []TextDescribesWave` |
| | `NumbersNeverReused` | `Spec => NewWavesHaveNewNumbers` |
| `CollectionProof` | `TypeCorrect`, `InvariantHolds` | `Spec => []TypeOK`, `Spec => []RInv` |
| | `VerdictsRest` | `Spec => []VerdictsRestOnCaptures` |
| | `CompletedWhole` | `Spec => []CompletedRunsAreWhole` |
| | `BatchTypeCorrect` | `BatchSpec => []BatchTypeOK` |
| | `CapsHold` | `BatchSpec => []WithinCaps` |
| | `BreakerFollowsResults` | `BatchSpec => []BreakerMatchesResults` |
| | `StragglersAreFew` | `BatchSpec => []FewStragglers` |
| `ImportJobsProof` | `TypeCorrect`, `ImportInvariant` | `Spec => []TypeOK`, `Spec => []ImportInv` |
| | `ImportsEnd` | `Spec => []ActiveImportsAreRunning` |
| | `SeenVMsAreSafe` | `Spec => []SeenVMsAreNotFlagged` |
| | `CompletedAreWhole` | `Spec => CompletedImportsAreWhole` |
| | `FlagsComeLast` | `Spec => FlagsAreLast` |
| `TargetCatalogProof` | `TypeCorrect`, `CatalogInvariant` | `Spec => []TypeOK`, `Spec => []CatalogInv` |
| | `OneDefault` | `Spec => DefaultsStayUnique` |
| | `ReferencesKept` | `Spec => ReferencesAreKept` |
| | `CompleteCovers` | `Spec => CompleteMappingsCover` |
| `PlanEditsProof` | `TypeCorrect`, `InvariantHolds` | `Spec => []TypeOK`, `Spec => []EInv` |
| | `RulesConfirmed` | `Spec => []RulesAreConfirmed` |
| | `OffersAdmitted` | `Spec => []OfferedTargetsAdmit` |
| | `PartitionsKept` | `Spec => EditsKeepPartitions` |
| `ValidationsProof` | `TypeCorrect`, `InvariantHolds` | `Spec => []TypeOK`, `Spec => []VInv` |
| | `EveryVerdictHasAnAuthor` | `Spec => []VerdictsHaveAnAuthor` |
| | `StatusIsThatOfTheVerdict` | `Spec => []StatusFollowsVerdict` |
| | `TiersPassWhatRunsPass` | `Spec => []PassesAgree` |
| | `TiersAgreeWithRuns` | where `Classify` passes two states, `Dimensions` passes services, ports and mounts, and cron unless a system file has the same lines in another order or number |
| `PlanPipelineProof` | `TypeCorrect`, `Inductive` | `Spec => []TypeOK`, `Spec => []IInv` |
| | `EveryVMIsPlaced` | `Spec => []VMsArePlaced` |
| | `WavesFollowTheRules` | `Spec => []WavesRespectTheRules` |
| | `StageZeroIsEnough` | `Spec => []StageZeroSuffices` |
| | `PreflightIsRight` | `Spec => []PreflightHolds` |
| | `DownloadsAreAsShown` | `Spec => []RenderedAsResolved` |
| | `DownloadsStayWhole` | `Spec => DownloadsAreWhole` |

The assumptions are those of the modules. Most say that a bound is a natural number; the others:
job ids are numbers above 0, and a file routes some machine (`ImportJobs`); the jobs are finitely many (`Validations`); what a catalog starts with, and what is
pasted, has one type per name (`TargetCatalog`); ids of VMs are numbers, no plan is called `NoPlan`,
a change of a VM sets all that its name decides or none of it, every VM has a name, and generation leaves no VM in two
waves of a plan (`PlanEdits`), which `VMsArePlaced` is about; an inventory is finite, with numbers for ids, rows
are lists, a mapping has a vCenter, there is one mapping for each pair of a vCenter and a cluster
(`uq_mapping_per_pair`, `models/target.py:181`), and a wave gets an attempt at least (`PlanPipeline`); a wave takes
a VM and a peer at least (`WaveSkeleton`).

Each action is shown to preserve each part of an invariant it can disturb; a lemma per part collects the actions, and
the theorems combine those lemmas. Action properties follow from the invariant before the step.

**PlanLifecycle.** `NoOrphanedCommitment` is
not inductive: a plan can lose a VM through an edit that decided earlier. `IInv` adds what the
code's locks give:

- `CommitmentsHeld`: the holder of a planned VM is one that no open "remove" will
  drop without releasing it (a remove releases what its session saw planned). This is why two
  overlapping creates, which break `OneLivePlanPerVM`, do not break this one;
- `EditsHoldTheirPlans`: an open edit's plans stay complete and are nobody else's, by the row locks;
- `TasksMatchPlans`: phase of the task and status of the plan agree, and until the task ends the
  row holds the VMs the task was given, so that writing them back loses nothing;
- `RunsInOrder` and `IdleWhenDown`: which tasks exist, or are about to be queued, so that a plan without one is explained;
- `DroppedAreGone`, `TwoPlansOnlyWhenMoving`: what an edit may drop, and from which plans.

**The refinement.** Every action is mapped to one of `Commitments` or to a stutter: creation to `Take` (the members of
a series are disjoint), the end of a generation to `Open`, the four edits to `Edit` (which needs
`EditsHoldTheirPlans` and `RemovesOnlyMembers`: what a remove releases its plan still lists), failures, deletion,
mark-succeeded and the sweep to `Close`, what only releases to `Free`.

**PlanWaves.** A task holds a copy of the waves across commits, so the invariant speaks of *versions*: the stored
waves and every task's copy. Within each version waves are disjoint and texts are about their VMs; versions that
share a token share the contents it was made for (`TokensNameContents`, `VersionsAgree`), so a copy written back
late is still a consistent state; and every number in any version, run or kick-off is at most `seq` or still in use
(`NumbersKnown`), so that the next number is new. The one fact about naturals it needs, that a non-empty bounded set
has a greatest member (`HasHighest`), is proved by the well-foundedness of `<`.

**WaveRuns.** The phases of a task and the status of its run agree (`TasksMatchRuns`), a pending result is one the
task still waits for (`PendingIsAwaited`), and the base of a collecting or judged validation is a completed run
(`BaseIsCompleted`, which rests on `ValidationsHaveABase`). A completed run is never touched again except by
the deletion of a VM, which deletes the verdicts about it with the captures (`CompletedStays`).

**CollectionBatch.** `WithinCaps` is about cardinalities: a step adds one target to those that hold a slot only where
the count is below the cap (`OneMore`), and every other step leaves those that hold one among them (`NoMore`).
Type correctness and `WithinCaps` are inductive together. For the breaker, `BreakerInv` reads the streak of a vCenter
off the results: there is a position after which no result of it is a success and whose failures the streak counts,
and a breaker is open only when the streak reached the threshold. A report appends one result, which either starts
the count again or adds one to it (`ReportKeepsBreaker`). A straggler connected before the breaker opened, and who
connects afterwards is short-circuited (`OpenAdmitsNobody`); so they are at most those that held a slot when it
opened, which the caps bound (`TripLeavesOthers`).

**ImportJobs.** `ImportInv` is what a task relies on while others cancel, start, delete and restart. `TasksFit`: its
job is in the status its phase needs, and a scan has its job to itself, while an import may share it with that of a second start.
`RequestsFit`: who is about to start a job, or to cancel one, saw it scanned. `IndexFits`: what a task takes to be in the
inventory is there, was deleted meanwhile, or is its own open batch. `ProgressFits`: every row of the file is still to be
done or has been seen, unless the batch was replayed, and in any case is to be done, there, deleted or rejected.
`SeenVMsAreNotFlagged` and `CompletedImportsAreWhole` follow from the two
halves of the last one: the replay loses only what was *seen*, never what was *stored*. `ActiveImportsAreRunning` needs that
a task ends with its job or over a deleted machine (`EndsWithItsJob`).

**TargetCatalog.** A handler that is past its read is described by what it is about to write (`Fits`): a new default
replaces every other default it saw, a delete found nobody that refers to the entry, an update of a mapping brings in only
names that it saw (`NewNets`, `NewClasses`: what it leaves alone it does not write), and covers the VMs it counted when
the row as it read it with its own changes is complete; and the row that it saves is still one of
the vCenter and cluster that it read (`Replaces`). Where no other save came between, what the columns give is that row. Each commit turns that into the property, under the condition
that the catalog is the one that was read, which is what the properties say.

**PlanEdits.** What an edit will write was computed at its evaluation, so the invariant speaks of the rows that are
*in play*, stored or held by an edit in flight: `EInv` is `Typed`, `AllGood` (each of them is `Good`) and `FreshEdits`. The
locks show in `Typed`: no two edits in flight have a plan in common, and a plan whose row an edit holds changes
only by its commit. A good row has waves that share no VM (`Apart`), which an edit keeps because it
takes from one side what it gives to the other; until a VM is renamed, a sound record of broken rules (`Recorded`); and until
something is retargeted, one target (`Placed`, `Proper`).

A rule of the layout after an edit is new or worse, and then on the new record, or it was broken as much before; then its
old entry is carried over by `Overrides`, or the generation's account still covers it (`EditedRules`). The
layouts that an edit judges and those that it stores differ by deleted VMs only, hence `dropped`. Rules depend on names
alone, so no step but a renaming disturbs a record, stored or held (`QuietRules`).

`Placed`: all VMs of a plan, those that are gone included, go to one target, whose vCenter and cluster are those of
its mappings, they are covered, and every wave has its YAML. It has to include the VMs that are gone, because a wave lists
them until it is rebuilt. A plan then resolves to its target or not at all (`ResolvesWhereItGoes`), so what `Admits`
compares is the same on both sides, and offered plans accept. `ColoursAreProper` is about the greedy colouring, a recursive function over the
wave numbers: the least wave for which it fails has the colours of all waves before it, and the least colour that none of its
neighbours has.

`FreshEdits` is what the action property rests on: of an edit that nothing overtook, the row it holds is within one
partition if the row it replaces is, whatever was retargeted earlier (`EditedStays`). A change of a VM or mapping
makes every edit in flight stale, and so keeps this trivially; a commit changes plans that no other edit holds.

**Validations.** Three invariants. `VInv` says what a validation has concluded by the point it has reached: it asks the
model only where no rule decides, and what it is about to cache or to store has its author; together with the cache
and the answers given this is inductive, and `EveryVerdictHasAnAuthor` and, with the lemma about the two comparisons,
`TiersPassWhatRunsPass` follow. `Rows` says what sessions hold: an ORM session that assigns the status it read writes
nothing, so the status follows the verdict only because a session that is alone with a VM and read "validated"
or "failed" read what the row has, because two sessions that hold a VM are neither of them alone with it, and because
a session that still holds a status read before a verdict that stands read that verdict's status. `WriteRows` is the
common part of the two stores, `FollowsKeepsRows` of every step that only lets go of rows or reads them again.
`TInv` carries the types: a task that asks the model has both states to ask about and one that stores has a verdict
(`Shaped`), and a number that a task takes for a snapshot has a bound because a VM has at most one snapshot more for
every job that is done with it (`FewSnapshots`; `DoneWith` only grows, and grows with every snapshot).

**PlanPipeline.** The stages are operators over sets of groups, so what they return is a matter of lemmas, one per
stage, and each says what the next one needs. Groups have VMs, are disjoint and hold all VMs: of the classification
(`Classified`, with collapsed partitions and hints), and still when families and large groups are cut up
(`FamiliesSplit`, `OversizedSplit`; `CutIntoPieces` says when pieces do). Three definitions are recursive functions
over a finite order: the clusters and the colours over numbers, the packing over `Before`. That such a function
exists, and equals its body everywhere, is `Recursion`, from the well-foundedness of the order; what it computes is then
argued about the least argument for which the claim fails. The packer always finds a wave (`SomeWaveIsFree`: one
past the last is empty, and there every group fits), so each group is where it fits among those placed before it
(`PackingPlaces`, `EachFits`). Of two groups of a wave the later one was measured against the earlier one, which gives
size and partition (`FitTogether`). Of the groups of a family that are within their allowance the last one placed was measured
against all others, which gives the count of peers in a wave (`PeersAreSpread`). That no group exceeds the cap of a name family is
carried from the split through the cut of large groups. Hints put a wave before another (`HintsComeBefore`), the renumbering keeps the
order (`WavesAreNumbered`), and the greedy colouring is proper (`ColoursAreProper`).

`IInv` carries this along the stages (`GroupsInv`, `WavesInv`, `ColoursInv`, and `CallsInv`, which counts attempts). Its
other half is `UnchangedInv`: until another request changes something, one mapping is all that the plan refers to, it
takes every VM of the plan to the plan's partition and covers it, and what the task loaded is what there is. It starts
at the creation (`OneMappingTakesIt`: VMs of one partition are resolved by the mapping of its pair, of which there is one) and
is why Stage 0, the generation, a download and the resolution speak of the same rows (`Undisturbed`). Where no source is
repeated the first, the last and any row of it are one (`TheRow`), so what is covered is rendered
(`CoveredIsEmitted`) and shown (`NetworkIsShown`, `StoreIsShown`). A wave uses some of the rows, and of each source the same last
one, so its findings are among those of the preflight (`PreflightFindsMore`). `PartsInv` keeps what was served
comparable with what is resolved now.

Two conditions of these properties are there because the code needs them. A group beyond its own allowance, 1 with a primary
and `MaxPeers` without, is placed without regard to its family (`TooLarge`), so `PeersApart` counts the others.
And a row's namespace does not reach the YAML if the network is cluster-wide, though the resolution shows it.

Only model-checked:

- liveness (`GenerationSettles`, `AnswersLand`, `RunsSettle`, `BatchReturns`), because the prover does not reason about
  fairness, and `ENABLED`, and therefore deadlock freedom;
- what a composition of operators computes for particular inputs: that a stage splits or merges something, that each
  disjunct of a next-state relation occurs, and the comparison of `SSHCollector` with hosts in `MCValidations`.

## 7. Not modelled

- Failures of the database itself, except for a sweep that raises at the start. A deadlock abort
  is a refused request or the end of a task.
- New inventory rows, except under imports: elsewhere the VMs of a model are all rows there ever are.
- Deletion of the plan under `WaveRuns` (it cascades to the runs), the revocation of a wave's keys (`api/waves.py:649`),
  counters of progress, the authorization gate. The slots of a bulk capture (`core/bulk_capture.py`) are a semaphore
  like those of `CollectionBatch` and not repeated.
- The process-wide cache of the active backend type (`core/llm/runtime.py:97`): a reader that races a switch
  caches the old type for up to a minute. Prompts, and the texts of answers.
- Texts: findings, reports, reasons, YAML layout, spreadsheets. The RVTools parser is a file's set of machines.
- `core/planner.py`, which nothing imports; mapping suggestions; schedules' and strategies' CRUD.
- Assessment and design reviews (rules over one row; the outcome is a VM's `fit` in `PlanPipeline`), SSH key files,
  settings, audit, reports, health and the frontend: no protocol state.
- Schema migrations and deployment: one replica with strategy Recreate is an assumption of every module.
