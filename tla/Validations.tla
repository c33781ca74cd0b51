---------------------------- MODULE Validations ----------------------------
(***************************************************************************)
(* Baseline captures and validations of single VMs, in bulk and on the     *)
(* schedule: core/capture.py, bulk_capture.py, scheduler.py, validation.py,*)
(* bulk_validation.py, validation_cache.py and the endpoints that start    *)
(* them.  A job is a background task of the process: one task per VM run   *)
(* one after the other ("capture", "validate"), one task that shares a     *)
(* session between its VMs ("bulk_validate", "scheduled")                  *)
(* or one that captures its VMs side by side ("bulk_capture").             *)
(*                                                                         *)
(* A session keeps the rows it read until it commits; then the next access *)
(* of an attribute reads the row again.  The status a session read matters *)
(* twice: the capture compares it, and an assignment of the status it read *)
(* writes nothing.                                                         *)
(***************************************************************************)
EXTENDS StateDiff, LLMBackends

CONSTANTS
    VMs,
    Jobs,
    Guests,        \* the states a VM may be found in
    Starts,        \* bound: what the VMs are found in at first, and their baselines
    Production,    \* the VMs whose environment is production
    Settable,      \* the statuses an operator sets
    Selected,      \* the LLM backends that may be the active one
    Environment,   \* the environment variables of the deployment
    MaxSnapshots,  \* bound: snapshots of one VM
    MaxEvents,     \* bound: steps of the environment
    none

Statuses == {"discovered", "baseline_captured", "validated", "failed", "deleted"}

ASSUME SnapshotAssumption == MaxSnapshots \in Nat \ {0}
ASSUME StartsAssumption ==
    Starts \subseteq [guest : [VMs -> Guests], baseline : [VMs -> Guests \cup {none}]]
ASSUME SettableAssumption == Settable \subseteq Statuses \ {"deleted"}
ASSUME JobsAssumption == IsFiniteSet(Jobs)
ASSUME EventsAssumption == MaxEvents \in Nat

Kinds == {"capture", "validate", "bulk_capture", "bulk_validate", "scheduled"}
Captures == {"capture", "bulk_capture", "scheduled"}
Shared == {"bulk_validate", "scheduled"}

Verdicts == {"pass", "warn", "fail"}
Ended == {"none", "completed", "failed", "stranded"}

VARIABLES
    guest,      \* what a collection of the VM finds now
    status,     \* vms.status
    snapshots,  \* the VM's snapshots by snapshot_number
    latest,     \* the VM's latest ValidationResult
    cache,      \* validation_llm_cache: verdict and freshness by key
    jobs,       \* what each job is
    work,       \* what each job does with each VM
    answered,   \* history: the answers the model gave, by key
    events

vars == <<guest, status, snapshots, latest, cache, jobs, work, answered, events>>
database == <<status, snapshots, latest, cache>>

\* loaded is the status the session holds of the VM: "unread" before the row is
\* read, "expired" after a commit.  alone holds while no other session has had
\* the row since this one read it.
NoWork == [pc |-> "none", loaded |-> "unread", alone |-> TRUE, base |-> none, now |-> none,
           number |-> 0, verdict |-> "none", source |-> "none", row |-> FALSE]

Exists(v) == status[v] # "deleted"
Deleted(v) == ~Exists(v)

\* compute_cache_key: the diff and the OS family of the baseline.
Key(base, now) == [diff |-> ComputeDiff(base, now), family |-> base.family]
KeyOf(j, v) == Key(work[j][v].base, work[j][v].now)

StatusOf(verdict) == IF verdict = "fail" THEN "failed" ELSE "validated"

Init ==
    /\ \E s \in Starts :
          /\ guest = s.guest
          /\ snapshots = [v \in VMs |-> IF s.baseline[v] = none THEN <<>> ELSE <<s.baseline[v]>>]
          /\ status = [v \in VMs |->
                         IF s.baseline[v] = none THEN "discovered" ELSE "baseline_captured"]
    /\ latest = [v \in VMs |-> none]
    /\ cache = <<>>
    /\ jobs = [j \in Jobs |-> "idle"]
    /\ work = [j \in Jobs |-> [v \in VMs |-> NoWork]]
    /\ answered = {}
    /\ events = 0

-----------------------------------------------------------------------------
(* Sessions *)

\* The work of j once the session that serves v has committed.
AfterCommit(j, v) ==
    [u \in VMs |-> IF (u = v \/ jobs[j] \in Shared) /\ work[j][u].loaded \in Statuses
                   THEN [work[j][u] EXCEPT !.loaded = "expired"] ELSE work[j][u]]

\* Every other session that holds v is no longer alone with it.
Crossed(w, j, v) ==
    [k \in Jobs |-> IF k # j /\ w[k][v].loaded # "unread"
                    THEN [w[k] EXCEPT ![v].alone = FALSE] ELSE w[k]]

NobodyElseHas(j, v) == \A k \in Jobs \ {j} : work[k][v].loaded = "unread"

Finish(w, v, pc) == [w EXCEPT ![v] = [NoWork EXCEPT !.pc = pc]]

Strand(w, v) ==
    [u \in VMs |-> IF u = v \/ w[u].pc = "queued" THEN [NoWork EXCEPT !.pc = "stranded"] ELSE w[u]]

\* An exception the task does not expect.  bulk_capture reports any failure; the
\* single task and the scheduled loop end with it, and so do the tasks queued
\* behind it.  The bulk validation reports it too, unless its session is broken
\* or the VM's row is gone: reading vm.id in the handler then raises again.
Abort(j, v) ==
    work' = [work EXCEPT ![j] =
                IF jobs[j] = "bulk_capture" THEN Finish(work[j], v, "failed") ELSE Strand(work[j], v)]

Working(j, w) == work' = [work EXCEPT ![j] = w]

-----------------------------------------------------------------------------
(* Starting: api/vms.py, api/snapshots.py, api/validations.py,             *)
(* api/validation_schedules.py and the scheduler's job                     *)

Present == {v \in VMs : Exists(v)}
WithBaseline == {v \in Present : snapshots[v] # <<>>}

\* A task that shares its session reads all of its VMs before the first of them.
\* VMs deleted between the request and its task are not found by that query: the
\* same as a smaller scope.
Start(j, kind, scope) ==
    /\ jobs[j] = "idle"
    /\ scope # {}
    /\ jobs' = [jobs EXCEPT ![j] = kind]
    /\ work' =
         [k \in Jobs |-> [v \in VMs |->
            IF v \notin scope THEN work[k][v]
            ELSE IF k = j
            THEN [NoWork EXCEPT !.pc = "queued",
                                !.loaded = IF kind \in Shared THEN status[v] ELSE "unread",
                                !.alone = NobodyElseHas(j, v)]
            ELSE IF kind \in Shared /\ work[k][v].loaded # "unread"
            THEN [work[k][v] EXCEPT !.alone = FALSE]
            ELSE work[k][v]]]
    /\ UNCHANGED <<guest, database, answered, events>>

TriggerCapture(j, v) == v \in Present /\ Start(j, "capture", {v})
CaptureAll(j) == Start(j, "capture", Present)
CaptureBulk(j, scope) == Start(j, "bulk_capture", scope \cap Present)

\* A VM without a baseline is refused, or skipped where several are asked for.
TriggerValidation(j, v) == v \in WithBaseline /\ Start(j, "validate", {v})
ValidateAll(j) == Start(j, "validate", WithBaseline)
RunBulk(j, scope) == Start(j, "bulk_validate", scope \cap WithBaseline)
FireSchedule(j, scope) == Start(j, "bulk_validate", scope \cap WithBaseline)

\* The scheduler runs one instance of its job.
CollectBaselinesForAllVMs(j) ==
    /\ "scheduled" \notin {jobs[k] : k \in Jobs}
    /\ Start(j, "scheduled", Present)

-----------------------------------------------------------------------------
(* A VM's turn *)

Busy(j) == \E v \in VMs : work[j][v].pc \notin Ended \cup {"queued"}

\* The baseline is the snapshot collected last.  A snapshot's collected_at is the
\* start of the transaction that stores it, and captures that overlap store in
\* another order than they started, so it need not be the one of the highest
\* number.  Any snapshot is taken here: more than the code allows, never less.
Baselines(j, v) == IF jobs[j] \in Captures THEN {none} ELSE ToSet(snapshots[v])

\* A validation without a baseline fails.
Begin(j, v, row) ==
    \/ Baselines(j, v) = {} /\ Working(j, Finish(work[j], v, "failed"))
    \/ \E base \in Baselines(j, v) :
          LET begun == [work[j] EXCEPT ![v].pc = "collecting", ![v].loaded = row, ![v].base = base,
                                       ![v].alone = @ /\ NobodyElseHas(j, v)]
          IN  work' = Crossed([work EXCEPT ![j] = begun], j, v)

\* run_capture_task and run_validation_task, one after the other, and the
\* threads of a bulk capture: each opens a session and reads the row.
RunTask(j, v) ==
    /\ work[j][v].pc = "queued" /\ jobs[j] \notin Shared
    /\ jobs[j] = "bulk_capture" \/ ~Busy(j)
    /\ IF Deleted(v) THEN Working(j, Finish(work[j], v, "failed")) ELSE Begin(j, v, status[v])
    /\ UNCHANGED <<guest, database, jobs, answered, events>>

\* The loops of run_bulk_validation and of the scheduler use the rows they hold
\* and read again those a commit expired; a row that is gone by then ends them.
NextInLoop(j, v) ==
    /\ work[j][v].pc = "queued" /\ jobs[j] \in Shared /\ ~Busy(j)
    /\ \/ /\ work[j][v].loaded \in Statuses
          /\ Begin(j, v, work[j][v].loaded)
       \/ /\ work[j][v].loaded = "expired"
          /\ IF Deleted(v) THEN Abort(j, v) ELSE Begin(j, v, status[v])
    /\ UNCHANGED <<guest, database, jobs, answered, events>>

-----------------------------------------------------------------------------
(* Collecting over SSH *)

\* The guest answered.  A host key accepted for the first time is audited, and
\* that commit has the row read again.
Collection(j, v, added) ==
    LET kept == IF added THEN [AfterCommit(j, v) EXCEPT ![v].loaded = status[v]] ELSE work[j]
    IN  [kept EXCEPT ![v].now = guest[v]]

RowLost(j, v, added) == added /\ Deleted(v)

\* The snapshot's number is computed before the snapshot is inserted.
CaptureCollected(j, v, added) ==
    /\ work[j][v].pc = "collecting" /\ jobs[j] \in Captures
    /\ IF RowLost(j, v, added) THEN Abort(j, v)
       ELSE Working(j, [Collection(j, v, added) EXCEPT ![v].pc = "storing",
                                                   ![v].number = Len(snapshots[v]) + 1])
    /\ UNCHANGED <<guest, database, jobs, answered, events>>

\* The first tiers decide, or leave it to the model.
ValidationCollected(j, v, added) ==
    LET rule == Classify(ComputeDiff(work[j][v].base, guest[v]), v \in Production)
    IN  /\ work[j][v].pc = "collecting" /\ jobs[j] \notin Captures
        /\ \/ RowLost(j, v, added) /\ Abort(j, v)
           \/ /\ ~RowLost(j, v, added) /\ rule.tier < 3
              /\ Working(j, [Collection(j, v, added) EXCEPT ![v].pc = "storing", ![v].source = "rule",
                                                        ![v].verdict = rule.status])
           \/ /\ ~RowLost(j, v, added) /\ rule.tier = 3
              /\ Working(j, [Collection(j, v, added) EXCEPT ![v].pc = "reasoning"])
        /\ UNCHANGED <<guest, database, jobs, answered, events>>

\* CaptureError and ValidationError are expected everywhere: the VM failed and
\* the job goes on.  The handlers log the VM's name, which a host-key audit's
\* commit has them read again.
CollectionFails(j, v, audited) ==
    /\ work[j][v].pc = "collecting"
    /\ IF audited /\ Deleted(v) THEN Abort(j, v)
       ELSE Working(j, Finish(IF audited THEN AfterCommit(j, v) ELSE work[j], v, "failed"))
    /\ UNCHANGED <<guest, database, jobs, answered, events>>

\* The connection is lost while a command runs: paramiko's exception is none
\* that collect translates.
ConnectionDrops(j, v) ==
    /\ work[j][v].pc = "collecting"
    /\ IF jobs[j] = "bulk_validate"
       THEN Working(j, Finish(work[j], v, "failed")) ELSE Abort(j, v)
    /\ UNCHANGED <<guest, database, jobs, answered, events>>

-----------------------------------------------------------------------------
(* The model and its cache *)

\* What a call of the active backend may end in.
ChatEnds ==
    UNION {{Chat(b, attempts) : attempts \in Attempts} :
              b \in {c \in Selected : Constructed(c, Environment)}}

Fresh(key) == key \in DOMAIN cache /\ cache[key].fresh

\* A hit counts itself and commits.
CacheHit(j, v) ==
    LET key == KeyOf(j, v)
        Read == [AfterCommit(j, v) EXCEPT ![v].loaded = status[v]]
    IN  /\ work[j][v].pc = "reasoning"
        /\ Fresh(key)
        /\ IF Deleted(v) THEN Abort(j, v)
           ELSE Working(j, [Read EXCEPT ![v].pc = "storing", ![v].source = "cache",
                                      ![v].verdict = cache[key].verdict])
        /\ UNCHANGED <<guest, database, jobs, answered, events>>

\* A bulk validation may be asked not to use the cache; here each of its VMs may.
CacheMiss(j, v) ==
    /\ work[j][v].pc = "reasoning"
    /\ jobs[j] = "bulk_validate" \/ ~Fresh(KeyOf(j, v))
    /\ Working(j, [work[j] EXCEPT ![v].pc = "asking"])
    /\ UNCHANGED <<guest, database, jobs, answered, events>>

\* cache_store looks for the row, then updates or inserts it.
Answered(j, v, answer) ==
    LET key == KeyOf(j, v)
    IN  /\ work[j][v].pc \in {"asking", "asking_again"}
        /\ "answer" \in ChatEnds
        /\ Accepted(answer)
        /\ answered' = answered \cup {<<key, answer.status>>}
        /\ Working(j, [work[j] EXCEPT ![v].pc = "caching", ![v].source = "model",
                                    ![v].verdict = answer.status,
                                    ![v].row = key \in DOMAIN cache])
        /\ UNCHANGED <<guest, database, jobs, events>>

\* Mutant: a verdict that needs manual review is cached like any other.
ManualReviewCached(j, v) ==
    Working(j, [work[j] EXCEPT ![v].pc = "caching", ![v].source = "review", ![v].verdict = "warn",
                             ![v].row = KeyOf(j, v) \in DOMAIN cache])

\* Nothing is stored in the cache; the usage and inference rows commit.
ManualReview(j, v) ==
    LET Read == [AfterCommit(j, v) EXCEPT ![v].loaded = status[v]]
    IN  IF Deleted(v) THEN Abort(j, v)
        ELSE Working(j, [Read EXCEPT ![v].pc = "storing", ![v].source = "review",
                                   ![v].verdict = "warn"])

Rejected(j, v, answer) ==
    /\ "answer" \in ChatEnds
    /\ ~Accepted(answer)
    /\ \/ /\ work[j][v].pc = "asking"
          /\ Working(j, [work[j] EXCEPT ![v].pc = "asking_again"])
       \/ /\ work[j][v].pc = "asking_again"
          /\ ManualReview(j, v)
    /\ UNCHANGED <<guest, database, jobs, answered, events>>

GuardrailFlags(j, v) ==
    /\ work[j][v].pc \in {"asking", "asking_again"}
    /\ "guardrail" \in ChatEnds
    /\ ManualReview(j, v)
    /\ UNCHANGED <<guest, database, jobs, answered, events>>

\* Mutant: the session of a failed validation stays open.
BackendFailsOpen(j, v) ==
    /\ work[j][v].pc \in {"asking", "asking_again"}
    /\ Working(j, [work[j] EXCEPT ![v].pc = "failed"])
    /\ UNCHANGED <<guest, database, jobs, answered, events>>

\* An authentication or backend error fails the validation of this VM.
BackendFails(j, v) ==
    /\ work[j][v].pc \in {"asking", "asking_again"}
    /\ ChatEnds \cap (BackendErrors \ {"guardrail"}) # {}
    /\ Working(j, Finish(work[j], v, "failed"))
    /\ UNCHANGED <<guest, database, jobs, answered, events>>

\* Only the errors of base.py are translated: vllm's NotImplementedError is none,
\* and the client is made outside of the try, so a backend that cannot be made
\* from the environment raises there.
BackendRaises(j, v) ==
    /\ \/ /\ work[j][v].pc \in {"asking", "asking_again"}
          /\ "not_implemented" \in ChatEnds
       \/ /\ work[j][v].pc = "asking"
          /\ \E b \in Selected : ~Constructed(b, Environment)
    /\ IF jobs[j] = "bulk_validate"
       THEN Working(j, Finish(work[j], v, "failed")) ELSE Abort(j, v)
    /\ UNCHANGED <<guest, database, jobs, answered, events>>

\* The key is unique: of two sessions that found no row the second fails, and
\* leaves its session unusable.
CacheStored(j, v) ==
    LET key == KeyOf(j, v)
        Read == [AfterCommit(j, v) EXCEPT ![v].loaded = status[v]]
    IN  /\ work[j][v].pc = "caching"
        /\ \/ /\ key \in DOMAIN cache /\ ~work[j][v].row
              /\ Abort(j, v)
              /\ UNCHANGED cache
           \/ /\ key \in DOMAIN cache => work[j][v].row
              /\ cache' = [k \in DOMAIN cache \cup {key} |->
                             IF k = key THEN [verdict |-> work[j][v].verdict, fresh |-> TRUE]
                             ELSE cache[k]]
              /\ IF Deleted(v) THEN Abort(j, v)
                 ELSE Working(j, [Read EXCEPT ![v].pc = "storing"])
        /\ UNCHANGED <<guest, status, snapshots, latest, jobs, answered, events>>

-----------------------------------------------------------------------------
(* Storing *)

\* Mutant: a capture sets the status whatever it was.
StoreSnapshotAlways(j, v) ==
    /\ work[j][v].pc = "storing"
    /\ jobs[j] \in Captures
    /\ Exists(v)
    /\ snapshots' = [snapshots EXCEPT ![v] = Append(@, work[j][v].now)]
    /\ status' = [status EXCEPT ![v] = "baseline_captured"]
    /\ Working(j, Finish(AfterCommit(j, v), v, "completed"))
    /\ UNCHANGED <<guest, latest, cache, jobs, answered, events>>

\* The snapshot's number was computed before; it is unique per VM, and the
\* VM's row must exist.
StoreSnapshot(j, v) ==
    LET w == work[j][v]
    IN  /\ w.pc = "storing"
        /\ jobs[j] \in Captures
        /\ IF Deleted(v) \/ w.number <= Len(snapshots[v])
           THEN Abort(j, v) /\ UNCHANGED <<status, snapshots>>
           ELSE /\ snapshots' = [snapshots EXCEPT ![v] = Append(@, w.now)]
                /\ status' = [status EXCEPT ![v] =
                                IF w.loaded = "discovered" THEN "baseline_captured" ELSE @]
                /\ Working(j, Finish(AfterCommit(j, v), v, "completed"))
        /\ UNCHANGED <<guest, latest, cache, jobs, answered, events>>

\* Assigning the status the session already holds is no change to the row.
StoreResult(j, v) ==
    LET w == work[j][v]
        new == StatusOf(w.verdict)
    IN  /\ w.pc = "storing"
        /\ jobs[j] \notin Captures
        /\ IF Deleted(v) THEN Abort(j, v) /\ UNCHANGED <<status, latest>>
           ELSE /\ latest' = [latest EXCEPT ![v] =
                                [verdict |-> w.verdict, source |-> w.source,
                                 base |-> w.base, now |-> w.now, alone |-> w.alone]]
                /\ status' = [status EXCEPT ![v] = IF w.loaded = new THEN @ ELSE new]
                /\ Working(j, Finish(AfterCommit(j, v), v, "completed"))
        /\ UNCHANGED <<guest, snapshots, cache, jobs, answered, events>>

-----------------------------------------------------------------------------
(* Everything else that touches these rows *)

Event == events < MaxEvents /\ events' = events + 1

\* POST .../snapshots and PATCH .../{vm_id} are requests of one commit; a PATCH
\* may set any status.
Untied(v) ==
    /\ latest' = [latest EXCEPT ![v] = IF @ = none THEN @ ELSE [@ EXCEPT !.alone = FALSE]]
    /\ work' = [k \in Jobs |-> [work[k] EXCEPT ![v].alone = @ /\ work[k][v].loaded = "unread"]]

PostSnapshot(v, state) ==
    /\ Event /\ Exists(v)
    /\ Len(snapshots[v]) < MaxSnapshots
    /\ snapshots' = [snapshots EXCEPT ![v] = Append(@, state)]
    /\ status' = [status EXCEPT ![v] = IF @ = "discovered" THEN "baseline_captured" ELSE @]
    /\ UNCHANGED <<guest, latest, cache, jobs, work, answered>>

PatchStatus(v, new) ==
    /\ Event /\ Exists(v)
    /\ status' = [status EXCEPT ![v] = new]
    /\ Untied(v)
    /\ UNCHANGED <<guest, snapshots, cache, jobs, answered>>

\* Deleting a VM takes its snapshots and validations with it.
DeleteVM(v) ==
    /\ Event /\ Exists(v)
    /\ status' = [status EXCEPT ![v] = "deleted"]
    /\ snapshots' = [snapshots EXCEPT ![v] = <<>>]
    /\ latest' = [latest EXCEPT ![v] = none]
    /\ UNCHANGED <<guest, cache, jobs, work, answered>>

GuestChanges(v, state) ==
    /\ Event /\ guest[v] # state
    /\ guest' = [guest EXCEPT ![v] = state]
    /\ UNCHANGED <<database, jobs, work, answered>>

EntryExpires(key) ==
    /\ Event /\ Fresh(key)
    /\ cache' = [cache EXCEPT ![key].fresh = FALSE]
    /\ UNCHANGED <<guest, status, snapshots, latest, jobs, work, answered>>

\* Every task store is in memory.
Restart ==
    /\ Event
    /\ \E j \in Jobs : jobs[j] \in Kinds
    /\ jobs' = [j \in Jobs |-> IF jobs[j] \in Kinds THEN "lost" ELSE jobs[j]]
    /\ work' = [j \in Jobs |-> [v \in VMs |-> NoWork]]
    /\ UNCHANGED <<guest, database, answered>>

Step(j, v) ==
    \/ RunTask(j, v) \/ NextInLoop(j, v)
    \/ \E flag \in BOOLEAN :
          CaptureCollected(j, v, flag) \/ ValidationCollected(j, v, flag) \/ CollectionFails(j, v, flag)
    \/ ConnectionDrops(j, v)
    \/ CacheHit(j, v) \/ CacheMiss(j, v)
    \/ \E answer \in Answers : Answered(j, v, answer) \/ Rejected(j, v, answer)
    \/ GuardrailFlags(j, v) \/ BackendFails(j, v) \/ BackendRaises(j, v)
    \/ CacheStored(j, v)
    \/ StoreSnapshot(j, v) \/ StoreResult(j, v)

Next ==
    \/ \E j \in Jobs, v \in VMs : TriggerCapture(j, v) \/ TriggerValidation(j, v)
    \/ \E j \in Jobs : CaptureAll(j) \/ ValidateAll(j) \/ CollectBaselinesForAllVMs(j)
    \/ \E j \in Jobs, scope \in SUBSET VMs :
          CaptureBulk(j, scope) \/ RunBulk(j, scope) \/ FireSchedule(j, scope)
    \/ \E j \in Jobs, v \in VMs : Step(j, v)
    \/ \E v \in VMs, state \in Guests : PostSnapshot(v, state) \/ GuestChanges(v, state)
    \/ \E v \in VMs, new \in Settable : PatchStatus(v, new)
    \/ \E v \in VMs : DeleteVM(v)
    \/ \E key \in DOMAIN cache : EntryExpires(key)
    \/ Restart

Spec == Init /\ [][Next]_vars

-----------------------------------------------------------------------------
(* Properties *)

Keys == {Key(base, now) : base, now \in Guests}

Work ==
    [pc : Ended \cup {"queued", "collecting", "reasoning", "asking", "asking_again", "caching", "storing"},
     loaded : Statuses \cup {"unread", "expired"}, alone : BOOLEAN,
     base : Guests \cup {none}, now : Guests \cup {none}, number : 0 .. MaxSnapshots + Cardinality(Jobs) + 1,
     verdict : Verdicts \cup {"none"}, source : {"none", "rule", "cache", "model", "review"},
     row : BOOLEAN]

Results == [verdict : Verdicts, source : {"rule", "cache", "model", "review"},
            base : Guests, now : Guests, alone : BOOLEAN]

\* Every variable has its type, and a session that ended holds no row.
TypeOK ==
    /\ guest \in [VMs -> Guests]
    /\ status \in [VMs -> Statuses]
    /\ \A v \in VMs : \A n \in DOMAIN snapshots[v] : snapshots[v][n] \in Guests
    /\ latest \in [VMs -> Results \cup {none}]
    /\ DOMAIN cache \subseteq Keys
    /\ \A key \in DOMAIN cache : cache[key] \in [verdict : Verdicts, fresh : BOOLEAN]
    /\ jobs \in [Jobs -> Kinds \cup {"idle", "lost"}]
    /\ work \in [Jobs -> [VMs -> Work]]
    /\ \A j \in Jobs, v \in VMs : work[j][v].pc \in Ended => work[j][v] = [NoWork EXCEPT !.pc = work[j][v].pc]
    /\ answered \subseteq Keys \X Verdicts
    /\ events \in 0 .. MaxEvents

\* core/validation.py: the VM's status reflects the verdict of its latest
\* validation, unless another session held the VM at the same time or an
\* operator set the status.
StatusFollowsVerdict ==
    \A v \in VMs : latest[v] # none /\ latest[v].alone => status[v] = StatusOf(latest[v].verdict)

\* core/validation.py, validation_cache.py: a verdict is a rule's of the first
\* tiers, an answer the model gave to this very diff and OS family, or a request
\* for manual review.  The cache holds answers of the model only.
VerdictsHaveAnAuthor ==
    /\ \A key \in DOMAIN cache : <<key, cache[key].verdict>> \in answered
    /\ \A v \in VMs : latest[v] # none =>
          LET result == latest[v]
              key == Key(result.base, result.now)
              rule == Classify(key.diff, v \in Production)
          IN  \/ result.source = "rule" /\ rule.tier < 3 /\ result.verdict = rule.status
              \/ result.source \in {"cache", "model"} /\ rule.tier = 3
                                 /\ <<key, result.verdict>> \in answered
              \/ result.source = "review" /\ rule.tier = 3 /\ result.verdict = "warn"

\* A system cron file with the same lines in another order or number.
Reordered(base, now) ==
    \E path \in DOMAIN base.files :
        /\ LinesOf(base, path) = LinesOf(now, path)
        /\ ~(path \in DOMAIN now.files /\ base.files[path] = now.files[path])

\* A validation that the tiers pass without asking the model is none that
\* core/collection/diff.py, the engine of the wave runs, fails; all it may warn
\* of is the network, where the tiers look for renames, and a system cron file
\* whose lines have another order or number, where the tiers compare sets.
PassesAgree ==
    \A v \in VMs :
        latest[v] # none /\ latest[v].source = "rule" /\ latest[v].verdict = "pass" =>
            LET dimensions == Dimensions(latest[v].base, latest[v].now)
            IN  /\ \A d \in {"services", "ports", "mounts"} : dimensions[d] = "pass"
                /\ dimensions["cron"] = "pass" \/ Reordered(latest[v].base.cron, latest[v].now.cron)
=============================================================================
