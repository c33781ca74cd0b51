------------------------------ MODULE ImportJobs ------------------------------
(***************************************************************************)
(* Inventory imports: the requests that upload, start and cancel a job     *)
(* (api/imports.py), the background tasks that scan the spooled file and   *)
(* import it batch by batch (core/import_jobs.py), the sweep at process    *)
(* start, and the other requests that create and delete VMs meanwhile.     *)
(*                                                                         *)
(* The file is the set of machines its rows route to the one vCenter of    *)
(* the model; a row the parser or the routing drops is not in it.  Rows    *)
(* carry a MoRef, so a machine has at most one inventory row               *)
(* (uq_vms_vcenter_moref).                                                 *)
(*                                                                         *)
(* A batch is one transaction of two steps.  The first matches its rows    *)
(* against the index of the vCenter, loaded once and then only told of     *)
(* the importer's own inserts; the second writes.  Sessions do not         *)
(* autoflush and expire their rows on commit.                              *)
(***************************************************************************)
EXTENDS Integers, FiniteSets

CONSTANTS
    Machines,   \* vSphere VMs
    Routings,   \* bound: what a file and its routing may bring into the vCenter
    Foreign,    \* bound: those that other requests create or delete
    Jobs,       \* bound: import jobs ever uploaded
    Requests,   \* HTTP requests in flight at once
    Tasks,      \* bound: background tasks of imports queued or running at once
    MaxEvents   \* bound: cancels, restarts, VMs created and deleted, in all

ASSUME RoutingsAssumption == Routings \subseteq (SUBSET Machines) \ {{}}
\* Row ids; 0 stands for no job.
ASSUME JobsAssumption == Jobs \subseteq Nat \ {0}
ASSUME MaxEventsAssumption == MaxEvents \in Nat
ASSUME ForeignAssumption == Foreign \subseteq Machines

VARIABLES
    vm,        \* the inventory row of a machine
    job,       \* ImportJob rows
    task,      \* run_scan and run_import tasks
    req,       \* open upload, start and cancel requests
    events,    \* how many of those there were
    swept,     \* did fail_orphan_imports run at the last start
    replayed,  \* history: jobs of which some batch met the unique constraint
    deleted    \* history: machines whose row some request deleted

history == <<replayed, deleted>>
vars == <<vm, job, task, req, events, swept, replayed, deleted>>

ActiveStatuses   == {"uploaded", "scanning", "importing"}
TerminalStatuses == {"completed", "failed", "cancelled"}
Statuses == ActiveStatuses \union TerminalStatuses \union {"none", "awaiting_mapping"}

Modes == {"create_only", "upsert"}

\* "missing": present with missing_from_last_upload.
RowStates == {"absent", "present", "missing"}

\* rows: the machines of the file under the job's routing, {} before there is one.
JobRecords == [status : Statuses, mode : Modes, file : {"none", "spooled", "wiped"},
               cancel : BOOLEAN, rows : SUBSET Machines, rejected : SUBSET Machines]

NoJob == [status |-> "none", mode |-> "upsert", file |-> "none",
          cancel |-> FALSE, rows |-> {}, rejected |-> {}]

TaskPhases == {"none", "scan", "scanning", "import", "reading", "open",
               "replay", "again", "sweep", "sweeping", "finishing"}

\* scans: the task is run_scan, whose own handler fails the job when the import raises.
\* rows: what the routing of its start gave it.  todo: not imported yet.
\* batch: being written.  work: in the open transaction, or about to be flagged.
\* indexed, index: self.indexes.  gone: what is in it and deleted since.
\* created: inserts of the open transaction.
TaskRecords == [phase : TaskPhases, job : Jobs \union {0}, scans : BOOLEAN,
                rows : SUBSET Machines, todo : SUBSET Machines, batch : SUBSET Machines,
                work : SUBSET Machines, created : SUBSET Machines,
                indexed : BOOLEAN, index : SUBSET Machines, gone : SUBSET Machines,
                seen : SUBSET Machines]

NoTask == [phase |-> "none", job |-> 0, scans |-> FALSE, rows |-> {}, todo |-> {},
           batch |-> {}, work |-> {}, created |-> {}, indexed |-> FALSE, index |-> {},
           gone |-> {}, seen |-> {}]

ReqRecords == [op : {"none", "upload", "start", "cancel"},
               job : Jobs \union {0}, saw : Statuses]

NoReq == [op |-> "none", job |-> 0, saw |-> "none"]

TypeOK ==
    /\ vm \in [Machines -> RowStates]
    /\ job \in [Jobs -> JobRecords]
    /\ task \in [Tasks -> TaskRecords]
    /\ req \in [Requests -> ReqRecords]
    /\ events \in 0..MaxEvents
    /\ swept \in BOOLEAN
    /\ replayed \subseteq Jobs
    /\ deleted \subseteq Machines

-----------------------------------------------------------------------------
(* Helpers *)

Present == {m \in Machines : vm[m] # "absent"}

Active(j) == job[j].status \in ActiveStatuses

\* _refuse_if_another_is_running reads the committed rows of all jobs.
Busy == \E j \in Jobs : Active(j)

\* _finish: every terminal transition removes the spool file.
Finished(j, status) == [job EXCEPT ![j].status = status, ![j].file = "none"]

End(t) == task' = [task EXCEPT ![t] = NoTask]

Queue(j, phase) ==
    \E t \in Tasks :
        /\ task[t].phase = "none"
        /\ task' = [task EXCEPT ![t] = [NoTask EXCEPT !.phase = phase, !.job = j,
                                                      !.scans = phase = "scan"]]

Free(r) == req[r].op = "none"

Close(r) == req' = [req EXCEPT ![r] = NoReq]

Event == events < MaxEvents /\ events' = events + 1

Init ==
    /\ \E state \in {"absent", "present"} : vm = [m \in Machines |-> state]
    /\ job = [j \in Jobs |-> NoJob]
    /\ task = [t \in Tasks |-> NoTask]
    /\ req = [r \in Requests |-> NoReq]
    /\ events = 0
    /\ swept = TRUE
    /\ replayed = {}
    /\ deleted = {}

-----------------------------------------------------------------------------
(* POST /api/imports/rvtools, .../start, .../cancel *)

\* The check comes before the upload is read from the wire and spooled.
UploadCheck(r) ==
    /\ Free(r)
    /\ ~Busy
    /\ req' = [req EXCEPT ![r].op = "upload"]
    /\ UNCHANGED <<vm, job, task, events, swept, history>>

\* A file too large or empty is refused, nothing is kept of it.
UploadRefuse(r) ==
    /\ req[r].op = "upload"
    /\ Close(r)
    /\ UNCHANGED <<vm, job, task, events, swept, history>>

UploadCommit(r) ==
    /\ req[r].op = "upload"
    /\ \E j \in Jobs, mode \in Modes, rows \in Routings \union {{}} :
          /\ job[j] = NoJob
          /\ \A i \in Jobs : i < j => job[i] # NoJob
          /\ job' = [job EXCEPT ![j] = [NoJob EXCEPT !.status = "uploaded", !.mode = mode,
                                                     !.file = "spooled", !.rows = rows]]
          /\ Queue(j, "scan")
    /\ Close(r)
    /\ UNCHANGED <<vm, events, swept, history>>

\* Reads the job, validates the routing and checks that nothing else runs.
StartCheck(r, j) ==
    /\ Free(r)
    /\ job[j].status = "awaiting_mapping"
    /\ ~Busy
    /\ req' = [req EXCEPT ![r] = [NoReq EXCEPT !.op = "start", !.job = j]]
    /\ UNCHANGED <<vm, job, task, events, swept, history>>

\* The row is written over whatever became of it since StartCheck.
StartCommit(r) ==
    /\ req[r].op = "start"
    /\ LET j == req[r].job
       IN  /\ \E mode \in Modes, rows \in Routings :
                 job' = [job EXCEPT ![j].status = "importing", ![j].mode = mode,
                                    ![j].rows = rows]
           /\ Queue(j, "import")
    /\ Close(r)
    /\ UNCHANGED <<vm, events, swept, history>>

CancelRead(r, j) ==
    /\ Free(r)
    /\ job[j].status \in ActiveStatuses \union {"awaiting_mapping"}
    /\ req' = [req EXCEPT ![r] = [op |-> "cancel", job |-> j, saw |-> job[j].status]]
    /\ Event
    /\ UNCHANGED <<vm, job, task, swept, history>>

\* A job that awaits its mapping is finished here, any other is only asked to stop.
CancelCommit(r) ==
    /\ req[r].op = "cancel"
    /\ LET j == req[r].job
       IN  job' = IF req[r].saw = "awaiting_mapping"
                  THEN Finished(j, "cancelled")
                  ELSE [job EXCEPT ![j].cancel = TRUE]
    /\ Close(r)
    /\ UNCHANGED <<vm, task, events, swept, history>>

-----------------------------------------------------------------------------
(* run_scan *)

ScanBegin(t) ==
    /\ task[t].phase = "scan"
    /\ LET j == task[t].job
       IN  IF job[j].status = "uploaded"
           THEN /\ job' = [job EXCEPT ![j].status = "scanning"]
                /\ task' = [task EXCEPT ![t].phase = "scanning"]
           ELSE End(t) /\ UNCHANGED job
    /\ UNCHANGED <<vm, req, events, swept, history>>

\* The file does not parse, has too many rows, or the scan raises.
ScanFail(t) ==
    /\ task[t].phase = "scanning"
    /\ job' = Finished(task[t].job, "failed")
    /\ End(t)
    /\ UNCHANGED <<vm, req, events, swept, history>>

\* _run_import: the counters restart and the file is opened.
Begun(t) == [task EXCEPT ![t].phase = "reading", ![t].rows = job[task[t].job].rows,
                         ![t].todo = job[task[t].job].rows]

ScanEnd(t) ==
    /\ task[t].phase = "scanning"
    /\ job[task[t].job].file = "spooled"
    /\ LET j == task[t].job
       IN  IF job[j].rows # {}
           THEN /\ job' = [job EXCEPT ![j].status = "importing"]
                /\ task' = Begun(t)
           ELSE /\ job' = [job EXCEPT ![j].status = "awaiting_mapping"]
                /\ End(t)
    /\ UNCHANGED <<vm, req, events, swept, history>>

-----------------------------------------------------------------------------
(* run_import *)

ImportBegin(t) ==
    /\ task[t].phase = "import"
    /\ LET j == task[t].job
       IN  CASE job[j].status # "importing" -> End(t) /\ UNCHANGED job
             [] job[j].status = "importing" /\ job[j].file = "spooled" ->
                  task' = Begun(t) /\ UNCHANGED job
             [] OTHER -> End(t) /\ job' = Finished(j, "failed")
    /\ UNCHANGED <<vm, req, events, swept, history>>

\* on_progress: commit, then look at the flag.  It runs before every flush_batch.
CancelSeen(t) == job[task[t].job].cancel

Cancelled(t) ==
    /\ task[t].phase = "reading"
    /\ CancelSeen(t)
    /\ End(t)
    /\ job' = Finished(task[t].job, "cancelled")
    /\ UNCHANGED <<vm, req, events, swept, history>>

\* The last row was read, and no cancel was.
ReadAll(t) ==
    /\ task[t].phase = "reading"
    /\ ~CancelSeen(t)
    /\ task[t].todo = {}
    /\ task' = [task EXCEPT ![t].phase = "sweep"]
    /\ UNCHANGED <<vm, job, req, events, swept, history>>

\* The rows of the next transaction: a batch, or one row of a batch done again.
NextWork(t) ==
    IF task[t].phase = "reading" THEN (SUBSET task[t].todo) \ {{}}
    ELSE {{m} : m \in task[t].batch}

Index(t) == IF task[t].indexed THEN task[t].index ELSE Present

\* A cached row that is gone raises when it is refreshed: the import fails.
Match(t) ==
    /\ task[t].phase \in {"reading", "replay"}
    /\ task[t].phase = "reading" => ~CancelSeen(t)
    /\ \E work \in NextWork(t) :
          IF work \intersect task[t].gone = {}
          THEN /\ task' = [task EXCEPT
                     ![t].phase = IF task[t].phase = "reading" THEN "open" ELSE "again",
                     ![t].work = work,
                     ![t].created = work \ Index(t),
                     ![t].batch = IF task[t].phase = "reading" THEN work ELSE @,
                     ![t].indexed = TRUE, ![t].index = Index(t) \union work]
               /\ UNCHANGED job
          ELSE End(t) /\ job' = Finished(task[t].job, "failed")
    /\ UNCHANGED <<vm, req, events, swept, history>>

\* An update of a deleted row deactivates the session: the handler's log line
\* raises before its rollback.  run_import ends there, run_scan fails the job.
Stale(t, written) ==
    /\ written \intersect task[t].gone # {}
    /\ job' = IF task[t].scans THEN Finished(task[t].job, "failed") ELSE job
    /\ End(t)
    /\ UNCHANGED <<vm, replayed>>

Updated(t) == IF job[task[t].job].mode = "upsert" THEN task[t].work \ task[t].created ELSE {}

\* A last batch that is not full is followed by no progress call.
AfterBatch_Sweeps(t, left) == IF left # {} THEN {"replay"} ELSE {"sweep"}
AfterBatch(t, left) ==
    CASE left # {} -> {"replay"}
      [] left = {} /\ task[t].todo = task[t].work -> {"reading", "sweep"}
      [] OTHER -> {"reading"}

\* cleared: the transaction was rolled back and with it everything cached.
Done_SeesMatchesOnly(t, cleared) ==
    \E phase \in AfterBatch(t, task[t].batch \ task[t].work) :
       task' = [task EXCEPT ![t].phase = phase, ![t].todo = @ \ task[t].work,
                            ![t].batch = @ \ task[t].work, ![t].work = {}, ![t].created = {},
                            ![t].seen = @ \union (task[t].work \ task[t].created)]
Done(t, cleared) ==
    LET left == task[t].batch \ task[t].work
    IN  \E phase \in AfterBatch(t, left) :
           task' = [task EXCEPT ![t].phase = phase, ![t].todo = @ \ task[t].work,
                                ![t].batch = left, ![t].work = {}, ![t].created = {},
                                ![t].seen = IF cleared THEN {} ELSE @ \union task[t].work,
                                ![t].gone = IF cleared THEN {} ELSE @,
                                ![t].indexed = ~cleared,
                                ![t].index = IF cleared THEN {} ELSE @]

Write(t) ==
    /\ task[t].created \intersect Present = {}
    /\ Updated(t) \intersect task[t].gone = {}
    /\ vm' = [m \in Machines |->
                IF m \in task[t].created \union Updated(t) THEN "present" ELSE vm[m]]
    /\ Done(t, FALSE)
    /\ UNCHANGED <<job, replayed>>

\* The unique constraint: a batch is rolled back and done again row by row, a
\* single row that meets it again is rejected.
Conflict_SkipsBatch(t) ==
    /\ task[t].created \intersect Present # {}
    /\ replayed' = replayed \union {task[t].job}
    /\ UNCHANGED <<vm, job>>
    /\ Done(t, TRUE)
Conflict(t) ==
    /\ task[t].created \intersect Present # {}
    /\ Updated(t) \intersect task[t].gone = {}
    /\ replayed' = replayed \union {task[t].job}
    /\ UNCHANGED vm
    /\ IF task[t].phase = "open"
       THEN /\ task' = [task EXCEPT ![t].phase = "replay", ![t].work = {}, ![t].created = {},
                                    ![t].seen = {}, ![t].gone = {},
                                    ![t].indexed = FALSE, ![t].index = {}]
            /\ UNCHANGED job
       ELSE /\ job' = [job EXCEPT ![task[t].job].rejected = @ \union task[t].work]
            /\ Done(t, TRUE)

Commit(t) ==
    /\ task[t].phase \in {"open", "again"}
    /\ Stale(t, Updated(t)) \/ Write(t) \/ Conflict(t)
    /\ UNCHANGED <<req, events, swept, deleted>>

\* mark_missing: what the index holds and no row of the file matched.
Unseen(t) == {m \in task[t].index \ task[t].seen : vm[m] = "present"}

SweepRead(t) ==
    /\ task[t].phase = "sweep"
    /\ IF task[t].gone = {}
       THEN /\ task' = [task EXCEPT ![t].phase = "sweeping",
                          ![t].work = IF job[task[t].job].mode = "upsert"
                                      THEN Unseen(t) ELSE {}]
            /\ UNCHANGED job
       ELSE End(t) /\ job' = Finished(task[t].job, "failed")
    /\ UNCHANGED <<vm, req, events, swept, history>>

SweepCommit(t) ==
    /\ task[t].phase = "sweeping"
    /\ \/ Stale(t, task[t].work)
       \/ /\ task[t].work \intersect task[t].gone = {}
          /\ vm' = [m \in Machines |-> IF m \in task[t].work THEN "missing" ELSE vm[m]]
          /\ task' = [task EXCEPT ![t].phase = "finishing", ![t].work = {}]
          /\ UNCHANGED <<job, replayed>>
    /\ UNCHANGED <<req, events, swept, deleted>>

Finish(t) ==
    /\ task[t].phase = "finishing"
    /\ job' = Finished(task[t].job, "completed")
    /\ End(t)
    /\ UNCHANGED <<vm, req, events, swept, history>>

-----------------------------------------------------------------------------
(* Other requests, and the process *)

\* POST /api/vms and DELETE /api/vms/{id}.
CreateVM(m) ==
    /\ m \notin Present
    /\ vm' = [vm EXCEPT ![m] = "present"]
    /\ Event
    /\ UNCHANGED <<job, task, req, swept, history>>

DeleteVM(m) ==
    /\ m \in Present
    /\ vm' = [vm EXCEPT ![m] = "absent"]
    /\ deleted' = deleted \union {m}
    /\ task' = [t \in Tasks |-> [task[t] EXCEPT !.gone = @ \union ({m} \intersect task[t].index)]]
    /\ Event
    /\ UNCHANGED <<job, req, swept, replayed>>

\* fail_orphan_imports; a job that waits for its routing keeps waiting for it
\* as long as its file is there.
Orphaned_ImportingOnly(j, wiped) == job[j].status = "importing"
Orphaned(j, wiped) ==
    \/ Active(j)
    \/ job[j].status = "awaiting_mapping" /\ (wiped \/ job[j].file # "spooled")

\* A restart may lose the spool directory; the start goes on when the sweep raises.
Restart ==
    /\ \E wiped \in BOOLEAN, sweeps \in BOOLEAN :
          /\ swept' = sweeps
          /\ job' = [j \in Jobs |->
               IF sweeps /\ Orphaned(j, wiped)
               THEN [job[j] EXCEPT !.status = "failed", !.file = "none"]
               ELSE [job[j] EXCEPT !.file = IF wiped /\ @ = "spooled" THEN "wiped" ELSE @]]
    /\ task' = [t \in Tasks |-> NoTask]
    /\ req' = [r \in Requests |-> NoReq]
    /\ Event
    /\ UNCHANGED <<vm, history>>

TaskStep(t) ==
    \/ ScanBegin(t)   \/ ScanFail(t)    \/ ScanEnd(t)
    \/ ImportBegin(t) \/ Cancelled(t)   \/ ReadAll(t)    \/ Match(t)
    \/ Commit(t)
    \/ SweepRead(t)   \/ SweepCommit(t) \/ Finish(t)

Next ==
    \/ \E r \in Requests : UploadCheck(r) \/ UploadRefuse(r) \/ UploadCommit(r)
    \/ \E r \in Requests, j \in Jobs : StartCheck(r, j) \/ CancelRead(r, j)
    \/ \E r \in Requests : StartCommit(r) \/ CancelCommit(r)
    \/ \E t \in Tasks : TaskStep(t)
    \/ \E m \in Foreign : CreateVM(m) \/ DeleteVM(m)
    \/ Restart

Spec == Init /\ [][Next]_vars

-----------------------------------------------------------------------------
(* Properties *)

\* An active job is what makes every later upload and start fail with 409: it
\* has a task that will end it, or the sweep of the last start was skipped, or
\* a VM was deleted under its import (see Stale).
ActiveImportsAreRunning ==
    \A j \in Jobs : Active(j) =>
        \/ \E t \in Tasks : task[t].job = j
        \/ ~swept
        \/ deleted # {}

\* mark_missing flags a VM that is in the file only when a batch of the job was
\* rolled back: flush_batch forgets with the index which VMs it had seen.
SeenVMsAreNotFlagged ==
    \A t \in Tasks :
        task[t].phase = "sweeping" /\ task[t].job \notin replayed =>
            \A m \in task[t].work : m \notin task[t].rows

\* A job completes only when every row of its file is in the inventory, was
\* deleted from it meanwhile, or is in the job's reject report.
CompletedImportsAreWhole ==
    [][\A t \in Tasks : Finish(t) =>
          task[t].rows \subseteq
             Present \union job[task[t].job].rejected \union deleted]_vars

\* A VM is flagged by the end of an import only: a job cancelled before its
\* last batch or failed on one has flagged nothing.
FlagsAreLast ==
    [][\A m \in Machines : vm'[m] = "missing" /\ vm[m] # "missing" =>
          \E t \in Tasks : task[t].todo = {} /\ task'[t].phase = "finishing"]_vars

=============================================================================
