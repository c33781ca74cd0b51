---------------------------- MODULE ImportJobsProof ----------------------------
(***************************************************************************)
(* Theorems about ImportJobs, for any machines, files, jobs, requests and  *)
(* tasks, and any number of cancels, restarts, creates and deletes.        *)
(*                                                                         *)
(* ImportInv says what a task relies on: its job is in the status its      *)
(* phase needs, its index is of machines that are there or were deleted,   *)
(* and its rows are those it has still to import, those it has seen, and   *)
(* those that were stored, deleted or rejected.                            *)
(***************************************************************************)
EXTENDS ImportJobs, TLAPS

-----------------------------------------------------------------------------
(* The invariant *)

\* The job was scanned: an import of it is running, or was, or may be started.
Scanned(j) == j \in Jobs /\ job[j].status \notin {"none", "uploaded", "scanning"}

\* A task works on a job in the status its phase needs.
TaskFits(t) ==
    /\ task[t].phase = "none" => task[t].job = 0
    /\ task[t].phase = "scan" => task[t].job \in Jobs /\ job[task[t].job].status = "uploaded"
    /\ task[t].phase = "scanning" => task[t].job \in Jobs /\ job[task[t].job].status = "scanning"
    /\ task[t].phase \notin {"none", "scan", "scanning"} => Scanned(task[t].job)

\* A scan has its job to itself; an import may share it with that of another start.
ScansAlone ==
    \A t, u \in Tasks :
        task[t].phase \in {"scan", "scanning"} /\ t # u => task[u].job # task[t].job

TasksFit == ScansAlone /\ \A t \in Tasks : TaskFits(t)

\* Who starts a job, or cancels one that waits for its mapping, has seen it scanned.
RequestsFit ==
    \A r \in Requests :
        /\ req[r].op = "cancel" => req[r].job \in Jobs /\ job[req[r].job].status # "none"
        /\ req[r].op = "start" \/ (req[r].op = "cancel" /\ req[r].saw = "awaiting_mapping")
              => Scanned(req[r].job)

\* What a task knows of the inventory is there, was deleted, or is about to be.
IndexFits(t) ==
    /\ task[t].gone \subseteq deleted
    /\ task[t].index \subseteq Present \union deleted \union task[t].created
    /\ task[t].created # {} => task[t].phase \in {"open", "again"}

\* The rejects of a task's job.
Rejected(t) == IF task[t].job \in Jobs THEN job[task[t].job].rejected ELSE {}

\* How far an import has come: what of its rows it has still to do, has seen, has stored.
ProgressFits(t) ==
    /\ task[t].phase = "open" => task[t].batch = task[t].work
    /\ task[t].phase \in {"replay", "again"} => task[t].job \in replayed
    /\ task[t].phase \in {"open", "again"} => task[t].work \subseteq task[t].index
    /\ task[t].phase \in {"sweep", "sweeping", "finishing"} => task[t].todo = {}
    /\ task[t].job \notin replayed => task[t].rows \subseteq task[t].todo \union task[t].seen
    /\ task[t].rows \subseteq task[t].todo \union Present \union deleted \union Rejected(t)

\* SeenVMsAreNotFlagged of one task.
Spares(t) ==
    task[t].phase = "sweeping" /\ task[t].job \notin replayed =>
        \A m \in task[t].work : m \notin task[t].rows

-----------------------------------------------------------------------------
(* Type correctness *)

\* The statuses and modes the code writes.
LEMMA StatusesWritten ==
    /\ {"uploaded", "scanning", "importing", "completed", "failed", "cancelled",
        "none", "awaiting_mapping"} \subseteq Statuses
    /\ "upsert" \in Modes
BY DEF Statuses, ActiveStatuses, TerminalStatuses, Modes

\* A job's status may be written over, and with it its file.
LEMMA StatusWritten ==
  ASSUME NEW x \in JobRecords, NEW s \in Statuses
  PROVE  /\ [x EXCEPT !.status = s] \in JobRecords
         /\ [x EXCEPT !.status = s, !.file = "none"] \in JobRecords
<1>1. [x EXCEPT !.status = s] \in JobRecords
  BY DEF JobRecords
<1>2. [x EXCEPT !.status = s, !.file = "none"] \in JobRecords
  BY DEF JobRecords
<1> QED BY <1>1, <1>2

\* So a job that moves on stays one.
LEMMA MovedOn ==
  ASSUME TypeOK, NEW j, NEW s \in Statuses
  PROVE  [job EXCEPT ![j].status = s] \in [Jobs -> JobRecords]
<1>1. job \in [Jobs -> JobRecords]
  BY DEF TypeOK
<1>2. \A i \in Jobs : [job[i] EXCEPT !.status = s] \in JobRecords
  BY <1>1, StatusWritten
<1> QED BY <1>1, <1>2

\* And so does one that ends.
LEMMA FinishedType ==
  ASSUME TypeOK, NEW j, NEW s \in Statuses
  PROVE  Finished(j, s) \in [Jobs -> JobRecords]
<1>1. job \in [Jobs -> JobRecords]
  BY DEF TypeOK
<1>2. \A i \in Jobs : [job[i] EXCEPT !.status = s, !.file = "none"] \in JobRecords
  BY <1>1, StatusWritten
<1>3. [job EXCEPT ![j] = [@ EXCEPT !.status = s, !.file = "none"]] \in [Jobs -> JobRecords]
  BY <1>1, <1>2
<1>4. Finished(j, s) = [job EXCEPT ![j] = [@ EXCEPT !.status = s, !.file = "none"]]
  BY <1>1 DEF Finished
<1> QED BY <1>3, <1>4

\* Every step keeps the types of the jobs.
LEMMA JobTypes ==
  ASSUME TypeOK, TasksFit, Next
  PROVE  job' \in [Jobs -> JobRecords]
<1> USE StatusesWritten
<1>1. ASSUME NEW r \in Requests, UploadCheck(r) \/ UploadRefuse(r)
      PROVE  job' \in [Jobs -> JobRecords]
  BY <1>1 DEF TypeOK, UploadCheck, UploadRefuse
<1>2. ASSUME NEW r \in Requests, UploadCommit(r)
      PROVE  job' \in [Jobs -> JobRecords]
  <2>1. PICK j \in Jobs, mode \in Modes, rows \in Routings \union {{}} :
          job' = [job EXCEPT ![j] = [NoJob EXCEPT !.status = "uploaded", !.mode = mode,
                                                  !.file = "spooled", !.rows = rows]]
    BY <1>2 DEF UploadCommit
  <2>2. [NoJob EXCEPT !.status = "uploaded", !.mode = mode,
                      !.file = "spooled", !.rows = rows] \in JobRecords
    BY RoutingsAssumption DEF NoJob, JobRecords
  <2> QED BY <2>1, <2>2 DEF TypeOK
<1>3. ASSUME NEW r \in Requests, NEW j \in Jobs, StartCheck(r, j) \/ CancelRead(r, j)
      PROVE  job' \in [Jobs -> JobRecords]
  BY <1>3 DEF TypeOK, StartCheck, CancelRead
<1>4. ASSUME NEW r \in Requests, StartCommit(r)
      PROVE  job' \in [Jobs -> JobRecords]
  <2>1. PICK mode \in Modes, rows \in Routings :
           job' = [job EXCEPT ![req[r].job].status = "importing", ![req[r].job].mode = mode,
                              ![req[r].job].rows = rows]
    BY <1>4 DEF StartCommit
  <2>2. job \in [Jobs -> JobRecords]
    BY DEF TypeOK
  <2>3. \A x \in JobRecords :
           [x EXCEPT !.status = "importing", !.mode = mode, !.rows = rows] \in JobRecords
    BY RoutingsAssumption DEF JobRecords
  <2>4. job' = [job EXCEPT ![req[r].job] =
                  [@ EXCEPT !.status = "importing", !.mode = mode, !.rows = rows]]
    BY <2>1, <2>2
  <2> QED BY <2>2, <2>3, <2>4
<1>8. ASSUME NEW r \in Requests, CancelCommit(r)
      PROVE  job' \in [Jobs -> JobRecords]
  <2>1. [job EXCEPT ![req[r].job].cancel = TRUE] \in [Jobs -> JobRecords]
    <3>1. \A x \in JobRecords : [x EXCEPT !.cancel = TRUE] \in JobRecords
      BY DEF JobRecords
    <3> QED BY <3>1 DEF TypeOK
  <2> QED BY <1>8, <2>1, FinishedType DEF CancelCommit
<1>5. ASSUME NEW t \in Tasks, TaskStep(t)
      PROVE  job' \in [Jobs -> JobRecords]
  <2>1. CASE ScanBegin(t)  BY <2>1, MovedOn DEF ScanBegin, TypeOK
  <2>2. CASE ScanFail(t)  BY <2>2, FinishedType DEF ScanFail
  <2>3. CASE ScanEnd(t)
    <3>1. \/ job' = [job EXCEPT ![task[t].job].status = "importing"]
          \/ job' = [job EXCEPT ![task[t].job].status = "awaiting_mapping"]
      BY <2>3 DEF ScanEnd
    <3>2. CASE job' = [job EXCEPT ![task[t].job].status = "importing"]
      BY <3>2, StatusesWritten, MovedOn
    <3>3. CASE job' = [job EXCEPT ![task[t].job].status = "awaiting_mapping"]
      BY <3>3, StatusesWritten, MovedOn
    <3> QED BY <3>1, <3>2, <3>3
  <2>4. CASE ImportBegin(t)  BY <2>4, FinishedType DEF ImportBegin, TypeOK
  <2>5. CASE Cancelled(t)  BY <2>5, FinishedType DEF Cancelled
  <2>6. CASE ReadAll(t)  BY <2>6 DEF ReadAll, TypeOK
  <2>7. CASE Match(t)  BY <2>7, FinishedType DEF Match, TypeOK
  <2>8. CASE Commit(t)
    <3>1. [job EXCEPT ![task[t].job].rejected = @ \union task[t].work] \in [Jobs -> JobRecords]
      <4>1. task[t].work \subseteq Machines
        BY DEF TypeOK, TaskRecords
      <4>2. \A x \in JobRecords : [x EXCEPT !.rejected = @ \union task[t].work] \in JobRecords
        BY <4>1 DEF JobRecords
      <4> QED BY <4>2 DEF TypeOK
    <3>2. ASSUME NEW written, Stale(t, written) PROVE job' \in [Jobs -> JobRecords]
      BY <3>2, FinishedType DEF Stale, TypeOK
    <3>3. ASSUME Write(t) \/ Conflict(t) PROVE job' \in [Jobs -> JobRecords]
      BY <3>1, <3>3 DEF Write, Conflict, TypeOK
    <3> QED BY <2>8, <3>2, <3>3 DEF Commit
  <2>9. CASE SweepRead(t)  BY <2>9, FinishedType DEF SweepRead, TypeOK
  <2>10. CASE SweepCommit(t)  BY <2>10, FinishedType DEF SweepCommit, Stale, TypeOK
  <2>11. CASE Finish(t)  BY <2>11, FinishedType DEF Finish
  <2> QED BY <1>5, <2>1, <2>2, <2>3, <2>4, <2>5, <2>6, <2>7, <2>8, <2>9, <2>10, <2>11 DEF TaskStep
<1>6. ASSUME NEW m \in Foreign, CreateVM(m) \/ DeleteVM(m)
      PROVE  job' \in [Jobs -> JobRecords]
  BY <1>6 DEF TypeOK, CreateVM, DeleteVM
<1>7. CASE Restart
  <2>1. PICK wiped \in BOOLEAN, sweeps \in BOOLEAN :
          job' = [j \in Jobs |->
               IF sweeps /\ Orphaned(j, wiped)
               THEN [job[j] EXCEPT !.status = "failed", !.file = "none"]
               ELSE [job[j] EXCEPT !.file = IF wiped /\ @ = "spooled" THEN "wiped" ELSE @]]
    BY <1>7 DEF Restart
  <2>2. ASSUME NEW j \in Jobs PROVE job'[j] \in JobRecords
    <3>1. job[j] \in JobRecords
      BY DEF TypeOK
    <3>2. [job[j] EXCEPT !.status = "failed", !.file = "none"] \in JobRecords
      BY <3>1 DEF JobRecords
    <3>3. [job[j] EXCEPT !.file = IF wiped /\ @ = "spooled" THEN "wiped" ELSE @] \in JobRecords
      BY <3>1 DEF JobRecords
    <3> QED BY <2>1, <3>2, <3>3
  <2> QED BY <2>1, <2>2
<1> QED BY <1>1, <1>2, <1>3, <1>4, <1>8, <1>5, <1>6, <1>7 DEF Next

\* A task slot may be emptied, or given to a job.
LEMMA SlotTypes ==
  /\ NoTask \in TaskRecords
  /\ \A j \in Jobs, phase \in TaskPhases, scans \in BOOLEAN :
        [NoTask EXCEPT !.phase = phase, !.job = j, !.scans = scans] \in TaskRecords
<1>1. NoTask \in TaskRecords
  BY DEF NoTask, TaskRecords, TaskPhases
<1>2. ASSUME NEW j \in Jobs, NEW phase \in TaskPhases, NEW scans \in BOOLEAN
      PROVE  [NoTask EXCEPT !.phase = phase, !.job = j, !.scans = scans] \in TaskRecords
  BY <1>1, <1>2 DEF TaskRecords
<1> QED BY <1>1, <1>2

\* One task moves, the others stay where they are.
OthersStay(t) == \A u \in Tasks \ {t} : task'[u] = task[u]

\* A step that writes one well formed task.
LEMMA OneTask ==
  ASSUME TypeOK, NEW t \in Tasks, NEW x \in TaskRecords, task' = [task EXCEPT ![t] = x]
  PROVE  task' \in [Tasks -> TaskRecords] /\ task'[t] = x /\ OthersStay(t)
BY DEF TypeOK, OthersStay

\* A step that ends one.
LEMMA EndEffect ==
  ASSUME TypeOK, NEW t \in Tasks, End(t)
  PROVE  task' \in [Tasks -> TaskRecords] /\ task'[t] = NoTask /\ OthersStay(t)
BY SlotTypes, OneTask DEF End

\* A step that queues one.
LEMMA QueueEffect ==
  ASSUME TypeOK, NEW j \in Jobs, NEW phase \in {"scan", "import"}, Queue(j, phase)
  PROVE  /\ task' \in [Tasks -> TaskRecords]
         /\ \E t \in Tasks :
               /\ OthersStay(t)
               /\ task[t].phase = "none"
               /\ task'[t].phase = phase /\ task'[t].job = j
               /\ task'[t].rows = {} /\ task'[t].index = {}
               /\ task'[t].gone = {} /\ task'[t].created = {}
<1>1. PICK t \in Tasks :
         /\ task[t].phase = "none"
         /\ task' = [task EXCEPT ![t] = [NoTask EXCEPT !.phase = phase, !.job = j,
                                                      !.scans = phase = "scan"]]
  BY DEF Queue
<1>2. phase \in TaskPhases /\ (phase = "scan") \in BOOLEAN
  BY DEF TaskPhases
<1>3. [NoTask EXCEPT !.phase = phase, !.job = j, !.scans = phase = "scan"] \in TaskRecords
  BY <1>2, SlotTypes
<1>4. task' \in [Tasks -> TaskRecords] /\ OthersStay(t)
      /\ task'[t] = [NoTask EXCEPT !.phase = phase, !.job = j, !.scans = phase = "scan"]
  BY <1>1, <1>3, OneTask
<1>5. /\ task'[t].phase = phase /\ task'[t].job = j
      /\ task'[t].rows = {} /\ task'[t].index = {}
      /\ task'[t].gone = {} /\ task'[t].created = {}
  BY <1>4 DEF NoTask
<1> QED BY <1>1, <1>4, <1>5

\* A step that only moves a task to another phase.
LEMMA PhaseEffect ==
  ASSUME TypeOK, NEW t \in Tasks, NEW phase \in TaskPhases,
         task' = [task EXCEPT ![t].phase = phase]
  PROVE  /\ task' \in [Tasks -> TaskRecords]
         /\ OthersStay(t)
         /\ task'[t] = [task[t] EXCEPT !.phase = phase]
<1>1. task \in [Tasks -> TaskRecords]
  BY DEF TypeOK
<1>2. [task[t] EXCEPT !.phase = phase] \in TaskRecords
  BY <1>1 DEF TaskRecords
<1> QED BY <1>1, <1>2, OneTask

\* The step that begins an import.
LEMMA BegunEffect ==
  ASSUME TypeOK, NEW t \in Tasks, task[t].job \in Jobs, task' = Begun(t)
  PROVE  /\ task' \in [Tasks -> TaskRecords]
         /\ OthersStay(t)
         /\ task'[t] = [task[t] EXCEPT !.phase = "reading", !.rows = job[task[t].job].rows,
                                      !.todo = job[task[t].job].rows]
<1>1. task \in [Tasks -> TaskRecords] /\ job \in [Jobs -> JobRecords]
  BY DEF TypeOK
<1> DEFINE rows == job[task[t].job].rows
<1>2. rows \in SUBSET Machines
  BY <1>1 DEF JobRecords
<1>3. task' = [task EXCEPT ![t] = [@ EXCEPT !.phase = "reading", !.rows = rows, !.todo = rows]]
  BY <1>1 DEF Begun
<1> HIDE DEF rows
<1>4. [task[t] EXCEPT !.phase = "reading", !.rows = rows, !.todo = rows] \in TaskRecords
  BY <1>1, <1>2, ZenonT(60) DEF TaskRecords, TaskPhases
<1>5. task' \in [Tasks -> TaskRecords] /\ OthersStay(t)
      /\ task'[t] = [task[t] EXCEPT !.phase = "reading", !.rows = rows, !.todo = rows]
  BY <1>3, <1>4, OneTask
<1> QED BY <1>5 DEF rows

\* The rows of a transaction are machines.
LEMMA WorkFits ==
  ASSUME TypeOK, NEW t \in Tasks
  PROVE  /\ NextWork(t) \subseteq SUBSET Machines
         /\ Index(t) \subseteq Machines
         /\ Unseen(t) \subseteq Machines
<1>1. task[t] \in TaskRecords
  BY DEF TypeOK
<1>2. task[t].todo \subseteq Machines /\ task[t].batch \subseteq Machines
      /\ task[t].index \subseteq Machines
  BY <1>1 DEF TaskRecords
<1> QED BY <1>2 DEF NextWork, Index, Unseen, Present

\* What Match opens when nothing of it is gone.
LEMMA MatchEffect ==
  ASSUME TypeOK, NEW t \in Tasks, Match(t)
  PROVE  \/ End(t) /\ job' = Finished(task[t].job, "failed")
         \/ /\ UNCHANGED job
            /\ task' \in [Tasks -> TaskRecords]
            /\ OthersStay(t)
            /\ \E work \in NextWork(t) :
                 /\ task'[t].phase = IF task[t].phase = "reading" THEN "open" ELSE "again"
                 /\ task'[t].work = work
                 /\ task'[t].created = work \ Index(t)
                 /\ task'[t].batch = IF task[t].phase = "reading" THEN work ELSE task[t].batch
                 /\ task'[t].index = Index(t) \union work
            /\ task'[t].job = task[t].job /\ task'[t].rows = task[t].rows
            /\ task'[t].todo = task[t].todo /\ task'[t].seen = task[t].seen
            /\ task'[t].gone = task[t].gone
<1>1. PICK work \in NextWork(t) :
          IF work \intersect task[t].gone = {}
          THEN /\ task' = [task EXCEPT
                     ![t].phase = IF task[t].phase = "reading" THEN "open" ELSE "again",
                     ![t].work = work,
                     ![t].created = work \ Index(t),
                     ![t].batch = IF task[t].phase = "reading" THEN work ELSE @,
                     ![t].indexed = TRUE, ![t].index = Index(t) \union work]
               /\ UNCHANGED job
          ELSE End(t) /\ job' = Finished(task[t].job, "failed")
  BY DEF Match
<1>2. SUFFICES ASSUME work \intersect task[t].gone = {}
               PROVE  ~(End(t) /\ job' = Finished(task[t].job, "failed")) =>
                        /\ UNCHANGED job
                        /\ task' \in [Tasks -> TaskRecords]
                        /\ OthersStay(t)
                        /\ task'[t].phase = IF task[t].phase = "reading" THEN "open" ELSE "again"
                        /\ task'[t].work = work
                        /\ task'[t].created = work \ Index(t)
                        /\ task'[t].batch = IF task[t].phase = "reading" THEN work ELSE task[t].batch
                        /\ task'[t].index = Index(t) \union work
                        /\ task'[t].job = task[t].job /\ task'[t].rows = task[t].rows
                        /\ task'[t].todo = task[t].todo /\ task'[t].seen = task[t].seen
                        /\ task'[t].gone = task[t].gone
  BY <1>1
<1> DEFINE phase == IF task[t].phase = "reading" THEN "open" ELSE "again"
           created == work \ Index(t)
           batch == IF task[t].phase = "reading" THEN work ELSE task[t].batch
           index == Index(t) \union work
<1>3. task \in [Tasks -> TaskRecords]
  BY DEF TypeOK
<1>4. /\ phase \in TaskPhases /\ work \in SUBSET Machines /\ created \in SUBSET Machines
      /\ batch \in SUBSET Machines /\ index \in SUBSET Machines
  BY <1>3, WorkFits DEF TaskRecords, TaskPhases
<1>5. /\ UNCHANGED job
      /\ task' = [task EXCEPT ![t] =
            [@ EXCEPT !.phase = phase, !.work = work, !.created = created, !.batch = batch,
                      !.indexed = TRUE, !.index = index]]
  BY <1>1, <1>2, <1>3 DEF TaskRecords
<1>6. /\ phase = IF task[t].phase = "reading" THEN "open" ELSE "again"
      /\ created = work \ Index(t)
      /\ batch = IF task[t].phase = "reading" THEN work ELSE task[t].batch
      /\ index = Index(t) \union work
  OBVIOUS
<1> HIDE DEF phase, created, batch, index
<1> DEFINE x == [task[t] EXCEPT !.phase = phase, !.work = work, !.created = created,
                                !.batch = batch, !.indexed = TRUE, !.index = index]
<1>7. x \in TaskRecords
  BY <1>3, <1>4, ZenonT(60) DEF TaskRecords
<1>8. /\ x.phase = phase /\ x.work = work /\ x.created = created /\ x.batch = batch
      /\ x.index = index /\ x.job = task[t].job /\ x.rows = task[t].rows
      /\ x.todo = task[t].todo /\ x.seen = task[t].seen /\ x.gone = task[t].gone
  BY <1>3 DEF TaskRecords
<1>9. task' = [task EXCEPT ![t] = x]
  BY <1>5
<1> HIDE DEF x
<1>10. task' \in [Tasks -> TaskRecords] /\ task'[t] = x /\ OthersStay(t)
  BY <1>7, <1>9, OneTask
<1> QED BY <1>5, <1>6, <1>8, <1>10

\* What Done writes of a batch.
LEMMA DoneEffect ==
  ASSUME TypeOK, NEW t \in Tasks, NEW cleared \in BOOLEAN, Done(t, cleared)
  PROVE  /\ task' \in [Tasks -> TaskRecords]
         /\ OthersStay(t)
         /\ task'[t].phase \in AfterBatch(t, task[t].batch \ task[t].work)
         /\ task'[t].todo = task[t].todo \ task[t].work
         /\ task'[t].batch = task[t].batch \ task[t].work
         /\ task'[t].work = {} /\ task'[t].created = {}
         /\ task'[t].seen = IF cleared THEN {} ELSE task[t].seen \union task[t].work
         /\ task'[t].gone = IF cleared THEN {} ELSE task[t].gone
         /\ task'[t].index = IF cleared THEN {} ELSE task[t].index
         /\ task'[t].job = task[t].job /\ task'[t].rows = task[t].rows
<1>1. task \in [Tasks -> TaskRecords]
  BY DEF TypeOK
<1> DEFINE left == task[t].batch \ task[t].work
           todo == task[t].todo \ task[t].work
           seen == IF cleared THEN {} ELSE task[t].seen \union task[t].work
           gone == IF cleared THEN {} ELSE task[t].gone
           index == IF cleared THEN {} ELSE task[t].index
<1>2. PICK phase \in AfterBatch(t, left) :
         task' = [task EXCEPT ![t].phase = phase, ![t].todo = @ \ task[t].work,
                              ![t].batch = left, ![t].work = {}, ![t].created = {},
                              ![t].seen = IF cleared THEN {} ELSE @ \union task[t].work,
                              ![t].gone = IF cleared THEN {} ELSE @,
                              ![t].indexed = ~cleared,
                              ![t].index = IF cleared THEN {} ELSE @]
  BY ZenonT(60) DEF Done
<1>3. phase \in TaskPhases
  BY <1>2 DEF AfterBatch, TaskPhases
<1>4. /\ todo \in SUBSET Machines /\ left \in SUBSET Machines
      /\ seen \in SUBSET Machines /\ gone \in SUBSET Machines /\ index \in SUBSET Machines
  BY <1>1, SMTT(60) DEF TaskRecords
<1>5. task' = [task EXCEPT ![t] =
        [@ EXCEPT !.phase = phase, !.todo = todo, !.batch = left, !.work = {}, !.created = {},
                  !.seen = seen, !.gone = gone, !.indexed = ~cleared, !.index = index]]
  BY <1>1, <1>2, ZenonT(60) DEF TaskRecords
<1> HIDE DEF left, todo, seen, gone, index
<1> DEFINE x == [task[t] EXCEPT !.phase = phase, !.todo = todo, !.batch = left, !.work = {},
                                !.created = {}, !.seen = seen, !.gone = gone,
                                !.indexed = ~cleared, !.index = index]
<1>6. x \in TaskRecords
  BY <1>1, <1>3, <1>4, ZenonT(60) DEF TaskRecords
<1>7. /\ x.phase = phase /\ x.todo = todo /\ x.batch = left /\ x.work = {} /\ x.created = {}
      /\ x.seen = seen /\ x.gone = gone /\ x.index = index
      /\ x.job = task[t].job /\ x.rows = task[t].rows
  BY <1>1 DEF TaskRecords
<1>8. task' = [task EXCEPT ![t] = x]
  BY <1>5
<1> HIDE DEF x
<1>9. task' \in [Tasks -> TaskRecords] /\ task'[t] = x /\ OthersStay(t)
  BY <1>6, <1>8, OneTask
<1> QED BY <1>2, <1>7, <1>9, ZenonT(60) DEF left, todo, seen, gone, index

\* What Conflict writes of a batch that is done again row by row.
LEMMA ReplayEffect ==
  ASSUME TypeOK, NEW t \in Tasks,
         task' = [task EXCEPT ![t].phase = "replay", ![t].work = {}, ![t].created = {},
                              ![t].seen = {}, ![t].gone = {},
                              ![t].indexed = FALSE, ![t].index = {}]
  PROVE  /\ task' \in [Tasks -> TaskRecords]
         /\ OthersStay(t)
         /\ task'[t].phase = "replay"
         /\ task'[t].work = {} /\ task'[t].created = {} /\ task'[t].gone = {}
         /\ task'[t].index = {}
         /\ task'[t].job = task[t].job /\ task'[t].rows = task[t].rows
         /\ task'[t].todo = task[t].todo
<1> DEFINE x == [task[t] EXCEPT !.phase = "replay", !.work = {}, !.created = {}, !.seen = {},
                                !.gone = {}, !.indexed = FALSE, !.index = {}]
<1>1. task \in [Tasks -> TaskRecords]
  BY DEF TypeOK
<1>2. x \in TaskRecords
  BY <1>1, ZenonT(60) DEF TaskRecords, TaskPhases
<1>3. /\ x.phase = "replay" /\ x.work = {} /\ x.created = {} /\ x.gone = {} /\ x.index = {}
      /\ x.job = task[t].job /\ x.rows = task[t].rows /\ x.todo = task[t].todo
  BY <1>1 DEF TaskRecords
<1>4. task' = [task EXCEPT ![t] = x]
  BY <1>1
<1> HIDE DEF x
<1> QED BY <1>2, <1>3, <1>4, OneTask, ZenonT(60)

\* A step of the sweep: a phase, and the machines about to be flagged.
LEMMA SweepEffect ==
  ASSUME TypeOK, NEW t \in Tasks, NEW phase \in TaskPhases, NEW work \in SUBSET Machines,
         task' = [task EXCEPT ![t].phase = phase, ![t].work = work]
  PROVE  /\ task' \in [Tasks -> TaskRecords]
         /\ OthersStay(t)
         /\ task'[t] = [task[t] EXCEPT !.phase = phase, !.work = work]
<1>1. task \in [Tasks -> TaskRecords]
  BY DEF TypeOK
<1>2. [task[t] EXCEPT !.phase = phase, !.work = work] \in TaskRecords
  BY <1>1, ZenonT(60) DEF TaskRecords
<1>3. task' = [task EXCEPT ![t] = [@ EXCEPT !.phase = phase, !.work = work]]
  BY <1>1
<1> QED BY <1>1, <1>2, <1>3, OneTask

\* A delete reaches every task that has the machine in its index.
LEMMA DeleteEffect ==
  ASSUME TypeOK, NEW m \in Machines, DeleteVM(m)
  PROVE  /\ task' \in [Tasks -> TaskRecords]
         /\ \A t \in Tasks : task'[t] = [task[t] EXCEPT !.gone = @ \union ({m} \intersect task[t].index)]
<1>1. task \in [Tasks -> TaskRecords]
  BY DEF TypeOK
<1>2. task' = [t \in Tasks |-> [task[t] EXCEPT !.gone = @ \union ({m} \intersect task[t].index)]]
  BY DEF DeleteVM
<1>3. ASSUME NEW t \in Tasks
      PROVE  [task[t] EXCEPT !.gone = @ \union ({m} \intersect task[t].index)] \in TaskRecords
  BY <1>1 DEF TaskRecords
<1> QED BY <1>2, <1>3

\* Every step keeps the types of the tasks.
LEMMA TaskTypes ==
  ASSUME TypeOK, TasksFit, RequestsFit, Next
  PROVE  task' \in [Tasks -> TaskRecords]
<1>0. task \in [Tasks -> TaskRecords]
  BY DEF TypeOK
<1>1. ASSUME NEW r \in Requests, UploadCheck(r) \/ UploadRefuse(r) \/ CancelCommit(r)
      PROVE  task' \in [Tasks -> TaskRecords]
  BY <1>0, <1>1 DEF UploadCheck, UploadRefuse, CancelCommit
<1>2. ASSUME NEW r \in Requests, UploadCommit(r)
      PROVE  task' \in [Tasks -> TaskRecords]
  BY <1>2, QueueEffect DEF UploadCommit
<1>3. ASSUME NEW r \in Requests, NEW j \in Jobs, StartCheck(r, j) \/ CancelRead(r, j)
      PROVE  task' \in [Tasks -> TaskRecords]
  BY <1>0, <1>3 DEF StartCheck, CancelRead
<1>4. ASSUME NEW r \in Requests, StartCommit(r)
      PROVE  task' \in [Tasks -> TaskRecords]
  <2>1. req[r].job \in Jobs /\ Queue(req[r].job, "import")
    BY <1>4 DEF StartCommit, RequestsFit, Scanned
  <2> QED BY <2>1, QueueEffect
<1>5. ASSUME NEW t \in Tasks, TaskStep(t)
      PROVE  task' \in [Tasks -> TaskRecords]
  <2>1. CASE ScanBegin(t)
    BY <2>1, EndEffect, PhaseEffect DEF ScanBegin, TaskPhases
  <2>2. CASE ScanFail(t) \/ Cancelled(t) \/ Finish(t)
    BY <2>2, EndEffect DEF ScanFail, Cancelled, Finish
  <2>3. CASE ScanEnd(t)
    BY <2>3, EndEffect, BegunEffect DEF ScanEnd, TasksFit, TaskFits
  <2>4. CASE ImportBegin(t)
    BY <2>4, EndEffect, BegunEffect DEF ImportBegin, TasksFit, TaskFits, Scanned
  <2>5. CASE ReadAll(t)
    BY <2>5, PhaseEffect DEF ReadAll, TaskPhases
  <2>6. CASE Match(t)
    BY <2>6, MatchEffect, EndEffect
  <2>7. CASE Commit(t)
    BY <2>7, EndEffect, DoneEffect, ReplayEffect DEF Commit, Stale, Write, Conflict
  <2>8. CASE SweepRead(t)
    <3>1. (IF job[task[t].job].mode = "upsert" THEN Unseen(t) ELSE {}) \in SUBSET Machines
      BY WorkFits
    <3>2. "sweeping" \in TaskPhases
      BY DEF TaskPhases
    <3> QED BY <2>8, <3>1, <3>2, EndEffect, SweepEffect, ZenonT(60) DEF SweepRead
  <2>9. CASE SweepCommit(t)
    BY <2>9, EndEffect, SweepEffect DEF SweepCommit, Stale, TaskPhases
  <2> QED BY <1>5, <2>1, <2>2, <2>3, <2>4, <2>5, <2>6, <2>7, <2>8, <2>9 DEF TaskStep
<1>6. ASSUME NEW m \in Foreign, CreateVM(m) \/ DeleteVM(m)
      PROVE  task' \in [Tasks -> TaskRecords]
  BY <1>0, <1>6, ForeignAssumption, DeleteEffect DEF CreateVM
<1>7. CASE Restart
  BY <1>7, SlotTypes DEF Restart
<1> QED BY <1>1, <1>2, <1>3, <1>4, <1>5, <1>6, <1>7 DEF Next

\* The steps of the requests that handle imports.
RequestStep ==
    \/ \E r \in Requests : UploadCheck(r) \/ UploadRefuse(r) \/ UploadCommit(r)
    \/ \E r \in Requests, j \in Jobs : StartCheck(r, j) \/ CancelRead(r, j)
    \/ \E r \in Requests : StartCommit(r) \/ CancelCommit(r)

\* What the steps leave alone: only Commit, SweepCommit and the other requests write vm.
LEMMA Untouched ==
  /\ RequestStep => UNCHANGED <<vm, swept, history>>
  /\ \A t \in Tasks : TaskStep(t) => UNCHANGED <<req, events, swept, deleted>>
  /\ \A t \in Tasks : TaskStep(t) /\ ~Commit(t) /\ ~SweepCommit(t) => UNCHANGED <<vm, replayed>>
  /\ \A t \in Tasks : SweepCommit(t) => UNCHANGED replayed
<1>1. RequestStep => UNCHANGED <<vm, swept, history>>
  BY ZenonT(60) DEF RequestStep, UploadCheck, UploadRefuse, UploadCommit, StartCheck, CancelRead,
     StartCommit, CancelCommit
<1>2. ASSUME NEW t \in Tasks, TaskStep(t)
      PROVE  UNCHANGED <<req, events, swept, deleted>>
  BY <1>2, ZenonT(60) DEF history, TaskStep, ScanBegin, ScanFail, ScanEnd, ImportBegin,
     Cancelled, ReadAll,
     Match, Commit, SweepRead, SweepCommit, Finish
<1>3. ASSUME NEW t \in Tasks, TaskStep(t), ~Commit(t), ~SweepCommit(t)
      PROVE  UNCHANGED <<vm, replayed>>
  BY <1>3 DEF history, TaskStep, ScanBegin, ScanFail, ScanEnd, ImportBegin, Cancelled, ReadAll,
     Match, SweepRead, Finish
<1>4. ASSUME NEW t \in Tasks, SweepCommit(t) PROVE UNCHANGED replayed
  BY <1>4 DEF SweepCommit, Stale
<1> QED BY <1>1, <1>2, <1>3, <1>4, SMTT(60)

\* Every step keeps all types.
LEMMA NextTypes ==
  ASSUME TypeOK, TasksFit, RequestsFit, Next
  PROVE  TypeOK'
<1>1. job' \in [Jobs -> JobRecords] /\ task' \in [Tasks -> TaskRecords]
  BY JobTypes, TaskTypes
<1>2. vm' \in [Machines -> RowStates]
  <2>1. ASSUME NEW t \in Tasks, Commit(t) PROVE vm' \in [Machines -> RowStates]
    BY <2>1 DEF Commit, Stale, Write, Conflict, TypeOK, RowStates
  <2>2. ASSUME NEW t \in Tasks, SweepCommit(t) PROVE vm' \in [Machines -> RowStates]
    BY <2>2 DEF SweepCommit, Stale, TypeOK, RowStates
  <2>3. ASSUME NEW m \in Foreign, CreateVM(m) \/ DeleteVM(m) PROVE vm' \in [Machines -> RowStates]
    BY <2>3 DEF CreateVM, DeleteVM, TypeOK, RowStates
  <2>4. Restart => UNCHANGED vm
    BY DEF Restart
  <2> QED BY <2>1, <2>2, <2>3, <2>4, Untouched DEF TypeOK, Next, RequestStep
<1>3. req' \in [Requests -> ReqRecords]
  <2>1. NoReq \in ReqRecords
    BY StatusesWritten DEF NoReq, ReqRecords
  <2>2. ASSUME NEW r \in Requests, UploadCheck(r) PROVE req' \in [Requests -> ReqRecords]
    <3>1. \A x \in ReqRecords : [x EXCEPT !.op = "upload"] \in ReqRecords
      BY DEF ReqRecords
    <3> QED BY <2>2, <3>1 DEF UploadCheck, TypeOK
  <2>3. ASSUME NEW r \in Requests, NEW j \in Jobs, StartCheck(r, j)
        PROVE  req' \in [Requests -> ReqRecords]
    <3>1. [NoReq EXCEPT !.op = "start", !.job = j] \in ReqRecords
      BY <2>1 DEF ReqRecords
    <3> QED BY <2>3, <3>1 DEF StartCheck, TypeOK
  <2>4. ASSUME NEW r \in Requests, NEW j \in Jobs, CancelRead(r, j)
        PROVE  req' \in [Requests -> ReqRecords]
    <3>1. [op |-> "cancel", job |-> j, saw |-> job[j].status] \in ReqRecords
      BY DEF ReqRecords, TypeOK, JobRecords
    <3> QED BY <2>4, <3>1 DEF CancelRead, TypeOK
  <2>5. ASSUME NEW r \in Requests, Close(r) PROVE req' \in [Requests -> ReqRecords]
    BY <2>1, <2>5 DEF Close, TypeOK
  <2>7. CASE Restart
    BY <2>1, <2>7 DEF Restart
  <2> QED BY <2>2, <2>3, <2>4, <2>5, <2>7, Untouched
      DEF Next, UploadRefuse, UploadCommit, StartCommit, CancelCommit, CreateVM, DeleteVM, TypeOK
<1>4. events' \in 0..MaxEvents
  <2>1. Event => events' \in 0..MaxEvents
    BY MaxEventsAssumption DEF TypeOK, Event
  <2> QED BY <2>1, Untouched DEF TypeOK, Next, UploadCheck, UploadRefuse, UploadCommit, StartCheck,
        CancelRead, StartCommit, CancelCommit, CreateVM, DeleteVM, Restart
<1>5. swept' \in BOOLEAN
  <2>1. ASSUME NEW m \in Foreign, CreateVM(m) \/ DeleteVM(m) PROVE UNCHANGED swept
    BY <2>1 DEF CreateVM, DeleteVM
  <2>2. Restart => swept' \in BOOLEAN
    BY DEF Restart
  <2> QED BY <2>1, <2>2, Untouched DEF TypeOK, Next, RequestStep
<1>6. deleted' \subseteq Machines
  <2>1. ASSUME NEW m \in Foreign, CreateVM(m) \/ DeleteVM(m) PROVE deleted' \subseteq Machines
    BY <2>1, ForeignAssumption DEF CreateVM, DeleteVM, TypeOK, history
  <2>2. Restart => UNCHANGED deleted
    BY DEF Restart, history
  <2> QED BY <2>1, <2>2, Untouched DEF TypeOK, Next, RequestStep, history
<1>7. replayed' \subseteq Jobs
  <2>1. \A t \in Tasks : task[t].phase \in {"open", "again"} => task[t].job \in Jobs
    BY DEF TasksFit, TaskFits, Scanned
  <2>2. ASSUME NEW t \in Tasks, Commit(t) PROVE replayed' \subseteq Jobs
    <3>1. UNCHANGED replayed \/ replayed' = replayed \union {task[t].job}
      BY <2>2 DEF Commit, Stale, Write, Conflict
    <3>2. task[t].job \in Jobs
      BY <2>1, <2>2 DEF Commit
    <3> QED BY <3>1, <3>2 DEF TypeOK
  <2>3. ASSUME NEW m \in Foreign, CreateVM(m) \/ DeleteVM(m) PROVE UNCHANGED replayed
    BY <2>3 DEF CreateVM, DeleteVM, history
  <2>4. Restart => UNCHANGED replayed
    BY DEF Restart, history
  <2> QED BY <2>2, <2>3, <2>4, Untouched DEF TypeOK, Next, RequestStep, history
<1> QED BY <1>1, <1>2, <1>3, <1>4, <1>5, <1>6, <1>7 DEF TypeOK

-----------------------------------------------------------------------------
(* The jobs and who works on them *)

\* Writing a job's status changes the status of no other and loses no reject.
LEMMA StatusOfOne ==
  ASSUME TypeOK, NEW j, NEW s, job' = [job EXCEPT ![j].status = s]
  PROVE  \A i \in Jobs : /\ job'[i].status = IF i = j THEN s ELSE job[i].status
                         /\ job'[i].rejected = job[i].rejected
<1>1. job \in [Jobs -> JobRecords]
  BY DEF TypeOK
<1>2. SUFFICES ASSUME NEW i \in Jobs
               PROVE  /\ job'[i].status = IF i = j THEN s ELSE job[i].status
                      /\ job'[i].rejected = job[i].rejected
  OBVIOUS
<1>3. job[i] \in JobRecords
  BY <1>1
<1>4. job'[i] = IF i = j THEN [job[i] EXCEPT !.status = s] ELSE job[i]
  BY <1>1
<1>5. CASE i = j
  BY <1>3, <1>4, <1>5 DEF JobRecords
<1>6. CASE i # j
  <2>1. job'[i] = job[i]
    BY <1>4, <1>6
  <2> QED BY <1>6, <2>1
<1> QED BY <1>5, <1>6

\* Nor does ending one.
LEMMA FinishOfOne ==
  ASSUME TypeOK, NEW j, NEW s, job' = Finished(j, s)
  PROVE  \A i \in Jobs : /\ job'[i].status = IF i = j THEN s ELSE job[i].status
                         /\ job'[i].rejected = job[i].rejected
<1>1. job \in [Jobs -> JobRecords]
  BY DEF TypeOK
<1>2. SUFFICES ASSUME NEW i \in Jobs
               PROVE  /\ job'[i].status = IF i = j THEN s ELSE job[i].status
                      /\ job'[i].rejected = job[i].rejected
  OBVIOUS
<1>3. job[i] \in JobRecords
  BY <1>1
<1>4. job'[i] = IF i = j THEN [job[i] EXCEPT !.status = s, !.file = "none"] ELSE job[i]
  BY <1>1 DEF Finished
<1>5. CASE i = j
  BY <1>3, <1>4, <1>5 DEF JobRecords
<1>6. CASE i # j
  <2>1. job'[i] = job[i]
    BY <1>4, <1>6
  <2> QED BY <1>6, <2>1
<1> QED BY <1>5, <1>6

\* A start moves its job to importing, and no other.
LEMMA StartMovesJob ==
  ASSUME TypeOK, NEW r \in Requests, StartCommit(r)
  PROVE  \A i \in Jobs : IF i = req[r].job
                         THEN job'[i].status = "importing" /\ job'[i].rejected = job[i].rejected
                         ELSE job'[i] = job[i]
<1>1. job \in [Jobs -> JobRecords]
  BY DEF TypeOK
<1>2. PICK mode \in Modes, rows \in Routings :
         job' = [job EXCEPT ![req[r].job].status = "importing", ![req[r].job].mode = mode,
                            ![req[r].job].rows = rows]
  BY DEF StartCommit
<1>3. \A x \in JobRecords :
        LET y == [x EXCEPT !.status = "importing", !.mode = mode, !.rows = rows]
        IN  y.status = "importing" /\ y.rejected = x.rejected
  BY DEF JobRecords
<1>4. \A i \in Jobs : job'[i] = IF i = req[r].job
          THEN [job[i] EXCEPT !.status = "importing", !.mode = mode, !.rows = rows]
          ELSE job[i]
  BY <1>1, <1>2
<1>5. \A i \in Jobs :
        LET y == [job[i] EXCEPT !.status = "importing", !.mode = mode, !.rows = rows]
        IN  y.status = "importing" /\ y.rejected = job[i].rejected
  BY <1>1, <1>3
<1> QED BY <1>4, <1>5, ZenonT(60)

\* A cancel ends a job that was scanned, or changes no status.
LEMMA CancelMovesJob ==
  ASSUME TypeOK, RequestsFit, NEW r \in Requests, CancelCommit(r)
  PROVE  \A i \in Jobs :
            /\ job'[i].rejected = job[i].rejected
            /\ \/ job'[i].status = job[i].status
               \/ job'[i].status = "cancelled" /\ Scanned(i)
<1>1. job \in [Jobs -> JobRecords]
  BY DEF TypeOK
<1>2. CASE req[r].saw = "awaiting_mapping"
  <2>1. Scanned(req[r].job)
    BY <1>2 DEF CancelCommit, RequestsFit
  <2>2. job' = Finished(req[r].job, "cancelled")
    BY <1>2 DEF CancelCommit
  <2> QED BY <2>1, <2>2, FinishOfOne
<1>3. CASE req[r].saw # "awaiting_mapping"
  <2>1. job' = [job EXCEPT ![req[r].job].cancel = TRUE]
    BY <1>3 DEF CancelCommit
  <2>2. \A x \in JobRecords : [x EXCEPT !.cancel = TRUE].status = x.status
                           /\ [x EXCEPT !.cancel = TRUE].rejected = x.rejected
    BY DEF JobRecords
  <2>3. \A i \in Jobs : job'[i] = IF i = req[r].job THEN [job[i] EXCEPT !.cancel = TRUE] ELSE job[i]
    BY <1>1, <2>1
  <2> QED BY <1>1, <2>2, <2>3
<1> QED BY <1>2, <1>3

\* The jobs a request moves: one uploaded, or one that was scanned before.
LEMMA RequestsMoveJobs ==
  ASSUME TypeOK, TasksFit, RequestsFit, RequestStep
  PROVE  /\ \A j \in Jobs : job[j].rejected \subseteq job'[j].rejected
         /\ \A j \in Jobs : Scanned(j) => Scanned(j)'
         /\ \A j \in Jobs : job[j].status # "none" /\ ~Scanned(j)
               => job'[j].status = job[j].status
<1>0. job \in [Jobs -> JobRecords]
  BY DEF TypeOK
<1>1. ASSUME NEW r \in Requests, NEW j \in Jobs,
             UploadCheck(r) \/ UploadRefuse(r) \/ StartCheck(r, j) \/ CancelRead(r, j)
      PROVE  job' = job
  BY <1>1 DEF UploadCheck, UploadRefuse, StartCheck, CancelRead
<1>2. ASSUME NEW r \in Requests, UploadCommit(r)
      PROVE  \E j \in Jobs : job[j] = NoJob /\ \A i \in Jobs \ {j} : job'[i] = job[i]
  BY <1>0, <1>2 DEF UploadCommit
<1>5. ASSUME NEW r \in Requests, StartCommit(r) PROVE Scanned(req[r].job)
  BY <1>5 DEF StartCommit, RequestsFit
<1>6. NoJob.status = "none" /\ NoJob.rejected = {}
  BY DEF NoJob
<1>7. ASSUME NEW r \in Requests, UploadCommit(r)
      PROVE  \A j \in Jobs : /\ job[j].rejected \subseteq job'[j].rejected
                             /\ job[j].status # "none" => job'[j].status = job[j].status
  BY <1>2, <1>6, <1>7
<1> QED BY <1>1, <1>5, <1>7, StartMovesJob, CancelMovesJob DEF RequestStep, Scanned

\* A step of a task writes the status of its own job only: scanning after uploaded, or a
\* status from which it counts as scanned.
LEMMA TasksMoveJobs ==
  ASSUME TypeOK, TasksFit, NEW t \in Tasks, TaskStep(t)
  PROVE  /\ \A j \in Jobs : job[j].rejected \subseteq job'[j].rejected
         /\ \A j \in Jobs : j # task[t].job => job'[j].status = job[j].status
         /\ \A j \in Jobs : j = task[t].job =>
               IF task[t].phase = "scan"
               THEN job'[j].status = "scanning"
               ELSE job'[j].status \notin {"none", "uploaded", "scanning"}
<1>0. job \in [Jobs -> JobRecords]
  BY DEF TypeOK
<1>1. TaskFits(t)
  BY DEF TasksFit
<1>2. CASE ScanBegin(t)
  <2>1. task[t].phase = "scan" /\ job' = [job EXCEPT ![task[t].job].status = "scanning"]
    BY <1>1, <1>2 DEF ScanBegin, TaskFits
  <2>2. \A i \in Jobs : /\ job'[i].status = IF i = task[t].job THEN "scanning" ELSE job[i].status
                        /\ job'[i].rejected = job[i].rejected
    BY <2>1, StatusOfOne
  <2> QED BY <2>1, <2>2
<1>3. CASE ScanEnd(t)
  <2>1. job' = [job EXCEPT ![task[t].job].status = "importing"]
        \/ job' = [job EXCEPT ![task[t].job].status = "awaiting_mapping"]
    BY <1>3 DEF ScanEnd
  <2>2. task[t].phase # "scan"
    BY <1>3 DEF ScanEnd
  <2>3. ASSUME NEW s \in {"importing", "awaiting_mapping"},
               job' = [job EXCEPT ![task[t].job].status = s]
        PROVE  \A i \in Jobs : /\ job'[i].status = IF i = task[t].job THEN s ELSE job[i].status
                               /\ job'[i].rejected = job[i].rejected
    BY <2>3, StatusOfOne
  <2> QED BY <2>1, <2>2, <2>3
<1>4. ASSUME NEW s \in {"failed", "cancelled", "completed"},
             job' = Finished(task[t].job, s), task[t].phase # "scan"
      PROVE  /\ \A j \in Jobs : job[j].rejected \subseteq job'[j].rejected
             /\ \A j \in Jobs : j # task[t].job => job'[j].status = job[j].status
             /\ \A j \in Jobs : j = task[t].job =>
                   job'[j].status \notin {"none", "uploaded", "scanning"}
  BY <1>4, FinishOfOne
<1>5. ASSUME job' = job, task[t].phase \notin {"none", "scan", "scanning"}
      PROVE  /\ \A j \in Jobs : job[j].rejected \subseteq job'[j].rejected
             /\ \A j \in Jobs : j # task[t].job => job'[j].status = job[j].status
             /\ \A j \in Jobs : j = task[t].job =>
                   job'[j].status \notin {"none", "uploaded", "scanning"}
  BY <1>1, <1>5 DEF TaskFits, Scanned
<1>6. CASE ScanFail(t)
  BY <1>4, <1>6 DEF ScanFail
<1>7. CASE ImportBegin(t)
  BY <1>4, <1>5, <1>7 DEF ImportBegin
<1>8. CASE Cancelled(t)
  BY <1>4, <1>8 DEF Cancelled
<1>9. CASE ReadAll(t)
  BY <1>5, <1>9 DEF ReadAll
<1>10. CASE Match(t)
  BY <1>4, <1>5, <1>10 DEF Match
<1>11. CASE Commit(t)
  <2>1. task[t].phase \in {"open", "again"}
    BY <1>11 DEF Commit
  <2>2. CASE job' = [job EXCEPT ![task[t].job].rejected = @ \union task[t].work]
    <3>1. \A x \in JobRecords :
            /\ [x EXCEPT !.rejected = @ \union task[t].work].status = x.status
            /\ x.rejected \subseteq [x EXCEPT !.rejected = @ \union task[t].work].rejected
      BY DEF JobRecords
    <3>2. \A i \in Jobs : job'[i] = IF i = task[t].job
              THEN [job[i] EXCEPT !.rejected = @ \union task[t].work] ELSE job[i]
      BY <1>0, <2>2
    <3>3. \A i \in Jobs : job[i].rejected \subseteq job'[i].rejected
                          /\ job'[i].status = job[i].status
      BY <1>0, <3>1, <3>2
    <3> QED BY <1>1, <2>1, <3>3 DEF TaskFits, Scanned
  <2>3. \/ job' = job
        \/ job' = Finished(task[t].job, "failed")
        \/ job' = [job EXCEPT ![task[t].job].rejected = @ \union task[t].work]
    BY <1>11 DEF Commit, Stale, Write, Conflict
  <2> QED BY <1>4, <1>5, <2>1, <2>2, <2>3
<1>12. CASE SweepRead(t)
  BY <1>4, <1>5, <1>12 DEF SweepRead
<1>13. CASE SweepCommit(t)
  BY <1>4, <1>5, <1>13 DEF SweepCommit, Stale
<1>14. CASE Finish(t)
  BY <1>4, <1>14 DEF Finish
<1> QED BY <1>2, <1>3, <1>6, <1>7, <1>8, <1>9, <1>10, <1>11, <1>12, <1>13, <1>14 DEF TaskStep

\* A restart fails jobs, and changes the status of no other.
LEMMA RestartFailsJobs ==
  ASSUME TypeOK, Restart
  PROVE  \A j \in Jobs : /\ job'[j].rejected = job[j].rejected
                         /\ \/ job'[j].status = job[j].status
                            \/ job'[j].status = "failed" /\ job[j].status # "none"
                         /\ swept' /\ Active(j) => job'[j].status = "failed"
<1>1. job \in [Jobs -> JobRecords]
  BY DEF TypeOK
<1>2. PICK wiped \in BOOLEAN, sweeps \in BOOLEAN :
          /\ swept' = sweeps
          /\ job' = [j \in Jobs |->
               IF sweeps /\ Orphaned(j, wiped)
               THEN [job[j] EXCEPT !.status = "failed", !.file = "none"]
               ELSE [job[j] EXCEPT !.file = IF wiped /\ @ = "spooled" THEN "wiped" ELSE @]]
  BY DEF Restart
<1>3. \A x \in JobRecords : \A f :
         /\ [x EXCEPT !.status = "failed", !.file = "none"].status = "failed"
         /\ [x EXCEPT !.status = "failed", !.file = "none"].rejected = x.rejected
         /\ [x EXCEPT !.file = f].status = x.status
         /\ [x EXCEPT !.file = f].rejected = x.rejected
  BY DEF JobRecords
<1>4. ASSUME NEW j \in Jobs
      PROVE  \E f : job'[j] = IF sweeps /\ Orphaned(j, wiped)
                              THEN [job[j] EXCEPT !.status = "failed", !.file = "none"]
                              ELSE [job[j] EXCEPT !.file = f]
  BY <1>2
<1>5. \A j \in Jobs : Orphaned(j, wiped) => job[j].status # "none"
  BY DEF Orphaned, Active, ActiveStatuses
<1>6. \A j \in Jobs : Active(j) => Orphaned(j, wiped)
  BY DEF Orphaned
<1>7. ASSUME NEW j \in Jobs, NEW f
      PROVE  /\ [job[j] EXCEPT !.status = "failed", !.file = "none"].status = "failed"
             /\ [job[j] EXCEPT !.status = "failed", !.file = "none"].rejected = job[j].rejected
             /\ [job[j] EXCEPT !.file = f].status = job[j].status
             /\ [job[j] EXCEPT !.file = f].rejected = job[j].rejected
  <2>1. job[j] \in JobRecords
    BY <1>1
  <2> QED BY <1>3, <2>1
<1>8. ASSUME NEW j \in Jobs
      PROVE  /\ job'[j].rejected = job[j].rejected
             /\ job'[j].status = IF sweeps /\ Orphaned(j, wiped) THEN "failed" ELSE job[j].status
  <2>1. PICK f : job'[j] = IF sweeps /\ Orphaned(j, wiped)
                           THEN [job[j] EXCEPT !.status = "failed", !.file = "none"]
                           ELSE [job[j] EXCEPT !.file = f]
    BY <1>4
  <2>2. CASE sweeps /\ Orphaned(j, wiped)
    BY <1>7, <2>1, <2>2
  <2>3. CASE ~(sweeps /\ Orphaned(j, wiped))
    BY <1>7, <2>1, <2>3
  <2> QED BY <2>2, <2>3
<1> QED BY <1>2, <1>5, <1>6, <1>8, ZenonT(60)

\* No step forgets a job, a reject or that a job was scanned.
LEMMA JobsMoveOn ==
  ASSUME TypeOK, TasksFit, RequestsFit, Next
  PROVE  \A j \in Jobs : /\ job[j].rejected \subseteq job'[j].rejected
                         /\ Scanned(j) => Scanned(j)'
                         /\ job[j].status # "none" => job'[j].status # "none"
<1>1. CASE RequestStep
  BY <1>1, RequestsMoveJobs DEF Scanned
<1>2. ASSUME NEW t \in Tasks, TaskStep(t)
      PROVE  \A j \in Jobs : /\ job[j].rejected \subseteq job'[j].rejected
                             /\ Scanned(j) => Scanned(j)'
                             /\ job[j].status # "none" => job'[j].status # "none"
  <2>1. task[t].phase = "scan" => task[t].job \in Jobs /\ ~Scanned(task[t].job)
    BY DEF TasksFit, TaskFits, Scanned
  <2> QED BY <1>2, <2>1, TasksMoveJobs DEF Scanned
<1>3. ASSUME NEW m \in Foreign, CreateVM(m) \/ DeleteVM(m) PROVE job' = job
  BY <1>3 DEF CreateVM, DeleteVM
<1>4. CASE Restart
  BY <1>4, RestartFailsJobs DEF Scanned
<1> QED BY <1>1, <1>2, <1>3, <1>4 DEF Next, RequestStep, Scanned

\* Where a step of a task leads: to its end, from a queued scan to a scan, or on in an import.
LEMMA TaskMoves ==
  ASSUME TypeOK, TasksFit, NEW t \in Tasks, TaskStep(t)
  PROVE  /\ OthersStay(t)
         /\ \/ task'[t] = NoTask
            \/ /\ task'[t].job = task[t].job
               /\ IF task[t].phase = "scan" THEN task'[t].phase = "scanning"
                  ELSE task'[t].phase \notin {"none", "scan", "scanning"}
<1>0. task[t] \in TaskRecords
  BY DEF TypeOK
<1>1. TaskFits(t)
  BY DEF TasksFit
<1>2. CASE End(t)
  BY <1>2, EndEffect
<1>3. CASE ScanBegin(t)
  <2>1. CASE task' = [task EXCEPT ![t].phase = "scanning"]
    <3>1. OthersStay(t) /\ task'[t] = [task[t] EXCEPT !.phase = "scanning"]
      BY <2>1, PhaseEffect DEF TaskPhases
    <3>2. task'[t].job = task[t].job /\ task'[t].phase = "scanning"
      BY <1>0, <3>1 DEF TaskRecords
    <3> QED BY <1>3, <3>1, <3>2 DEF ScanBegin
  <2> QED BY <1>2, <1>3, <2>1 DEF ScanBegin
<1>4. ASSUME task' = Begun(t), task[t].job \in Jobs, task[t].phase # "scan"
      PROVE  /\ OthersStay(t)
             /\ task'[t].job = task[t].job
             /\ task'[t].phase = "reading"
  <2>1. OthersStay(t) /\ task'[t] = [task[t] EXCEPT !.phase = "reading",
           !.rows = job[task[t].job].rows, !.todo = job[task[t].job].rows]
    BY <1>4, BegunEffect
  <2> QED BY <1>0, <2>1 DEF TaskRecords
<1>5. CASE ScanEnd(t)
  BY <1>1, <1>2, <1>4, <1>5 DEF ScanEnd, TaskFits
<1>6. CASE ImportBegin(t)
  BY <1>1, <1>2, <1>4, <1>6 DEF ImportBegin, TaskFits, Scanned
<1>7. CASE ReadAll(t)
  <2>1. OthersStay(t) /\ task'[t] = [task[t] EXCEPT !.phase = "sweep"]
    BY <1>7, PhaseEffect DEF ReadAll, TaskPhases
  <2>2. task'[t].job = task[t].job /\ task'[t].phase = "sweep"
    BY <1>0, <2>1 DEF TaskRecords
  <2> QED BY <1>7, <2>1, <2>2 DEF ReadAll
<1>8. CASE Match(t)
  <2>1. task[t].phase # "scan"
    BY <1>8 DEF Match
  <2> QED BY <1>2, <1>8, <2>1, MatchEffect
<1>9. CASE Commit(t)
  <2>1. task[t].phase \in {"open", "again"}
    BY <1>9 DEF Commit
  <2>2. ASSUME NEW cleared \in BOOLEAN, Done(t, cleared)
        PROVE  OthersStay(t) /\ task'[t].job = task[t].job
               /\ task'[t].phase \notin {"none", "scan", "scanning"}
    BY <2>2, DoneEffect, ZenonT(60) DEF AfterBatch
  <2>3. CASE Stale(t, Updated(t))
    BY <1>2, <2>3 DEF Stale
  <2>4. CASE Write(t)
    BY <2>1, <2>2, <2>4 DEF Write
  <2>5. CASE Conflict(t)
    BY <2>1, <2>2, <2>5, ReplayEffect DEF Conflict
  <2> QED BY <1>9, <2>3, <2>4, <2>5 DEF Commit
<1>10. ASSUME NEW phase \in {"sweeping", "finishing"}, NEW work \in SUBSET Machines,
              task' = [task EXCEPT ![t].phase = phase, ![t].work = work]
       PROVE  OthersStay(t) /\ task'[t].job = task[t].job /\ task'[t].phase = phase
  <2>1. OthersStay(t) /\ task'[t] = [task[t] EXCEPT !.phase = phase, !.work = work]
    BY <1>10, SweepEffect DEF TaskPhases
  <2> QED BY <1>0, <2>1 DEF TaskRecords
<1>11. CASE SweepRead(t)
  <2>1. (IF job[task[t].job].mode = "upsert" THEN Unseen(t) ELSE {}) \in SUBSET Machines
    BY WorkFits
  <2> QED BY <1>2, <1>10, <1>11, <2>1 DEF SweepRead
<1>12. CASE SweepCommit(t)
  BY <1>2, <1>10, <1>12 DEF SweepCommit, Stale
<1>13. CASE ScanFail(t) \/ Cancelled(t) \/ Finish(t)
  BY <1>2, <1>13 DEF ScanFail, Cancelled, Finish
<1> QED BY <1>3, <1>5, <1>6, <1>7, <1>8, <1>9, <1>11, <1>12, <1>13 DEF TaskStep

\* A task that does not move fits as long as its job's status does.
LEMMA TaskStaysFit ==
  ASSUME NEW t \in Tasks, TaskFits(t), task'[t] = task[t],
         \A j \in Jobs : Scanned(j) => Scanned(j)',
         task[t].phase \in {"scan", "scanning"} =>
            job'[task[t].job].status = job[task[t].job].status
  PROVE  TaskFits(t)'
BY DEF TaskFits, Scanned

\* Every step keeps tasks and the statuses of their jobs together.
LEMMA NextTasksFit ==
  ASSUME TypeOK, TasksFit, RequestsFit, Next
  PROVE  TasksFit'
<1>0. \A j \in Jobs : Scanned(j) => Scanned(j)'
  BY JobsMoveOn
<1>1. NoTask.phase = "none" /\ NoTask.job = 0 /\ 0 \notin Jobs
  BY JobsAssumption DEF NoTask
<1>2. ASSUME RequestStep,
             NEW j \in Jobs, NEW phase \in {"scan", "import"}, Queue(j, phase),
             phase = "scan" => job[j].status = "none" /\ job'[j].status = "uploaded",
             phase = "import" => Scanned(j) /\ Scanned(j)'
      PROVE  TasksFit'
  <2>0. Queue(j, phase)
    BY <1>2
  <2>1. PICK t \in Tasks :
           /\ OthersStay(t)
           /\ task'[t].phase = phase /\ task'[t].job = j
    BY <2>0, QueueEffect
  <2>2. task'[t].phase = phase /\ task'[t].job = j
    BY <2>1
  <2>3. TaskFits(t)'
    BY <1>2, <2>2 DEF TaskFits
  <2>4. \A u \in Tasks \ {t} : task[u].phase \in {"scan", "scanning"} =>
           task[u].job \in Jobs /\ job'[task[u].job].status = job[task[u].job].status
    BY <1>2, RequestsMoveJobs DEF TasksFit, TaskFits, Scanned
  <2>5. \A u \in Tasks \ {t} : TaskFits(u)'
    BY <1>0, <2>1, <2>4, TaskStaysFit DEF TasksFit, OthersStay
  <2>6. \A u \in Tasks \ {t} : task[u].job = j => task[u].phase \notin {"scan", "scanning"} /\ phase # "scan"
    BY <1>1, <1>2 DEF TasksFit, TaskFits, Scanned
  <2>7. \A u, v \in Tasks \ {t} :
           task[u].phase \in {"scan", "scanning"} /\ u # v => task[v].job # task[u].job
    BY DEF TasksFit, ScansAlone
  <2>8. \A u \in Tasks \ {t} : task'[u] = task[u]
    BY <2>1 DEF OthersStay
  <2>9. ASSUME NEW u \in Tasks, NEW v \in Tasks, task'[u].phase \in {"scan", "scanning"}, u # v
        PROVE  task'[v].job # task'[u].job
    <3>1. CASE u = t
      BY <2>2, <2>6, <2>8, <2>9, <3>1
    <3>2. CASE v = t
      BY <2>2, <2>6, <2>8, <2>9, <3>2
    <3>3. CASE u # t /\ v # t
      BY <2>7, <2>8, <2>9, <3>3
    <3> QED BY <3>1, <3>2, <3>3
  <2>10. ScansAlone'
    BY <2>9 DEF ScansAlone
  <2> QED BY <2>3, <2>5, <2>10 DEF TasksFit
<1>3. ASSUME NEW r \in Requests, UploadCommit(r) PROVE TasksFit'
  <2>1. PICK j \in Jobs, mode \in Modes, rows \in Routings \union {{}} :
          /\ job[j] = NoJob
          /\ job' = [job EXCEPT ![j] = [NoJob EXCEPT !.status = "uploaded", !.mode = mode,
                                                     !.file = "spooled", !.rows = rows]]
          /\ Queue(j, "scan")
    BY <1>3 DEF UploadCommit
  <2>2. job[j].status = "none" /\ job'[j].status = "uploaded"
    BY <2>1 DEF NoJob, TypeOK
  <2> QED BY <1>2, <1>3, <2>1, <2>2 DEF RequestStep
<1>4. ASSUME NEW r \in Requests, StartCommit(r) PROVE TasksFit'
  <2>1. PICK j \in Jobs : j = req[r].job /\ Scanned(j)
    BY <1>4, SMTT(60) DEF StartCommit, RequestsFit, Scanned
  <2>2. Scanned(j)' /\ Queue(j, "import") /\ RequestStep
    BY <1>0, <1>4, <2>1 DEF RequestStep, StartCommit
  <2> QED BY <1>2, <2>1, <2>2
<1>5. ASSUME task' = task,
             \A j \in Jobs : job[j].status # "none" /\ ~Scanned(j)
                => job'[j].status = job[j].status
      PROVE  TasksFit'
  <2>1. \A u \in Tasks : task[u].phase \in {"scan", "scanning"} =>
           job'[task[u].job].status = job[task[u].job].status
    BY <1>5 DEF TasksFit, TaskFits, Scanned
  <2>2. \A u \in Tasks : TaskFits(u)'
    BY <1>0, <1>5, <2>1, TaskStaysFit DEF TasksFit
  <2> QED BY <1>5, <2>2 DEF TasksFit, ScansAlone
<1>6. ASSUME NEW r \in Requests, NEW j \in Jobs,
             UploadCheck(r) \/ UploadRefuse(r) \/ StartCheck(r, j) \/ CancelRead(r, j)
      PROVE  TasksFit'
  BY <1>5, <1>6 DEF UploadCheck, UploadRefuse, StartCheck, CancelRead
<1>7. ASSUME NEW r \in Requests, UploadCheck(r) \/ UploadRefuse(r) \/ CancelCommit(r)
      PROVE  TasksFit'
  <2>1. RequestStep /\ task' = task
    BY <1>7 DEF RequestStep, UploadCheck, UploadRefuse, CancelCommit
  <2> QED BY <1>5, <2>1, RequestsMoveJobs
<1>8. ASSUME NEW t \in Tasks, TaskStep(t) PROVE TasksFit'
  <2>1. \A u \in Tasks \ {t} : task[u].phase \in {"scan", "scanning"} =>
           /\ task[u].job \in Jobs /\ task[u].job # task[t].job
           /\ job'[task[u].job].status = job[task[u].job].status
    BY <1>8, TasksMoveJobs DEF TasksFit, TaskFits, ScansAlone
  <2>2. \A u \in Tasks \ {t} : TaskFits(u)'
    BY <1>0, <1>8, <2>1, TaskMoves, TaskStaysFit DEF TasksFit, OthersStay
  <2>3. CASE task'[t] = NoTask
    <3>1. TaskFits(t)'
      BY <1>1, <2>3 DEF TaskFits
    <3>2. ScansAlone'
      BY <1>1, <1>8, <2>1, <2>3, TaskMoves DEF TasksFit, ScansAlone, OthersStay
    <3> QED BY <2>2, <3>1, <3>2 DEF TasksFit
  <2>4. CASE task'[t] # NoTask
    <3>1. /\ task'[t].job = task[t].job
          /\ IF task[t].phase = "scan" THEN task'[t].phase = "scanning"
             ELSE task'[t].phase \notin {"none", "scan", "scanning"}
      BY <1>8, <2>4, TaskMoves
    <3>2. task[t].job \in Jobs
      <4>1. task[t].phase # "none"
        BY <1>8 DEF TaskStep, ScanBegin, ScanFail, ScanEnd, ImportBegin, Cancelled, ReadAll,
           Match, Commit, SweepRead, SweepCommit, Finish
      <4> QED BY <4>1, SMTT(60) DEF TasksFit, TaskFits, Scanned
    <3>3. TaskFits(t)'
      BY <1>8, <3>1, <3>2, TasksMoveJobs DEF TaskFits, Scanned
    <3>4. ScansAlone'
      BY <1>8, <3>1, TaskMoves DEF TasksFit, ScansAlone, OthersStay
    <3> QED BY <2>2, <3>3, <3>4 DEF TasksFit
  <2> QED BY <2>3, <2>4
<1>9. ASSUME NEW m \in Foreign, CreateVM(m) PROVE TasksFit'
  BY <1>5, <1>9 DEF CreateVM
<1>10. ASSUME NEW m \in Foreign, DeleteVM(m) PROVE TasksFit'
  <2>1. \A t \in Tasks : task'[t] = [task[t] EXCEPT !.gone = @ \union ({m} \intersect task[t].index)]
    BY <1>10, ForeignAssumption, DeleteEffect
  <2>2. \A t \in Tasks : task'[t].phase = task[t].phase /\ task'[t].job = task[t].job
    BY <2>1, ZenonT(60) DEF TypeOK, TaskRecords
  <2>3. job' = job
    BY <1>10 DEF DeleteVM
  <2> QED BY <2>2, <2>3 DEF TasksFit, TaskFits, ScansAlone, Scanned
<1>11. CASE Restart
  <2>1. \A t \in Tasks : task'[t] = NoTask
    BY <1>11 DEF Restart
  <2> QED BY <1>1, <2>1 DEF TasksFit, TaskFits, ScansAlone
<1> QED BY <1>3, <1>4, <1>6, <1>7, <1>8, <1>9, <1>10, <1>11 DEF Next

\* Every step keeps what the requests rely on.
LEMMA NextRequestsFit ==
  ASSUME TypeOK, TasksFit, RequestsFit, Next
  PROVE  RequestsFit'
<1>0. \A j \in Jobs : /\ Scanned(j) => Scanned(j)'
                      /\ job[j].status # "none" => job'[j].status # "none"
  BY JobsMoveOn
<1>1. ASSUME NEW r \in Requests,
             \/ req'[r] = req[r]
             \/ req'[r].op \in {"none", "upload"}
             \/ req'[r].op = "start" /\ Scanned(req'[r].job)
             \/ /\ req'[r].op = "cancel" /\ req'[r].job \in Jobs
                /\ job[req'[r].job].status # "none"
                /\ req'[r].saw = "awaiting_mapping" => Scanned(req'[r].job)
      PROVE  /\ req'[r].op = "cancel" => req'[r].job \in Jobs /\ job'[req'[r].job].status # "none"
             /\ req'[r].op = "start" \/ (req'[r].op = "cancel" /\ req'[r].saw = "awaiting_mapping")
                   => Scanned(req[r].job)'
  BY <1>0, <1>1 DEF RequestsFit, Scanned
<1>2. ASSUME NEW r \in Requests
      PROVE  \/ req'[r] = req[r]
             \/ req'[r].op \in {"none", "upload"}
             \/ req'[r].op = "start" /\ Scanned(req'[r].job)
             \/ /\ req'[r].op = "cancel" /\ req'[r].job \in Jobs
                /\ job[req'[r].job].status # "none"
                /\ req'[r].saw = "awaiting_mapping" => Scanned(req'[r].job)
  <2>1. req \in [Requests -> ReqRecords]
    BY DEF TypeOK
  <2>2. ASSUME NEW q \in Requests, Close(q) PROVE req'[r] = req[r] \/ req'[r].op = "none"
    BY <2>1, <2>2 DEF Close, NoReq
  <2>3. ASSUME NEW q \in Requests, UploadCheck(q) PROVE req'[r] = req[r] \/ req'[r].op = "upload"
    BY <2>1, <2>3 DEF UploadCheck, ReqRecords
  <2>4. ASSUME NEW q \in Requests, NEW j \in Jobs, StartCheck(q, j)
        PROVE  req'[r] = req[r] \/ (req'[r].op = "start" /\ Scanned(req'[r].job))
    BY <2>1, <2>4 DEF StartCheck, NoReq, Scanned
  <2>5. ASSUME NEW q \in Requests, NEW j \in Jobs, CancelRead(q, j)
        PROVE  \/ req'[r] = req[r]
               \/ /\ req'[r].op = "cancel" /\ req'[r].job = j
                  /\ job[j].status # "none"
                  /\ req'[r].saw = "awaiting_mapping" => Scanned(j)
    BY <2>1, <2>5 DEF CancelRead, Scanned, ActiveStatuses
  <2>6. CASE Restart
    BY <2>6, ZenonT(60) DEF Restart, NoReq
  <2>7. ASSUME NEW q \in Requests, UploadRefuse(q) \/ UploadCommit(q) \/ StartCommit(q) \/ CancelCommit(q)
        PROVE  Close(q)
    BY <2>7 DEF UploadRefuse, UploadCommit, StartCommit, CancelCommit
  <2>8. ASSUME NEW m \in Foreign, CreateVM(m) \/ DeleteVM(m) PROVE req' = req
    BY <2>8 DEF CreateVM, DeleteVM
  <2>9. ASSUME NEW t \in Tasks, TaskStep(t) PROVE req' = req
    BY <2>9, Untouched
  <2> QED BY <2>2, <2>3, <2>4, <2>5, <2>6, <2>7, <2>8, <2>9 DEF Next
<1> QED BY <1>1, <1>2 DEF RequestsFit

-----------------------------------------------------------------------------
(* What the tasks know of the inventory, and how far they have come *)

\* A machine of the inventory stays in it or is known as deleted.
LEMMA NothingForgotten ==
  ASSUME TypeOK, TasksFit, RequestsFit, Next
  PROVE  /\ replayed \subseteq replayed' /\ deleted \subseteq deleted'
         /\ Present \union deleted \subseteq Present' \union deleted'
<1>1. CASE RequestStep \/ Restart
  BY <1>1, Untouched DEF Restart, history, Present
<1>2. ASSUME NEW t \in Tasks, TaskStep(t)
      PROVE  /\ replayed \subseteq replayed' /\ deleted \subseteq deleted'
             /\ Present \subseteq Present'
  <2>1. deleted' = deleted
    BY <1>2, Untouched
  <2>2. CASE Commit(t)
    <3>1. replayed \subseteq replayed'
      BY <2>2 DEF Commit, Stale, Write, Conflict
    <3>2. \/ vm' = vm
          \/ vm' = [m \in Machines |->
                      IF m \in task[t].created \union Updated(t) THEN "present" ELSE vm[m]]
      BY <2>2 DEF Commit, Stale, Write, Conflict
    <3> QED BY <2>1, <3>1, <3>2 DEF Present
  <2>3. CASE SweepCommit(t)
    <3>1. replayed' = replayed
      BY <2>3, Untouched
    <3>2. vm' = vm \/ vm' = [m \in Machines |-> IF m \in task[t].work THEN "missing" ELSE vm[m]]
      BY <2>3 DEF SweepCommit, Stale
    <3> QED BY <2>1, <3>1, <3>2 DEF Present
  <2> QED BY <1>2, <2>1, <2>2, <2>3, Untouched DEF Present
<1>3. ASSUME NEW m \in Foreign, CreateVM(m) \/ DeleteVM(m)
      PROVE  /\ replayed \subseteq replayed' /\ deleted \subseteq deleted'
             /\ Present \union deleted \subseteq Present' \union deleted'
  <2>1. replayed' = replayed
    BY <1>3 DEF CreateVM, DeleteVM, history
  <2>2. CASE CreateVM(m)
    BY <2>1, <2>2 DEF CreateVM, history, Present, TypeOK
  <2>3. CASE DeleteVM(m)
    BY <2>1, <2>3 DEF DeleteVM, Present, TypeOK
  <2> QED BY <1>3, <2>2, <2>3
<1> QED BY <1>1, <1>2, <1>3 DEF Next, RequestStep

\* What is known of one task.
OwnFits(t) == IndexFits(t) /\ ProgressFits(t) /\ Spares(t)

\* A task that does not move keeps to it, as nothing it relies on is forgotten.
LEMMA OwnStays ==
  ASSUME NEW t \in Tasks, OwnFits(t), task'[t] = task[t],
         replayed \subseteq replayed', deleted \subseteq deleted',
         Present \union deleted \subseteq Present' \union deleted',
         \A j \in Jobs : job[j].rejected \subseteq job'[j].rejected
  PROVE  OwnFits(t)'
<1>1. IndexFits(t)'
  BY DEF OwnFits, IndexFits
<1>2. Rejected(t) \subseteq Rejected(t)'
  BY DEF Rejected
<1>3. ProgressFits(t)'
  BY <1>2 DEF OwnFits, ProgressFits
<1>4. Spares(t)'
  BY DEF OwnFits, Spares
<1> QED BY <1>1, <1>3, <1>4 DEF OwnFits

\* A task that has not begun, or has ended, knows nothing.
LEMMA OwnEmpty ==
  ASSUME NEW t \in Tasks,
         task'[t].phase \in {"none", "scan", "import"},
         task'[t].rows = {}, task'[t].index = {}, task'[t].gone = {}, task'[t].created = {}
  PROVE  OwnFits(t)'
BY DEF OwnFits, IndexFits, ProgressFits, Spares

\* A step of a task keeps what is known of it.
LEMMA OwnMoves ==
  ASSUME TypeOK, TasksFit, RequestsFit, Next, NEW t \in Tasks, OwnFits(t), TaskStep(t)
  PROVE  OwnFits(t)'
<1>0. task[t] \in TaskRecords
  BY DEF TypeOK
<1>1. /\ replayed \subseteq replayed' /\ deleted \subseteq deleted'
      /\ Present \union deleted \subseteq Present' \union deleted'
      /\ \A j \in Jobs : job[j].rejected \subseteq job'[j].rejected
  BY NothingForgotten, JobsMoveOn
<1>2. IndexFits(t) /\ ProgressFits(t) /\ Spares(t)
  BY DEF OwnFits
<1>3. CASE End(t)
  BY <1>3, EndEffect, OwnEmpty DEF NoTask
<1>4. CASE ScanBegin(t)
  <2>1. SUFFICES ASSUME task' = [task EXCEPT ![t].phase = "scanning"] PROVE OwnFits(t)'
    BY <1>3, <1>4 DEF ScanBegin
  <2>2. task'[t] = [task[t] EXCEPT !.phase = "scanning"] /\ task[t].phase = "scan"
    BY <1>4, <2>1, PhaseEffect DEF TaskPhases, ScanBegin
  <2>3. /\ task'[t].phase = "scanning" /\ task'[t].job = task[t].job
        /\ task'[t].rows = task[t].rows /\ task'[t].index = task[t].index
        /\ task'[t].gone = task[t].gone /\ task'[t].created = task[t].created
        /\ task'[t].seen = task[t].seen /\ task'[t].todo = task[t].todo
    BY <1>0, <2>2 DEF TaskRecords
  <2>4. Rejected(t) \subseteq Rejected(t)'
    BY <1>1, <2>3 DEF Rejected
  <2> QED BY <1>1, <1>2, <2>2, <2>3, <2>4 DEF OwnFits, IndexFits, ProgressFits, Spares
<1>5. ASSUME task' = Begun(t), task[t].job \in Jobs, task[t].phase \in {"scanning", "import"}
      PROVE  OwnFits(t)'
  <2>1. task'[t] = [task[t] EXCEPT !.phase = "reading",
           !.rows = job[task[t].job].rows, !.todo = job[task[t].job].rows]
    BY <1>5, BegunEffect
  <2>2. /\ task'[t].phase = "reading" /\ task'[t].rows = task'[t].todo
        /\ task'[t].index = task[t].index
        /\ task'[t].gone = task[t].gone /\ task'[t].created = task[t].created
    BY <1>0, <2>1 DEF TaskRecords
  <2> QED BY <1>1, <1>2, <1>5, <2>2 DEF OwnFits, IndexFits, ProgressFits, Spares
<1>6. CASE ScanEnd(t)
  BY <1>3, <1>5, <1>6 DEF ScanEnd, TasksFit, TaskFits
<1>7. CASE ImportBegin(t)
  BY <1>3, <1>5, <1>7 DEF ImportBegin, TasksFit, TaskFits, Scanned
<1>8. CASE ReadAll(t)
  <2>1. task'[t] = [task[t] EXCEPT !.phase = "sweep"] /\ task[t].phase = "reading"
    BY <1>8, PhaseEffect DEF TaskPhases, ReadAll
  <2>2. /\ task'[t].phase = "sweep" /\ task'[t].job = task[t].job
        /\ task'[t].rows = task[t].rows /\ task'[t].index = task[t].index
        /\ task'[t].gone = task[t].gone /\ task'[t].created = task[t].created
        /\ task'[t].seen = task[t].seen /\ task'[t].todo = task[t].todo
        /\ task[t].todo = {}
    BY <1>0, <1>8, <2>1 DEF TaskRecords, ReadAll
  <2>3. Rejected(t) \subseteq Rejected(t)'
    BY <1>1, <2>2 DEF Rejected
  <2> QED BY <1>1, <1>2, <2>1, <2>2, <2>3 DEF OwnFits, IndexFits, ProgressFits, Spares
<1>9. CASE Match(t)
  <2>1. task[t].phase \in {"reading", "replay"}
    BY <1>9 DEF Match
  <2>2. SUFFICES ASSUME ~End(t) PROVE OwnFits(t)'
    BY <1>3
  <2>3. PICK work \in NextWork(t) :
           /\ task'[t].phase = IF task[t].phase = "reading" THEN "open" ELSE "again"
           /\ task'[t].work = work
           /\ task'[t].created = work \ Index(t)
           /\ task'[t].batch = IF task[t].phase = "reading" THEN work ELSE task[t].batch
           /\ task'[t].index = Index(t) \union work
    BY <1>9, <2>2, MatchEffect
  <2>4. /\ task'[t].job = task[t].job /\ task'[t].rows = task[t].rows
        /\ task'[t].todo = task[t].todo /\ task'[t].seen = task[t].seen
        /\ task'[t].gone = task[t].gone
    BY <1>9, <2>2, MatchEffect
  <2>5. Index(t) \subseteq Present \union deleted
    BY <1>2, <2>1 DEF IndexFits, Index
  <2>6. IndexFits(t)'
    BY <1>1, <1>2, <2>3, <2>4, <2>5 DEF IndexFits
  <2>7. Rejected(t) \subseteq Rejected(t)'
    BY <1>1, <2>4 DEF Rejected
  <2>8. ProgressFits(t)' /\ Spares(t)'
    BY <1>1, <1>2, <2>1, <2>3, <2>4, <2>7 DEF ProgressFits, Spares
  <2> QED BY <2>6, <2>8 DEF OwnFits
<1>10. CASE Commit(t)
  <2>1. task[t].phase \in {"open", "again"}
    BY <1>10 DEF Commit
  <2>2. ASSUME NEW cleared \in BOOLEAN, Done(t, cleared),
               cleared => task[t].job \in replayed' /\ task[t].phase = "again",
               task[t].work \subseteq Present' \union deleted' \union Rejected(t)',
               ~cleared => task[t].created \subseteq Present'
        PROVE  OwnFits(t)'
    <3>1. /\ task'[t].phase \in AfterBatch(t, task[t].batch \ task[t].work)
          /\ task'[t].todo = task[t].todo \ task[t].work
          /\ task'[t].batch = task[t].batch \ task[t].work
          /\ task'[t].work = {} /\ task'[t].created = {}
          /\ task'[t].seen = IF cleared THEN {} ELSE task[t].seen \union task[t].work
          /\ task'[t].gone = IF cleared THEN {} ELSE task[t].gone
          /\ task'[t].index = IF cleared THEN {} ELSE task[t].index
          /\ task'[t].job = task[t].job /\ task'[t].rows = task[t].rows
      BY <2>2, DoneEffect, ZenonT(60)
    <3>2. /\ task'[t].phase \in {"replay", "reading", "sweep"}
          /\ task'[t].phase = "replay" => task[t].batch # task[t].work
          /\ task'[t].phase = "sweep" => task'[t].todo = {}
      BY <3>1 DEF AfterBatch
    <3>3. IndexFits(t)'
      BY <1>1, <1>2, <2>2, <3>1 DEF IndexFits
    <3>4. Rejected(t) \subseteq Rejected(t)'
      BY <1>1, <3>1 DEF Rejected
    <3>5. task'[t].phase = "replay" => task[t].job \in replayed'
      BY <1>1, <1>2, <2>1, <3>2 DEF ProgressFits
    <3>6. task[t].job \notin replayed' =>
             task[t].rows \subseteq task'[t].todo \union task'[t].seen
      BY <1>1, <1>2, <2>2, <3>1 DEF ProgressFits
    <3>7. task[t].rows \subseteq task'[t].todo \union Present' \union deleted' \union Rejected(t)'
      BY <1>1, <1>2, <2>2, <3>1, <3>4 DEF ProgressFits
    <3>8. ProgressFits(t)' /\ Spares(t)'
      BY <3>1, <3>2, <3>5, <3>6, <3>7 DEF ProgressFits, Spares
    <3> QED BY <3>3, <3>8 DEF OwnFits
  <2>3. CASE Stale(t, Updated(t))
    BY <1>3, <2>3 DEF Stale
  <2>4. CASE Write(t)
    <3>1. task[t].created \subseteq Machines
      BY <1>0 DEF TaskRecords
    <3>2. task[t].created \subseteq Present'
      BY <2>4, <3>1 DEF Write, Present
    <3>3. task[t].work \subseteq Present' \union deleted'
      BY <1>1, <1>2, <2>1, <3>2 DEF IndexFits, ProgressFits
    <3>4. Done(t, FALSE)
      BY <2>4 DEF Write
    <3> QED BY <2>2, <3>2, <3>3, <3>4
  <2>5. CASE Conflict(t)
    <3>1. task[t].job \in replayed' /\ task[t].job \in Jobs
      BY <2>1, <2>5 DEF Conflict, TasksFit, TaskFits, Scanned
    <3>2. CASE task[t].phase = "open"
      <4>1. /\ task'[t].phase = "replay"
            /\ task'[t].work = {} /\ task'[t].created = {} /\ task'[t].gone = {}
            /\ task'[t].index = {}
            /\ task'[t].job = task[t].job /\ task'[t].rows = task[t].rows
            /\ task'[t].todo = task[t].todo
        BY <2>5, <3>2, ReplayEffect DEF Conflict
      <4>2. Rejected(t) \subseteq Rejected(t)'
        BY <1>1, <4>1 DEF Rejected
      <4> QED BY <1>1, <1>2, <3>1, <4>1, <4>2, SMTT(60) DEF OwnFits, IndexFits, ProgressFits,
         Spares
    <3>3. CASE task[t].phase # "open"
      <4>1. Done(t, TRUE) /\ job' = [job EXCEPT ![task[t].job].rejected = @ \union task[t].work]
        BY <2>5, <3>3 DEF Conflict
      <4>2. task'[t].job = task[t].job
        BY <4>1, DoneEffect
      <4>3. job'[task[t].job].rejected = job[task[t].job].rejected \union task[t].work
        BY <3>1, <4>1 DEF TypeOK, JobRecords
      <4>4. task[t].work \subseteq Rejected(t)'
        BY <3>1, <4>2, <4>3 DEF Rejected
      <4> QED BY <2>1, <2>2, <3>1, <3>3, <4>1, <4>4
    <3> QED BY <3>2, <3>3
  <2> QED BY <1>10, <2>3, <2>4, <2>5 DEF Commit
<1>11. ASSUME NEW phase \in {"sweeping", "finishing"}, NEW work \in SUBSET Machines,
              task' = [task EXCEPT ![t].phase = phase, ![t].work = work],
              task[t].phase \in {"sweep", "sweeping"},
              phase = "sweeping" => work \intersect task[t].seen = {}
       PROVE  OwnFits(t)'
  <2>1. task'[t] = [task[t] EXCEPT !.phase = phase, !.work = work]
    BY <1>11, SweepEffect DEF TaskPhases
  <2>2. /\ task'[t].phase = phase /\ task'[t].job = task[t].job /\ task'[t].work = work
        /\ task'[t].rows = task[t].rows /\ task'[t].index = task[t].index
        /\ task'[t].gone = task[t].gone /\ task'[t].created = task[t].created
        /\ task'[t].seen = task[t].seen /\ task'[t].todo = task[t].todo
    BY <1>0, <2>1 DEF TaskRecords
  <2>3. Rejected(t) \subseteq Rejected(t)'
    BY <1>1, <2>2 DEF Rejected
  <2>4. IndexFits(t)'
    BY <1>1, <1>2, <1>11, <2>2 DEF IndexFits
  <2>5. ProgressFits(t)'
    BY <1>1, <1>2, <1>11, <2>2, <2>3 DEF ProgressFits
  <2>6. Spares(t)'
    BY <1>1, <1>2, <1>11, <2>2 DEF ProgressFits, Spares
  <2> QED BY <2>4, <2>5, <2>6 DEF OwnFits
<1>12. CASE SweepRead(t)
  <2>1. (IF job[task[t].job].mode = "upsert" THEN Unseen(t) ELSE {}) \in SUBSET Machines
    BY WorkFits
  <2>2. (IF job[task[t].job].mode = "upsert" THEN Unseen(t) ELSE {}) \intersect task[t].seen = {}
    BY DEF Unseen
  <2> QED BY <1>3, <1>11, <1>12, <2>1, <2>2 DEF SweepRead
<1>13. CASE SweepCommit(t)
  BY <1>3, <1>11, <1>13 DEF SweepCommit, Stale
<1>14. CASE ScanFail(t) \/ Cancelled(t) \/ Finish(t)
  BY <1>3, <1>14 DEF ScanFail, Cancelled, Finish
<1> QED BY <1>4, <1>6, <1>7, <1>8, <1>9, <1>10, <1>12, <1>13, <1>14 DEF TaskStep

\* Every step keeps what is known of every task.
LEMMA NextOwnFits ==
  ASSUME TypeOK, TasksFit, RequestsFit, \A t \in Tasks : OwnFits(t), Next
  PROVE  \A t \in Tasks : OwnFits(t)'
<1>1. /\ replayed \subseteq replayed' /\ deleted \subseteq deleted'
      /\ Present \union deleted \subseteq Present' \union deleted'
      /\ \A j \in Jobs : job[j].rejected \subseteq job'[j].rejected
  BY NothingForgotten, JobsMoveOn
<1>2. ASSUME NEW t \in Tasks, task'[t] = task[t] PROVE OwnFits(t)'
  BY <1>1, <1>2, OwnStays
<1>3. ASSUME NEW j \in Jobs, NEW phase \in {"scan", "import"}, Queue(j, phase)
      PROVE  \A t \in Tasks : OwnFits(t)'
  <2>1. PICK u \in Tasks :
           /\ OthersStay(u)
           /\ task'[u].phase = phase
           /\ task'[u].rows = {} /\ task'[u].index = {}
           /\ task'[u].gone = {} /\ task'[u].created = {}
    BY <1>3, QueueEffect, SMTT(60)
  <2>2. OwnFits(u)'
    BY <2>1, OwnEmpty
  <2> QED BY <1>2, <2>1, <2>2 DEF OthersStay
<1>4. ASSUME NEW r \in Requests, UploadCommit(r) PROVE \A t \in Tasks : OwnFits(t)'
  BY <1>3, <1>4 DEF UploadCommit
<1>5. ASSUME NEW r \in Requests, StartCommit(r) PROVE \A t \in Tasks : OwnFits(t)'
  <2>1. PICK j \in Jobs : j = req[r].job
    BY <1>5 DEF StartCommit, RequestsFit, Scanned
  <2> QED BY <1>3, <1>5, <2>1 DEF StartCommit
<1>6. ASSUME NEW r \in Requests, NEW j \in Jobs, StartCheck(r, j) \/ CancelRead(r, j)
      PROVE  \A t \in Tasks : OwnFits(t)'
  BY <1>2, <1>6 DEF StartCheck, CancelRead
<1>7. ASSUME NEW r \in Requests, UploadCheck(r) \/ UploadRefuse(r) \/ CancelCommit(r)
      PROVE  \A t \in Tasks : OwnFits(t)'
  BY <1>2, <1>7 DEF UploadCheck, UploadRefuse, CancelCommit
<1>8. ASSUME NEW t \in Tasks, TaskStep(t) PROVE \A u \in Tasks : OwnFits(u)'
  <2>1. OwnFits(t)'
    BY <1>8, OwnMoves
  <2>2. OthersStay(t)
    BY <1>8, TaskMoves
  <2> QED BY <1>2, <2>1, <2>2 DEF OthersStay
<1>9. ASSUME NEW m \in Foreign, CreateVM(m) PROVE \A t \in Tasks : OwnFits(t)'
  BY <1>2, <1>9 DEF CreateVM
<1>10. ASSUME NEW m \in Foreign, DeleteVM(m), NEW t \in Tasks PROVE OwnFits(t)'
  <2>1. task'[t] = [task[t] EXCEPT !.gone = @ \union ({m} \intersect task[t].index)]
    BY <1>10, ForeignAssumption, DeleteEffect
  <2>2. /\ task'[t].phase = task[t].phase /\ task'[t].job = task[t].job
        /\ task'[t].work = task[t].work /\ task'[t].batch = task[t].batch
        /\ task'[t].rows = task[t].rows /\ task'[t].index = task[t].index
        /\ task'[t].created = task[t].created
        /\ task'[t].seen = task[t].seen /\ task'[t].todo = task[t].todo
        /\ task'[t].gone \subseteq task[t].gone \union {m}
    BY <2>1 DEF TypeOK, TaskRecords
  <2>3. m \in deleted'
    BY <1>10 DEF DeleteVM
  <2>4. IndexFits(t)'
    BY <1>1, <2>2, <2>3 DEF OwnFits, IndexFits
  <2>5. Rejected(t) \subseteq Rejected(t)'
    BY <1>1, <2>2 DEF Rejected
  <2>6. ProgressFits(t)'
    BY <1>1, <2>2, <2>5 DEF OwnFits, ProgressFits
  <2>7. Spares(t)'
    BY <1>1, <2>2 DEF OwnFits, Spares
  <2> QED BY <2>4, <2>6, <2>7 DEF OwnFits
<1>11. CASE Restart
  BY <1>11, OwnEmpty DEF Restart, NoTask
<1> QED BY <1>4, <1>5, <1>6, <1>7, <1>8, <1>9, <1>10, <1>11 DEF Next

-----------------------------------------------------------------------------
(* Imports that block the next one *)

\* A task ends with its job, or over a machine deleted under its import.
LEMMA EndsWithItsJob ==
  ASSUME TypeOK, TasksFit, NEW t \in Tasks, TaskStep(t), task'[t] = NoTask
  PROVE  \/ job'[task[t].job].status \notin ActiveStatuses
         \/ task[t].job \notin Jobs
         \/ task[t].gone # {}
<1>0. task'[t].phase = "none" /\ task'[t].job = 0
  BY DEF NoTask
<1>1. TaskFits(t)
  BY DEF TasksFit
<1>2. SUFFICES ASSUME task[t].job \in Jobs, task[t].gone = {}
               PROVE  job'[task[t].job].status \notin ActiveStatuses
  OBVIOUS
<1>3. ASSUME NEW s \in {"failed", "cancelled", "completed"}, job' = Finished(task[t].job, s)
      PROVE  job'[task[t].job].status \notin ActiveStatuses
  BY <1>2, <1>3, FinishOfOne DEF ActiveStatuses
<1>4. task[t].phase # "none"
  BY <1>1, <1>2, JobsAssumption DEF TaskFits
<1>5. task[t].phase # "scan"
  <2>1. SUFFICES ASSUME task[t].phase = "scan" PROVE FALSE
    OBVIOUS
  <2>2. ScanBegin(t)
    BY <2>1 DEF TaskStep, ScanFail, ScanEnd, ImportBegin, Cancelled, ReadAll, Match, Commit,
       SweepRead, SweepCommit, Finish
  <2>3. task' = [task EXCEPT ![t].phase = "scanning"]
    BY <1>1, <2>1, <2>2 DEF ScanBegin, TaskFits
  <2>4. task'[t] = [task[t] EXCEPT !.phase = "scanning"]
    BY <2>3, PhaseEffect DEF TaskPhases
  <2>5. task[t] \in TaskRecords
    BY DEF TypeOK
  <2> QED BY <1>0, <2>4, <2>5 DEF TaskRecords
<1>6. task'[t].job # task[t].job
  BY <1>0, <1>2, JobsAssumption
<1>7. CASE ScanEnd(t)
  <2>1. CASE job' = [job EXCEPT ![task[t].job].status = "awaiting_mapping"]
    <3>1. ASSUME NEW s \in {"awaiting_mapping"}, job' = [job EXCEPT ![task[t].job].status = s]
          PROVE  \A i \in Jobs : /\ job'[i].status = IF i = task[t].job THEN s ELSE job[i].status
                                 /\ job'[i].rejected = job[i].rejected
      BY <3>1, StatusOfOne
    <3>2. \A i \in Jobs : i = task[t].job => job'[i].status = "awaiting_mapping"
      BY <2>1, <3>1
    <3> QED BY <1>2, <3>2 DEF ActiveStatuses
  <2>2. CASE task' = Begun(t)
    <3>1. task'[t] = [task[t] EXCEPT !.phase = "reading", !.rows = job[task[t].job].rows,
                                     !.todo = job[task[t].job].rows]
      BY <1>2, <2>2, BegunEffect
    <3> QED BY <1>6, <3>1 DEF TypeOK, TaskRecords
  <2> QED BY <1>7, <2>1, <2>2 DEF ScanEnd
<1>8. CASE ImportBegin(t)
  <2>1. CASE task' = Begun(t)
    <3>1. task'[t] = [task[t] EXCEPT !.phase = "reading", !.rows = job[task[t].job].rows,
                                     !.todo = job[task[t].job].rows]
      BY <1>2, <2>1, BegunEffect
    <3> QED BY <1>6, <3>1 DEF TypeOK, TaskRecords
  <2>2. CASE job[task[t].job].status # "importing" /\ job' = job
    BY <1>1, <1>8, <2>2 DEF ImportBegin, TaskFits, Scanned, ActiveStatuses
  <2> QED BY <1>3, <1>8, <2>1, <2>2 DEF ImportBegin
<1>9. CASE ReadAll(t)
  <2>1. task'[t] = [task[t] EXCEPT !.phase = "sweep"]
    BY <1>9, PhaseEffect DEF ReadAll, TaskPhases
  <2> QED BY <1>6, <2>1 DEF TypeOK, TaskRecords
<1>10. CASE Match(t)
  BY <1>3, <1>6, <1>10, MatchEffect
<1>11. CASE Commit(t)
  <2>1. ~Stale(t, Updated(t))
    BY <1>2 DEF Stale
  <2>2. \A cleared \in BOOLEAN : ~Done(t, cleared)
    BY <1>6, DoneEffect
  <2> QED BY <1>6, <1>11, <2>1, <2>2, ReplayEffect DEF Commit, Write, Conflict
<1>12. ASSUME NEW phase \in {"sweeping", "finishing"}, NEW work \in SUBSET Machines,
              task' = [task EXCEPT ![t].phase = phase, ![t].work = work]
       PROVE  FALSE
  <2>1. task'[t] = [task[t] EXCEPT !.phase = phase, !.work = work]
    BY <1>12, SweepEffect DEF TaskPhases
  <2> QED BY <1>6, <2>1 DEF TypeOK, TaskRecords
<1>13. CASE SweepRead(t)
  <2>1. (IF job[task[t].job].mode = "upsert" THEN Unseen(t) ELSE {}) \in SUBSET Machines
    BY WorkFits
  <2> QED BY <1>3, <1>12, <1>13, <2>1 DEF SweepRead
<1>14. CASE SweepCommit(t)
  BY <1>2, <1>12, <1>14 DEF SweepCommit, Stale
<1>15. CASE ScanFail(t) \/ Cancelled(t) \/ Finish(t)
  BY <1>3, <1>15 DEF ScanFail, Cancelled, Finish
<1>16. CASE ScanBegin(t)
  BY <1>5, <1>16 DEF ScanBegin
<1> QED BY <1>7, <1>8, <1>9, <1>10, <1>11, <1>13, <1>14, <1>15, <1>16 DEF TaskStep

\* Every step leaves an active import with its task, or with one of the two excuses.
LEMMA NextActive ==
  ASSUME TypeOK, TasksFit, RequestsFit, \A t \in Tasks : OwnFits(t),
         ActiveImportsAreRunning, Next
  PROVE  ActiveImportsAreRunning'
<1>1. ASSUME NEW j \in Jobs, NEW phase \in {"scan", "import"}, Queue(j, phase),
             UNCHANGED <<swept, deleted>>,
             \A i \in Jobs : i # j => job'[i] = job[i]
      PROVE  ActiveImportsAreRunning'
  <2>1. PICK u \in Tasks : OthersStay(u) /\ task[u].phase = "none" /\ task'[u].job = j
    BY <1>1, QueueEffect
  <2>2. task[u].job \notin Jobs
    BY <2>1, JobsAssumption DEF TasksFit, TaskFits
  <2>3. \A i \in Jobs, t \in Tasks : task[t].job = i => task'[t].job = i
    BY <2>1, <2>2 DEF OthersStay
  <2> QED BY <1>1, <2>1, <2>3 DEF ActiveImportsAreRunning, Active
<1>2. ASSUME UNCHANGED <<swept, deleted, task>>,
             \A i \in Jobs : job'[i].status = job[i].status \/ job'[i].status = "cancelled"
      PROVE  ActiveImportsAreRunning'
  BY <1>2 DEF ActiveImportsAreRunning, Active, ActiveStatuses
<1>3. ASSUME NEW r \in Requests, UploadCommit(r) PROVE ActiveImportsAreRunning'
  <2>1. PICK j \in Jobs, mode \in Modes, rows \in Routings \union {{}} :
          /\ job' = [job EXCEPT ![j] = [NoJob EXCEPT !.status = "uploaded", !.mode = mode,
                                                     !.file = "spooled", !.rows = rows]]
          /\ Queue(j, "scan")
    BY <1>3 DEF UploadCommit
  <2>2. \A i \in Jobs : i # j => job'[i] = job[i]
    BY <2>1 DEF TypeOK
  <2>3. UNCHANGED <<swept, deleted>>
    BY <1>3 DEF UploadCommit, history
  <2> QED BY <1>1, <2>1, <2>2, <2>3
<1>4. ASSUME NEW r \in Requests, StartCommit(r) PROVE ActiveImportsAreRunning'
  <2>1. PICK j \in Jobs : j = req[r].job
    BY <1>4 DEF StartCommit, RequestsFit, Scanned
  <2>2. \A i \in Jobs : i # j => job'[i] = job[i]
    BY <1>4, <2>1, StartMovesJob
  <2>3. UNCHANGED <<swept, deleted>> /\ Queue(j, "import")
    BY <1>4, <2>1 DEF StartCommit, history
  <2> QED BY <1>1, <2>2, <2>3
<1>5. ASSUME NEW r \in Requests, NEW j \in Jobs, StartCheck(r, j) \/ CancelRead(r, j)
      PROVE  ActiveImportsAreRunning'
  BY <1>2, <1>5 DEF StartCheck, CancelRead, history
<1>6. ASSUME NEW r \in Requests, UploadCheck(r) \/ UploadRefuse(r)
      PROVE  ActiveImportsAreRunning'
  BY <1>2, <1>6 DEF UploadCheck, UploadRefuse, history
<1>7. ASSUME NEW r \in Requests, CancelCommit(r) PROVE ActiveImportsAreRunning'
  <2>1. UNCHANGED <<swept, deleted, task>>
    BY <1>7 DEF CancelCommit, history
  <2> QED BY <1>2, <1>7, <2>1, CancelMovesJob
<1>8. ASSUME NEW t \in Tasks, TaskStep(t) PROVE ActiveImportsAreRunning'
  <2>1. UNCHANGED <<swept, deleted>>
    BY <1>8, Untouched
  <2>2. OthersStay(t) /\ (task'[t] = NoTask \/ task'[t].job = task[t].job)
    BY <1>8, TaskMoves
  <2>3. SUFFICES ASSUME NEW j \in Jobs, Active(j)', swept, deleted = {}
                 PROVE  \E u \in Tasks : task'[u].job = j
    BY <2>1 DEF ActiveImportsAreRunning
  <2>4. CASE j # task[t].job
    <3>1. Active(j)
      BY <1>8, <2>3, <2>4, TasksMoveJobs DEF Active
    <3>2. PICK u \in Tasks : task[u].job = j
      BY <2>3, <3>1 DEF ActiveImportsAreRunning
    <3> QED BY <2>2, <2>4, <3>2 DEF OthersStay
  <2>5. CASE j = task[t].job
    <3>1. task[t].gone = {}
      BY <2>3 DEF OwnFits, IndexFits
    <3>2. ASSUME task'[t] = NoTask PROVE FALSE
      <4>1. job'[j].status \in ActiveStatuses
        BY <2>3 DEF Active
      <4> QED BY <1>8, <2>3, <2>5, <3>1, <3>2, <4>1, EndsWithItsJob
    <3> QED BY <2>2, <2>5, <3>2
  <2> QED BY <2>4, <2>5
<1>9. ASSUME NEW m \in Foreign, CreateVM(m) PROVE ActiveImportsAreRunning'
  BY <1>2, <1>9 DEF CreateVM, history
<1>10. ASSUME NEW m \in Foreign, DeleteVM(m) PROVE ActiveImportsAreRunning'
  BY <1>10 DEF DeleteVM, ActiveImportsAreRunning
<1>11. CASE Restart
  BY <1>11, RestartFailsJobs DEF ActiveImportsAreRunning, Active, ActiveStatuses
<1> QED BY <1>3, <1>4, <1>5, <1>6, <1>7, <1>8, <1>9, <1>10, <1>11 DEF Next

-----------------------------------------------------------------------------
(* Theorems *)

\* The inductive invariant.
ImportInv ==
    /\ TypeOK
    /\ TasksFit
    /\ RequestsFit
    /\ \A t \in Tasks : OwnFits(t)
    /\ ActiveImportsAreRunning

\* Nothing has been uploaded at first.
LEMMA InitImportInv == Init => ImportInv
<1> SUFFICES ASSUME Init PROVE ImportInv
  OBVIOUS
<1>1. /\ \A t \in Tasks : task[t] = NoTask
      /\ \A r \in Requests : req[r] = NoReq
      /\ \A j \in Jobs : job[j] = NoJob
  BY DEF Init
<1>2. TypeOK
  <2>1. NoJob \in JobRecords /\ NoReq \in ReqRecords
    BY StatusesWritten DEF NoJob, JobRecords, NoReq, ReqRecords
  <2>2. vm \in [Machines -> RowStates]
    BY DEF Init, RowStates
  <2>3. 0 \in 0..MaxEvents
    BY MaxEventsAssumption
  <2> QED BY <2>1, <2>2, <2>3, SlotTypes DEF Init, TypeOK
<1>3. TasksFit
  BY <1>1, JobsAssumption DEF TasksFit, TaskFits, ScansAlone, NoTask
<1>4. RequestsFit
  BY <1>1 DEF RequestsFit, NoReq
<1>5. \A t \in Tasks : OwnFits(t)
  BY <1>1 DEF OwnFits, IndexFits, ProgressFits, Spares, NoTask
<1>6. ActiveImportsAreRunning
  BY <1>1 DEF ActiveImportsAreRunning, Active, ActiveStatuses, NoJob
<1> QED BY <1>2, <1>3, <1>4, <1>5, <1>6 DEF ImportInv

\* Every step keeps the invariant.
LEMMA NextImportInv == ImportInv /\ [Next]_vars => ImportInv'
<1> SUFFICES ASSUME ImportInv, [Next]_vars PROVE ImportInv'
  OBVIOUS
<1> USE DEF ImportInv
<1>1. CASE Next
  BY <1>1, NextTypes, NextTasksFit, NextRequestsFit, NextOwnFits, NextActive
<1>2. CASE UNCHANGED vars
  BY <1>2 DEF vars, TypeOK, TasksFit, TaskFits, ScansAlone, Scanned, RequestsFit, OwnFits, IndexFits,
     ProgressFits, Spares, Rejected, Present, ActiveImportsAreRunning, Active
<1> QED BY <1>1, <1>2

\* The invariant holds of every reachable state.
THEOREM ImportInvariant == Spec => []ImportInv
<1> QED BY InitImportInv, NextImportInv, PTL DEF Spec

\* Every reachable state is well formed.
THEOREM TypeCorrect == Spec => []TypeOK
<1>1. ImportInv => TypeOK
  BY DEF ImportInv
<1> QED BY <1>1, ImportInvariant, PTL

\* An import that blocks the next upload or start is being worked on, or the sweep was
\* skipped or a VM deleted, whatever the requests, tasks and restarts in between.
THEOREM ImportsEnd == Spec => []ActiveImportsAreRunning
<1>1. ImportInv => ActiveImportsAreRunning
  BY DEF ImportInv
<1> QED BY <1>1, ImportInvariant, PTL

\* Without a batch rolled back, mark_missing is about to flag no VM of the file.
THEOREM SeenVMsAreSafe == Spec => []SeenVMsAreNotFlagged
<1>1. ImportInv => SeenVMsAreNotFlagged
  BY DEF ImportInv, OwnFits, Spares, SeenVMsAreNotFlagged
<1> QED BY <1>1, ImportInvariant, PTL

\* A job that completes has stored every row of its file, or reported or lost it.
THEOREM CompletedAreWhole == Spec => CompletedImportsAreWhole
<1>1. ImportInv /\ [Next]_vars =>
        [\A t \in Tasks : Finish(t) =>
            task[t].rows \subseteq
               Present \union job[task[t].job].rejected \union deleted]_vars
  <2> SUFFICES ASSUME ImportInv, NEW t \in Tasks, Finish(t)
               PROVE  task[t].rows \subseteq
                         Present \union job[task[t].job].rejected \union deleted
    OBVIOUS
  <2>1. task[t].phase = "finishing"
    BY DEF Finish
  <2>2. task[t].job \in Jobs
    BY <2>1 DEF ImportInv, TasksFit, TaskFits, Scanned
  <2> QED BY <2>1, <2>2 DEF ImportInv, OwnFits, ProgressFits, Rejected
<1> QED BY <1>1, ImportInvariant, PTL DEF Spec, CompletedImportsAreWhole

\* A VM is flagged only by a task that has no row left to import.
THEOREM FlagsComeLast == Spec => FlagsAreLast
<1>1. ImportInv /\ [Next]_vars =>
        [\A m \in Machines : vm'[m] = "missing" /\ vm[m] # "missing" =>
            \E t \in Tasks : task[t].todo = {} /\ task'[t].phase = "finishing"]_vars
  <2> SUFFICES ASSUME ImportInv, Next, NEW m \in Machines, vm'[m] = "missing", vm[m] # "missing"
               PROVE  \E t \in Tasks : task[t].todo = {} /\ task'[t].phase = "finishing"
    OBVIOUS
  <2>1. ~RequestStep /\ ~Restart
    BY Untouched DEF Restart
  <2>2. ASSUME NEW n \in Foreign PROVE ~CreateVM(n) /\ ~DeleteVM(n)
    BY <2>2 DEF CreateVM, DeleteVM, ImportInv, TypeOK
  <2>3. ASSUME NEW t \in Tasks PROVE ~Commit(t)
    BY DEF Commit, Stale, Write, Conflict
  <2>4. PICK t \in Tasks : SweepCommit(t)
    BY <2>1, <2>2, <2>3, Untouched DEF Next, RequestStep
  <2>5. task' = [task EXCEPT ![t].phase = "finishing", ![t].work = {}] /\ task[t].phase = "sweeping"
    BY <2>4 DEF SweepCommit, Stale
  <2>6. task'[t].phase = "finishing"
    BY <2>5 DEF ImportInv, TypeOK, TaskRecords
  <2> QED BY <2>5, <2>6 DEF ImportInv, OwnFits, ProgressFits
<1> QED BY <1>1, ImportInvariant, PTL DEF Spec, FlagsAreLast

=============================================================================
