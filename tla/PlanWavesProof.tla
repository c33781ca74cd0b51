---------------------------- MODULE PlanWavesProof ----------------------------
(***************************************************************************)
(* Theorems about PlanWaves, for any inventory, any number of waves and    *)
(* any number of re-annotation tasks.                                      *)
(***************************************************************************)
EXTENDS PlanWaves, WellFoundedInduction, TLAPS

-----------------------------------------------------------------------------
(* The highest of some wave numbers *)

Less == {xy \in Nat \X Nat : xy[1] < xy[2]}

\* The order of the natural numbers, in the form WFMin takes it.
LEMMA LessWellFounded == IsWellFoundedOn(Less, Nat)
BY NatLessThanWellFounded, Zenon DEF OpToRel, Less

\* A bounded, non-empty set of naturals has a greatest element.
LEMMA HasHighest ==
    ASSUME NEW m \in Nat, NEW S \in SUBSET (0..m), S # {}
    PROVE  \E x \in S : \A y \in S : y <= x
<1> DEFINE T == {n \in Nat : m - n \in S}
<1>1. T \subseteq Nat /\ T # {}
  <2>1. PICK x \in S : x \in 0..m
    OBVIOUS
  <2>2. m - x \in Nat /\ m - (m - x) = x
    BY <2>1
  <2>3. QED
    BY <2>1, <2>2
<1> HIDE DEF T
<1>2. \E x \in T : \A y \in T : ~(<<y, x>> \in Less)
    BY <1>1, LessWellFounded, WFMin, Zenon
<1>3. PICK t \in T : \A y \in T : ~(<<y, t>> \in Less)
    BY <1>2
<1>4. \A y \in T : t <= y
  <2> SUFFICES ASSUME NEW y \in T, y < t PROVE FALSE
    BY <1>1
  <2>1. <<y, t>> \in Nat \X Nat /\ <<y, t>>[1] < <<y, t>>[2]
    BY <1>1
  <2>2. <<y, t>> \in Less
    BY <2>1 DEF Less
  <2>3. QED
    BY <2>2, <1>3
<1>5. \A y \in S : y <= m - t
  <2> SUFFICES ASSUME NEW y \in S PROVE y <= m - t
    OBVIOUS
  <2>1. y \in 0..m
    OBVIOUS
  <2>2. m - y \in Nat /\ m - (m - y) = y
    BY <2>1
  <2>3. m - y \in T
    BY <2>2 DEF T
  <2>4. QED
    BY <2>1, <2>3, <1>1, <1>4
<1>6. QED
    BY <1>5 DEF T

\* Highest chooses it.
LEMMA HighestIs ==
    ASSUME NEW S \in SUBSET (0..MaxNumber), S # {}
    PROVE  Highest(S) \in S /\ \A y \in S : y <= Highest(S)
<1>1. \E x \in S : \A y \in S : y <= x
    BY HasHighest, MaxNumberAssumption
<1>2. QED
    BY <1>1 DEF Highest

-----------------------------------------------------------------------------
(* Type correctness *)

\* Documents and task records start well formed.
LEMMA NoDocType ==
    /\ NoDoc \in Docs
    /\ NoWaves \in Waves
    /\ NoTask \in TaskRecords
<1>1. NoDoc \in Docs
    BY DEF NoDoc, Docs
<1>2. NoWaves \in Waves
    BY <1>1 DEF NoWaves, Waves
<1>3. NoJobs \in [Numbers -> SUBSET VMs]
    BY DEF NoJobs
<1>4. QED
    BY <1>1, <1>2, <1>3 DEF NoTask, TaskRecords

\* The initial values are well formed.
LEMMA InitTypeOK == Init => TypeOK
<1> SUFFICES ASSUME Init PROVE TypeOK
    OBVIOUS
<1>1. waves \in Waves
  <2>1. PICK vs \in (SUBSET VMs) \ {{}}, k \in Numbers :
          \E at \in [vs -> 1..k] :
             waves = [n \in Numbers |->
                        LET here == {v \in vs : at[v] = n}
                        IN  [NoDoc EXCEPT !.vms = here, !.text = here]]
    BY ZenonT(60) DEF Init
  <2>0. PICK at \in [vs -> 1..k] :
             waves = [n \in Numbers |->
                        LET here == {v \in vs : at[v] = n}
                        IN  [NoDoc EXCEPT !.vms = here, !.text = here]]
    BY <2>1
  <2>2. \A n \in Numbers :
          LET here == {v \in vs : at[v] = n}
          IN  [NoDoc EXCEPT !.vms = here, !.text = here] \in Docs
    BY DEF NoDoc, Docs
  <2>3. QED
    BY <2>0, <2>2 DEF Waves
<1>2. task \in [Tasks -> TaskRecords]
    BY NoDocType DEF Init
<1>3. QED
    BY <1>1, <1>2 DEF Init, TypeOK, RunStates

\* The waves an edit writes, their number and its task are well formed.
LEMMA EditType ==
    ASSUME TypeOK, NEW vs \in SUBSET VMs, NEW dest \in Numbers \union {0}, Edit(vs, dest)
    PROVE  TypeOK'
<1>1. Explained(vs, dest) # {} => lastTask + 1 \in Tasks
    BY MaxTasksAssumption DEF Edit, Queue, TypeOK, Tasks
<1>2. EditedWaves(vs, dest) \in Waves
  <2>1. \A n \in Numbers : waves[n] \in Docs /\ Rebuilt(vs, dest, n) \subseteq VMs
    BY DEF TypeOK, Waves, Rebuilt
  <2>2. \A n \in Explained(vs, dest) :
           [vms |-> Rebuilt(vs, dest, n), text |-> Rebuilt(vs, dest, n),
            token |-> lastTask + 1, state |-> "queued"] \in Docs
    BY <1>1, <2>1 DEF Docs, Explained, Touched
  <2>3. QED
    BY <2>1, <2>2, NoDocType DEF EditedWaves, Waves
<1>3. waves' \in Waves /\ vmIds' \subseteq VMs
    BY <1>2 DEF Edit, Members, Waves, Docs
<1>4. seq' \in Numbers \union {0}
  <2>1. {seq, dest} \union Keys(waves) \in SUBSET (0..MaxNumber)
    BY MaxNumberAssumption DEF TypeOK, Keys, Numbers
  <2>2. seq' \in 0..MaxNumber
    BY <2>1, HighestIs DEF Edit
  <2>3. QED
    BY <2>2, MaxNumberAssumption DEF Numbers
<1>5. task' \in [Tasks -> TaskRecords] /\ lastTask' \in Tasks \union {0}
  <2>1. Explained(vs, dest) \subseteq Numbers
    BY DEF Explained, Touched
  <2>2. [NoTask EXCEPT !.phase = "queued", !.tokens = Explained(vs, dest)] \in TaskRecords
    BY <2>1, NoDocType DEF TaskRecords
  <2>3. QED
    BY <1>1, <2>2 DEF Edit, Queue, TypeOK
<1>6. QED
    BY <1>3, <1>4, <1>5 DEF Edit, TypeOK

\* The copy a task writes back is well formed, with or without answers.
LEMMA TaskType ==
    ASSUME TypeOK, NEW t \in Tasks, TaskStep(t)
    PROVE  TypeOK'
<1>1. CASE TaskAsk(t)
  <2>1. Questions(t) \in [Numbers -> SUBSET VMs]
    BY DEF TypeOK, Questions
  <2>2. task' \in [Tasks -> TaskRecords]
    BY <1>1, <2>1, NoDocType DEF TaskAsk, Done, TypeOK, TaskRecords
  <2>3. QED
    BY <1>1, <2>2 DEF TaskAsk, TypeOK
<1>2. CASE TaskCopy(t)
  <2>1. task' \in [Tasks -> TaskRecords]
    BY <1>2, NoDocType DEF TaskCopy, Done, TypeOK, TaskRecords
  <2>2. QED
    BY <1>2, <2>1 DEF TaskCopy, TypeOK
<1>3. CASE TaskWrite(t)
  <2>1. task' \in [Tasks -> TaskRecords]
    BY <1>3, NoDocType DEF TaskWrite, Done, TypeOK
  <2>2. task[t].copy \in Waves /\ task[t].jobs \in [Numbers -> SUBSET VMs]
    BY DEF TypeOK, TaskRecords
  <2>3. waves' \in Waves
    <3>1. CASE UNCHANGED waves
      BY <3>1, SMTT(60) DEF TypeOK
    <3>2. CASE ~UNCHANGED waves
      <4>1. PICK llm \in SUBSET Answered(t) :
              waves' = [n \in Numbers |->
                          IF n \notin Answered(t) THEN task[t].copy[n]
                          ELSE [task[t].copy[n] EXCEPT
                                  !.state = IF n \in Settled(t, llm) THEN "done" ELSE @,
                                  !.text = IF n \in llm THEN task[t].jobs[n] ELSE @]]
        BY <1>3, <3>2 DEF TaskWrite
      <4>2. \A n \in Numbers : task[t].copy[n] \in Docs /\ task[t].jobs[n] \subseteq VMs
        BY <2>2 DEF Waves
      <4>3. \A n \in Numbers : waves'[n] \in Docs
        BY <4>1, <4>2, ZenonT(60) DEF Docs
      <4>4. QED
        BY <4>1, <4>3 DEF Waves
    <3>3. QED
      BY <3>1, <3>2
  <2>4. QED
    BY <1>3, <2>1, <2>3 DEF TaskWrite, TypeOK
<1>4. QED
    BY <1>1, <1>2, <1>3 DEF TaskStep

\* Every step keeps the types.
LEMMA NextTypeOK == TypeOK /\ [Next]_vars => TypeOK'
<1> SUFFICES ASSUME TypeOK, [Next]_vars PROVE TypeOK'
    OBVIOUS
<1>1. ASSUME NEW vs \in SUBSET VMs, NEW dest \in Numbers \union {0}, Edit(vs, dest)
      PROVE  TypeOK'
    BY <1>1, EditType
<1>2. ASSUME NEW n \in Numbers, Reannotate(n) PROVE TypeOK'
  <2>1. lastTask + 1 \in Tasks
    BY <1>2, MaxTasksAssumption DEF Reannotate, Queue, TypeOK, Tasks
  <2>2. waves' \in Waves
    BY <1>2, <2>1, ZenonT(60) DEF Reannotate, TypeOK, Waves, Docs
  <2>3. [NoTask EXCEPT !.phase = "queued", !.tokens = {n}] \in TaskRecords
    BY NoDocType DEF TaskRecords
  <2>4. task' \in [Tasks -> TaskRecords] /\ lastTask' \in Tasks \union {0}
    BY <1>2, <2>1, <2>3 DEF Reannotate, Queue, TypeOK
  <2>5. QED
    BY <1>2, <2>2, <2>4 DEF Reannotate, TypeOK
<1>3. ASSUME NEW n \in Numbers, KickRead(n) \/ RunEnds(n) PROVE TypeOK'
    BY <1>3 DEF KickRead, RunEnds, TypeOK, RunStates
<1>4. CASE KickInsert \/ KickRefuse
    BY <1>4 DEF KickInsert, KickRefuse, TypeOK, RunStates
<1>5. ASSUME NEW t \in Tasks, TaskStep(t) PROVE TypeOK'
    BY <1>5, TaskType
<1>6. CASE PlanEnds \/ DeleteVMs
    BY <1>6 DEF PlanEnds, DeleteVMs, TypeOK
<1>7. CASE Crash
    BY <1>7, NoDocType DEF Crash, TypeOK, RunStates
<1>8. CASE Start
  <2>1. waves' \in Waves
    BY <1>8 DEF Start, Swept, AbandonedState, TypeOK, Waves, Docs
  <2>2. QED
    BY <1>8, <2>1 DEF Start, TypeOK
<1>9. CASE UNCHANGED vars
    BY <1>9 DEF vars, TypeOK
<1>10. QED
    BY <1>1, <1>2, <1>3, <1>4, <1>5, <1>6, <1>7, <1>8, <1>9 DEF Next

(***************************************************************************)
(* Every reachable state is well formed: documents, tasks, numbers and     *)
(* runs stay within their domains.                                         *)
(***************************************************************************)
THEOREM TypeCorrect == Spec => []TypeOK
<1>1. QED
    BY InitTypeOK, NextTypeOK, PTL DEF Spec

-----------------------------------------------------------------------------
(* The inductive invariant: a task may write back a copy of the waves that *)
(* edits have left behind, so what is claimed of the waves has to hold of  *)
(* every copy too, and of the waves and the copies together.               *)

Copied   == {t \in Tasks : task[t].phase = "copied"}
Versions == {waves} \union {task[t].copy : t \in Copied}

Asked(t) == task[t].phase \in {"asked", "copied"}

VersionsDisjoint ==
    \A ws \in Versions : \A m, n \in Numbers : m # n => ws[m].vms \intersect ws[n].vms = {}

TextsFit ==
    \A ws \in Versions : \A n \in Numbers : /\ ws[n].text \subseteq ws[n].vms
                                            /\ ws[n].vms \intersect rows \subseteq ws[n].text

\* Tokens and tasks are numbered from 1 as they are handed out.
TokensGiven ==
    /\ \A ws \in Versions : \A n \in Numbers : ws[n].token <= lastTask
    /\ \A t \in Tasks : task[t].phase # "none" => t <= lastTask

\* Two versions that carry the same token have the same VMs.
TokensNameContents ==
    \A a, b \in Versions : \A n \in Numbers :
        a[n].token = b[n].token /\ a[n].token # 0 => a[n].vms = b[n].vms

\* What the model was asked about is what any version with that token holds.
AnswersFit ==
    \A t \in Tasks : Asked(t) => \A ws \in Versions : \A n \in Numbers :
        ws[n].token = t /\ task[t].jobs[n] # {} =>
            /\ task[t].jobs[n] \subseteq ws[n].vms
            /\ ws[n].vms \intersect rows \subseteq task[t].jobs[n]

\* A number that only one of two versions uses is below the sequence.
VersionsAgree ==
    \A a, b \in Versions : \A n \in Numbers :
        a[n].vms # {} => n <= seq \/ b[n].vms # {}

\* A run never has a number that may be given out again.
NumbersKnown ==
    \A n \in Numbers : run[n] # "none" \/ kick = n => n <= seq \/ waves[n].vms # {}

WInv ==
    /\ TypeOK
    /\ VersionsDisjoint
    /\ TextsFit
    /\ TokensGiven
    /\ TokensNameContents
    /\ AnswersFit
    /\ VersionsAgree
    /\ NumbersKnown

\* All steps but those that stamp waves.
QuietStep ==
    \/ \E n \in Numbers : KickRead(n) \/ RunEnds(n)
    \/ KickInsert \/ KickRefuse
    \/ \E t \in Tasks : TaskStep(t)
    \/ PlanEnds \/ DeleteVMs \/ Crash \/ Start
    \/ UNCHANGED vars

SameContents(a, b) == \A n \in Numbers : a[n].vms = b[n].vms /\ a[n].token = b[n].token

\* What a step may do to a task.
TaskMove(t) ==
    \/ task'[t] = task[t]
    \/ task'[t] = NoTask
    \/ task'[t].phase = "queued" /\ t = lastTask + 1 /\ lastTask' = lastTask + 1
    \/ /\ task[t].phase = "queued" /\ task'[t].phase = "asked"
       /\ task'[t].jobs = Questions(t)
       /\ UNCHANGED <<rows, waves>>
    \/ /\ task[t].phase = "asked" /\ task'[t].phase = "copied"
       /\ task'[t].jobs = task[t].jobs
       /\ task'[t].copy = waves

\* A task is queued, asked, copied and done, in that order.
LEMMA TaskMoves ==
    ASSUME TypeOK, [Next]_vars, NEW t \in Tasks
    PROVE  TaskMove(t)
<1>a. task[t] \in TaskRecords /\ task \in [Tasks -> TaskRecords]
    BY DEF TypeOK
<1>1. ASSUME NEW u \in Tasks, TaskStep(u) PROVE TaskMove(t)
  <2>1. CASE u # t
    BY <1>1, <2>1, <1>a DEF TaskStep, TaskAsk, TaskCopy, TaskWrite, Done, TaskMove
  <2>2. CASE u = t /\ task' = [task EXCEPT ![t] = NoTask]
    BY <2>2, <1>a DEF TaskMove
  <2>3. CASE u = t /\ task' # [task EXCEPT ![t] = NoTask]
    <3>1. CASE TaskAsk(t)
      <4>1. /\ task' = [task EXCEPT ![t].phase = "asked", ![t].jobs = Questions(t)]
            /\ task[t].phase = "queued" /\ UNCHANGED <<rows, waves>>
        BY <2>3, <3>1 DEF TaskAsk, Done
      <4>2. task'[t].phase = "asked" /\ task'[t].jobs = Questions(t)
        BY <4>1, <1>a DEF TaskRecords
      <4>3. QED
        BY <4>1, <4>2 DEF TaskMove
    <3>2. CASE TaskCopy(t)
      <4>1. /\ task' = [task EXCEPT ![t].phase = "copied", ![t].copy = waves]
            /\ task[t].phase = "asked"
        BY <2>3, <3>2 DEF TaskCopy, Done
      <4>2. /\ task'[t].phase = "copied" /\ task'[t].copy = waves
            /\ task'[t].jobs = task[t].jobs
        BY <4>1, <1>a DEF TaskRecords
      <4>3. QED
        BY <4>1, <4>2 DEF TaskMove
    <3>3. QED
      BY <1>1, <2>3, <3>1, <3>2 DEF TaskStep, TaskWrite, Done
  <2>4. QED
    BY <2>1, <2>2, <2>3
<1>2. ASSUME NEW ns, Queue(ns) PROVE TaskMove(t)
    BY <1>2, <1>a DEF Queue, NoTask, TaskMove
<1>3. CASE Crash
    BY <1>3 DEF Crash, TaskMove
<1>4. CASE UNCHANGED task
    BY <1>4 DEF TaskMove
<1>5. QED
    BY <1>1, <1>2, <1>3, <1>4
       DEF Next, Edit, Reannotate, KickRead, RunEnds, KickInsert, KickRefuse, PlanEnds, DeleteVMs,
           Start, vars

\* Copies are made of the waves as they are: the only new version is the next one.
LEMMA VersionsGrow ==
    ASSUME TypeOK, [Next]_vars, NEW ws \in Versions'
    PROVE  ws \in Versions \/ ws = waves'
<1>1. CASE ws = waves'
    BY <1>1
<1>2. ASSUME NEW t \in Tasks, task'[t].phase = "copied", ws = task'[t].copy
      PROVE  ws \in Versions
  <2>1. CASE task'[t] = task[t]
    BY <1>2, <2>1 DEF Versions, Copied
  <2>2. CASE task'[t].copy = waves
    BY <1>2, <2>2 DEF Versions
  <2>3. QED
    BY <1>2, <2>1, <2>2, TaskMoves DEF TaskMove, NoTask
<1>3. QED
    BY <1>1, <1>2 DEF Versions, Copied

\* A quiet step leaves the contents of some version.
LEMMA QuietContents ==
    ASSUME TypeOK, QuietStep
    PROVE  /\ \E c \in Versions : SameContents(waves', c)
           /\ seq' = seq /\ lastTask' = lastTask /\ rows' \subseteq rows
<1>1. ASSUME NEW t \in Tasks, TaskWrite(t), waves' # waves
      PROVE  task[t].copy \in Versions /\ SameContents(waves', task[t].copy)
  <2>1. PICK llm \in SUBSET Answered(t) :
              waves' = [n \in Numbers |->
                          IF n \notin Answered(t) THEN task[t].copy[n]
                          ELSE [task[t].copy[n] EXCEPT
                                  !.state = IF n \in Settled(t, llm) THEN "done" ELSE @,
                                  !.text = IF n \in llm THEN task[t].jobs[n] ELSE @]]
    BY <1>1 DEF TaskWrite
  <2>2. \A n \in Numbers : task[t].copy[n] \in Docs
    BY DEF TypeOK, TaskRecords, Waves
  <2>3. SameContents(waves', task[t].copy)
    BY <2>1, <2>2, ZenonT(60) DEF SameContents, Docs
  <2>4. QED
    BY <1>1, <2>3 DEF TaskWrite, Versions, Copied
<1>2. CASE Start
  <2>1. SameContents(waves', waves)
    BY <1>2 DEF Start, Swept, AbandonedState, SameContents, TypeOK, Waves, Docs
  <2>2. QED
    BY <1>2, <2>1 DEF Start, Versions
<1>3. CASE waves' = waves
    BY <1>3, ZenonT(60) DEF SameContents, Versions, QuietStep, KickRead, RunEnds, KickInsert,
       KickRefuse,
           TaskStep, TaskAsk, TaskCopy, TaskWrite, PlanEnds, DeleteVMs, Crash, Start, vars
<1>4. CASE waves' # waves /\ ~Start
  <2>1. PICK t \in Tasks : TaskWrite(t)
    BY <1>4 DEF QuietStep, KickRead, RunEnds, KickInsert, KickRefuse,
           TaskStep, TaskAsk, TaskCopy, PlanEnds, DeleteVMs, Crash, vars
  <2>2. QED
    BY <1>1, <1>4, <2>1 DEF TaskWrite
<1>5. QED
    BY <1>2, <1>3, <1>4

\* Stamping a wave keeps what every wave holds, under a token never used.
LEMMA ReannotateContents ==
    ASSUME TypeOK, NEW k \in Numbers, Reannotate(k)
    PROVE  /\ \A n \in Numbers : waves'[n].vms = waves[n].vms /\ waves'[n].text = waves[n].text
           /\ \A n \in Numbers \ {k} : waves'[n].token = waves[n].token
           /\ waves'[k].token = lastTask + 1
           /\ lastTask' = lastTask + 1 /\ seq' = seq /\ rows' = rows
BY DEF Reannotate, Queue, TypeOK, Waves, Docs

\* What an edit leaves of every wave, stamped or not.
LEMMA EditContents ==
    ASSUME TypeOK, NEW vs \in SUBSET VMs, NEW dest \in Numbers \union {0}, Edit(vs, dest)
    PROVE  /\ \A n \in Numbers :
                 \/ waves'[n] = waves[n] /\ n \notin Touched(vs, dest)
                 \/ waves'[n] = NoDoc
                 \/ /\ waves'[n].vms = Rebuilt(vs, dest, n)
                    /\ waves'[n].text = Rebuilt(vs, dest, n)
                    /\ waves'[n].token = lastTask + 1
                    /\ lastTask' = lastTask + 1
           /\ lastTask' \in {lastTask, lastTask + 1}
           /\ rows' = rows
<1>1. Explained(vs, dest) # {} => lastTask' = lastTask + 1
    BY DEF Edit, Queue
<1>2. lastTask' \in {lastTask, lastTask + 1} /\ rows' = rows
    BY DEF Edit, Queue
<1>3. \A n \in Numbers :
         waves'[n] = IF n \notin Touched(vs, dest) THEN waves[n]
                     ELSE IF n \notin Explained(vs, dest) THEN NoDoc
                     ELSE [vms |-> Rebuilt(vs, dest, n), text |-> Rebuilt(vs, dest, n),
                           token |-> lastTask + 1, state |-> "queued"]
    BY DEF Edit, EditedWaves
<1>4. ASSUME NEW n \in Numbers
      PROVE  \/ waves'[n] = waves[n] /\ n \notin Touched(vs, dest)
             \/ waves'[n] = NoDoc
             \/ /\ waves'[n].vms = Rebuilt(vs, dest, n)
                /\ waves'[n].text = Rebuilt(vs, dest, n)
                /\ waves'[n].token = lastTask + 1
                /\ lastTask' = lastTask + 1
  <2>1. CASE n \notin Touched(vs, dest)
    BY <1>3, <2>1
  <2>2. CASE n \in Touched(vs, dest) /\ n \notin Explained(vs, dest)
    BY <1>3, <2>2
  <2>3. CASE n \in Touched(vs, dest) /\ n \in Explained(vs, dest)
    <3>1. waves'[n] = [vms |-> Rebuilt(vs, dest, n), text |-> Rebuilt(vs, dest, n),
                       token |-> lastTask + 1, state |-> "queued"]
      BY <1>3, <2>3
    <3>2. Explained(vs, dest) # {}
      BY <2>3
    <3>3. QED
      BY <1>1, <3>1, <3>2
  <2>4. QED
    BY <2>1, <2>2, <2>3
<1>5. QED
    BY <1>2, <1>4

\* The numbers in use after an edit were in use before or are its destination,
\* and the sequence is past all of them.
LEMMA EditNumbers ==
    ASSUME TypeOK, NEW vs \in SUBSET VMs, NEW dest \in Numbers \union {0}, Edit(vs, dest)
    PROVE  /\ \A n \in Numbers : waves'[n].vms # {} => waves[n].vms # {} \/ n = dest
           /\ \A n \in Numbers : waves[n].vms # {} \/ n = dest \/ n <= seq => n <= seq'
<1>1. ASSUME NEW n \in Numbers, waves'[n].vms # {} PROVE waves[n].vms # {} \/ n = dest
  <2>1. CASE waves'[n] = waves[n]
    BY <1>1, <2>1
  <2>2. CASE waves'[n] = NoDoc
    BY <1>1, <2>2 DEF NoDoc
  <2>3. CASE waves'[n].vms = Rebuilt(vs, dest, n)
    BY <1>1, <2>3 DEF Rebuilt, After
  <2>4. QED
    BY <2>1, <2>2, <2>3, EditContents
<1>2. {seq, dest} \union Keys(waves) \in SUBSET (0..MaxNumber)
    BY MaxNumberAssumption DEF TypeOK, Keys, Numbers
<1>3. /\ seq' \in 0..MaxNumber
      /\ \A y \in {seq, dest} \union Keys(waves) : y <= seq'
    BY <1>2, HighestIs DEF Edit
<1>4. \A n \in Numbers : waves[n].vms # {} \/ n = dest \/ n <= seq => n <= seq'
    BY <1>2, <1>3 DEF Keys, Numbers, TypeOK
<1>5. QED
    BY <1>1, <1>4

\* Every step is an edit, a stamp or quiet.
LEMMA StepKinds ==
    ASSUME [Next]_vars
    PROVE  \/ \E vs \in SUBSET VMs, dest \in Numbers \union {0} : Edit(vs, dest)
           \/ \E k \in Numbers : Reannotate(k)
           \/ QuietStep
BY DEF Next, QuietStep

\* The waves an edit leaves are disjoint when those it found were.
LEMMA EditKeepsDisjoint ==
    ASSUME TypeOK, NEW vs \in SUBSET VMs, NEW dest \in Numbers \union {0}, Edit(vs, dest),
           \A m, n \in Numbers : m # n => waves[m].vms \intersect waves[n].vms = {}
    PROVE  \A m, n \in Numbers : m # n => waves'[m].vms \intersect waves'[n].vms = {}
<1>1. \A n \in Numbers : waves'[n].vms \subseteq After(vs, dest, n)
  <2> SUFFICES ASSUME NEW n \in Numbers PROVE waves'[n].vms \subseteq After(vs, dest, n)
    OBVIOUS
  <2>1. CASE waves'[n] = waves[n] /\ n \notin Touched(vs, dest)
    BY <2>1 DEF Touched
  <2>2. CASE waves'[n] = NoDoc
    BY <2>2 DEF NoDoc
  <2>3. CASE waves'[n].vms = Rebuilt(vs, dest, n)
    BY <2>3 DEF Rebuilt
  <2>4. QED
    BY <2>1, <2>2, <2>3, EditContents
<1>2. \A m, n \in Numbers : m # n => After(vs, dest, m) \intersect After(vs, dest, n) = {}
    BY DEF After
<1>3. QED
    BY <1>1, <1>2

\* Disjointness, of the waves and of every copy.
LEMMA NextVersionsDisjoint == WInv /\ [Next]_vars => VersionsDisjoint'
<1> SUFFICES ASSUME WInv, [Next]_vars PROVE VersionsDisjoint'
    OBVIOUS
<1>a. TypeOK /\ VersionsDisjoint
    BY DEF WInv
<1>b. \A c \in Versions : \A m, n \in Numbers : m # n => c[m].vms \intersect c[n].vms = {}
    BY <1>a DEF VersionsDisjoint
<1>1. \A m, n \in Numbers : m # n => waves'[m].vms \intersect waves'[n].vms = {}
  <2>1. ASSUME NEW vs \in SUBSET VMs, NEW dest \in Numbers \union {0}, Edit(vs, dest)
        PROVE  \A m, n \in Numbers : m # n => waves'[m].vms \intersect waves'[n].vms = {}
    BY <2>1, <1>a, <1>b, EditKeepsDisjoint DEF Versions
  <2>2. ASSUME NEW k \in Numbers, Reannotate(k)
        PROVE  \A m, n \in Numbers : m # n => waves'[m].vms \intersect waves'[n].vms = {}
    BY <2>2, <1>a, <1>b, ReannotateContents DEF Versions
  <2>3. CASE QuietStep
    BY <2>3, <1>a, <1>b, QuietContents DEF SameContents
  <2>4. QED
    BY <2>1, <2>2, <2>3, StepKinds
<1>2. QED
    BY <1>a, <1>b, <1>1, VersionsGrow DEF VersionsDisjoint

\* Tokens and tasks stay numbered.
LEMMA NextTokensGiven == WInv /\ [Next]_vars => TokensGiven'
<1> SUFFICES ASSUME WInv, [Next]_vars PROVE TokensGiven'
    OBVIOUS
<1>a. TypeOK /\ TypeOK' /\ TokensGiven
    BY NextTypeOK DEF WInv
<1>b. \A c \in Versions : \A n \in Numbers : c[n] \in Docs
    BY <1>a DEF TypeOK, Versions, Copied, Waves, TaskRecords
<1>c. \A c \in Versions : \A n \in Numbers : c[n].token \in Int /\ c[n].token <= lastTask
    BY <1>a, <1>b DEF TokensGiven, Docs, Tasks
<1>d. lastTask \in Int /\ lastTask' \in Int
    BY <1>a DEF TypeOK, Tasks
<1>1. lastTask' >= lastTask /\ \A n \in Numbers : waves'[n].token <= lastTask'
  <2>1. ASSUME NEW vs \in SUBSET VMs, NEW dest \in Numbers \union {0}, Edit(vs, dest)
        PROVE  lastTask' >= lastTask /\ \A n \in Numbers : waves'[n].token <= lastTask'
    <3>1. ASSUME NEW n \in Numbers PROVE waves'[n].token <= lastTask'
      <4>1. CASE waves'[n] = waves[n]
        <5>1. waves[n].token \in Int /\ waves[n].token <= lastTask
          BY <1>c DEF Versions
        <5>2. lastTask <= lastTask'
          BY <2>1, <1>d DEF Edit, Queue
        <5>3. QED
          BY <4>1, <5>1, <5>2, <1>d
      <4>2. CASE waves'[n] = NoDoc
        BY <4>2, <1>a DEF NoDoc, TypeOK, Tasks
      <4>3. CASE waves'[n].token = lastTask + 1 /\ lastTask' = lastTask + 1
        BY <4>3, <1>d
      <4>4. QED
        BY <2>1, <1>a, <4>1, <4>2, <4>3, EditContents
    <3>2. QED
      BY <2>1, <3>1, <1>a, <1>d, EditContents
  <2>2. ASSUME NEW k \in Numbers, Reannotate(k)
        PROVE  lastTask' >= lastTask /\ \A n \in Numbers : waves'[n].token <= lastTask'
    <3>1. \A n \in Numbers : waves[n].token <= lastTask
      BY <1>c DEF Versions
    <3>2. QED
      BY <2>2, <3>1, <1>a, <1>c, <1>d, ReannotateContents DEF Versions
  <2>3. CASE QuietStep
    BY <2>3, <1>a, <1>c, <1>d, QuietContents DEF SameContents
  <2>4. QED
    BY <2>1, <2>2, <2>3, StepKinds
<1>2. \A ws \in Versions' : \A n \in Numbers : ws[n].token <= lastTask'
  <2> SUFFICES ASSUME NEW ws \in Versions', NEW n \in Numbers PROVE ws[n].token <= lastTask'
    OBVIOUS
  <2>1. CASE ws \in Versions
    BY <2>1, <1>c, <1>d, <1>1
  <2>2. CASE ws = waves'
    BY <2>2, <1>1
  <2>3. QED
    BY <1>a, <2>1, <2>2, VersionsGrow
<1>3. ASSUME NEW t \in Tasks, task'[t].phase # "none" PROVE t <= lastTask'
  <2>1. CASE task[t].phase # "none"
    BY <2>1, <1>a, <1>d, <1>1 DEF TokensGiven, Tasks
  <2>2. CASE task[t].phase = "none"
    <3>1. t = lastTask + 1 /\ lastTask' = lastTask + 1
      BY <1>3, <2>2, <1>a, TaskMoves, SMTT(60) DEF TaskMove, NoTask
    <3>2. QED
      BY <3>1, <1>d
  <2>3. QED
    BY <2>1, <2>2
<1>4. QED
    BY <1>2, <1>3 DEF TokensGiven

\* No row of the inventory comes back.
LEMMA RowsShrink ==
    ASSUME [Next]_vars
    PROVE  rows' \subseteq rows
BY DEF Next, Edit, Reannotate, KickRead, RunEnds, KickInsert, KickRefuse, TaskStep, TaskAsk,
       TaskCopy, TaskWrite, PlanEnds, DeleteVMs, Crash, Start, vars

\* A version of the waves is well formed and holds tokens given out already.
LEMMA VersionFacts ==
    ASSUME WInv, NEW c \in Versions, NEW n \in Numbers
    PROVE  /\ c[n] \in Docs
           /\ c[n].token \in Nat /\ c[n].token <= lastTask
           /\ lastTask \in Nat
<1>1. c[n] \in Docs
    BY DEF WInv, TypeOK, Versions, Copied, Waves, TaskRecords
<1>2. QED
    BY <1>1 DEF WInv, TokensGiven, Docs, Tasks, TypeOK

\* A token still stands for the same VMs, in the next waves as in every version.
LEMMA NextTokensNameContents == WInv /\ [Next]_vars => TokensNameContents'
<1> SUFFICES ASSUME WInv, [Next]_vars PROVE TokensNameContents'
    OBVIOUS
<1>a. TypeOK /\ TokensNameContents
    BY DEF WInv
<1>1. ASSUME NEW c \in Versions, NEW n \in Numbers,
             waves'[n].token = c[n].token, c[n].token # 0
      PROVE  waves'[n].vms = c[n].vms
  <2>0. waves \in Versions
    BY DEF Versions
  <2>a. c[n].token # lastTask + 1
    BY <1>1, VersionFacts
  <2>b. ASSUME NEW d \in Versions, d[n].token = c[n].token PROVE d[n].vms = c[n].vms
    BY <2>b, <1>1, <1>a DEF TokensNameContents
  <2>1. ASSUME NEW vs \in SUBSET VMs, NEW dest \in Numbers \union {0}, Edit(vs, dest)
        PROVE  waves'[n].vms = c[n].vms
    <3>1. CASE waves'[n] = waves[n]
      BY <3>1, <1>1, <2>0, <2>b
    <3>2. CASE waves'[n] = NoDoc
      BY <3>2, <1>1 DEF NoDoc
    <3>3. CASE waves'[n].token = lastTask + 1
      BY <3>3, <1>1, <2>a
    <3>4. QED
      BY <2>1, <1>a, <3>1, <3>2, <3>3, EditContents
  <2>2. ASSUME NEW k \in Numbers, Reannotate(k) PROVE waves'[n].vms = c[n].vms
    <3>1. n # k
      BY <2>2, <1>a, <1>1, <2>a, ReannotateContents
    <3>2. waves'[n].vms = waves[n].vms /\ waves'[n].token = waves[n].token
      BY <2>2, <1>a, <3>1, ReannotateContents
    <3>3. QED
      BY <3>2, <1>1, <2>0, <2>b
  <2>3. CASE QuietStep
    <3>1. PICK d \in Versions : SameContents(waves', d)
      BY <2>3, <1>a, QuietContents
    <3>2. QED
      BY <3>1, <1>1, <2>b DEF SameContents
  <2>4. QED
    BY <2>1, <2>2, <2>3, StepKinds
<1>2. SUFFICES ASSUME NEW a \in Versions', NEW b \in Versions', NEW n \in Numbers,
                      a[n].token = b[n].token, a[n].token # 0
               PROVE  a[n].vms = b[n].vms
    BY DEF TokensNameContents
<1>3. (a \in Versions \/ a = waves') /\ (b \in Versions \/ b = waves')
    BY <1>a, VersionsGrow
<1>4. CASE a \in Versions /\ b \in Versions
    BY <1>2, <1>4, <1>a DEF TokensNameContents
<1>5. CASE a = waves' /\ b \in Versions
    BY <1>2, <1>5, <1>1
<1>6. CASE a \in Versions /\ b = waves'
    BY <1>2, <1>6, <1>1
<1>7. CASE a = waves' /\ b = waves'
    BY <1>7
<1>8. QED
    BY <1>3, <1>4, <1>5, <1>6, <1>7

\* An answer still fits every version with its token.
LEMMA NextAnswersFit == WInv /\ [Next]_vars => AnswersFit'
<1> SUFFICES ASSUME WInv, [Next]_vars,
                    NEW t \in Tasks, Asked(t)', NEW ws \in Versions', NEW n \in Numbers,
                    ws[n].token = t, task'[t].jobs[n] # {}
             PROVE  /\ task'[t].jobs[n] \subseteq ws[n].vms
                    /\ ws[n].vms \intersect rows' \subseteq task'[t].jobs[n]
    BY DEF AnswersFit
<1>a. TypeOK /\ TokensNameContents /\ AnswersFit /\ TokensNameContents' /\ TokensGiven
    BY NextTokensNameContents DEF WInv
<1>b. t \in Nat \ {0} /\ lastTask \in Nat /\ rows' \subseteq rows
    BY <1>a, MaxTasksAssumption, RowsShrink DEF Tasks, TypeOK
\* some old version carries the token and the same VMs
<1>1. ASSUME task[t].phase # "none"
      PROVE  \E c \in Versions : c[n].token = t /\ c[n].vms = ws[n].vms
  <2>0. waves \in Versions /\ t # lastTask + 1
    BY <1>1, <1>a, <1>b DEF Versions, TokensGiven
  <2>1. CASE ws \in Versions
    BY <2>1
  <2>2. CASE ws = waves'
    <3>1. ASSUME NEW vs \in SUBSET VMs, NEW dest \in Numbers \union {0}, Edit(vs, dest)
          PROVE  waves'[n] = waves[n]
      BY <3>1, <1>a, <1>b, <2>0, <2>2, EditContents DEF NoDoc
    <3>2. ASSUME NEW k \in Numbers, Reannotate(k)
          PROVE  waves'[n].vms = waves[n].vms /\ waves'[n].token = waves[n].token
      BY <3>2, <1>a, <2>0, <2>2, ReannotateContents
    <3>3. CASE QuietStep
      BY <3>3, <2>2, <1>a, QuietContents DEF SameContents
    <3>4. QED
      BY <2>0, <2>2, <3>1, <3>2, <3>3, StepKinds
  <2>3. QED
    BY <1>a, <2>1, <2>2, VersionsGrow
<1>2. CASE Asked(t) /\ task'[t].jobs = task[t].jobs
  <2>1. PICK c \in Versions : c[n].token = t /\ c[n].vms = ws[n].vms
    BY <1>1, <1>2 DEF Asked
  <2>2. /\ task[t].jobs[n] \subseteq c[n].vms
        /\ c[n].vms \intersect rows \subseteq task[t].jobs[n]
    BY <1>2, <1>a, <2>1 DEF AnswersFit
  <2>3. QED
    BY <1>2, <1>b, <2>1, <2>2
<1>3. CASE task[t].phase = "queued" /\ task'[t].jobs = Questions(t) /\ UNCHANGED <<rows, waves>>
  <2>1. PICK c \in Versions : c[n].token = t /\ c[n].vms = ws[n].vms
    BY <1>1, <1>3
  <2>2. waves[n].token = t /\ task'[t].jobs[n] = waves[n].vms \intersect rows
    BY <1>3 DEF Questions, Stamped
  <2>3. waves[n].vms = c[n].vms
    BY <1>a, <1>b, <2>1, <2>2 DEF TokensNameContents, Versions
  <2>4. QED
    BY <1>3, <2>1, <2>2, <2>3
<1>4. QED
    BY <1>2, <1>3, <1>a, TaskMoves DEF TaskMove, Asked, NoTask

\* The text a task writes is about the VMs the wave has in its copy.
LEMMA WriteFits ==
    ASSUME WInv, NEW t \in Tasks, TaskWrite(t), NEW n \in Numbers
    PROVE  /\ waves'[n].text \subseteq waves'[n].vms
           /\ waves'[n].vms \intersect rows \subseteq waves'[n].text
<1>a. TypeOK /\ TextsFit /\ AnswersFit
    BY DEF WInv
<1>b. waves \in Versions /\ task[t].copy \in Versions /\ Asked(t)
    BY DEF TaskWrite, Versions, Copied, Asked
<1>c. \A c \in Versions : /\ c[n].text \subseteq c[n].vms
                          /\ c[n].vms \intersect rows \subseteq c[n].text
    BY <1>a DEF TextsFit
<1>1. CASE waves' = waves
    BY <1>1, <1>b, <1>c
<1>2. CASE waves' # waves
  <2>1. PICK llm \in SUBSET Answered(t) :
              waves' = [k \in Numbers |->
                          IF k \notin Answered(t) THEN task[t].copy[k]
                          ELSE [task[t].copy[k] EXCEPT
                                  !.state = IF k \in Settled(t, llm) THEN "done" ELSE @,
                                  !.text = IF k \in llm THEN task[t].jobs[k] ELSE @]]
    BY <1>2 DEF TaskWrite
  <2>2. task[t].copy[n] \in Docs
    BY <1>a DEF TypeOK, TaskRecords, Waves
  <2>3. CASE n \notin llm
    <3>1. waves'[n].text = task[t].copy[n].text /\ waves'[n].vms = task[t].copy[n].vms
      BY <2>1, <2>2, <2>3 DEF Docs
    <3>2. QED
      BY <3>1, <1>b, <1>c
  <2>4. CASE n \in llm
    <3>1. waves'[n].text = task[t].jobs[n] /\ waves'[n].vms = task[t].copy[n].vms
      BY <2>1, <2>2, <2>4 DEF Docs
    <3>2. task[t].copy[n].token = t /\ task[t].jobs[n] # {}
      BY <2>4 DEF Answered, Stamped
    <3>3. QED
      BY <3>1, <3>2, <1>a, <1>b DEF AnswersFit
  <2>5. QED
    BY <2>3, <2>4
<1>3. QED
    BY <1>1, <1>2

\* Texts, of the waves and of every copy.
LEMMA NextTextsFit == WInv /\ [Next]_vars => TextsFit'
<1> SUFFICES ASSUME WInv, [Next]_vars PROVE TextsFit'
    OBVIOUS
<1>a. TypeOK /\ TextsFit /\ rows' \subseteq rows /\ waves \in Versions
    BY RowsShrink DEF WInv, Versions
<1>b. \A c \in Versions : \A n \in Numbers :
         /\ c[n].text \subseteq c[n].vms
         /\ c[n].vms \intersect rows \subseteq c[n].text
    BY <1>a DEF TextsFit
<1>1. ASSUME NEW n \in Numbers
      PROVE  /\ waves'[n].text \subseteq waves'[n].vms
             /\ waves'[n].vms \intersect rows' \subseteq waves'[n].text
  <2>1. ASSUME NEW vs \in SUBSET VMs, NEW dest \in Numbers \union {0}, Edit(vs, dest)
        PROVE  /\ waves'[n].text \subseteq waves'[n].vms
               /\ waves'[n].vms \intersect rows' \subseteq waves'[n].text
    <3>1. CASE waves'[n] = waves[n]
      BY <3>1, <1>a, <1>b
    <3>2. CASE waves'[n] = NoDoc
      BY <3>2 DEF NoDoc
    <3>3. CASE waves'[n].vms = waves'[n].text
      BY <3>3
    <3>4. QED
      BY <2>1, <1>a, <3>1, <3>2, <3>3, EditContents
  <2>2. ASSUME NEW k \in Numbers, Reannotate(k)
        PROVE  /\ waves'[n].text \subseteq waves'[n].vms
               /\ waves'[n].vms \intersect rows' \subseteq waves'[n].text
    BY <2>2, <1>a, <1>b, ReannotateContents
  <2>3. ASSUME NEW t \in Tasks, TaskWrite(t)
        PROVE  /\ waves'[n].text \subseteq waves'[n].vms
               /\ waves'[n].vms \intersect rows' \subseteq waves'[n].text
    BY <2>3, <1>a, WriteFits
  <2>4. CASE Start
    <3>1. waves'[n].text = waves[n].text /\ waves'[n].vms = waves[n].vms
      BY <2>4, <1>a DEF Start, Swept, AbandonedState, TypeOK, Waves, Docs
    <3>2. QED
      BY <3>1, <1>a, <1>b
  <2>5. CASE UNCHANGED waves
    BY <2>5, <1>a, <1>b
  <2>6. QED
    BY <2>1, <2>2, <2>3, <2>4, <2>5
       DEF Next, KickRead, RunEnds, KickInsert, KickRefuse, TaskStep, TaskAsk, TaskCopy,
           PlanEnds, DeleteVMs, Crash, vars
<1>2. SUFFICES ASSUME NEW ws \in Versions', NEW n \in Numbers
               PROVE  /\ ws[n].text \subseteq ws[n].vms
                      /\ ws[n].vms \intersect rows' \subseteq ws[n].text
    BY DEF TextsFit
<1>3. CASE ws \in Versions
    BY <1>3, <1>a, <1>b
<1>4. CASE ws = waves'
    BY <1>4, <1>1
<1>5. QED
    BY <1>a, <1>3, <1>4, VersionsGrow

\* The versions still agree on the numbers past the sequence.
LEMMA NextVersionsAgree == WInv /\ [Next]_vars => VersionsAgree'
<1> SUFFICES ASSUME WInv, [Next]_vars,
                    NEW a \in Versions', NEW b \in Versions', NEW n \in Numbers,
                    a[n].vms # {}
             PROVE  n <= seq' \/ b[n].vms # {}
    BY DEF VersionsAgree
<1>a. TypeOK /\ VersionsAgree /\ waves \in Versions
    BY DEF WInv, Versions
<1>b. (a \in Versions \/ a = waves') /\ (b \in Versions \/ b = waves')
    BY <1>a, VersionsGrow
<1>1. ASSUME NEW vs \in SUBSET VMs, NEW dest \in Numbers \union {0}, Edit(vs, dest)
      PROVE  n <= seq'
  <2>1. CASE a \in Versions
    <3>1. n <= seq \/ waves[n].vms # {}
      BY <2>1, <1>a DEF VersionsAgree
    <3>2. QED
      BY <1>1, <3>1, <1>a, EditNumbers
  <2>2. CASE a = waves'
    BY <1>1, <2>2, <1>a, EditNumbers
  <2>3. QED
    BY <1>b, <2>1, <2>2
<1>2. CASE (\E k \in Numbers : Reannotate(k)) \/ QuietStep
  <2>1. /\ seq' = seq
        /\ \E c \in Versions : waves'[n].vms = c[n].vms
    BY <1>2, <1>a, ReannotateContents, QuietContents DEF SameContents
  <2>2. /\ \E c \in Versions : a[n].vms = c[n].vms
        /\ \E c \in Versions : b[n].vms = c[n].vms
    BY <2>1, <1>b
  <2>3. QED
    BY <2>1, <2>2, <1>a DEF VersionsAgree
<1>3. QED
    BY <1>1, <1>2, StepKinds

\* Runs are started for waves that exist, and nothing forgets their numbers.
LEMMA NextNumbersKnown == WInv /\ [Next]_vars => NumbersKnown'
<1> SUFFICES ASSUME WInv, [Next]_vars,
                    NEW n \in Numbers, run'[n] # "none" \/ kick' = n
             PROVE  n <= seq' \/ waves'[n].vms # {}
    BY DEF NumbersKnown
<1>a. TypeOK /\ VersionsAgree /\ NumbersKnown /\ waves \in Versions
    BY DEF WInv, Versions
<1>1. n <= seq \/ waves[n].vms # {}
  <2>1. CASE run[n] # "none" \/ kick = n
    BY <2>1, <1>a DEF NumbersKnown
  <2>2. CASE KickRead(n)
    BY <2>2, SMTT(60) DEF KickRead, Keys
  <2>3. CASE run[n] = "none" /\ kick # n /\ ~KickRead(n)
    <3>a. run \in [Numbers -> RunStates] /\ n # 0
      BY <1>a DEF TypeOK, Numbers
    <3>1. ASSUME NEW k \in Numbers, KickRead(k) PROVE FALSE
      BY <2>3, <3>1 DEF KickRead
    <3>2. ASSUME NEW k \in Numbers, RunEnds(k) PROVE FALSE
      BY <2>3, <3>2, <3>a DEF RunEnds
    <3>3. CASE KickInsert \/ KickRefuse \/ Crash
      BY <2>3, <3>3, <3>a DEF KickInsert, KickRefuse, Crash
    <3>4. CASE UNCHANGED <<run, kick>>
      BY <2>3, <3>4
    <3>5. QED
      BY <3>1, <3>2, <3>3, <3>4
         DEF Next, Edit, Reannotate, TaskStep, TaskAsk, TaskCopy, TaskWrite, PlanEnds, DeleteVMs,
             Start, vars
  <2>4. QED
    BY <2>1, <2>2, <2>3
<1>2. ASSUME NEW vs \in SUBSET VMs, NEW dest \in Numbers \union {0}, Edit(vs, dest)
      PROVE  n <= seq'
    BY <1>1, <1>2, <1>a, EditNumbers
<1>3. CASE (\E k \in Numbers : Reannotate(k)) \/ QuietStep
  <2>1. /\ seq' = seq
        /\ \E c \in Versions : waves'[n].vms = c[n].vms
    BY <1>3, <1>a, ReannotateContents, QuietContents DEF SameContents
  <2>2. QED
    BY <2>1, <1>1, <1>a DEF VersionsAgree
<1>4. QED
    BY <1>2, <1>3, StepKinds

\* At first there is one version, its texts are its own and no run exists.
LEMMA InitWInv == Init => WInv
<1> SUFFICES ASSUME Init PROVE WInv
    OBVIOUS
<1>1. TypeOK
    BY InitTypeOK
<1>2. Copied = {}
    BY DEF Init, Copied, NoTask
<1>3. Versions = {waves}
    BY <1>2 DEF Versions
<1>4. PICK vs \in (SUBSET VMs) \ {{}}, k \in Numbers :
          \E at \in [vs -> 1..k] :
             waves = [n \in Numbers |->
                        LET here == {v \in vs : at[v] = n}
                        IN  [NoDoc EXCEPT !.vms = here, !.text = here]]
    BY Zenon DEF Init
<1>5. PICK at \in [vs -> 1..k] :
         waves = [n \in Numbers |->
                    LET here == {v \in vs : at[v] = n}
                    IN  [NoDoc EXCEPT !.vms = here, !.text = here]]
    BY <1>4
<1>6. \A n \in Numbers : /\ waves[n].vms = {v \in vs : at[v] = n}
                         /\ waves[n].text = waves[n].vms
                         /\ waves[n].token = 0
    BY <1>5 DEF NoDoc
<1>7. VersionsDisjoint /\ TextsFit /\ TokensNameContents /\ VersionsAgree
    BY <1>3, <1>6 DEF VersionsDisjoint, TextsFit, TokensNameContents, VersionsAgree
<1>8. TokensGiven
  <2>1. lastTask = 0 /\ \A t \in Tasks : task[t].phase = "none"
    BY DEF Init, NoTask
  <2>2. QED
    BY <1>3, <1>6, <2>1 DEF TokensGiven
<1>9. AnswersFit
    BY DEF Init, AnswersFit, Asked, NoTask
<1>10. NumbersKnown
  <2>1. kick = 0 /\ \A n \in Numbers : run[n] = "none"
    BY DEF Init
  <2>2. QED
    BY <2>1 DEF NumbersKnown, Numbers
<1>11. QED
    BY <1>1, <1>7, <1>8, <1>9, <1>10 DEF WInv

(***************************************************************************)
(* The strengthened invariant, of the waves and of every copy in flight,   *)
(* holds in every reachable state.                                         *)
(***************************************************************************)
THEOREM InvariantHolds == Spec => []WInv
<1>1. WInv /\ [Next]_vars => WInv'
    BY NextTypeOK, NextVersionsDisjoint, NextTextsFit, NextTokensGiven, NextTokensNameContents,
       NextAnswersFit, NextVersionsAgree, NextNumbersKnown
       DEF WInv
<1>2. QED
    BY InitWInv, <1>1, PTL DEF Spec

(***************************************************************************)
(* No VM is ever in two waves, although a task may write back waves that   *)
(* edits have rearranged since it copied them.                             *)
(***************************************************************************)
THEOREM NoVMInTwoWaves == Spec => []WavesDisjoint
<1>1. WInv => WavesDisjoint
    BY DEF WInv, VersionsDisjoint, WavesDisjoint, Versions
<1>2. QED
    BY InvariantHolds, <1>1, PTL

(***************************************************************************)
(* The text of a wave is about the VMs in it, whichever edit, answer or    *)
(* deletion came last.                                                     *)
(***************************************************************************)
THEOREM TextsDescribeWaves == Spec => []TextDescribesWave
<1>1. WInv => TextDescribesWave
    BY DEF WInv, TextsFit, TextDescribesWave, Versions
<1>2. QED
    BY InvariantHolds, <1>1, PTL

(***************************************************************************)
(* A wave number that a run was recorded for, or is being started for, is  *)
(* never given to a new wave, not even after a task brought back waves     *)
(* from before the edit that used the number up.                           *)
(***************************************************************************)
THEOREM NumbersNeverReused == Spec => NewWavesHaveNewNumbers
<1> DEFINE Reuse == \A n \in Numbers : OpensWave(n) => run[n] = "none" /\ kick # n
<1>1. WInv /\ [Next]_vars => [Reuse]_vars
  <2> SUFFICES ASSUME WInv, [Next]_vars, NEW n \in Numbers, OpensWave(n)
               PROVE  run[n] = "none" /\ kick # n
    OBVIOUS
  <2>a. TypeOK /\ NumbersKnown
    BY DEF WInv
  <2>b. waves[n].vms = {} /\ waves'[n].vms # {} /\ lastTask' # lastTask
    BY DEF OpensWave, Keys
  <2>1. ASSUME NEW vs \in SUBSET VMs, NEW dest \in Numbers \union {0}, Edit(vs, dest)
        PROVE  run[n] = "none" /\ kick # n
    <3>1. n = dest
      BY <2>1, <2>a, <2>b, EditNumbers
    <3>2. {seq} \union Keys(waves) \in SUBSET (0..MaxNumber)
      BY <2>a, MaxNumberAssumption DEF TypeOK, Keys, Numbers
    <3>3. n = Highest({seq} \union Keys(waves)) + 1
      BY <2>1, <2>b, <3>1 DEF Edit, Allowed, NextNumber, Keys, Numbers
    <3>4. Highest({seq} \union Keys(waves)) >= seq /\ seq \in Nat
      BY <3>2, HighestIs
    <3>5. ~(n <= seq)
      BY <3>2, <3>3, <3>4, HighestIs
    <3>6. QED
      BY <2>a, <2>b, <3>5 DEF NumbersKnown
  <2>2. ASSUME NEW k \in Numbers, Reannotate(k) PROVE FALSE
    BY <2>2, <2>a, <2>b, ReannotateContents
  <2>3. CASE QuietStep
    BY <2>3, <2>a, <2>b, QuietContents
  <2>4. QED
    BY <2>1, <2>2, <2>3, StepKinds
<1>2. QED
    BY InvariantHolds, <1>1, PTL DEF Spec, NewWavesHaveNewNumbers

=============================================================================
