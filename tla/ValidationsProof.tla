--------------------------- MODULE ValidationsProof ---------------------------
(***************************************************************************)
(* Theorems about Validations, for any VMs, jobs and guest states, and     *)
(* about the two comparisons of StateDiff.  Three inductive invariants:    *)
(* what a validation has concluded (VInv), what its session holds of the   *)
(* VM's row (Rows), and the type of all of it (TInv).                      *)
(***************************************************************************)
EXTENDS Validations, FiniteSetTheorems, TLAPS

-----------------------------------------------------------------------------
(* The two comparisons *)

\* What makes the tiers pass a diff without the model: nothing is missing.
LEMMA PassLosesNothing ==
    ASSUME NEW diff, NEW production, Classify(diff, production).status = "pass"
    PROVE  /\ EmptySection(diff.services) \/ diff.services.removed = {}
           /\ EmptySection(diff.ports) /\ EmptySection(diff.mounts) /\ EmptySection(diff.cron)
<1>1. CASE EffectivelyEmpty(diff)
    BY <1>1 DEF EffectivelyEmpty
<1>2. CASE ~EffectivelyEmpty(diff) /\ CriticalStopped(diff) # {}
  <2>1. Classify(diff, production) = [tier |-> 2, status |-> IF production THEN "fail" ELSE "warn"]
      BY <1>2 DEF Classify
  <2>2. QED
      BY <2>1
<1>3. CASE /\ ~EffectivelyEmpty(diff) /\ CriticalStopped(diff) = {}
           /\ OnlyKnownGoodServices(diff) /\ NoOtherChanges(diff)
    BY <1>3 DEF OnlyKnownGoodServices, NoOtherChanges
<1>4. CASE /\ ~EffectivelyEmpty(diff) /\ CriticalStopped(diff) = {}
           /\ ~(OnlyKnownGoodServices(diff) /\ NoOtherChanges(diff))
  <2>1. Classify(diff, production) = [tier |-> 3, status |-> "open"]
      BY <1>4 DEF Classify
  <2>2. QED
      BY <2>1
<1>5. QED
    BY <1>1, <1>2, <1>3, <1>4

\* With the same lines in every file, a cron dimension that is no pass has a file
\* whose lines have another order or number.
LEMMA SameLinesKept ==
    ASSUME NEW base, NEW now, CronLines(base) = CronLines(now), ~Reordered(base, now)
    PROVE  CronKept(base, now)
<1>1. ASSUME NEW pair \in base.users PROVE pair \in now.users
  <2>1. <<"user", pair>> \in CronLines(now)
      BY <1>1 DEF CronLines
  <2>2. PICK other \in now.users : <<"user", pair>> = <<"user", other>>
      BY <2>1 DEF CronLines
  <2>3. QED
      BY <2>2
<1>2. ASSUME NEW a, NEW b, NEW path \in DOMAIN a.files, NEW line \in LinesOf(a, path),
             CronLines(a) = CronLines(b)
      PROVE  line \in LinesOf(b, path)
  <2>1. <<"system", path, line>> \in CronLines(b)
    <3>1. <<"system", path, line>> \in {<<"system", path, l>> : l \in LinesOf(a, path)}
        BY <1>2
    <3>2. <<"system", path, line>> \in UNION {{<<"system", p, l>> : l \in LinesOf(a, p)} : p \in DOMAIN a.files}
        BY <3>1
    <3>3. QED
        BY <1>2, <3>2 DEF CronLines
  <2>2. PICK p \in DOMAIN b.files : \E l \in LinesOf(b, p) : <<"system", path, line>> = <<"system", p, l>>
      BY <2>1 DEF CronLines
  <2>3. QED
      BY <2>2
<1>3. ASSUME NEW path \in DOMAIN base.files PROVE LinesOf(base, path) = LinesOf(now, path)
  <2>1. \A line \in LinesOf(base, path) : line \in LinesOf(now, path)
      BY <1>2, <1>3
  <2>2. CASE path \in DOMAIN now.files
      BY <1>2, <2>1, <2>2
  <2>3. CASE path \notin DOMAIN now.files
      BY <2>1, <2>3 DEF LinesOf
  <2>4. QED
      BY <2>2, <2>3
<1>4. QED
    BY <1>1, <1>3 DEF CronKept, Reordered

\* A pass of the tiers is no failure of the comparison of the wave runs,
\* whatever the two states are, and no warning of its cron dimension as long as
\* no system file has its lines in another order or number.
THEOREM TiersAgreeWithRuns ==
    ASSUME NEW base, NEW now, NEW production,
           Classify(ComputeDiff(base, now), production).status = "pass"
    PROVE  /\ \A d \in {"services", "ports", "mounts"} : Dimensions(base, now)[d] = "pass"
           /\ Dimensions(base, now)["cron"] = "pass" \/ Reordered(base.cron, now.cron)
<1> DEFINE diff == ComputeDiff(base, now)
<1>1. /\ EmptySection(diff.services) \/ diff.services.removed = {}
      /\ EmptySection(diff.ports) /\ EmptySection(diff.mounts) /\ EmptySection(diff.cron)
    BY PassLosesNothing
<1>2. /\ diff.services = Change(base.services, now.services)
      /\ diff.ports = Change(base.ports, now.ports)
      /\ diff.cron = Change(CronLines(base.cron), CronLines(now.cron))
      /\ diff.mounts = MountChange(base.mounts, now.mounts)
    BY DEF ComputeDiff
<1> HIDE DEF diff
<1>3. ASSUME NEW a, NEW b, EmptySection(Change(a, b)) PROVE a \ b = {} /\ b \ a = {}
    BY <1>3 DEF EmptySection, Change
<1>4. base.services \subseteq now.services
  <2>1. Change(base.services, now.services).removed = base.services \ now.services
      BY DEF Change
  <2>2. base.services \ now.services = {}
      BY <1>1, <1>2, <1>3, <2>1
  <2>3. QED
      BY <2>2
<1>5. base.ports \subseteq now.ports
  <2>1. base.ports \ now.ports = {}
      BY <1>1, <1>2, <1>3
  <2>2. QED
      BY <2>1
<1>6. \A t \in DOMAIN base.mounts : t \in DOMAIN now.mounts /\ base.mounts[t].fstype = now.mounts[t].fstype
  <2> DEFINE m == MountChange(base.mounts, now.mounts)
  <2>1. m["removed"] = {} /\ m["changed"] = {}
      BY <1>1, <1>2 DEF EmptySection, MountChange
  <2>2. /\ m["removed"] = DOMAIN base.mounts \ DOMAIN now.mounts
        /\ m["changed"] = {t \in DOMAIN base.mounts \cap DOMAIN now.mounts :
                             \/ base.mounts[t].source # now.mounts[t].source
                             \/ base.mounts[t].fstype # now.mounts[t].fstype}
      BY DEF MountChange
  <2> HIDE DEF m
  <2>3. QED
      BY <2>1, <2>2
<1>7. Reordered(base.cron, now.cron) \/ CronKept(base.cron, now.cron)
  <2>1. CronLines(base.cron) \ CronLines(now.cron) = {} /\ CronLines(now.cron) \ CronLines(base.cron) = {}
      BY <1>1, <1>2, <1>3
  <2>2. CronLines(base.cron) = CronLines(now.cron)
      BY <2>1
  <2>3. QED
      BY <2>2, SameLinesKept
<1>8. QED
    BY <1>4, <1>5, <1>6, <1>7 DEF Dimensions, Unless

-----------------------------------------------------------------------------
(* The inductive invariant: what a validation has concluded, by the point it *)
(* has reached                                                               *)

Fields == DOMAIN NoWork

Authored(v, r, answers) ==
    LET key == Key(r.base, r.now)
        rule == Classify(key.diff, v \in Production)
    IN  \/ r.source = "rule" /\ rule.tier < 3 /\ r.verdict = rule.status
        \/ r.source \in {"cache", "model"} /\ rule.tier = 3 /\ <<key, r.verdict>> \in answers
        \/ r.source = "review" /\ rule.tier = 3 /\ r.verdict = "warn"

Undecided == {"reasoning", "asking", "asking_again"}

\* Nothing is asked of the model that a rule decides, and what is to be stored
\* has its author already.
Sane(w, v, kind, answers) ==
    /\ DOMAIN w = Fields
    /\ kind = "idle" => w.pc = "none"
    /\ w.pc \in Undecided => Classify(Key(w.base, w.now).diff, v \in Production).tier = 3
    /\ w.pc = "caching" => w.source = "model" /\ Authored(v, w, answers)
    /\ w.pc = "storing" /\ kind \notin Captures => Authored(v, w, answers)

WorkSane(works, kinds, answers) ==
    /\ DOMAIN works = Jobs
    /\ \A j \in Jobs : DOMAIN works[j] = VMs /\ \A v \in VMs : Sane(works[j][v], v, kinds[j], answers)

CacheSane(entries, answers) ==
    \A key \in DOMAIN entries :
        DOMAIN entries[key] = {"verdict", "fresh"} /\ <<key, entries[key].verdict>> \in answers

LatestSane(results, answers) ==
    /\ DOMAIN results = VMs
    /\ \A v \in VMs : results[v] # none =>
          /\ DOMAIN results[v] = {"verdict", "source", "base", "now", "alone"}
          /\ Authored(v, results[v], answers)

VInv ==
    /\ DOMAIN jobs = Jobs
    /\ WorkSane(work, jobs, answered)
    /\ CacheSane(cache, answered)
    /\ LatestSane(latest, answered)

-----------------------------------------------------------------------------
(* What a step leaves of a record of work *)

Alike(a, b) ==
    /\ DOMAIN a = DOMAIN b
    /\ a.pc = b.pc /\ a.base = b.base /\ a.now = b.now
    /\ a.verdict = b.verdict /\ a.source = b.source

LEMMA FieldsAre ==
    Fields = {"pc", "loaded", "alone", "base", "now", "number", "verdict", "source", "row"}
BY DEF Fields, NoWork

LEMMA AuthorStays ==
    ASSUME NEW v, NEW a, NEW b, NEW answers, NEW more,
           Authored(v, a, answers), answers \subseteq more,
           a.base = b.base, a.now = b.now, a.verdict = b.verdict, a.source = b.source
    PROVE  Authored(v, b, more)
BY DEF Authored

LEMMA AlikeIsSane ==
    ASSUME NEW v, NEW a, NEW b, NEW kind, NEW answers, NEW more,
           Sane(a, v, kind, answers), Alike(b, a), answers \subseteq more
    PROVE  Sane(b, v, kind, more)
<1>1. ASSUME Authored(v, a, answers) PROVE Authored(v, b, more)
    BY <1>1, AuthorStays DEF Alike
<1>2. QED
    BY <1>1 DEF Sane, Alike

\* A record that is at no point of a conclusion is sane.
LEMMA QuietIsSane ==
    ASSUME NEW v, NEW w, NEW kind, NEW answers,
           DOMAIN w = Fields, kind = "idle" => w.pc = "none",
           w.pc \notin Undecided \cup {"caching", "storing"}
    PROVE  Sane(w, v, kind, answers)
BY DEF Sane

LEMMA EndedIsSane ==
    ASSUME NEW v, NEW pc \in Ended, NEW kind, NEW answers, kind # "idle"
    PROVE  Sane([NoWork EXCEPT !.pc = pc], v, kind, answers)
<1>1. DOMAIN [NoWork EXCEPT !.pc = pc] = Fields
    BY DEF Fields
<1>2. [NoWork EXCEPT !.pc = pc].pc = pc
    BY DEF NoWork
<1>3. pc \notin Undecided \cup {"caching", "storing"}
    BY DEF Ended, Undecided
<1>4. QED
    BY <1>1, <1>2, <1>3, QuietIsSane

LEMMA BusyIsNotIdle ==
    ASSUME NEW v, NEW w, NEW kind, NEW answers, Sane(w, v, kind, answers), w.pc # "none"
    PROVE  kind # "idle"
BY DEF Sane

\* One job's work replaced, with every record sane.
LEMMA WorkingIsSane ==
    ASSUME VInv, NEW j \in Jobs, NEW w, NEW more, answered \subseteq more,
           DOMAIN w = VMs, \A u \in VMs : Sane(w[u], u, jobs[j], more)
    PROVE  WorkSane([work EXCEPT ![j] = w], jobs, more)
<1> DEFINE after == [work EXCEPT ![j] = w]
<1>1. DOMAIN after = Jobs /\ \A k \in Jobs : after[k] = IF k = j THEN w ELSE work[k]
    BY DEF VInv, WorkSane
<1> HIDE DEF after
<1>2. ASSUME NEW k \in Jobs, NEW v \in VMs PROVE Sane(work[k][v], v, jobs[k], more)
  <2>1. Sane(work[k][v], v, jobs[k], answered)
      BY DEF VInv, WorkSane
  <2>2. Alike(work[k][v], work[k][v])
      BY DEF Alike
  <2>3. QED
      BY <2>1, <2>2, AlikeIsSane
<1>3. \A k \in Jobs : DOMAIN work[k] = VMs
    BY DEF VInv, WorkSane
<1>4. WorkSane(after, jobs, more)
    BY <1>1, <1>2, <1>3 DEF WorkSane
<1>5. QED
    BY <1>4 DEF after

\* Of the records of one job's work, one changes and the others stay alike.
LEMMA OneRecordIsSane ==
    ASSUME VInv, NEW j \in Jobs, NEW v \in VMs, NEW w, NEW more, answered \subseteq more,
           DOMAIN w = VMs, \A u \in VMs \ {v} : Alike(w[u], work[j][u]),
           Sane(w[v], v, jobs[j], more)
    PROVE  WorkSane([work EXCEPT ![j] = w], jobs, more)
<1>1. ASSUME NEW u \in VMs PROVE Sane(w[u], u, jobs[j], more)
  <2>1. Sane(work[j][u], u, jobs[j], answered)
      BY DEF VInv, WorkSane
  <2>2. CASE u # v
      BY <2>1, <2>2, AlikeIsSane
  <2>3. QED
      BY <2>2
<1>2. QED
    BY <1>1, WorkingIsSane

LEMMA CommitLeavesAlike ==
    ASSUME VInv, NEW j \in Jobs, NEW v \in VMs
    PROVE  /\ DOMAIN AfterCommit(j, v) = VMs
           /\ \A u \in VMs : Alike(AfterCommit(j, v)[u], work[j][u])
<1>1. DOMAIN AfterCommit(j, v) = VMs
    BY DEF AfterCommit
<1>2. ASSUME NEW u \in VMs PROVE Alike(AfterCommit(j, v)[u], work[j][u])
  <2>1. \/ AfterCommit(j, v)[u] = work[j][u]
        \/ AfterCommit(j, v)[u] = [work[j][u] EXCEPT !.loaded = "expired"]
      BY DEF AfterCommit
  <2>2. DOMAIN work[j][u] = Fields
      BY DEF VInv, WorkSane, Sane
  <2>3. Alike([work[j][u] EXCEPT !.loaded = "expired"], work[j][u])
      BY <2>2, FieldsAre DEF Alike
  <2>4. Alike(work[j][u], work[j][u])
      BY DEF Alike
  <2>5. QED
      BY <2>1, <2>3, <2>4
<1>3. QED
    BY <1>1, <1>2

\* The work of a job is alike itself.
LEMMA WorkIsAlike ==
    ASSUME VInv, NEW j \in Jobs
    PROVE  DOMAIN work[j] = VMs /\ \A u \in VMs : Alike(work[j][u], work[j][u])
BY DEF VInv, WorkSane, Alike

LEMMA FinishIsSane ==
    ASSUME VInv, NEW j \in Jobs, NEW v \in VMs, NEW w, NEW pc \in Ended, work[j][v].pc # "none",
           DOMAIN w = VMs, \A u \in VMs : Alike(w[u], work[j][u])
    PROVE  WorkSane([work EXCEPT ![j] = Finish(w, v, pc)], jobs, answered)
<1> DEFINE f == Finish(w, v, pc)
<1>1. DOMAIN f = VMs /\ f[v] = [NoWork EXCEPT !.pc = pc] /\ \A u \in VMs \ {v} : f[u] = w[u]
    BY DEF Finish
<1> HIDE DEF f
<1>2. jobs[j] # "idle"
    BY BusyIsNotIdle DEF VInv, WorkSane
<1>3. Sane(f[v], v, jobs[j], answered)
    BY <1>1, <1>2, EndedIsSane
<1>4. WorkSane([work EXCEPT ![j] = f], jobs, answered)
    BY <1>1, <1>3, OneRecordIsSane
<1>5. QED
    BY <1>4 DEF f

LEMMA AbortIsSane ==
    ASSUME VInv, NEW j \in Jobs, NEW v \in VMs, work[j][v].pc # "none", Abort(j, v)
    PROVE  WorkSane(work', jobs, answered)
<1>1. CASE jobs[j] = "bulk_capture"
  <2>1. work' = [work EXCEPT ![j] = Finish(work[j], v, "failed")]
      BY <1>1 DEF Abort
  <2>2. WorkSane([work EXCEPT ![j] = Finish(work[j], v, "failed")], jobs, answered)
      BY WorkIsAlike, FinishIsSane DEF Ended
  <2>3. QED
      BY <2>1, <2>2
<1>2. CASE jobs[j] # "bulk_capture"
  <2> DEFINE s == Strand(work[j], v)
  <2>1. work' = [work EXCEPT ![j] = s]
      BY <1>2 DEF Abort
  <2>2. DOMAIN work[j] = VMs
      BY WorkIsAlike
  <2>3. DOMAIN s = VMs
      BY DEF Strand
  <2>4. ASSUME NEW u \in VMs PROVE Sane(s[u], u, jobs[j], answered)
    <3>1. jobs[j] # "idle"
        BY BusyIsNotIdle DEF VInv, WorkSane
    <3>2. Sane(work[j][u], u, jobs[j], answered)
        BY DEF VInv, WorkSane
    <3>3. s[u] = work[j][u] \/ s[u] = [NoWork EXCEPT !.pc = "stranded"]
        BY DEF Strand
    <3>4. Sane([NoWork EXCEPT !.pc = "stranded"], u, jobs[j], answered)
        BY <3>1, EndedIsSane DEF Ended
    <3>5. QED
        BY <3>2, <3>3, <3>4
  <2> HIDE DEF s
  <2>5. WorkSane([work EXCEPT ![j] = s], jobs, answered)
      BY <2>3, <2>4, WorkingIsSane
  <2>6. QED
      BY <2>1, <2>5
<1>3. QED
    BY <1>1, <1>2

-----------------------------------------------------------------------------
(* Every step keeps the invariant *)

LEMMA InitSane == Init => VInv
<1> SUFFICES ASSUME Init PROVE VInv
    OBVIOUS
<1>1. DOMAIN jobs = Jobs
    BY DEF Init
<1>2. WorkSane(work, jobs, answered)
  <2>1. DOMAIN work = Jobs /\ \A j \in Jobs : DOMAIN work[j] = VMs
      BY DEF Init
  <2>2. \A j \in Jobs, v \in VMs : work[j][v] = NoWork
      BY DEF Init
  <2>3. DOMAIN NoWork = Fields /\ NoWork.pc = "none"
      BY DEF Fields, NoWork
  <2>4. \A j \in Jobs, v \in VMs : Sane(NoWork, v, jobs[j], answered)
      BY <2>3, QuietIsSane DEF Undecided
  <2>5. QED
      BY <2>1, <2>2, <2>4 DEF WorkSane
<1>3. CacheSane(cache, answered)
    BY DEF Init, CacheSane
<1>4. LatestSane(latest, answered)
    BY DEF Init, LatestSane
<1>5. QED
    BY <1>1, <1>2, <1>3, <1>4 DEF VInv

\* A step that touches only the work.
LEMMA OnlyWork ==
    ASSUME VInv, WorkSane(work', jobs, answered), UNCHANGED <<latest, cache, jobs, answered>>
    PROVE  VInv'
BY DEF VInv

LEMMA StartSane ==
    ASSUME VInv, NEW j \in Jobs, NEW kind \in Kinds, NEW scope, Start(j, kind, scope)
    PROVE  VInv'
<1>1. /\ jobs[j] = "idle" /\ jobs' = [jobs EXCEPT ![j] = kind]
      /\ UNCHANGED <<latest, cache, answered>>
    BY DEF Start, database
<1>2. DOMAIN jobs' = Jobs /\ \A k \in Jobs : jobs'[k] = IF k = j THEN kind ELSE jobs[k]
    BY <1>1 DEF VInv
<1>3. kind # "idle"
    BY DEF Kinds
<1>4. DOMAIN work' = Jobs /\ \A k \in Jobs : DOMAIN work'[k] = VMs
    BY DEF Start
<1>5. ASSUME NEW k \in Jobs, NEW v \in VMs PROVE Sane(work'[k][v], v, jobs'[k], answered)
  <2>1. Sane(work[k][v], v, jobs[k], answered)
      BY DEF VInv, WorkSane
  <2>2. DOMAIN work[k][v] = Fields /\ (k = j => work[k][v].pc = "none")
      BY <2>1, <1>1 DEF Sane
  <2>3. CASE work'[k][v] = work[k][v]
    <3>1. CASE k = j
        BY <2>2, <2>3, <3>1, <1>2, <1>3, QuietIsSane DEF Undecided
    <3>2. CASE k # j
        BY <2>1, <2>3, <3>2, <1>2
    <3>3. QED
        BY <3>1, <3>2
  <2>4. CASE k # j /\ work'[k][v] = [work[k][v] EXCEPT !.alone = FALSE]
    <3>1. Alike([work[k][v] EXCEPT !.alone = FALSE], work[k][v])
        BY <2>2, FieldsAre DEF Alike
    <3>2. QED
        BY <2>1, <2>4, <3>1, <1>2, AlikeIsSane
  <2>5. ASSUME k = j, NEW row, NEW flag,
               work'[k][v] = [NoWork EXCEPT !.pc = "queued", !.loaded = row, !.alone = flag]
        PROVE  Sane(work'[k][v], v, jobs'[k], answered)
    <3>1. DOMAIN work'[k][v] = Fields /\ work'[k][v].pc = "queued"
        BY <2>5 DEF Fields, NoWork
    <3>2. QED
        BY <3>1, <2>5, <1>2, <1>3, QuietIsSane DEF Undecided
  <2>6. \/ work'[k][v] = work[k][v]
        \/ k # j /\ work'[k][v] = [work[k][v] EXCEPT !.alone = FALSE]
        \/ /\ k = j
           /\ work'[k][v] = [NoWork EXCEPT !.pc = "queued",
                                           !.loaded = IF kind \in Shared THEN status[v] ELSE "unread",
                                           !.alone = NobodyElseHas(j, v)]
      BY DEF Start
  <2>7. QED
      BY <2>3, <2>4, <2>5, <2>6
<1>6. WorkSane(work', jobs', answered)
    BY <1>4, <1>5, SMTT(60) DEF WorkSane
<1>7. QED
    BY <1>1, <1>2, <1>6 DEF VInv

\* A VM's turn begins: it is collected, or fails without a baseline.
LEMMA BeginSane ==
    ASSUME VInv, NEW j \in Jobs, NEW v \in VMs, NEW row, work[j][v].pc # "none", Begin(j, v, row)
    PROVE  WorkSane(work', jobs, answered)
<1> DEFINE begun(base) == [work[j] EXCEPT ![v].pc = "collecting", ![v].loaded = row, ![v].base = base,
                                          ![v].alone = @ /\ NobodyElseHas(j, v)]
<1>1. \/ Working(j, Finish(work[j], v, "failed"))
      \/ \E base \in Baselines(j, v) : work' = Crossed([work EXCEPT ![j] = begun(base)], j, v)
    BY DEF Begin
<1>2. ASSUME Working(j, Finish(work[j], v, "failed")) PROVE WorkSane(work', jobs, answered)
  <2>1. WorkSane([work EXCEPT ![j] = Finish(work[j], v, "failed")], jobs, answered)
      BY WorkIsAlike, FinishIsSane DEF Ended
  <2>2. QED
      BY <1>2, <2>1 DEF Working
<1>3. ASSUME NEW base, work' = Crossed([work EXCEPT ![j] = begun(base)], j, v)
      PROVE  WorkSane(work', jobs, answered)
  <2> DEFINE turn == begun(base)
  <2>0. work' = Crossed([work EXCEPT ![j] = turn], j, v)
      BY <1>3
  <2>1. DOMAIN work = Jobs /\ DOMAIN work[j] = VMs /\ DOMAIN work[j][v] = Fields
      BY DEF VInv, WorkSane, Sane
  <2>2. /\ DOMAIN turn = VMs /\ \A u \in VMs \ {v} : turn[u] = work[j][u]
        /\ DOMAIN turn[v] = Fields /\ turn[v].pc = "collecting"
      BY <2>1, FieldsAre
  <2> HIDE DEF turn
  <2> DEFINE w == [work EXCEPT ![j] = turn]
  <2>3. WorkSane(w, jobs, answered)
    <3>1. jobs[j] # "idle"
        BY BusyIsNotIdle DEF VInv, WorkSane
    <3>2. Sane(turn[v], v, jobs[j], answered)
        BY <2>2, <3>1, QuietIsSane DEF Undecided
    <3>3. \A u \in VMs \ {v} : Alike(turn[u], work[j][u])
        BY <2>2, WorkIsAlike
    <3>4. QED
        BY <2>2, <3>2, <3>3, OneRecordIsSane
  <2> HIDE DEF w
  <2>4. /\ DOMAIN work' = Jobs
        /\ \A k \in Jobs : work'[k] = w[k] \/ work'[k] = [w[k] EXCEPT ![v].alone = FALSE]
      BY <2>0 DEF Crossed, w
  <2>5. ASSUME NEW k \in Jobs PROVE /\ DOMAIN work'[k] = VMs
                                    /\ \A u \in VMs : Sane(work'[k][u], u, jobs[k], answered)
    <3>1. DOMAIN w[k] = VMs /\ \A u \in VMs : Sane(w[k][u], u, jobs[k], answered)
        BY <2>3 DEF WorkSane
    <3>2. CASE work'[k] = w[k]
        BY <3>1, <3>2
    <3>3. CASE work'[k] = [w[k] EXCEPT ![v].alone = FALSE]
      <4>1. DOMAIN w[k][v] = Fields
          BY <3>1 DEF Sane
      <4>2. /\ DOMAIN work'[k] = VMs /\ \A u \in VMs \ {v} : work'[k][u] = w[k][u]
            /\ work'[k][v] = [w[k][v] EXCEPT !.alone = FALSE]
          BY <3>1, <3>3
      <4>3. Alike(work'[k][v], w[k][v])
          BY <4>1, <4>2, FieldsAre DEF Alike
      <4>4. Sane(work'[k][v], v, jobs[k], answered)
          BY <3>1, <4>3, AlikeIsSane
      <4>5. QED
          BY <3>1, <4>2, <4>4
    <3>4. QED
        BY <2>4, <3>2, <3>3
  <2>6. QED
      BY <2>4, <2>5 DEF WorkSane
<1>4. QED
    BY <1>1, <1>2, <1>3

LEMMA RunTaskSane ==
    ASSUME VInv, NEW j \in Jobs, NEW v \in VMs, RunTask(j, v) PROVE VInv'
<1>1. work[j][v].pc # "none" /\ UNCHANGED <<latest, cache, jobs, answered>>
    BY DEF RunTask, database
<1>2. CASE Deleted(v)
  <2>1. work' = [work EXCEPT ![j] = Finish(work[j], v, "failed")]
      BY <1>2 DEF RunTask, Working
  <2>2. WorkSane([work EXCEPT ![j] = Finish(work[j], v, "failed")], jobs, answered)
      BY <1>1, WorkIsAlike, FinishIsSane DEF Ended
  <2>3. QED
      BY <1>1, <2>1, <2>2, OnlyWork
<1>3. CASE ~Deleted(v)
  <2>1. Begin(j, v, status[v])
      BY <1>3 DEF RunTask
  <2>2. QED
      BY <1>1, <2>1, BeginSane, OnlyWork
<1>4. QED
    BY <1>2, <1>3

LEMMA NextInLoopSane ==
    ASSUME VInv, NEW j \in Jobs, NEW v \in VMs, NextInLoop(j, v) PROVE VInv'
<1>1. work[j][v].pc # "none" /\ UNCHANGED <<latest, cache, jobs, answered>>
    BY DEF NextInLoop, database
<1>2. \/ Begin(j, v, work[j][v].loaded) \/ Abort(j, v) \/ Begin(j, v, status[v])
    BY DEF NextInLoop
<1>3. WorkSane(work', jobs, answered)
    BY <1>1, <1>2, BeginSane, AbortIsSane
<1>4. QED
    BY <1>1, <1>3, OnlyWork

-----------------------------------------------------------------------------
(* Collecting *)

\* The row of v read again after a commit.
LEMMA ReadIsAlike ==
    ASSUME VInv, NEW j \in Jobs, NEW v \in VMs, NEW row
    PROVE  /\ DOMAIN [AfterCommit(j, v) EXCEPT ![v].loaded = row] = VMs
           /\ \A u \in VMs : Alike([AfterCommit(j, v) EXCEPT ![v].loaded = row][u], work[j][u])
<1> DEFINE a == AfterCommit(j, v)
           r == [a EXCEPT ![v].loaded = row]
<1>1. DOMAIN a = VMs /\ \A u \in VMs : Alike(a[u], work[j][u])
    BY CommitLeavesAlike
<1>2. DOMAIN work[j][v] = Fields
    BY DEF VInv, WorkSane, Sane
<1> HIDE DEF a
<1>3. /\ DOMAIN r = VMs /\ \A u \in VMs \ {v} : r[u] = a[u]
      /\ r[v] = [a[v] EXCEPT !.loaded = row]
    BY <1>1
<1> HIDE DEF r
<1>4. Alike(r[v], work[j][v])
    BY <1>1, <1>2, <1>3, FieldsAre DEF Alike
<1>5. DOMAIN r = VMs /\ \A u \in VMs : Alike(r[u], work[j][u])
    BY <1>1, <1>3, <1>4
<1>6. QED
    BY <1>5 DEF r, a

LEMMA CollectionIs ==
    ASSUME VInv, NEW j \in Jobs, NEW v \in VMs, NEW added
    PROVE  /\ DOMAIN Collection(j, v, added) = VMs
           /\ \A u \in VMs \ {v} : Alike(Collection(j, v, added)[u], work[j][u])
           /\ DOMAIN Collection(j, v, added)[v] = Fields
           /\ Collection(j, v, added)[v].base = work[j][v].base
           /\ Collection(j, v, added)[v].now = guest[v]
<1> DEFINE kept == IF added THEN [AfterCommit(j, v) EXCEPT ![v].loaded = status[v]] ELSE work[j]
           c == [kept EXCEPT ![v].now = guest[v]]
<1>1. DOMAIN kept = VMs /\ \A u \in VMs : Alike(kept[u], work[j][u])
  <2>1. CASE added
      BY <2>1, ReadIsAlike
  <2>2. CASE ~added
      BY <2>2, WorkIsAlike
  <2>3. QED
      BY <2>1, <2>2
<1>2. DOMAIN work[j][v] = Fields
    BY DEF VInv, WorkSane, Sane
<1>3. Collection(j, v, added) = c
    BY DEF Collection
<1> HIDE DEF kept
<1>4. /\ DOMAIN c = VMs /\ \A u \in VMs \ {v} : c[u] = kept[u]
      /\ c[v] = [kept[v] EXCEPT !.now = guest[v]]
    BY <1>1
<1> HIDE DEF c
<1>5. DOMAIN kept[v] = Fields /\ kept[v].base = work[j][v].base
    BY <1>1, <1>2 DEF Alike
<1>6. DOMAIN c[v] = Fields /\ c[v].base = work[j][v].base /\ c[v].now = guest[v]
    BY <1>4, <1>5, FieldsAre
<1>7. QED
    BY <1>1, <1>3, <1>4, <1>6

LEMMA CaptureCollectedSane ==
    ASSUME VInv, NEW j \in Jobs, NEW v \in VMs, NEW added, CaptureCollected(j, v, added)
    PROVE  VInv'
<1>1. /\ work[j][v].pc = "collecting" /\ jobs[j] \in Captures
      /\ UNCHANGED <<latest, cache, jobs, answered>>
    BY DEF CaptureCollected, database
<1>2. CASE Abort(j, v)
    BY <1>1, <1>2, AbortIsSane, OnlyWork
<1>3. CASE ~RowLost(j, v, added)
  <2> DEFINE c == Collection(j, v, added)
             w == [c EXCEPT ![v].pc = "storing", ![v].number = Len(snapshots[v]) + 1]
  <2>1. work' = [work EXCEPT ![j] = w]
      BY <1>3 DEF CaptureCollected, Working
  <2>2. /\ DOMAIN c = VMs /\ DOMAIN c[v] = Fields
        /\ \A u \in VMs \ {v} : Alike(c[u], work[j][u])
      BY CollectionIs
  <2> HIDE DEF c
  <2>3. /\ DOMAIN w = VMs /\ \A u \in VMs \ {v} : w[u] = c[u]
        /\ DOMAIN w[v] = Fields /\ w[v].pc = "storing"
      BY <2>2, FieldsAre
  <2> HIDE DEF w
  <2>4. Sane(w[v], v, jobs[j], answered)
      BY <1>1, <2>3 DEF Sane, Captures, Undecided
  <2>5. WorkSane([work EXCEPT ![j] = w], jobs, answered)
      BY <2>2, <2>3, <2>4, OneRecordIsSane
  <2>6. QED
      BY <1>1, <2>1, <2>5, OnlyWork
<1>4. QED
    BY <1>2, <1>3 DEF CaptureCollected

LEMMA ValidationCollectedSane ==
    ASSUME VInv, NEW j \in Jobs, NEW v \in VMs, NEW added, ValidationCollected(j, v, added)
    PROVE  VInv'
<1> DEFINE rule == Classify(ComputeDiff(work[j][v].base, guest[v]), v \in Production)
           c == Collection(j, v, added)
           decided == [c EXCEPT ![v].pc = "storing", ![v].source = "rule", ![v].verdict = rule.status]
           open == [c EXCEPT ![v].pc = "reasoning"]
<1>1. /\ work[j][v].pc = "collecting" /\ UNCHANGED <<latest, cache, jobs, answered>>
      /\ \/ Abort(j, v)
         \/ rule.tier < 3 /\ work' = [work EXCEPT ![j] = decided]
         \/ rule.tier = 3 /\ work' = [work EXCEPT ![j] = open]
    BY DEF ValidationCollected, database, Working
<1>2. /\ DOMAIN c = VMs /\ DOMAIN c[v] = Fields
      /\ c[v].base = work[j][v].base /\ c[v].now = guest[v]
      /\ \A u \in VMs \ {v} : Alike(c[u], work[j][u])
    BY CollectionIs
<1>3. jobs[j] # "idle"
    BY <1>1, BusyIsNotIdle DEF VInv, WorkSane
<1> HIDE DEF c
<1>4. CASE Abort(j, v)
    BY <1>1, <1>4, AbortIsSane, OnlyWork
<1>5. CASE rule.tier < 3 /\ work' = [work EXCEPT ![j] = decided]
  <2>1. /\ DOMAIN decided = VMs /\ \A u \in VMs \ {v} : decided[u] = c[u]
        /\ DOMAIN decided[v] = Fields /\ decided[v].pc = "storing" /\ decided[v].source = "rule"
        /\ decided[v].verdict = rule.status
        /\ decided[v].base = work[j][v].base /\ decided[v].now = guest[v]
      BY <1>2, FieldsAre
  <2> HIDE DEF decided
  <2>2. Classify(Key(decided[v].base, decided[v].now).diff, v \in Production) = rule
      BY <2>1 DEF Key
  <2>3. Authored(v, decided[v], answered)
      BY <1>5, <2>1, <2>2 DEF Authored
  <2>4. Sane(decided[v], v, jobs[j], answered)
      BY <1>3, <2>1, <2>3 DEF Sane, Undecided
  <2>5. WorkSane([work EXCEPT ![j] = decided], jobs, answered)
      BY <1>2, <2>1, <2>4, OneRecordIsSane
  <2>6. QED
      BY <1>1, <1>5, <2>5, OnlyWork
<1>6. CASE rule.tier = 3 /\ work' = [work EXCEPT ![j] = open]
  <2>1. /\ DOMAIN open = VMs /\ \A u \in VMs \ {v} : open[u] = c[u]
        /\ DOMAIN open[v] = Fields /\ open[v].pc = "reasoning"
        /\ open[v].base = work[j][v].base /\ open[v].now = guest[v]
      BY <1>2, FieldsAre
  <2> HIDE DEF open
  <2>2. Classify(Key(open[v].base, open[v].now).diff, v \in Production) = rule
      BY <2>1 DEF Key
  <2>3. Sane(open[v], v, jobs[j], answered)
      BY <1>3, <1>6, <2>1, <2>2 DEF Sane
  <2>4. WorkSane([work EXCEPT ![j] = open], jobs, answered)
      BY <1>2, <2>1, <2>3, OneRecordIsSane
  <2>5. QED
      BY <1>1, <1>6, <2>4, OnlyWork
<1>7. QED
    BY <1>1, <1>4, <1>5, <1>6

LEMMA CollectionEndsSane ==
    ASSUME VInv, NEW j \in Jobs, NEW v \in VMs, NEW audited,
           CollectionFails(j, v, audited) \/ ConnectionDrops(j, v)
    PROVE  VInv'
<1>1. /\ work[j][v].pc = "collecting" /\ UNCHANGED <<latest, cache, jobs, answered>>
      /\ \/ Abort(j, v)
         \/ work' = [work EXCEPT ![j] = Finish(AfterCommit(j, v), v, "failed")]
         \/ work' = [work EXCEPT ![j] = Finish(work[j], v, "failed")]
    BY DEF CollectionFails, ConnectionDrops, database, Working
<1>2. WorkSane([work EXCEPT ![j] = Finish(AfterCommit(j, v), v, "failed")], jobs, answered)
    BY <1>1, CommitLeavesAlike, FinishIsSane DEF Ended
<1>3. WorkSane([work EXCEPT ![j] = Finish(work[j], v, "failed")], jobs, answered)
    BY <1>1, WorkIsAlike, FinishIsSane DEF Ended
<1>4. WorkSane(work', jobs, answered)
    BY <1>1, <1>2, <1>3, AbortIsSane
<1>5. QED
    BY <1>1, <1>4, OnlyWork

-----------------------------------------------------------------------------
(* The model and its cache *)

\* What is undecided has no rule, and its job is one that runs.
LEMMA UndecidedIs ==
    ASSUME VInv, NEW j \in Jobs, NEW v \in VMs, work[j][v].pc \in Undecided
    PROVE  /\ Classify(KeyOf(j, v).diff, v \in Production).tier = 3
           /\ work[j][v].pc # "none" /\ jobs[j] # "idle"
BY DEF VInv, WorkSane, Sane, KeyOf, Undecided

LEMMA CacheHitSane ==
    ASSUME VInv, NEW j \in Jobs, NEW v \in VMs, CacheHit(j, v) PROVE VInv'
<1> DEFINE b == [AfterCommit(j, v) EXCEPT ![v].loaded = status[v]]
           w == [b EXCEPT ![v].pc = "storing", ![v].source = "cache",
                          ![v].verdict = cache[KeyOf(j, v)].verdict]
<1>1. /\ work[j][v].pc \in Undecided /\ UNCHANGED <<latest, cache, jobs, answered>>
      /\ Fresh(KeyOf(j, v))
      /\ Abort(j, v) \/ work' = [work EXCEPT ![j] = w]
    BY DEF CacheHit, database, Working, Undecided
<1>2. CASE Abort(j, v)
    BY <1>1, <1>2, UndecidedIs, AbortIsSane, OnlyWork
<1>3. CASE work' = [work EXCEPT ![j] = w]
  <2>1. DOMAIN b = VMs /\ \A u \in VMs : Alike(b[u], work[j][u])
      BY ReadIsAlike
  <2> HIDE DEF b
  <2>2. /\ DOMAIN w = VMs /\ \A u \in VMs \ {v} : Alike(w[u], work[j][u])
        /\ DOMAIN w[v] = Fields /\ w[v].pc = "storing" /\ w[v].source = "cache"
        /\ w[v].verdict = cache[KeyOf(j, v)].verdict
        /\ w[v].base = work[j][v].base /\ w[v].now = work[j][v].now
    <3>1. DOMAIN work[j][v] = Fields
        BY DEF VInv, WorkSane, Sane
    <3>2. DOMAIN b[v] = Fields /\ b[v].base = work[j][v].base /\ b[v].now = work[j][v].now
        BY <2>1, <3>1 DEF Alike
    <3>3. \A u \in VMs \ {v} : w[u] = b[u]
        BY <2>1
    <3>4. QED
        BY <2>1, <3>2, <3>3, FieldsAre
  <2> HIDE DEF w
  <2>3. Key(w[v].base, w[v].now) = KeyOf(j, v)
      BY <2>2 DEF KeyOf
  <2>4. <<KeyOf(j, v), w[v].verdict>> \in answered
      BY <1>1, <2>2 DEF Fresh, VInv, CacheSane
  <2>5. Authored(v, w[v], answered)
      BY <1>1, <2>2, <2>3, <2>4, UndecidedIs DEF Authored
  <2>6. Sane(w[v], v, jobs[j], answered)
      BY <1>1, <2>2, <2>5, UndecidedIs DEF Sane, Undecided
  <2>7. WorkSane([work EXCEPT ![j] = w], jobs, answered)
      BY <2>2, <2>6, OneRecordIsSane
  <2>8. QED
      BY <1>1, <1>3, <2>7, OnlyWork
<1>4. QED
    BY <1>1, <1>2, <1>3

\* Asking, or asking again, leaves everything open.
LEMMA AsksSane ==
    ASSUME VInv, NEW j \in Jobs, NEW v \in VMs, NEW pc \in {"asking", "asking_again"},
           work[j][v].pc \in Undecided, Working(j, [work[j] EXCEPT ![v].pc = pc]),
           UNCHANGED <<latest, cache, jobs, answered>>
    PROVE  VInv'
<1> DEFINE w == [work[j] EXCEPT ![v].pc = pc]
<1>1. DOMAIN work[j] = VMs /\ DOMAIN work[j][v] = Fields
    BY DEF VInv, WorkSane, Sane
<1>2. /\ DOMAIN w = VMs /\ \A u \in VMs \ {v} : w[u] = work[j][u]
      /\ DOMAIN w[v] = Fields /\ w[v].pc = pc
      /\ w[v].base = work[j][v].base /\ w[v].now = work[j][v].now
    BY <1>1, FieldsAre
<1>3. work' = [work EXCEPT ![j] = w]
    BY DEF Working
<1> HIDE DEF w
<1>4. Classify(Key(w[v].base, w[v].now).diff, v \in Production).tier = 3
    BY <1>2, UndecidedIs DEF KeyOf
<1>5. Sane(w[v], v, jobs[j], answered)
    BY <1>2, <1>4, UndecidedIs DEF Sane
<1>6. \A u \in VMs \ {v} : Alike(w[u], work[j][u])
    BY <1>2, WorkIsAlike
<1>7. WorkSane([work EXCEPT ![j] = w], jobs, answered)
    BY <1>2, <1>5, <1>6, OneRecordIsSane
<1>8. QED
    BY <1>3, <1>7, OnlyWork

LEMMA ManualReviewSane ==
    ASSUME VInv, NEW j \in Jobs, NEW v \in VMs, work[j][v].pc \in Undecided, ManualReview(j, v),
           UNCHANGED <<latest, cache, jobs, answered>>
    PROVE  VInv'
<1> DEFINE b == [AfterCommit(j, v) EXCEPT ![v].loaded = status[v]]
           w == [b EXCEPT ![v].pc = "storing", ![v].source = "review", ![v].verdict = "warn"]
<1>1. Abort(j, v) \/ work' = [work EXCEPT ![j] = w]
    BY DEF ManualReview, Working
<1>2. CASE Abort(j, v)
    BY <1>2, UndecidedIs, AbortIsSane, OnlyWork
<1>3. CASE work' = [work EXCEPT ![j] = w]
  <2>1. DOMAIN b = VMs /\ \A u \in VMs : Alike(b[u], work[j][u])
      BY ReadIsAlike
  <2> HIDE DEF b
  <2>2. /\ DOMAIN w = VMs /\ \A u \in VMs \ {v} : Alike(w[u], work[j][u])
        /\ DOMAIN w[v] = Fields /\ w[v].pc = "storing" /\ w[v].source = "review"
        /\ w[v].verdict = "warn"
        /\ w[v].base = work[j][v].base /\ w[v].now = work[j][v].now
    <3>1. DOMAIN work[j][v] = Fields
        BY DEF VInv, WorkSane, Sane
    <3>2. DOMAIN b[v] = Fields /\ b[v].base = work[j][v].base /\ b[v].now = work[j][v].now
        BY <2>1, <3>1 DEF Alike
    <3>3. \A u \in VMs \ {v} : w[u] = b[u]
        BY <2>1
    <3>4. QED
        BY <2>1, <3>2, <3>3, FieldsAre
  <2> HIDE DEF w
  <2>3. Key(w[v].base, w[v].now) = KeyOf(j, v)
      BY <2>2 DEF KeyOf
  <2>4. Authored(v, w[v], answered)
      BY <2>2, <2>3, UndecidedIs DEF Authored
  <2>5. Sane(w[v], v, jobs[j], answered)
      BY <2>2, <2>4, UndecidedIs DEF Sane, Undecided
  <2>6. WorkSane([work EXCEPT ![j] = w], jobs, answered)
      BY <2>2, <2>5, OneRecordIsSane
  <2>7. QED
      BY <1>3, <2>6, OnlyWork
<1>4. QED
    BY <1>1, <1>2, <1>3

\* More answers leave what has an author its author.
LEMMA MoreAnswers ==
    ASSUME NEW answers, NEW more, answers \subseteq more
    PROVE  /\ \A entries : CacheSane(entries, answers) => CacheSane(entries, more)
           /\ \A results : LatestSane(results, answers) => LatestSane(results, more)
<1>1. ASSUME NEW entries, CacheSane(entries, answers) PROVE CacheSane(entries, more)
    BY <1>1 DEF CacheSane
<1>2. ASSUME NEW results, LatestSane(results, answers) PROVE LatestSane(results, more)
    BY <1>2, AuthorStays DEF LatestSane
<1>3. QED
    BY <1>1, <1>2

LEMMA AnsweredSane ==
    ASSUME VInv, NEW j \in Jobs, NEW v \in VMs, NEW answer, Answered(j, v, answer) PROVE VInv'
<1> DEFINE w == [work[j] EXCEPT ![v].pc = "caching", ![v].source = "model",
                                ![v].verdict = answer.status,
                                ![v].row = KeyOf(j, v) \in DOMAIN cache]
<1>1. /\ work[j][v].pc \in Undecided /\ UNCHANGED <<latest, cache, jobs>>
      /\ answered' = answered \cup {<<KeyOf(j, v), answer.status>>}
      /\ work' = [work EXCEPT ![j] = w]
    BY DEF Answered, database, Working, Undecided
<1>2. /\ DOMAIN w = VMs /\ \A u \in VMs \ {v} : Alike(w[u], work[j][u])
      /\ DOMAIN w[v] = Fields /\ w[v].pc = "caching" /\ w[v].source = "model"
      /\ w[v].verdict = answer.status
      /\ w[v].base = work[j][v].base /\ w[v].now = work[j][v].now
  <2>1. DOMAIN work[j] = VMs /\ DOMAIN work[j][v] = Fields
      BY DEF VInv, WorkSane, Sane
  <2>2. \A u \in VMs \ {v} : w[u] = work[j][u]
      BY <2>1
  <2>3. QED
      BY <2>1, <2>2, FieldsAre, WorkIsAlike
<1> HIDE DEF w
<1>3. answered \subseteq answered' /\ <<KeyOf(j, v), answer.status>> \in answered'
    BY <1>1
<1>4. Key(w[v].base, w[v].now) = KeyOf(j, v)
    BY <1>2 DEF KeyOf
<1>5. Authored(v, w[v], answered')
    BY <1>1, <1>2, <1>3, <1>4, UndecidedIs DEF Authored
<1>6. Sane(w[v], v, jobs[j], answered')
    BY <1>1, <1>2, <1>5, UndecidedIs DEF Sane, Undecided
<1>7. WorkSane([work EXCEPT ![j] = w], jobs, answered')
    BY <1>2, <1>3, <1>6, OneRecordIsSane
<1>8. CacheSane(cache, answered') /\ LatestSane(latest, answered')
    BY <1>3, MoreAnswers DEF VInv
<1>9. QED
    BY <1>1, <1>7, <1>8 DEF VInv

LEMMA BackendFailureSane ==
    ASSUME VInv, NEW j \in Jobs, NEW v \in VMs, BackendFails(j, v) \/ BackendRaises(j, v)
    PROVE  VInv'
<1>1. /\ work[j][v].pc \in Undecided /\ UNCHANGED <<latest, cache, jobs, answered>>
      /\ Abort(j, v) \/ work' = [work EXCEPT ![j] = Finish(work[j], v, "failed")]
    BY DEF BackendFails, BackendRaises, database, Working, Undecided
<1>2. work[j][v].pc # "none"
    BY <1>1, UndecidedIs
<1>3. WorkSane([work EXCEPT ![j] = Finish(work[j], v, "failed")], jobs, answered)
    BY <1>2, WorkIsAlike, FinishIsSane DEF Ended
<1>4. WorkSane(work', jobs, answered)
    BY <1>1, <1>2, <1>3, AbortIsSane
<1>5. QED
    BY <1>1, <1>4, OnlyWork

LEMMA AskingSane ==
    ASSUME VInv, NEW j \in Jobs, NEW v \in VMs,
           \/ CacheMiss(j, v) \/ GuardrailFlags(j, v)
           \/ \E answer \in Answers : Rejected(j, v, answer)
    PROVE  VInv'
<1>1. /\ work[j][v].pc \in Undecided /\ UNCHANGED <<latest, cache, jobs, answered>>
      /\ \/ Working(j, [work[j] EXCEPT ![v].pc = "asking"])
         \/ Working(j, [work[j] EXCEPT ![v].pc = "asking_again"])
         \/ ManualReview(j, v)
    BY DEF CacheMiss, GuardrailFlags, Rejected, database, Undecided
<1>2. QED
    BY <1>1, AsksSane, ManualReviewSane

LEMMA CacheStoredSane ==
    ASSUME VInv, NEW j \in Jobs, NEW v \in VMs, CacheStored(j, v) PROVE VInv'
<1> DEFINE key == KeyOf(j, v)
           b == [AfterCommit(j, v) EXCEPT ![v].loaded = status[v]]
           w == [b EXCEPT ![v].pc = "storing"]
<1>1. /\ work[j][v].pc = "caching" /\ UNCHANGED <<latest, jobs, answered>>
      /\ Abort(j, v) \/ work' = [work EXCEPT ![j] = w]
    BY DEF CacheStored, Working
<1>2. /\ DOMAIN work[j][v] = Fields /\ jobs[j] # "idle"
      /\ work[j][v].source = "model" /\ Authored(v, work[j][v], answered)
  <2>1. Sane(work[j][v], v, jobs[j], answered)
      BY DEF VInv, WorkSane
  <2>2. QED
      BY <1>1, <2>1 DEF Sane
<1>3. <<key, work[j][v].verdict>> \in answered
    BY <1>2 DEF Authored, KeyOf
<1>4. CacheSane(cache', answered)
  <2>1. CASE UNCHANGED cache
      BY <2>1 DEF VInv
  <2>2. CASE cache' = [k \in DOMAIN cache \cup {key} |->
                         IF k = key THEN [verdict |-> work[j][v].verdict, fresh |-> TRUE] ELSE cache[k]]
    <3> DEFINE entry == [verdict |-> work[j][v].verdict, fresh |-> TRUE]
    <3>1. DOMAIN entry = {"verdict", "fresh"} /\ entry.verdict = work[j][v].verdict
        OBVIOUS
    <3> HIDE DEF entry
    <3>2. /\ DOMAIN cache' = DOMAIN cache \cup {key} /\ cache'[key] = entry
          /\ \A k \in DOMAIN cache \ {key} : cache'[k] = cache[k]
        BY <2>2 DEF entry
    <3> HIDE DEF key
    <3>3. \A k \in DOMAIN cache : DOMAIN cache[k] = {"verdict", "fresh"}
                                  /\ <<k, cache[k].verdict>> \in answered
        BY DEF VInv, CacheSane
    <3>4. QED
        BY <1>3, <3>1, <3>2, <3>3 DEF CacheSane
  <2>3. QED
      BY <2>1, <2>2 DEF CacheStored
<1>5. CASE Abort(j, v)
  <2>1. WorkSane(work', jobs, answered)
      BY <1>1, <1>5, AbortIsSane
  <2>2. QED
      BY <1>1, <1>4, <2>1 DEF VInv
<1>6. CASE work' = [work EXCEPT ![j] = w]
  <2>1. DOMAIN b = VMs /\ \A u \in VMs : Alike(b[u], work[j][u])
      BY ReadIsAlike
  <2>2. /\ DOMAIN b[v] = Fields
        /\ b[v].base = work[j][v].base /\ b[v].now = work[j][v].now
        /\ b[v].source = work[j][v].source /\ b[v].verdict = work[j][v].verdict
      BY <1>2, <2>1 DEF Alike
  <2> HIDE DEF b
  <2>3. /\ DOMAIN w = VMs /\ \A u \in VMs \ {v} : w[u] = b[u]
        /\ DOMAIN w[v] = Fields /\ w[v].pc = "storing"
        /\ w[v].base = b[v].base /\ w[v].now = b[v].now
        /\ w[v].source = b[v].source /\ w[v].verdict = b[v].verdict
      BY <2>1, <2>2, FieldsAre
  <2> HIDE DEF w
  <2>4. Authored(v, w[v], answered)
      BY <1>2, <2>2, <2>3, AuthorStays
  <2>5. Sane(w[v], v, jobs[j], answered)
      BY <1>2, <2>3, <2>4 DEF Sane, Undecided
  <2>6. WorkSane([work EXCEPT ![j] = w], jobs, answered)
      BY <2>1, <2>3, <2>5, OneRecordIsSane
  <2>7. QED
      BY <1>1, <1>4, <1>6, <2>6 DEF VInv
<1>7. QED
    BY <1>1, <1>5, <1>6

-----------------------------------------------------------------------------
(* Storing *)

LEMMA StoreSnapshotSane ==
    ASSUME VInv, NEW j \in Jobs, NEW v \in VMs, StoreSnapshot(j, v) PROVE VInv'
<1>1. /\ work[j][v].pc = "storing" /\ UNCHANGED <<latest, cache, jobs, answered>>
      /\ Abort(j, v) \/ work' = [work EXCEPT ![j] = Finish(AfterCommit(j, v), v, "completed")]
    BY DEF StoreSnapshot, Working
<1>2. WorkSane([work EXCEPT ![j] = Finish(AfterCommit(j, v), v, "completed")], jobs, answered)
    BY <1>1, CommitLeavesAlike, FinishIsSane DEF Ended
<1>3. WorkSane(work', jobs, answered)
    BY <1>1, <1>2, AbortIsSane
<1>4. QED
    BY <1>1, <1>3, OnlyWork

LEMMA StoreResultSane ==
    ASSUME VInv, NEW j \in Jobs, NEW v \in VMs, StoreResult(j, v) PROVE VInv'
<1> DEFINE w == work[j][v]
           result == [verdict |-> w.verdict, source |-> w.source,
                      base |-> w.base, now |-> w.now, alone |-> w.alone]
<1>1. /\ w.pc = "storing" /\ jobs[j] \notin Captures /\ UNCHANGED <<cache, jobs, answered>>
      /\ \/ Abort(j, v) /\ UNCHANGED latest
         \/ /\ work' = [work EXCEPT ![j] = Finish(AfterCommit(j, v), v, "completed")]
            /\ latest' = [latest EXCEPT ![v] = result]
    BY DEF StoreResult, Working
<1>2. Authored(v, w, answered)
  <2>1. Sane(work[j][v], v, jobs[j], answered)
      BY DEF VInv, WorkSane
  <2>2. QED
      BY <1>1, <2>1 DEF Sane
<1>3. WorkSane(work', jobs, answered)
  <2>1. WorkSane([work EXCEPT ![j] = Finish(AfterCommit(j, v), v, "completed")], jobs, answered)
      BY <1>1, CommitLeavesAlike, FinishIsSane DEF Ended
  <2>2. QED
      BY <1>1, <2>1, AbortIsSane
<1>4. LatestSane(latest', answered)
  <2>1. CASE UNCHANGED latest
      BY <2>1 DEF VInv
  <2>2. CASE latest' = [latest EXCEPT ![v] = result]
    <3>1. /\ DOMAIN result = {"verdict", "source", "base", "now", "alone"}
          /\ result.verdict = w.verdict /\ result.source = w.source
          /\ result.base = w.base /\ result.now = w.now
        OBVIOUS
    <3> HIDE DEF w, result
    <3>2. Authored(v, result, answered)
        BY <1>2, <3>1, AuthorStays
    <3>3. /\ DOMAIN latest' = VMs /\ latest'[v] = result
          /\ \A u \in VMs \ {v} : latest'[u] = latest[u]
        BY <2>2 DEF VInv, LatestSane
    <3>4. QED
        BY <3>1, <3>2, <3>3 DEF VInv, LatestSane
  <2>3. QED
      BY <1>1, <2>1, <2>2
<1>5. QED
    BY <1>1, <1>3, <1>4 DEF VInv

-----------------------------------------------------------------------------
(* The environment *)

LEMMA PatchStatusSane ==
    ASSUME VInv, NEW v \in VMs, NEW new, PatchStatus(v, new) PROVE VInv'
<1>1. UNCHANGED <<cache, jobs, answered>>
    BY DEF PatchStatus
<1>2. WorkSane(work', jobs, answered)
  <2>1. work' = [k \in Jobs |-> [work[k] EXCEPT ![v].alone = @ /\ work[k][v].loaded = "unread"]]
      BY DEF PatchStatus, Untied
  <2>2. ASSUME NEW k \in Jobs PROVE /\ DOMAIN work'[k] = VMs
                                    /\ \A u \in VMs : Sane(work'[k][u], u, jobs[k], answered)
    <3>1. /\ DOMAIN work[k] = VMs /\ DOMAIN work[k][v] = Fields
          /\ \A u \in VMs : Sane(work[k][u], u, jobs[k], answered)
        BY DEF VInv, WorkSane, Sane
    <3> DEFINE flag == work[k][v].alone /\ work[k][v].loaded = "unread"
    <3>2. /\ DOMAIN work'[k] = VMs /\ \A u \in VMs \ {v} : work'[k][u] = work[k][u]
          /\ work'[k][v] = [work[k][v] EXCEPT !.alone = flag]
        BY <2>1, <3>1
    <3> HIDE DEF flag
    <3>3. Alike(work'[k][v], work[k][v])
        BY <3>1, <3>2, FieldsAre DEF Alike
    <3>4. Sane(work'[k][v], v, jobs[k], answered)
        BY <3>1, <3>3, AlikeIsSane
    <3>5. QED
        BY <3>1, <3>2, <3>4
  <2>3. QED
      BY <2>1, <2>2 DEF WorkSane
<1>3. LatestSane(latest', answered)
  <2>1. /\ DOMAIN latest = VMs
        /\ latest[v] # none => /\ DOMAIN latest[v] = {"verdict", "source", "base", "now", "alone"}
                               /\ Authored(v, latest[v], answered)
      BY DEF VInv, LatestSane
  <2>2. /\ DOMAIN latest' = VMs /\ \A u \in VMs \ {v} : latest'[u] = latest[u]
        /\ latest'[v] = IF latest[v] = none THEN latest[v] ELSE [latest[v] EXCEPT !.alone = FALSE]
      BY <2>1 DEF PatchStatus, Untied
  <2>3. CASE latest[v] # none
    <3>1. /\ DOMAIN latest'[v] = {"verdict", "source", "base", "now", "alone"}
          /\ latest'[v].verdict = latest[v].verdict /\ latest'[v].source = latest[v].source
          /\ latest'[v].base = latest[v].base /\ latest'[v].now = latest[v].now
        BY <2>1, <2>2, <2>3
    <3>2. Authored(v, latest'[v], answered)
        BY <2>1, <2>3, <3>1, AuthorStays
    <3>3. QED
        BY <2>2, <3>1, <3>2 DEF VInv, LatestSane
  <2>4. CASE latest[v] = none
      BY <2>2, <2>4 DEF VInv, LatestSane
  <2>5. QED
      BY <2>3, <2>4
<1>4. QED
    BY <1>1, <1>2, <1>3 DEF VInv

LEMMA DeleteVMSane ==
    ASSUME VInv, NEW v \in VMs, DeleteVM(v) PROVE VInv'
BY DEF VInv, DeleteVM, LatestSane

LEMMA EntryExpiresSane ==
    ASSUME VInv, NEW key \in DOMAIN cache, EntryExpires(key) PROVE VInv'
<1>1. /\ UNCHANGED <<latest, jobs, work, answered>>
      /\ cache' = [cache EXCEPT ![key].fresh = FALSE]
    BY DEF EntryExpires
<1>2. /\ DOMAIN cache[key] = {"verdict", "fresh"} /\ <<key, cache[key].verdict>> \in answered
    BY DEF VInv, CacheSane
<1>3. /\ DOMAIN cache' = DOMAIN cache /\ \A k \in DOMAIN cache \ {key} : cache'[k] = cache[k]
      /\ DOMAIN cache'[key] = {"verdict", "fresh"} /\ cache'[key].verdict = cache[key].verdict
    BY <1>1, <1>2
<1>4. CacheSane(cache', answered)
    BY <1>2, <1>3 DEF VInv, CacheSane
<1>5. QED
    BY <1>1, <1>4 DEF VInv

LEMMA RestartSane ==
    ASSUME VInv, Restart PROVE VInv'
<1>1. DOMAIN jobs' = Jobs /\ UNCHANGED <<latest, cache, answered>>
    BY DEF Restart, database
<1>2. WorkSane(work', jobs', answered)
  <2>1. DOMAIN work' = Jobs /\ \A j \in Jobs : DOMAIN work'[j] = VMs
      BY DEF Restart
  <2>2. \A j \in Jobs, v \in VMs : work'[j][v] = NoWork
      BY DEF Restart
  <2>3. DOMAIN NoWork = Fields /\ NoWork.pc = "none"
      BY DEF Fields, NoWork
  <2>4. \A j \in Jobs, v \in VMs : Sane(NoWork, v, jobs'[j], answered)
      BY <2>3, QuietIsSane DEF Undecided
  <2>5. QED
      BY <2>1, <2>2, <2>4 DEF WorkSane
<1>3. QED
    BY <1>1, <1>2 DEF VInv

-----------------------------------------------------------------------------
(* The theorems *)

LEMMA StepSane ==
    ASSUME VInv, NEW j \in Jobs, NEW v \in VMs, Step(j, v) PROVE VInv'
<1>1. CASE RunTask(j, v) \/ NextInLoop(j, v)
    BY <1>1, RunTaskSane, NextInLoopSane
<1>2. CASE \E flag \in BOOLEAN : \/ CaptureCollected(j, v, flag) \/ ValidationCollected(j, v, flag)
                                 \/ CollectionFails(j, v, flag)
    BY <1>2, CaptureCollectedSane, ValidationCollectedSane, CollectionEndsSane
<1>3. CASE ConnectionDrops(j, v)
    BY <1>3, CollectionEndsSane
<1>4. CASE CacheHit(j, v) \/ CacheMiss(j, v) \/ GuardrailFlags(j, v)
    BY <1>4, CacheHitSane, AskingSane
<1>5. CASE \E answer \in Answers : Answered(j, v, answer) \/ Rejected(j, v, answer)
    BY <1>5, AnsweredSane, AskingSane
<1>6. CASE BackendFails(j, v) \/ BackendRaises(j, v)
    BY <1>6, BackendFailureSane
<1>7. CASE CacheStored(j, v) \/ StoreSnapshot(j, v) \/ StoreResult(j, v)
    BY <1>7, CacheStoredSane, StoreSnapshotSane, StoreResultSane
<1>8. QED
    BY <1>1, <1>2, <1>3, <1>4, <1>5, <1>6, <1>7 DEF Step

LEMMA NextSane == VInv /\ [Next]_vars => VInv'
<1> SUFFICES ASSUME VInv, [Next]_vars PROVE VInv'
    OBVIOUS
<1>1. ASSUME NEW j \in Jobs, NEW v \in VMs, TriggerCapture(j, v) \/ TriggerValidation(j, v)
      PROVE  VInv'
    BY <1>1, StartSane DEF TriggerCapture, TriggerValidation, Kinds
<1>2. ASSUME NEW j \in Jobs, CaptureAll(j) \/ ValidateAll(j) \/ CollectBaselinesForAllVMs(j)
      PROVE  VInv'
    BY <1>2, StartSane DEF CaptureAll, ValidateAll, CollectBaselinesForAllVMs, Kinds
<1>3. ASSUME NEW j \in Jobs, NEW scope \in SUBSET VMs,
             CaptureBulk(j, scope) \/ RunBulk(j, scope) \/ FireSchedule(j, scope)
      PROVE  VInv'
    BY <1>3, StartSane DEF CaptureBulk, RunBulk, FireSchedule, Kinds
<1>4. ASSUME NEW j \in Jobs, NEW v \in VMs, Step(j, v) PROVE VInv'
    BY <1>4, StepSane
<1>5. ASSUME NEW v \in VMs, NEW state \in Guests, PostSnapshot(v, state) \/ GuestChanges(v, state)
      PROVE  VInv'
    BY <1>5 DEF VInv, PostSnapshot, GuestChanges, database
<1>6. ASSUME NEW v \in VMs, NEW new \in Settable, PatchStatus(v, new) PROVE VInv'
    BY <1>6, PatchStatusSane
<1>7. ASSUME NEW v \in VMs, DeleteVM(v) PROVE VInv'
    BY <1>7, DeleteVMSane
<1>8. ASSUME NEW key \in DOMAIN cache, EntryExpires(key) PROVE VInv'
    BY <1>8, EntryExpiresSane
<1>9. CASE Restart
    BY <1>9, RestartSane
<1>10. CASE UNCHANGED vars
    BY <1>10 DEF vars, VInv
<1>11. QED
    BY <1>1, <1>2, <1>3, <1>4, <1>5, <1>6, <1>7, <1>8, <1>9, <1>10 DEF Next

\* In every reachable state what a validation has concluded has its author.
THEOREM InvariantHolds == Spec => []VInv
BY InitSane, NextSane, PTL DEF Spec

\* core/validation.py, validation_cache.py: a stored verdict is a rule's, an
\* answer the model gave to this very diff, or a request for review, and the
\* cache holds answers of the model only, whatever tasks, commits and restarts
\* come in between.
THEOREM EveryVerdictHasAnAuthor == Spec => []VerdictsHaveAnAuthor
<1>1. VInv => VerdictsHaveAnAuthor
  <2> SUFFICES ASSUME VInv PROVE VerdictsHaveAnAuthor
      OBVIOUS
  <2>1. \A key \in DOMAIN cache : <<key, cache[key].verdict>> \in answered
      BY DEF VInv, CacheSane
  <2>2. \A v \in VMs : latest[v] # none => Authored(v, latest[v], answered)
      BY DEF VInv, LatestSane
  <2>3. QED
      BY <2>1, <2>2 DEF VerdictsHaveAnAuthor, Authored
<1>2. QED
    BY <1>1, InvariantHolds, PTL

\* core/validation_tiers.py, core/collection/diff.py: what the tiers pass without
\* the model, the comparison of the wave runs does not fail, and it warns of cron
\* only where a system file has its lines in another order or number.
THEOREM TiersPassWhatRunsPass == Spec => []PassesAgree
<1>1. VInv => PassesAgree
  <2> SUFFICES ASSUME VInv, NEW v \in VMs, latest[v] # none,
                      latest[v].source = "rule", latest[v].verdict = "pass"
               PROVE  LET dimensions == Dimensions(latest[v].base, latest[v].now)
                      IN  /\ \A d \in {"services", "ports", "mounts"} : dimensions[d] = "pass"
                          /\ \/ dimensions["cron"] = "pass"
                             \/ Reordered(latest[v].base.cron, latest[v].now.cron)
      BY DEF PassesAgree
  <2>1. Authored(v, latest[v], answered)
      BY DEF VInv, LatestSane
  <2>2. Classify(ComputeDiff(latest[v].base, latest[v].now), v \in Production).status = "pass"
      BY <2>1 DEF Authored, Key
  <2>3. QED
      BY <2>2, TiersAgreeWithRuns
<1>2. QED
    BY <1>1, InvariantHolds, PTL

-----------------------------------------------------------------------------
(* The status follows the verdict                                          *)
(*                                                                         *)
(* A session that assigns the status it read writes nothing, so the proof  *)
(* has to know what the sessions hold: a session that is alone with a VM   *)
(* and read one of the two statuses of a verdict read the one the row has, *)
(* and two sessions that hold a VM are neither of them alone with it.      *)

Held(w) == w.loaded # "unread"

Idle == Ended \cup {"queued"}

Rows ==
    /\ status \in [VMs -> Statuses]
    /\ \A j \in Jobs, v \in VMs : work[j][v].pc \notin Idle => Held(work[j][v])
    /\ \A j, k \in Jobs : \A v \in VMs :
          j # k /\ Held(work[j][v]) /\ Held(work[k][v]) => ~work[j][v].alone
    /\ \A j \in Jobs, v \in VMs :
          Exists(v) /\ work[j][v].alone /\ work[j][v].loaded \in {"validated", "failed"}
              => work[j][v].loaded = status[v]
    /\ \A j \in Jobs, v \in VMs :
          latest[v] # none /\ latest[v].alone /\ work[j][v].loaded \in Statuses
              => work[j][v].loaded = StatusOf(latest[v].verdict)
    /\ StatusFollowsVerdict

\* What a step that begins no turn may do to a record: let go of the row, read
\* it again, or be no longer alone with it.
Follows(b, a, v) ==
    /\ Held(b) => Held(a)
    /\ b.alone => a.alone \/ ~Held(b)
    /\ b.loaded \in Statuses => b.loaded = a.loaded \/ b.loaded = status[v]
    /\ b.pc \notin Idle => Held(b)

LEMMA FollowsKeepsRows ==
    ASSUME Rows, \A k \in Jobs, u \in VMs : Follows(work'[k][u], work[k][u], u),
           UNCHANGED <<status, latest>>
    PROVE  Rows'
<1>1. status' \in [VMs -> Statuses]
    BY DEF Rows
<1>2. ASSUME NEW j \in Jobs, NEW v \in VMs PROVE work'[j][v].pc \notin Idle => Held(work'[j][v])
    BY DEF Follows
<1>3. ASSUME NEW j \in Jobs, NEW k \in Jobs, NEW v \in VMs, j # k,
             Held(work'[j][v]), Held(work'[k][v])
      PROVE  ~work'[j][v].alone
  <2>1. Held(work[j][v]) /\ Held(work[k][v])
      BY <1>3 DEF Follows
  <2>2. ~work[j][v].alone
      BY <1>3, <2>1 DEF Rows
  <2>3. work'[j][v].alone => work[j][v].alone
      BY <1>3 DEF Follows
  <2>4. QED
      BY <2>2, <2>3
<1>4. ASSUME NEW j \in Jobs, NEW v \in VMs, Exists(v), work'[j][v].alone,
             work'[j][v].loaded \in {"validated", "failed"}
      PROVE  work'[j][v].loaded = status[v]
  <2>1. Held(work'[j][v]) /\ work'[j][v].loaded \in Statuses
      BY <1>4 DEF Held, Statuses
  <2>2. work[j][v].alone
      BY <1>4, <2>1 DEF Follows
  <2>3. work'[j][v].loaded = work[j][v].loaded \/ work'[j][v].loaded = status[v]
      BY <2>1 DEF Follows
  <2>4. QED
      BY <1>4, <2>2, <2>3 DEF Rows
<1>5. ASSUME NEW j \in Jobs, NEW v \in VMs, latest[v] # none, latest[v].alone,
             work'[j][v].loaded \in Statuses
      PROVE  work'[j][v].loaded = StatusOf(latest[v].verdict)
  <2>1. work'[j][v].loaded = work[j][v].loaded \/ work'[j][v].loaded = status[v]
      BY <1>5 DEF Follows
  <2>2. status[v] = StatusOf(latest[v].verdict)
      BY <1>5 DEF Rows, StatusFollowsVerdict
  <2>3. QED
      BY <1>5, <2>1, <2>2 DEF Rows
<1>6. StatusFollowsVerdict'
    BY DEF Rows, StatusFollowsVerdict
<1>7. QED
    BY <1>1, <1>2, <1>3, <1>4, <1>5, <1>6 DEF Rows, Exists, Held, StatusOf

LEMMA FollowsItself ==
    ASSUME Rows, NEW j \in Jobs, NEW v \in VMs PROVE Follows(work[j][v], work[j][v], v)
BY DEF Follows, Rows

LEMMA OneJobFollows ==
    ASSUME VInv, Rows, NEW j \in Jobs, NEW w, work' = [work EXCEPT ![j] = w],
           \A u \in VMs : Follows(w[u], work[j][u], u)
    PROVE  \A k \in Jobs, u \in VMs : Follows(work'[k][u], work[k][u], u)
<1>1. \A k \in Jobs : work'[k] = IF k = j THEN w ELSE work[k]
    BY DEF VInv, WorkSane
<1>2. QED
    BY <1>1, FollowsItself

\* A record that differs from one that follows in other fields only.
LEMMA SameRowFollows ==
    ASSUME NEW v, NEW a, NEW b, NEW c, Follows(b, c, v), Held(b),
           a.loaded = b.loaded, a.alone = b.alone
    PROVE  Follows(a, c, v)
BY DEF Follows, Held

LEMMA NoWorkFollows ==
    ASSUME NEW v, NEW a, NEW pc \in Idle PROVE Follows([NoWork EXCEPT !.pc = pc], a, v)
<1> DEFINE n == [NoWork EXCEPT !.pc = pc]
<1>1. n.pc = pc /\ n.loaded = "unread"
    BY DEF NoWork
<1> HIDE DEF n
<1>2. Follows(n, a, v)
    BY <1>1 DEF Follows, Held, Statuses
<1>3. QED
    BY <1>2 DEF n

LEMMA CommitFollows ==
    ASSUME VInv, Rows, NEW j \in Jobs, NEW v \in VMs
    PROVE  \A u \in VMs : Follows(AfterCommit(j, v)[u], work[j][u], u)
<1> SUFFICES ASSUME NEW u \in VMs PROVE Follows(AfterCommit(j, v)[u], work[j][u], u)
    OBVIOUS
<1>1. \/ AfterCommit(j, v)[u] = work[j][u]
      \/ /\ work[j][u].loaded \in Statuses
         /\ AfterCommit(j, v)[u] = [work[j][u] EXCEPT !.loaded = "expired"]
    BY DEF AfterCommit
<1>2. DOMAIN work[j][u] = Fields
    BY DEF VInv, WorkSane, Sane
<1>3. CASE AfterCommit(j, v)[u] = work[j][u]
    BY <1>3, FollowsItself
<1>4. CASE /\ work[j][u].loaded \in Statuses
           /\ AfterCommit(j, v)[u] = [work[j][u] EXCEPT !.loaded = "expired"]
  <2> DEFINE a == AfterCommit(j, v)[u]
  <2>1. a.loaded = "expired" /\ a.alone = work[j][u].alone
      BY <1>2, <1>4, FieldsAre
  <2> HIDE DEF a
  <2>2. Follows(a, work[j][u], u)
      BY <1>4, <2>1 DEF Follows, Held, Statuses
  <2>3. QED
      BY <2>2 DEF a
<1>5. QED
    BY <1>1, <1>3, <1>4

\* The row of v, read again after a commit that left it there.
LEMMA ReadFollows ==
    ASSUME VInv, Rows, NEW j \in Jobs, NEW v \in VMs, Held(work[j][v])
    PROVE  /\ \A u \in VMs : Follows([AfterCommit(j, v) EXCEPT ![v].loaded = status[v]][u], work[j][u], u)
           /\ Held([AfterCommit(j, v) EXCEPT ![v].loaded = status[v]][v])
<1> DEFINE a == AfterCommit(j, v)
           r == [a EXCEPT ![v].loaded = status[v]]
<1>1. /\ DOMAIN a = VMs /\ \A u \in VMs : Alike(a[u], work[j][u])
      /\ \A u \in VMs : Follows(a[u], work[j][u], u)
    BY CommitLeavesAlike, CommitFollows
<1>2. DOMAIN a[v] = Fields
    BY <1>1 DEF VInv, WorkSane, Sane, Alike
<1>3. status[v] \in Statuses
    BY DEF Rows
<1>4. Held(a[v])
  <2>1. a[v] = work[j][v] \/ a[v] = [work[j][v] EXCEPT !.loaded = "expired"]
      BY DEF AfterCommit
  <2>2. DOMAIN work[j][v] = Fields
      BY DEF VInv, WorkSane, Sane
  <2>3. [work[j][v] EXCEPT !.loaded = "expired"].loaded = "expired"
      BY <2>2, FieldsAre
  <2>4. QED
      BY <2>1, <2>3 DEF Held
<1> HIDE DEF a
<1>5. /\ DOMAIN r = VMs /\ \A u \in VMs \ {v} : r[u] = a[u]
      /\ r[v].loaded = status[v] /\ r[v].alone = a[v].alone
    BY <1>1, <1>2, FieldsAre
<1> HIDE DEF r
<1>6. Follows(r[v], work[j][v], v) /\ Held(r[v])
    BY <1>1, <1>3, <1>4, <1>5 DEF Follows, Held, Statuses
<1>7. (\A u \in VMs : Follows(r[u], work[j][u], u)) /\ Held(r[v])
    BY <1>1, <1>5, <1>6
<1>8. QED
    BY <1>7 DEF r, a

LEMMA FinishFollows ==
    ASSUME NEW j \in Jobs, NEW v \in VMs, NEW w, NEW pc \in Ended, DOMAIN w = VMs,
           \A u \in VMs : Follows(w[u], work[j][u], u)
    PROVE  \A u \in VMs : Follows(Finish(w, v, pc)[u], work[j][u], u)
<1> SUFFICES ASSUME NEW u \in VMs PROVE Follows(Finish(w, v, pc)[u], work[j][u], u)
    OBVIOUS
<1>1. CASE u # v
  <2>1. Finish(w, v, pc)[u] = w[u]
      BY <1>1 DEF Finish
  <2>2. QED
      BY <2>1
<1>2. CASE u = v
  <2>1. Finish(w, v, pc)[u] = [NoWork EXCEPT !.pc = pc]
      BY <1>2 DEF Finish
  <2>2. QED
      BY <2>1, NoWorkFollows DEF Idle
<1>3. QED
    BY <1>1, <1>2

LEMMA AbortFollows ==
    ASSUME VInv, Rows, NEW j \in Jobs, NEW v \in VMs, Abort(j, v)
    PROVE  \A k \in Jobs, u \in VMs : Follows(work'[k][u], work[k][u], u)
<1>1. DOMAIN work[j] = VMs /\ \A u \in VMs : Follows(work[j][u], work[j][u], u)
    BY FollowsItself DEF VInv, WorkSane
<1>2. CASE jobs[j] = "bulk_capture"
  <2> DEFINE f == Finish(work[j], v, "failed")
  <2>1. \A u \in VMs : Follows(f[u], work[j][u], u)
      BY <1>1, FinishFollows DEF Ended
  <2>2. work' = [work EXCEPT ![j] = f]
      BY <1>2 DEF Abort
  <2> HIDE DEF f
  <2>3. QED
      BY <2>1, <2>2, OneJobFollows
<1>3. CASE jobs[j] # "bulk_capture"
  <2> DEFINE s == Strand(work[j], v)
  <2>1. ASSUME NEW u \in VMs PROVE Follows(s[u], work[j][u], u)
    <3>1. s[u] = work[j][u] \/ s[u] = [NoWork EXCEPT !.pc = "stranded"]
        BY DEF Strand
    <3>2. Follows([NoWork EXCEPT !.pc = "stranded"], work[j][u], u)
        BY NoWorkFollows DEF Idle, Ended
    <3>3. QED
        BY <1>1, <3>1, <3>2
  <2>2. work' = [work EXCEPT ![j] = s]
      BY <1>3 DEF Abort
  <2> HIDE DEF s
  <2>3. QED
      BY <2>1, <2>2, OneJobFollows
<1>4. QED
    BY <1>2, <1>3

\* A VM whose turn goes on: the records of the job follow, and that of v stays held.
LEMMA CollectionFollows ==
    ASSUME VInv, Rows, NEW j \in Jobs, NEW v \in VMs, NEW added, Held(work[j][v])
    PROVE  /\ \A u \in VMs : Follows(Collection(j, v, added)[u], work[j][u], u)
           /\ Held(Collection(j, v, added)[v])
<1> DEFINE kept == IF added THEN [AfterCommit(j, v) EXCEPT ![v].loaded = status[v]] ELSE work[j]
           c == [kept EXCEPT ![v].now = guest[v]]
<1>1. /\ \A u \in VMs : Follows(kept[u], work[j][u], u)
      /\ Held(kept[v])
      /\ DOMAIN kept = VMs /\ \A u \in VMs : Alike(kept[u], work[j][u])
  <2>1. CASE added
      BY <2>1, ReadFollows, ReadIsAlike
  <2>2. CASE ~added
      BY <2>2, FollowsItself, WorkIsAlike
  <2>3. QED
      BY <2>1, <2>2
<1>2. Collection(j, v, added) = c
    BY DEF Collection
<1>3. DOMAIN kept[v] = Fields
    BY <1>1 DEF VInv, WorkSane, Sane, Alike
<1> HIDE DEF kept
<1>4. /\ \A u \in VMs \ {v} : c[u] = kept[u]
      /\ c[v].loaded = kept[v].loaded /\ c[v].alone = kept[v].alone
    BY <1>1, <1>3, FieldsAre
<1> HIDE DEF c
<1>5. Follows(c[v], work[j][v], v) /\ Held(c[v])
    BY <1>1, <1>4, SameRowFollows DEF Held
<1>6. QED
    BY <1>1, <1>2, <1>4, <1>5

LEMMA GoesOn ==
    ASSUME VInv, Rows, NEW j \in Jobs, NEW v \in VMs, NEW b, NEW w,
           \A u \in VMs : Follows(b[u], work[j][u], u), Held(b[v]),
           \A u \in VMs \ {v} : w[u] = b[u],
           w[v].loaded = b[v].loaded, w[v].alone = b[v].alone,
           work' = [work EXCEPT ![j] = w], UNCHANGED <<status, latest>>
    PROVE  Rows'
<1>1. Follows(w[v], work[j][v], v)
    BY SameRowFollows
<1>2. \A u \in VMs : Follows(w[u], work[j][u], u)
    BY <1>1
<1>3. QED
    BY <1>2, OneJobFollows, FollowsKeepsRows

LEMMA AbortRows ==
    ASSUME VInv, Rows, NEW j \in Jobs, NEW v \in VMs, Abort(j, v), UNCHANGED <<status, latest>>
    PROVE  Rows'
BY AbortFollows, FollowsKeepsRows

LEMMA FinishRows ==
    ASSUME VInv, Rows, NEW j \in Jobs, NEW v \in VMs, NEW w, NEW pc \in Ended,
           DOMAIN w = VMs, \A u \in VMs : Follows(w[u], work[j][u], u),
           work' = [work EXCEPT ![j] = Finish(w, v, pc)], UNCHANGED <<status, latest>>
    PROVE  Rows'
<1> DEFINE f == Finish(w, v, pc)
<1>1. \A u \in VMs : Follows(f[u], work[j][u], u)
    BY FinishFollows
<1> HIDE DEF f
<1>2. work' = [work EXCEPT ![j] = f]
    BY DEF f
<1>3. QED
    BY <1>1, <1>2, OneJobFollows, FollowsKeepsRows

LEMMA HeldInTurn ==
    ASSUME Rows, NEW j \in Jobs, NEW v \in VMs,
           work[j][v].pc \in Undecided \cup {"collecting", "caching", "storing"}
    PROVE  Held(work[j][v])
BY DEF Rows, Idle, Ended, Undecided

LEMMA CollectedRows ==
    ASSUME VInv, Rows, NEW j \in Jobs, NEW v \in VMs, NEW added,
           CaptureCollected(j, v, added) \/ ValidationCollected(j, v, added)
    PROVE  Rows'
<1> DEFINE rule == Classify(ComputeDiff(work[j][v].base, guest[v]), v \in Production)
           c == Collection(j, v, added)
           captured == [c EXCEPT ![v].pc = "storing", ![v].number = Len(snapshots[v]) + 1]
           decided == [c EXCEPT ![v].pc = "storing", ![v].source = "rule", ![v].verdict = rule.status]
           open == [c EXCEPT ![v].pc = "reasoning"]
<1>1. /\ work[j][v].pc = "collecting" /\ UNCHANGED <<status, latest>>
      /\ \/ Abort(j, v)
         \/ work' = [work EXCEPT ![j] = captured]
         \/ work' = [work EXCEPT ![j] = decided]
         \/ work' = [work EXCEPT ![j] = open]
    BY DEF CaptureCollected, ValidationCollected, database, Working
<1>2. DOMAIN c = VMs /\ DOMAIN c[v] = Fields
    BY CollectionIs
<1>3. (\A u \in VMs : Follows(c[u], work[j][u], u)) /\ Held(c[v])
    BY <1>1, HeldInTurn, CollectionFollows
<1> HIDE DEF c, rule
<1>4. /\ \A u \in VMs \ {v} : captured[u] = c[u] /\ decided[u] = c[u] /\ open[u] = c[u]
      /\ captured[v].loaded = c[v].loaded /\ captured[v].alone = c[v].alone
      /\ decided[v].loaded = c[v].loaded /\ decided[v].alone = c[v].alone
      /\ open[v].loaded = c[v].loaded /\ open[v].alone = c[v].alone
    BY <1>2, FieldsAre
<1> HIDE DEF captured, decided, open
<1>5. QED
    BY <1>1, <1>3, <1>4, GoesOn, AbortRows, ZenonT(60)

LEMMA CollectionEndsRows ==
    ASSUME VInv, Rows, NEW j \in Jobs, NEW v \in VMs, NEW audited,
           CollectionFails(j, v, audited) \/ ConnectionDrops(j, v)
    PROVE  Rows'
<1> DEFINE a == AfterCommit(j, v)
<1>1. /\ UNCHANGED <<status, latest>>
      /\ \/ Abort(j, v)
         \/ work' = [work EXCEPT ![j] = Finish(a, v, "failed")]
         \/ work' = [work EXCEPT ![j] = Finish(work[j], v, "failed")]
    BY DEF CollectionFails, ConnectionDrops, database, Working
<1>2. DOMAIN a = VMs /\ \A u \in VMs : Follows(a[u], work[j][u], u)
    BY CommitLeavesAlike, CommitFollows
<1>3. DOMAIN work[j] = VMs /\ \A u \in VMs : Follows(work[j][u], work[j][u], u)
    BY WorkIsAlike, FollowsItself
<1> HIDE DEF a
<1>4. "failed" \in Ended
    BY DEF Ended
<1>5. QED
    BY <1>1, <1>2, <1>3, <1>4, AbortRows, FinishRows

\* A hit, a review or the entry stored: the row is read again and kept.
LEMMA ReadRows ==
    ASSUME VInv, Rows, NEW j \in Jobs, NEW v \in VMs,
           CacheHit(j, v) \/ (work[j][v].pc \in Undecided /\ ManualReview(j, v)) \/ CacheStored(j, v),
           UNCHANGED <<status, latest>>
    PROVE  Rows'
<1> DEFINE b == [AfterCommit(j, v) EXCEPT ![v].loaded = status[v]]
           hit == [b EXCEPT ![v].pc = "storing", ![v].source = "cache",
                            ![v].verdict = cache[KeyOf(j, v)].verdict]
           review == [b EXCEPT ![v].pc = "storing", ![v].source = "review", ![v].verdict = "warn"]
           stored == [b EXCEPT ![v].pc = "storing"]
<1>1. /\ work[j][v].pc \in Undecided \cup {"caching"}
      /\ \/ Abort(j, v)
         \/ work' = [work EXCEPT ![j] = hit]
         \/ work' = [work EXCEPT ![j] = review]
         \/ work' = [work EXCEPT ![j] = stored]
    BY DEF CacheHit, ManualReview, CacheStored, Working, Undecided
<1>2. Held(work[j][v])
    BY <1>1, HeldInTurn
<1>3. /\ DOMAIN b = VMs /\ \A u \in VMs : Alike(b[u], work[j][u])
      /\ \A u \in VMs : Follows(b[u], work[j][u], u)
      /\ Held(b[v])
    BY <1>2, ReadIsAlike, ReadFollows
<1>4. DOMAIN b[v] = Fields
    BY <1>3 DEF VInv, WorkSane, Sane, Alike
<1> HIDE DEF b
<1>5. /\ \A u \in VMs \ {v} : hit[u] = b[u] /\ review[u] = b[u] /\ stored[u] = b[u]
      /\ hit[v].loaded = b[v].loaded /\ hit[v].alone = b[v].alone
      /\ review[v].loaded = b[v].loaded /\ review[v].alone = b[v].alone
      /\ stored[v].loaded = b[v].loaded /\ stored[v].alone = b[v].alone
    BY <1>3, <1>4, FieldsAre
<1> HIDE DEF hit, review, stored
<1>6. QED
    BY <1>1, <1>3, <1>5, GoesOn, AbortRows

LEMMA AskingRows ==
    ASSUME VInv, Rows, NEW j \in Jobs, NEW v \in VMs,
           \/ CacheMiss(j, v) \/ GuardrailFlags(j, v)
           \/ \E answer \in Answers : Answered(j, v, answer) \/ Rejected(j, v, answer)
    PROVE  Rows'
<1>1. work[j][v].pc \in Undecided /\ UNCHANGED <<status, latest>>
    BY DEF CacheMiss, GuardrailFlags, Answered, Rejected, database, Undecided
<1>2. ASSUME ManualReview(j, v) PROVE Rows'
    BY <1>1, <1>2, ReadRows
<1>3. ASSUME NEW pc, work' = [work EXCEPT ![j] = [work[j] EXCEPT ![v].pc = pc]] PROVE Rows'
  <2> DEFINE w == [work[j] EXCEPT ![v].pc = pc]
  <2>1. DOMAIN work[j] = VMs /\ DOMAIN work[j][v] = Fields
      BY DEF VInv, WorkSane, Sane
  <2>2. /\ \A u \in VMs \ {v} : w[u] = work[j][u]
        /\ w[v].loaded = work[j][v].loaded /\ w[v].alone = work[j][v].alone
      BY <2>1, FieldsAre
  <2>3. work' = [work EXCEPT ![j] = w]
      BY <1>3
  <2> HIDE DEF w
  <2>4. Held(work[j][v]) /\ \A u \in VMs : Follows(work[j][u], work[j][u], u)
      BY <1>1, HeldInTurn, FollowsItself
  <2>5. QED
      BY <1>1, <2>2, <2>3, <2>4, GoesOn
<1>4. ASSUME NEW answer, Answered(j, v, answer) PROVE Rows'
  <2> DEFINE w == [work[j] EXCEPT ![v].pc = "caching", ![v].source = "model",
                                  ![v].verdict = answer.status,
                                  ![v].row = KeyOf(j, v) \in DOMAIN cache]
  <2>1. DOMAIN work[j] = VMs /\ DOMAIN work[j][v] = Fields
      BY DEF VInv, WorkSane, Sane
  <2>2. /\ \A u \in VMs \ {v} : w[u] = work[j][u]
        /\ w[v].loaded = work[j][v].loaded /\ w[v].alone = work[j][v].alone
      BY <2>1, FieldsAre, SMTT(60)
  <2>3. work' = [work EXCEPT ![j] = w]
      BY <1>4 DEF Answered, Working
  <2> HIDE DEF w
  <2>4. Held(work[j][v]) /\ \A u \in VMs : Follows(work[j][u], work[j][u], u)
      BY <1>1, HeldInTurn, FollowsItself
  <2>5. QED
      BY <1>1, <2>2, <2>3, <2>4, GoesOn
<1>5. \/ ManualReview(j, v) \/ \E answer \in Answers : Answered(j, v, answer)
      \/ work' = [work EXCEPT ![j] = [work[j] EXCEPT ![v].pc = "asking"]]
      \/ work' = [work EXCEPT ![j] = [work[j] EXCEPT ![v].pc = "asking_again"]]
    BY DEF CacheMiss, GuardrailFlags, Rejected, Working
<1>6. QED
    BY <1>2, <1>3, <1>4, <1>5, SMTT(60)

LEMMA BackendFailureRows ==
    ASSUME VInv, Rows, NEW j \in Jobs, NEW v \in VMs, BackendFails(j, v) \/ BackendRaises(j, v)
    PROVE  Rows'
<1>1. /\ UNCHANGED <<status, latest>>
      /\ Abort(j, v) \/ work' = [work EXCEPT ![j] = Finish(work[j], v, "failed")]
    BY DEF BackendFails, BackendRaises, database, Working
<1>2. DOMAIN work[j] = VMs /\ \A u \in VMs : Follows(work[j][u], work[j][u], u)
    BY WorkIsAlike, FollowsItself
<1>3. "failed" \in Ended
    BY DEF Ended
<1>4. QED
    BY <1>1, <1>2, <1>3, AbortRows, FinishRows

LEMMA InitRows == Init => Rows
<1> SUFFICES ASSUME Init PROVE Rows
    OBVIOUS
<1>1. status \in [VMs -> Statuses]
    BY DEF Init, Statuses
<1>2. \A j \in Jobs, v \in VMs : work[j][v] = NoWork /\ latest[v] = none
    BY DEF Init
<1>3. NoWork.pc = "none" /\ NoWork.loaded = "unread"
    BY DEF NoWork
<1>4. "none" \in Idle /\ "unread" \notin Statuses
    BY DEF Idle, Ended, Statuses
<1>5. \A v \in VMs : latest[v] = none
    BY DEF Init
<1>6. QED
    BY <1>1, <1>2, <1>3, <1>4, <1>5 DEF Rows, StatusFollowsVerdict, Held

-----------------------------------------------------------------------------
(* Sessions that read a row *)

LEMMA StartRows ==
    ASSUME VInv, Rows, NEW j \in Jobs, NEW kind \in Kinds, NEW scope \in SUBSET VMs,
           Start(j, kind, scope)
    PROVE  Rows'
<1>1. UNCHANGED <<status, latest>>
    BY DEF Start, database
<1> DEFINE queued(v) == [NoWork EXCEPT !.pc = "queued",
                                       !.loaded = IF kind \in Shared THEN status[v] ELSE "unread",
                                       !.alone = NobodyElseHas(j, v)]
           apart(k, v) == [work[k][v] EXCEPT !.alone = FALSE]
<1>2. ASSUME NEW k \in Jobs, NEW v \in VMs
      PROVE  \/ /\ work'[k][v] = work[k][v]
                /\ kind \notin Shared \/ ~Held(work[k][v]) \/ v \notin scope
             \/ k # j /\ work'[k][v] = apart(k, v)
             \/ k = j /\ v \in scope /\ work'[k][v] = queued(v)
  <2>1. work'[k][v] =
            IF v \notin scope THEN work[k][v]
            ELSE IF k = j THEN queued(v)
            ELSE IF kind \in Shared /\ Held(work[k][v]) THEN apart(k, v)
            ELSE work[k][v]
      BY DEF Start, Held
  <2> HIDE DEF queued, apart
  <2>2. QED
      BY <2>1, SMTT(60)
<1>3. ASSUME NEW v \in VMs
      PROVE  /\ queued(v).pc = "queued"
             /\ queued(v).loaded = IF kind \in Shared THEN status[v] ELSE "unread"
             /\ queued(v).alone => NobodyElseHas(j, v)
    BY DEF NoWork
<1>4. ASSUME NEW k \in Jobs, NEW v \in VMs
      PROVE  /\ apart(k, v).pc = work[k][v].pc /\ apart(k, v).loaded = work[k][v].loaded
             /\ ~apart(k, v).alone
  <2>1. DOMAIN work[k][v] = Fields
      BY DEF VInv, WorkSane, Sane
  <2>2. QED
      BY <2>1, FieldsAre
<1> HIDE DEF queued, apart
<1>5. \A v \in VMs : status[v] \in Statuses
    BY DEF Rows
<1>6. ASSUME NEW k \in Jobs, NEW v \in VMs PROVE work'[k][v].pc \notin Idle => Held(work'[k][v])
    BY <1>2, <1>3, <1>4 DEF Rows, Held, Idle
<1>7. ASSUME NEW k \in Jobs, NEW l \in Jobs, NEW v \in VMs, k # l,
             Held(work'[k][v]), Held(work'[l][v])
      PROVE  ~work'[k][v].alone
  <2>1. CASE k # j /\ l # j
    <3>1. Held(work[k][v]) /\ Held(work[l][v])
        BY <2>1, <1>2, <1>4, <1>7 DEF Held
    <3>2. ~work[k][v].alone
        BY <1>7, <3>1 DEF Rows
    <3>3. QED
        BY <2>1, <3>2, <1>2, <1>4
  <2>2. CASE k = j
    <3>1. Held(work[l][v])
        BY <2>2, <1>2, <1>4, <1>7 DEF Held
    <3>2. ~NobodyElseHas(j, v)
        BY <2>2, <1>7, <3>1 DEF NobodyElseHas, Held
    <3>3. CASE work'[k][v] = queued(v)
        BY <3>2, <3>3, <1>3
    <3>4. CASE work'[k][v] = work[k][v]
        BY <3>1, <3>4, <1>7 DEF Rows
    <3>5. QED
        BY <2>2, <3>3, <3>4, <1>2
  <2>3. CASE l = j
    <3>1. Held(work[k][v]) /\ k # j
        BY <2>3, <1>2, <1>4, <1>7 DEF Held
    <3>2. CASE work'[k][v] = apart(k, v)
        BY <3>2, <1>4
    <3>3. CASE work'[k][v] = work[k][v] /\ (kind \notin Shared \/ v \notin scope)
      <4>1. Held(work[l][v])
          BY <2>3, <3>3, <1>2, <1>3, <1>7 DEF Held
      <4>2. QED
          BY <3>1, <3>3, <4>1, <1>7 DEF Rows
    <3>4. QED
        BY <3>1, <3>2, <3>3, <1>2
  <2>4. QED
      BY <2>1, <2>2, <2>3
<1>8. ASSUME NEW k \in Jobs, NEW v \in VMs, Exists(v), work'[k][v].alone,
             work'[k][v].loaded \in {"validated", "failed"}
      PROVE  work'[k][v].loaded = status[v]
    BY <1>2, <1>3, <1>4, <1>8 DEF Rows
<1>9. ASSUME NEW k \in Jobs, NEW v \in VMs, latest[v] # none, latest[v].alone,
             work'[k][v].loaded \in Statuses
      PROVE  work'[k][v].loaded = StatusOf(latest[v].verdict)
  <2>1. status[v] = StatusOf(latest[v].verdict)
      BY <1>9 DEF Rows, StatusFollowsVerdict
  <2>2. \/ work'[k][v].loaded = work[k][v].loaded \/ work'[k][v].loaded = status[v]
        \/ work'[k][v].loaded = "unread"
      BY <1>2, <1>3, <1>4
  <2>3. QED
      BY <1>9, <2>1, <2>2 DEF Rows, Statuses
<1>10. StatusFollowsVerdict' /\ status' \in [VMs -> Statuses]
    BY <1>1, SMTT(60) DEF Rows, StatusFollowsVerdict
<1>11. QED
    BY <1>1, <1>6, <1>7, <1>8, <1>9, <1>10, SMTT(60) DEF Rows, Exists, Held, StatusOf

\* A turn begins with the row the session read, and with the others that hold it.
LEMMA BeginRows ==
    ASSUME VInv, Rows, NEW j \in Jobs, NEW v \in VMs, NEW row,
           row = status[v] \/ (row = work[j][v].loaded /\ row \in Statuses),
           Begin(j, v, row), UNCHANGED <<status, latest>>
    PROVE  Rows'
<1> DEFINE alone == work[j][v].alone /\ NobodyElseHas(j, v)
           turn(base) == [work[j] EXCEPT ![v].pc = "collecting", ![v].loaded = row, ![v].base = base,
                                         ![v].alone = alone]
<1>1. \/ Working(j, Finish(work[j], v, "failed"))
      \/ \E base \in Baselines(j, v) : work' = Crossed([work EXCEPT ![j] = turn(base)], j, v)
    BY DEF Begin
<1>2. ASSUME Working(j, Finish(work[j], v, "failed")) PROVE Rows'
  <2>1. DOMAIN work[j] = VMs /\ \A u \in VMs : Follows(work[j][u], work[j][u], u)
      BY WorkIsAlike, FollowsItself
  <2>2. QED
      BY <1>2, <2>1, FinishRows DEF Ended, Working
<1>3. ASSUME NEW base, work' = Crossed([work EXCEPT ![j] = turn(base)], j, v) PROVE Rows'
  <2> DEFINE begun == turn(base)
  <2>0. work' = Crossed([work EXCEPT ![j] = begun], j, v)
      BY <1>3
  <2>1. /\ DOMAIN work = Jobs /\ \A k \in Jobs : DOMAIN work[k] = VMs
        /\ \A k \in Jobs : DOMAIN work[k][v] = Fields
      BY DEF VInv, WorkSane, Sane
  <2> HIDE DEF alone
  <2>2. /\ \A u \in VMs \ {v} : begun[u] = work[j][u]
        /\ begun[v].pc = "collecting" /\ begun[v].loaded = row /\ begun[v].alone = alone
      BY <2>1, FieldsAre
  <2> HIDE DEF begun
  <2>3. \A k \in Jobs : [work EXCEPT ![j] = begun][k] = IF k = j THEN begun ELSE work[k]
      BY <2>1
  <2>4. /\ work'[j] = begun
        /\ \A k \in Jobs \ {j} :
              work'[k] = IF Held(work[k][v]) THEN [work[k] EXCEPT ![v].alone = FALSE] ELSE work[k]
      BY <2>0, <2>3 DEF Crossed, Held
  <2>5. ASSUME NEW k \in Jobs \ {j}
        PROVE  /\ \A u \in VMs \ {v} : work'[k][u] = work[k][u]
               /\ work'[k][v].pc = work[k][v].pc /\ work'[k][v].loaded = work[k][v].loaded
               /\ ~Held(work[k][v]) \/ ~work'[k][v].alone
    <3>1. CASE Held(work[k][v])
      <4>1. work'[k] = [work[k] EXCEPT ![v].alone = FALSE]
          BY <2>4, <3>1
      <4>2. QED
          BY <2>1, <4>1, FieldsAre
    <3>2. CASE ~Held(work[k][v])
        BY <2>4, <3>2
    <3>3. QED
        BY <3>1, <3>2
  <2>6. ASSUME NEW k \in Jobs, NEW u \in VMs, k # j \/ u # v
        PROVE  /\ work'[k][u].pc = work[k][u].pc /\ work'[k][u].loaded = work[k][u].loaded
               /\ work'[k][u].alone /\ Held(work[k][u]) => work[k][u].alone
               /\ u = v /\ Held(work[k][u]) => ~work'[k][u].alone
      BY <2>2, <2>4, <2>5, <2>6
  <2>7. row \in Statuses /\ "unread" \notin Statuses
      BY DEF Rows, Statuses
  <2>8. ASSUME NEW k \in Jobs, NEW u \in VMs PROVE work'[k][u].pc \notin Idle => Held(work'[k][u])
    <3>1. CASE k # j \/ u # v
        BY <2>6, <3>1 DEF Rows, Held
    <3>2. CASE k = j /\ u = v
        BY <2>2, <2>4, <2>7, <3>2 DEF Held
    <3>3. QED
        BY <3>1, <3>2
  <2>9. ASSUME NEW k \in Jobs, NEW l \in Jobs, NEW u \in VMs, k # l,
               Held(work'[k][u]), Held(work'[l][u])
        PROVE  ~work'[k][u].alone
    <3>1. CASE u # v
      <4>1. Held(work[k][u]) /\ Held(work[l][u])
          BY <2>6, <2>9, <3>1 DEF Held
      <4>2. QED
          BY <2>6, <2>9, <3>1, <4>1 DEF Rows
    <3>2. CASE u = v /\ k # j
      <4>1. Held(work[k][u])
          BY <2>6, <2>9, <3>2 DEF Held
      <4>2. QED
          BY <2>6, <3>2, <4>1
    <3>3. CASE u = v /\ k = j
      <4>1. Held(work[l][v]) /\ l # j
          BY <2>6, <2>9, <3>3 DEF Held
      <4>2. ~NobodyElseHas(j, v)
          BY <4>1 DEF NobodyElseHas, Held
      <4>3. work'[k][u].alone = alone
          BY <2>2, <2>4, <3>3
      <4>4. QED
          BY <4>2, <4>3 DEF alone
    <3>4. QED
        BY <3>1, <3>2, <3>3
  <2>10. ASSUME NEW k \in Jobs, NEW u \in VMs, Exists(u), work'[k][u].alone,
                work'[k][u].loaded \in {"validated", "failed"}
         PROVE  work'[k][u].loaded = status[u]
    <3>1. CASE k # j \/ u # v
      <4>1. Held(work[k][u])
          BY <2>6, <2>10, <3>1 DEF Held
      <4>2. QED
          BY <2>6, <2>10, <3>1, <4>1 DEF Rows
    <3>2. CASE k = j /\ u = v
      <4>1. work'[k][u].loaded = row /\ work'[k][u].alone = alone
          BY <2>2, <2>4, <3>2
      <4>2. work[j][v].alone
          BY <2>10, <4>1 DEF alone
      <4>3. QED
          BY <2>10, <3>2, <4>1, <4>2 DEF Rows
    <3>3. QED
        BY <3>1, <3>2
  <2>11. ASSUME NEW k \in Jobs, NEW u \in VMs, latest[u] # none, latest[u].alone,
                work'[k][u].loaded \in Statuses
         PROVE  work'[k][u].loaded = StatusOf(latest[u].verdict)
    <3>1. CASE k # j \/ u # v
        BY <2>6, <2>11, <3>1 DEF Rows
    <3>2. CASE k = j /\ u = v
      <4>1. work'[k][u].loaded = row
          BY <2>2, <2>4, <3>2
      <4>2. status[u] = StatusOf(latest[u].verdict)
          BY <2>11 DEF Rows, StatusFollowsVerdict
      <4>3. QED
          BY <2>11, <3>2, <4>1, <4>2 DEF Rows
    <3>3. QED
        BY <3>1, <3>2
  <2>12. StatusFollowsVerdict' /\ status' \in [VMs -> Statuses]
      BY DEF Rows, StatusFollowsVerdict
  <2>13. QED
      BY <2>8, <2>9, <2>10, <2>11, <2>12 DEF Rows, Exists, Held, StatusOf
<1>4. QED
    BY <1>1, <1>2, <1>3

LEMMA TurnRows ==
    ASSUME VInv, Rows, NEW j \in Jobs, NEW v \in VMs, RunTask(j, v) \/ NextInLoop(j, v)
    PROVE  Rows'
<1>1. UNCHANGED <<status, latest>>
    BY DEF RunTask, NextInLoop, database
<1>2. \/ Working(j, Finish(work[j], v, "failed")) \/ Abort(j, v)
      \/ Begin(j, v, status[v])
      \/ work[j][v].loaded \in Statuses /\ Begin(j, v, work[j][v].loaded)
    BY DEF RunTask, NextInLoop
<1>3. ASSUME Working(j, Finish(work[j], v, "failed")) PROVE Rows'
  <2>1. DOMAIN work[j] = VMs /\ \A u \in VMs : Follows(work[j][u], work[j][u], u)
      BY WorkIsAlike, FollowsItself
  <2>2. QED
      BY <1>1, <1>3, <2>1, FinishRows DEF Ended, Working
<1>4. QED
    BY <1>1, <1>2, <1>3, AbortRows, BeginRows

-----------------------------------------------------------------------------
(* Steps that write a status or a verdict *)

\* A stored row: j lets go of v, and what the others hold stays.
LEMMA StoredFollows ==
    ASSUME VInv, Rows, NEW j \in Jobs, NEW v \in VMs,
           work' = [work EXCEPT ![j] = Finish(AfterCommit(j, v), v, "completed")]
    PROVE  /\ \A k \in Jobs, u \in VMs : Follows(work'[k][u], work[k][u], u)
           /\ ~Held(work'[j][v]) /\ work'[j][v].loaded \notin Statuses
<1> DEFINE a == AfterCommit(j, v)
           f == Finish(a, v, "completed")
<1>1. DOMAIN a = VMs /\ \A u \in VMs : Follows(a[u], work[j][u], u)
    BY CommitLeavesAlike, CommitFollows
<1> HIDE DEF a
<1>2. "completed" \in Ended
    BY DEF Ended
<1>3. \A u \in VMs : Follows(f[u], work[j][u], u)
    BY <1>1, <1>2, FinishFollows
<1>4. f[v] = [NoWork EXCEPT !.pc = "completed"]
    BY <1>1 DEF Finish
<1>5. f[v].loaded = "unread"
    BY <1>4 DEF NoWork
<1>6. work' = [work EXCEPT ![j] = f]
    BY DEF a
<1> HIDE DEF f
<1>7. \A k \in Jobs, u \in VMs : Follows(work'[k][u], work[k][u], u)
    BY <1>3, <1>6, OneJobFollows
<1>8. work'[j] = f
    BY <1>6 DEF VInv, WorkSane
<1>9. QED
    BY <1>5, <1>7, <1>8 DEF Held, Statuses

\* What the stores share: the row of v changes while j holds it, and no other
\* session is alone with it.
LEMMA WriteRows ==
    ASSUME VInv, Rows, NEW j \in Jobs, NEW v \in VMs, Held(work[j][v]), Exists(v),
           work' = [work EXCEPT ![j] = Finish(AfterCommit(j, v), v, "completed")],
           status' \in [VMs -> Statuses],
           \A u \in VMs \ {v} : status'[u] = status[u] /\ latest'[u] = latest[u],
           \A k \in Jobs \ {j} : latest'[v] # none /\ latest'[v].alone /\ work'[k][v].loaded \in Statuses
                                    => work'[k][v].loaded = StatusOf(latest'[v].verdict),
           latest'[v] # none /\ latest'[v].alone => status'[v] = StatusOf(latest'[v].verdict)
    PROVE  Rows'
<1>1. /\ \A k \in Jobs, u \in VMs : Follows(work'[k][u], work[k][u], u)
      /\ ~Held(work'[j][v]) /\ work'[j][v].loaded \notin Statuses
    BY StoredFollows
<1>2. ASSUME NEW k \in Jobs, NEW u \in VMs PROVE work'[k][u].pc \notin Idle => Held(work'[k][u])
    BY <1>1 DEF Follows
<1>3. ASSUME NEW k \in Jobs, NEW l \in Jobs, NEW u \in VMs, k # l,
             Held(work'[k][u]), Held(work'[l][u])
      PROVE  ~work'[k][u].alone
  <2>1. Held(work[k][u]) /\ Held(work[l][u])
      BY <1>1, <1>3 DEF Follows
  <2>2. ~work[k][u].alone
      BY <1>3, <2>1 DEF Rows
  <2>3. QED
      BY <1>1, <1>3, <2>2 DEF Follows
<1>4. ASSUME NEW k \in Jobs, NEW u \in VMs, Exists(u)', work'[k][u].alone,
             work'[k][u].loaded \in {"validated", "failed"}
      PROVE  work'[k][u].loaded = status'[u]
  <2>1. Held(work'[k][u]) /\ work'[k][u].loaded \in Statuses
      BY <1>4 DEF Held, Statuses
  <2>2. Held(work[k][u]) /\ work[k][u].alone
      BY <1>1, <1>4, <2>1 DEF Follows
  <2>3. CASE u = v
    <3>1. k # j
        BY <1>1, <2>1, <2>3
    <3>2. QED
        BY <2>2, <2>3, <3>1 DEF Rows
  <2>4. CASE u # v
    <3>1. status'[u] = status[u] /\ Exists(u)
        BY <1>4, <2>4 DEF Exists
    <3>2. work'[k][u].loaded = work[k][u].loaded \/ work'[k][u].loaded = status[u]
        BY <1>1, <2>1 DEF Follows
    <3>3. QED
        BY <1>4, <2>2, <3>1, <3>2 DEF Rows
  <2>5. QED
      BY <2>3, <2>4
<1>5. ASSUME NEW k \in Jobs, NEW u \in VMs, latest'[u] # none, latest'[u].alone,
             work'[k][u].loaded \in Statuses
      PROVE  work'[k][u].loaded = StatusOf(latest'[u].verdict)
  <2>1. CASE u = v
      BY <1>1, <1>5, <2>1
  <2>2. CASE u # v
    <3>1. latest[u] = latest'[u] /\ status[u] = StatusOf(latest[u].verdict)
        BY <1>5, <2>2 DEF Rows, StatusFollowsVerdict
    <3>2. work'[k][u].loaded = work[k][u].loaded \/ work'[k][u].loaded = status[u]
        BY <1>1, <1>5 DEF Follows
    <3>3. QED
        BY <1>5, <3>1, <3>2 DEF Rows
  <2>3. QED
      BY <2>1, <2>2
<1>6. StatusFollowsVerdict'
  <2>1. ASSUME NEW u \in VMs, latest'[u] # none, latest'[u].alone
        PROVE  status'[u] = StatusOf(latest'[u].verdict)
      BY <2>1 DEF Rows, StatusFollowsVerdict
  <2>2. QED
      BY <2>1 DEF StatusFollowsVerdict, StatusOf
<1>7. QED
    BY <1>2, <1>3, <1>4, <1>5, <1>6 DEF Rows, Held, StatusOf

LEMMA StoreSnapshotRows ==
    ASSUME VInv, Rows, NEW j \in Jobs, NEW v \in VMs, StoreSnapshot(j, v) PROVE Rows'
<1> DEFINE w == work[j][v]
<1>1. /\ w.pc = "storing" /\ UNCHANGED latest
      /\ \/ Abort(j, v) /\ UNCHANGED status
         \/ /\ Exists(v)
            /\ status' = [status EXCEPT ![v] = IF w.loaded = "discovered" THEN "baseline_captured" ELSE @]
            /\ work' = [work EXCEPT ![j] = Finish(AfterCommit(j, v), v, "completed")]
    BY DEF StoreSnapshot, Working, Deleted
<1>2. CASE Abort(j, v) /\ UNCHANGED status
    BY <1>1, <1>2, AbortRows
<1>3. CASE /\ Exists(v)
           /\ status' = [status EXCEPT ![v] = IF w.loaded = "discovered" THEN "baseline_captured" ELSE @]
           /\ work' = [work EXCEPT ![j] = Finish(AfterCommit(j, v), v, "completed")]
  <2>1. Held(w)
      BY <1>1, HeldInTurn
  <2>2. status' \in [VMs -> Statuses] /\ \A u \in VMs \ {v} : status'[u] = status[u]
      BY <1>3 DEF Rows, Statuses
  <2>3. ASSUME latest[v] # none, latest[v].alone PROVE status'[v] = StatusOf(latest[v].verdict)
    <3>1. status[v] = StatusOf(latest[v].verdict)
        BY <2>3 DEF Rows, StatusFollowsVerdict
    <3>2. w.loaded # "discovered"
        BY <2>3 DEF Rows, StatusOf, Statuses
    <3>3. QED
        BY <1>3, <3>1, <3>2 DEF Rows
  <2>4. ASSUME NEW k \in Jobs \ {j}, latest[v] # none, latest[v].alone,
               work'[k][v].loaded \in Statuses
        PROVE  work'[k][v].loaded = StatusOf(latest[v].verdict)
    <3>1. Follows(work'[k][v], work[k][v], v)
        BY <1>3, StoredFollows
    <3>2. work'[k][v].loaded = work[k][v].loaded \/ work'[k][v].loaded = status[v]
        BY <2>4, <3>1 DEF Follows
    <3>3. status[v] = StatusOf(latest[v].verdict)
        BY <2>4 DEF Rows, StatusFollowsVerdict
    <3>4. QED
        BY <2>4, <3>2, <3>3 DEF Rows
  <2>5. latest' = latest
      BY <1>1
  <2>6. latest'[v] # none /\ latest'[v].alone => status'[v] = StatusOf(latest'[v].verdict)
      BY <2>3, <2>5
  <2>7. \A k \in Jobs \ {j} : latest'[v] # none /\ latest'[v].alone /\ work'[k][v].loaded \in Statuses
                                => work'[k][v].loaded = StatusOf(latest'[v].verdict)
      BY <2>4, <2>5
  <2>8. \A u \in VMs \ {v} : status'[u] = status[u] /\ latest'[u] = latest[u]
      BY <2>2, <2>5
  <2> HIDE DEF w
  <2>9. Held(work[j][v])
      BY <2>1 DEF w
  <2>10. QED
      BY <1>3, <2>2, <2>6, <2>7, <2>8, <2>9, WriteRows
<1>4. QED
    BY <1>1, <1>2, <1>3

LEMMA StoreResultRows ==
    ASSUME VInv, Rows, NEW j \in Jobs, NEW v \in VMs, StoreResult(j, v) PROVE Rows'
<1> DEFINE w == work[j][v]
           new == StatusOf(w.verdict)
           result == [verdict |-> w.verdict, source |-> w.source,
                      base |-> w.base, now |-> w.now, alone |-> w.alone]
<1>1. /\ w.pc = "storing"
      /\ \/ Abort(j, v) /\ UNCHANGED <<status, latest>>
         \/ /\ Exists(v)
            /\ latest' = [latest EXCEPT ![v] = result]
            /\ status' = [status EXCEPT ![v] = IF w.loaded = new THEN @ ELSE new]
            /\ work' = [work EXCEPT ![j] = Finish(AfterCommit(j, v), v, "completed")]
    BY DEF StoreResult, Working, Deleted
<1>2. CASE Abort(j, v) /\ UNCHANGED <<status, latest>>
    BY <1>2, AbortRows
<1>3. CASE /\ Exists(v)
           /\ latest' = [latest EXCEPT ![v] = result]
           /\ status' = [status EXCEPT ![v] = IF w.loaded = new THEN @ ELSE new]
           /\ work' = [work EXCEPT ![j] = Finish(AfterCommit(j, v), v, "completed")]
  <2>1. Held(w)
      BY <1>1, HeldInTurn
  <2>2. new \in {"validated", "failed"} /\ new \in Statuses
      BY DEF StatusOf, Statuses
  <2>3. result.verdict = w.verdict /\ result.alone = w.alone
      OBVIOUS
  <2> HIDE DEF result
  <2>4. /\ latest'[v] = result
        /\ \A u \in VMs \ {v} : latest'[u] = latest[u]
      BY <1>3 DEF VInv, LatestSane
  <2>5. /\ status' \in [VMs -> Statuses] /\ \A u \in VMs \ {v} : status'[u] = status[u]
        /\ status'[v] = IF w.loaded = new THEN status[v] ELSE new
      BY <1>3, <2>2 DEF Rows
  <2>6. ASSUME latest'[v].alone PROVE status'[v] = new
    <3>1. w.alone
        BY <2>3, <2>4, <2>6
    <3>2. w.loaded = new => w.loaded = status[v]
        BY <1>3, <2>2, <3>1 DEF Rows
    <3>3. QED
        BY <2>5, <3>2
  <2>7. ASSUME NEW k \in Jobs \ {j}, latest'[v].alone, work'[k][v].loaded \in Statuses
        PROVE  FALSE
    <3>1. Follows(work'[k][v], work[k][v], v)
        BY <1>3, StoredFollows
    <3>2. Held(work[k][v])
        BY <2>7, <3>1 DEF Follows, Held, Statuses
    <3>3. ~w.alone
        BY <2>1, <3>2 DEF Rows
    <3>4. QED
        BY <2>3, <2>4, <2>7, <3>3
  <2>8. StatusOf(latest'[v].verdict) = new
      BY <2>3, <2>4
  <2> HIDE DEF w, new
  <2>9. latest'[v] # none /\ latest'[v].alone => status'[v] = StatusOf(latest'[v].verdict)
      BY <2>6, <2>8
  <2>10. QED
      BY <1>3, <2>1, <2>4, <2>5, <2>7, <2>9, WriteRows DEF w
<1>4. QED
    BY <1>1, <1>2, <1>3

LEMMA EnvironmentRows ==
    ASSUME VInv, Rows,
           \/ \E v \in VMs, state \in Guests : PostSnapshot(v, state) \/ GuestChanges(v, state)
           \/ \E v \in VMs, new \in Settable : PatchStatus(v, new)
           \/ \E v \in VMs : DeleteVM(v)
           \/ \E key \in DOMAIN cache : EntryExpires(key)
    PROVE  Rows'
<1>1. ASSUME NEW v \in VMs, NEW state \in Guests, PostSnapshot(v, state) PROVE Rows'
  <2>1. /\ UNCHANGED <<latest, work>>
        /\ status' = [status EXCEPT ![v] = IF @ = "discovered" THEN "baseline_captured" ELSE @]
      BY <1>1 DEF PostSnapshot
  <2>2. /\ status' \in [VMs -> Statuses]
        /\ \A u \in VMs : /\ status'[u] = status[u] \/ status[u] = "discovered"
                          /\ (status'[u] # "deleted") = (status[u] # "deleted")
      BY <2>1 DEF Rows, Statuses
  <2>3. StatusFollowsVerdict'
      BY <2>1, <2>2 DEF Rows, StatusFollowsVerdict, StatusOf
  <2>4. QED
      BY <2>1, <2>2, <2>3 DEF Rows, Exists, Held, StatusOf
<1>2. ASSUME NEW v \in VMs, NEW state \in Guests, GuestChanges(v, state) PROVE Rows'
    BY <1>2 DEF GuestChanges, database, Rows, StatusFollowsVerdict, Exists, Held, StatusOf
<1>3. ASSUME NEW key \in DOMAIN cache, EntryExpires(key) PROVE Rows'
    BY <1>3 DEF EntryExpires, Rows, StatusFollowsVerdict, Exists, Held, StatusOf
<1>4. ASSUME NEW v \in VMs, DeleteVM(v) PROVE Rows'
  <2>1. /\ UNCHANGED work
        /\ status' \in [VMs -> Statuses] /\ status'[v] = "deleted"
        /\ \A u \in VMs \ {v} : status'[u] = status[u] /\ latest'[u] = latest[u]
        /\ latest'[v] = none
      BY <1>4 DEF DeleteVM, Rows, VInv, LatestSane, Statuses
  <2>2. StatusFollowsVerdict'
      BY <2>1 DEF Rows, StatusFollowsVerdict, StatusOf
  <2>3. QED
      BY <2>1, <2>2 DEF Rows, Exists, Held, StatusOf
<1>5. ASSUME NEW v \in VMs, NEW new \in Settable, PatchStatus(v, new) PROVE Rows'
  <2>1. /\ status' \in [VMs -> Statuses]
        /\ \A u \in VMs \ {v} : status'[u] = status[u] /\ latest'[u] = latest[u]
        /\ latest'[v] = IF latest[v] = none THEN latest[v] ELSE [latest[v] EXCEPT !.alone = FALSE]
      BY <1>5, SettableAssumption DEF PatchStatus, Untied, Rows, VInv, LatestSane
  <2>2. ~(latest'[v] # none /\ latest'[v].alone)
    <3>1. latest[v] # none => "alone" \in DOMAIN latest[v]
        BY DEF VInv, LatestSane
    <3>2. QED
        BY <2>1, <3>1
  <2>3. ASSUME NEW k \in Jobs
        PROVE  /\ \A u \in VMs \ {v} : work'[k][u] = work[k][u]
               /\ work'[k][v].pc = work[k][v].pc /\ work'[k][v].loaded = work[k][v].loaded
               /\ work'[k][v].alone => ~Held(work[k][v])
    <3>1. DOMAIN work[k] = VMs /\ DOMAIN work[k][v] = Fields
        BY DEF VInv, WorkSane, Sane
    <3> DEFINE flag == work[k][v].alone /\ work[k][v].loaded = "unread"
    <3>2. work'[k] = [work[k] EXCEPT ![v].alone = flag]
        BY <1>5 DEF PatchStatus, Untied
    <3>3. flag => ~Held(work[k][v])
        BY DEF Held
    <3> HIDE DEF flag
    <3>4. /\ \A u \in VMs \ {v} : work'[k][u] = work[k][u]
          /\ work'[k][v].pc = work[k][v].pc /\ work'[k][v].loaded = work[k][v].loaded
          /\ work'[k][v].alone = flag
        BY <3>1, <3>2, FieldsAre
    <3>5. QED
        BY <3>3, <3>4
  <2>4. ASSUME NEW k \in Jobs, NEW u \in VMs PROVE work'[k][u].pc \notin Idle => Held(work'[k][u])
      BY <2>3 DEF Rows, Held
  <2>5. ASSUME NEW k \in Jobs, NEW l \in Jobs, NEW u \in VMs, k # l,
               Held(work'[k][u]), Held(work'[l][u])
        PROVE  ~work'[k][u].alone
      BY <2>3, <2>5 DEF Rows, Held
  <2>6. ASSUME NEW k \in Jobs, NEW u \in VMs, Exists(u)', work'[k][u].alone,
               work'[k][u].loaded \in {"validated", "failed"}
        PROVE  work'[k][u].loaded = status'[u]
      BY <2>1, <2>3, <2>6 DEF Rows, Held, Exists
  <2>7. ASSUME NEW k \in Jobs, NEW u \in VMs, latest'[u] # none, latest'[u].alone,
               work'[k][u].loaded \in Statuses
        PROVE  work'[k][u].loaded = StatusOf(latest'[u].verdict)
    <3>1. u # v /\ latest'[u] = latest[u] /\ work'[k][u] = work[k][u]
        BY <2>1, <2>2, <2>3, <2>7
    <3>2. QED
        BY <2>7, <3>1 DEF Rows
  <2>8. StatusFollowsVerdict'
    <3>1. ASSUME NEW u \in VMs, latest'[u] # none, latest'[u].alone
          PROVE  status'[u] = StatusOf(latest'[u].verdict)
        BY <2>1, <2>2, <3>1 DEF Rows, StatusFollowsVerdict
    <3>2. QED
        BY <3>1 DEF StatusFollowsVerdict, StatusOf
  <2>9. QED
      BY <2>1, <2>4, <2>5, <2>6, <2>7, <2>8 DEF Rows, Held, StatusOf
<1>6. QED
    BY <1>1, <1>2, <1>3, <1>4, <1>5

LEMMA RestartRows ==
    ASSUME VInv, Rows, Restart PROVE Rows'
<1>1. UNCHANGED <<status, latest>> /\ \A j \in Jobs, v \in VMs : work'[j][v] = NoWork
    BY DEF Restart, database
<1>2. NoWork.pc = "none" /\ NoWork.loaded = "unread"
    BY DEF NoWork
<1>3. ASSUME NEW j \in Jobs, NEW v \in VMs PROVE Follows(work'[j][v], work[j][v], v)
    BY <1>1, <1>2 DEF Follows, Held, Statuses, Idle, Ended
<1>4. QED
    BY <1>1, <1>3, FollowsKeepsRows

-----------------------------------------------------------------------------
(* The theorem *)

LEMMA StepRows ==
    ASSUME VInv, Rows, NEW j \in Jobs, NEW v \in VMs, Step(j, v) PROVE Rows'
<1>1. CASE RunTask(j, v) \/ NextInLoop(j, v)
    BY <1>1, TurnRows
<1>2. CASE \E flag \in BOOLEAN : \/ CaptureCollected(j, v, flag) \/ ValidationCollected(j, v, flag)
                                 \/ CollectionFails(j, v, flag)
    BY <1>2, CollectedRows, CollectionEndsRows
<1>3. CASE ConnectionDrops(j, v)
    BY <1>3, CollectionEndsRows
<1>4. CASE CacheHit(j, v) \/ CacheStored(j, v)
  <2>1. UNCHANGED <<status, latest>>
      BY <1>4 DEF CacheHit, CacheStored, database
  <2>2. QED
      BY <1>4, <2>1, ReadRows
<1>5. CASE \/ CacheMiss(j, v) \/ GuardrailFlags(j, v)
           \/ \E answer \in Answers : Answered(j, v, answer) \/ Rejected(j, v, answer)
    BY <1>5, AskingRows
<1>6. CASE BackendFails(j, v) \/ BackendRaises(j, v)
    BY <1>6, BackendFailureRows
<1>7. CASE StoreSnapshot(j, v) \/ StoreResult(j, v)
    BY <1>7, StoreSnapshotRows, StoreResultRows
<1>8. QED
    BY <1>1, <1>2, <1>3, <1>4, <1>5, <1>6, <1>7 DEF Step

LEMMA NextRows == VInv /\ Rows /\ [Next]_vars => Rows'
<1> SUFFICES ASSUME VInv, Rows, [Next]_vars PROVE Rows'
    OBVIOUS
<1>1. ASSUME NEW j \in Jobs, NEW v \in VMs, TriggerCapture(j, v) \/ TriggerValidation(j, v)
      PROVE  Rows'
    BY <1>1, StartRows DEF TriggerCapture, TriggerValidation, Kinds
<1>2. ASSUME NEW j \in Jobs, CaptureAll(j) \/ ValidateAll(j) \/ CollectBaselinesForAllVMs(j)
      PROVE  Rows'
  <2>1. Present \in SUBSET VMs /\ WithBaseline \in SUBSET VMs
      BY DEF Present, WithBaseline
  <2>2. QED
      BY <1>2, <2>1, StartRows DEF CaptureAll, ValidateAll, CollectBaselinesForAllVMs, Kinds
<1>3. ASSUME NEW j \in Jobs, NEW scope \in SUBSET VMs,
             CaptureBulk(j, scope) \/ RunBulk(j, scope) \/ FireSchedule(j, scope)
      PROVE  Rows'
  <2>1. scope \cap Present \in SUBSET VMs /\ scope \cap WithBaseline \in SUBSET VMs
      OBVIOUS
  <2>2. QED
      BY <1>3, <2>1, StartRows DEF CaptureBulk, RunBulk, FireSchedule, Kinds
<1>4. ASSUME NEW j \in Jobs, NEW v \in VMs, Step(j, v) PROVE Rows'
    BY <1>4, StepRows
<1>5. CASE Restart
    BY <1>5, RestartRows
<1>6. CASE UNCHANGED vars
    BY <1>6 DEF vars, Rows, StatusFollowsVerdict, Exists, Held, StatusOf
<1>7. QED
    BY <1>1, <1>2, <1>3, <1>4, <1>5, <1>6, EnvironmentRows DEF Next

\* core/validation.py: the status of a VM is that of its latest verdict, unless
\* two sessions held the VM at once or an operator set it, for any number of
\* jobs, VMs, deletions and restarts.
THEOREM StatusIsThatOfTheVerdict == Spec => []StatusFollowsVerdict
<1>1. Rows => StatusFollowsVerdict
    BY DEF Rows
<1>2. QED
    BY <1>1, InitSane, InitRows, NextSane, NextRows, PTL DEF Spec

-----------------------------------------------------------------------------
(* Types                                                                   *)
(*                                                                         *)
(* TypeOK says less than a step needs: a validation that asks the model    *)
(* has both states to ask about, one that stores has a verdict, and the    *)
(* snapshots of a VM outnumber those it started with and was posted by at  *)
(* most one for every job that is done with it.                            *)

Points == Ended \cup {"queued", "collecting", "reasoning", "asking", "asking_again", "caching", "storing"}
Numbers == 0 .. MaxSnapshots + Cardinality(Jobs) + 1

\* What the point a task has reached says of its record.
Shaped(w, kind) ==
    /\ w \in Work
    /\ w.pc \in Ended => w = [NoWork EXCEPT !.pc = w.pc]
    /\ w.pc = "collecting" /\ kind \notin Captures => w.base \in Guests
    /\ w.pc \in Undecided \cup {"caching"} => w.base \in Guests /\ w.now \in Guests
    /\ w.pc = "caching" => w.verdict \in Verdicts /\ w.source # "none"
    /\ w.pc = "storing" => w.now \in Guests
    /\ w.pc = "storing" /\ kind \notin Captures =>
          w.base \in Guests /\ w.verdict \in Verdicts /\ w.source # "none"

WorkShaped(works, kinds) ==
    /\ works \in [Jobs -> [VMs -> Work]]
    /\ \A j \in Jobs, v \in VMs : Shaped(works[j][v], kinds[j])

\* The jobs that started and have nothing more to do with v.
DoneWith(works, kinds, v) == {j \in Jobs : kinds[j] # "idle" /\ works[j][v].pc \in Ended}

FewSnapshots(stored, works, kinds) ==
    /\ stored \in [VMs -> Seq(Guests)]
    /\ \A v \in VMs : Len(stored[v]) <= MaxSnapshots + Cardinality(DoneWith(works, kinds, v))

CacheTyped(entries) ==
    /\ DOMAIN entries \subseteq Keys
    /\ \A key \in DOMAIN entries : entries[key] \in [verdict : Verdicts, fresh : BOOLEAN]

TInv ==
    /\ guest \in [VMs -> Guests]
    /\ latest \in [VMs -> Results \cup {none}]
    /\ CacheTyped(cache)
    /\ jobs \in [Jobs -> Kinds \cup {"idle", "lost"}]
    /\ WorkShaped(work, jobs)
    /\ FewSnapshots(snapshots, work, jobs)
    /\ answered \subseteq Keys \X Verdicts
    /\ events \in 0 .. MaxEvents

\* A step of a task leaves a record shaped, and done if it was.
Kept(b, a, kind) == Shaped(b, kind) /\ (a.pc \in Ended => b.pc \in Ended)

JobKept(w, j) == w \in [VMs -> Work] /\ \A u \in VMs : Kept(w[u], work[j][u], jobs[j])

LEMMA WorkFields ==
    ASSUME NEW w \in Work
    PROVE  /\ DOMAIN w = Fields /\ w.pc \in Points
           /\ w.loaded \in Statuses \cup {"unread", "expired"} /\ w.alone \in BOOLEAN
           /\ w.base \in Guests \cup {none} /\ w.now \in Guests \cup {none}
           /\ w.number \in Numbers /\ w.verdict \in Verdicts \cup {"none"}
           /\ w.source \in {"none", "rule", "cache", "model", "review"} /\ w.row \in BOOLEAN
BY FieldsAre DEF Work, Points, Numbers

LEMMA FieldsGiven ==
    /\ \A w \in Work, pc \in Points : [w EXCEPT !.pc = pc] \in Work
    /\ \A w \in Work, row \in Statuses \cup {"unread", "expired"} : [w EXCEPT !.loaded = row] \in Work
    /\ \A w \in Work, alone \in BOOLEAN : [w EXCEPT !.alone = alone] \in Work
    /\ \A w \in Work, state \in Guests : [w EXCEPT !.now = state] \in Work
<1> DEFINE numbers == Numbers
<1>1. Work = [pc : Points, loaded : Statuses \cup {"unread", "expired"}, alone : BOOLEAN,
              base : Guests \cup {none}, now : Guests \cup {none}, number : numbers,
              verdict : Verdicts \cup {"none"}, source : {"none", "rule", "cache", "model", "review"},
              row : BOOLEAN]
    BY DEF Work, Points, Numbers
<1> HIDE DEF numbers
<1>2. QED
    BY <1>1

LEMMA NumbersAre ==
    /\ Cardinality(Jobs) \in Nat
    /\ 0 \in Numbers
BY JobsAssumption, SnapshotAssumption, FS_CardinalityType DEF Numbers

LEMMA NoWorkTyped ==
    \A pc \in Ended : \A kind : Shaped([NoWork EXCEPT !.pc = pc], kind)
<1> SUFFICES ASSUME NEW pc \in Ended, NEW kind PROVE Shaped([NoWork EXCEPT !.pc = pc], kind)
    OBVIOUS
<1> DEFINE n == [NoWork EXCEPT !.pc = pc]
           numbers == Numbers
<1>1. 0 \in numbers
    BY NumbersAre
<1>2. n \in Work
  <2>1. Work = [pc : Points, loaded : Statuses \cup {"unread", "expired"}, alone : BOOLEAN,
                base : Guests \cup {none}, now : Guests \cup {none}, number : numbers,
                verdict : Verdicts \cup {"none"}, source : {"none", "rule", "cache", "model", "review"},
                row : BOOLEAN]
      BY DEF Work, Points, Numbers
  <2> HIDE DEF numbers
  <2>2. QED
      BY <1>1, <2>1 DEF NoWork, Points
<1>3. n.pc = pc
    BY DEF NoWork
<1> HIDE DEF n, numbers
<1>4. Shaped(n, kind)
    BY <1>2, <1>3 DEF Shaped, n, Ended, Undecided
<1>5. QED
    BY <1>4 DEF n

LEMMA NoWorkIs == NoWork = [NoWork EXCEPT !.pc = "none"]
<1> DEFINE numbers == Numbers
<1>1. 0 \in numbers
    BY NumbersAre
<1>2. Work = [pc : Points, loaded : Statuses \cup {"unread", "expired"}, alone : BOOLEAN,
              base : Guests \cup {none}, now : Guests \cup {none}, number : numbers,
              verdict : Verdicts \cup {"none"}, source : {"none", "rule", "cache", "model", "review"},
              row : BOOLEAN]
    BY DEF Work, Points, Numbers
<1> HIDE DEF numbers
<1>3. NoWork \in Work /\ NoWork.pc = "none"
    BY <1>1, <1>2 DEF NoWork, Points, Ended
<1>4. \A w \in Work : w.pc = "none" => w = [w EXCEPT !.pc = "none"]
    BY <1>2
<1>5. QED
    BY <1>3, <1>4

-----------------------------------------------------------------------------
(* Kept records *)

LEMMA ShapedOf ==
    ASSUME TInv, NEW j \in Jobs, NEW v \in VMs
    PROVE  Shaped(work[j][v], jobs[j]) /\ work[j][v] \in Work /\ DOMAIN work[j] = VMs
BY DEF TInv, WorkShaped, Shaped

\* A record at the same point with the same conclusion is shaped alike.
LEMMA AlikeIsShaped ==
    ASSUME NEW a, NEW b \in Work, NEW kind, Shaped(a, kind), Alike(b, a), a.pc \notin Ended
    PROVE  Kept(b, a, kind)
BY DEF Kept, Shaped, Alike

\* What holds a row is not done.
LEMMA HoldsNotDone ==
    ASSUME NEW w, NEW kind, Shaped(w, kind), w.loaded # "unread"
    PROVE  w.pc \notin Ended
<1>1. \A pc : [NoWork EXCEPT !.pc = pc].loaded = "unread"
    BY DEF NoWork
<1>2. QED
    BY <1>1 DEF Shaped

LEMMA ItselfKept ==
    ASSUME TInv, NEW j \in Jobs PROVE JobKept(work[j], j)
<1>1. work[j] \in [VMs -> Work]
    BY DEF TInv, WorkShaped
<1>2. QED
    BY <1>1, ShapedOf DEF JobKept, Kept

\* One record of a job replaced by one that is kept.
LEMMA OneRecordKept ==
    ASSUME TInv, NEW j \in Jobs, NEW v \in VMs, NEW b, NEW r, JobKept(b, j),
           Kept(r, work[j][v], jobs[j])
    PROVE  JobKept([b EXCEPT ![v] = r], j)
<1> DEFINE w == [b EXCEPT ![v] = r]
<1>1. b \in [VMs -> Work] /\ r \in Work
    BY DEF JobKept, Kept, Shaped
<1>2. w \in [VMs -> Work] /\ \A u \in VMs : w[u] = IF u = v THEN r ELSE b[u]
    BY <1>1
<1> HIDE DEF w
<1>3. JobKept(w, j)
    BY <1>2 DEF JobKept
<1>4. QED
    BY <1>3 DEF w

LEMMA CommitKept ==
    ASSUME TInv, NEW j \in Jobs, NEW v \in VMs PROVE JobKept(AfterCommit(j, v), j)
<1> DEFINE a == AfterCommit(j, v)
<1>1. a = [u \in VMs |-> a[u]] /\ \A u \in VMs :
          \/ a[u] = work[j][u]
          \/ work[j][u].loaded \in Statuses /\ a[u] = [work[j][u] EXCEPT !.loaded = "expired"]
    BY DEF AfterCommit
<1> HIDE DEF a
<1>2. ASSUME NEW u \in VMs PROVE a[u] \in Work /\ Kept(a[u], work[j][u], jobs[j])
  <2>1. Shaped(work[j][u], jobs[j]) /\ work[j][u] \in Work
      BY ShapedOf
  <2>2. CASE a[u] = work[j][u]
      BY <2>1, <2>2 DEF Kept
  <2>3. CASE work[j][u].loaded \in Statuses /\ a[u] = [work[j][u] EXCEPT !.loaded = "expired"]
    <3>1. a[u] \in Work
        BY <2>1, <2>3, FieldsGiven
    <3>2. work[j][u].pc \notin Ended
        BY <2>1, <2>3, HoldsNotDone DEF Statuses
    <3>3. Alike(a[u], work[j][u])
        BY <2>1, <2>3, WorkFields, FieldsAre DEF Alike
    <3>4. QED
        BY <2>1, <3>1, <3>2, <3>3, AlikeIsShaped
  <2>4. QED
      BY <1>1, <2>2, <2>3
<1>3. JobKept(a, j)
    BY <1>1, <1>2 DEF JobKept
<1>4. QED
    BY <1>3 DEF a

\* The row of v read again after a commit.
LEMMA ReadKept ==
    ASSUME TInv, VInv, Rows, NEW j \in Jobs, NEW v \in VMs, work[j][v].pc \notin Ended
    PROVE  JobKept([AfterCommit(j, v) EXCEPT ![v].loaded = status[v]], j)
<1> DEFINE a == AfterCommit(j, v)
           r == [a[v] EXCEPT !.loaded = status[v]]
<1>1. JobKept(a, j) /\ Alike(a[v], work[j][v])
    BY CommitKept, CommitLeavesAlike
<1>2. [a EXCEPT ![v].loaded = status[v]] = [a EXCEPT ![v] = r]
    BY <1>1 DEF JobKept
<1> HIDE DEF a
<1>3. a[v] \in Work /\ status[v] \in Statuses
    BY <1>1 DEF JobKept, Rows
<1>4. r \in Work
    BY <1>3, FieldsGiven
<1>5. Alike(r, work[j][v])
    BY <1>1, <1>3, WorkFields, FieldsAre DEF Alike
<1> HIDE DEF r
<1>6. Kept(r, work[j][v], jobs[j])
    BY <1>4, <1>5, ShapedOf, AlikeIsShaped
<1>7. QED
    BY <1>1, <1>2, <1>6, OneRecordKept DEF a

LEMMA FinishKept ==
    ASSUME TInv, NEW j \in Jobs, NEW v \in VMs, NEW w, NEW pc \in Ended, JobKept(w, j)
    PROVE  JobKept(Finish(w, v, pc), j)
<1> DEFINE n == [NoWork EXCEPT !.pc = pc]
<1>1. Shaped(n, jobs[j])
    BY NoWorkTyped
<1>2. n.pc = pc
    BY DEF NoWork
<1> HIDE DEF n
<1>3. Kept(n, work[j][v], jobs[j])
    BY <1>1, <1>2 DEF Kept
<1>4. JobKept([w EXCEPT ![v] = n], j)
    BY <1>3, OneRecordKept
<1>5. QED
    BY <1>4 DEF Finish, n

\* A session that has the row and is no longer alone with it.
LEMMA CrossedKept ==
    ASSUME TInv, NEW k \in Jobs, NEW v \in VMs, work[k][v].loaded # "unread"
    PROVE  JobKept([work[k] EXCEPT ![v].alone = FALSE], k)
<1> DEFINE n == [work[k][v] EXCEPT !.alone = FALSE]
<1>1. Shaped(work[k][v], jobs[k]) /\ work[k][v] \in Work /\ DOMAIN work[k] = VMs
    BY ShapedOf
<1>2. [work[k] EXCEPT ![v].alone = FALSE] = [work[k] EXCEPT ![v] = n]
    BY <1>1
<1>3. n \in Work
  <2>1. FALSE \in BOOLEAN
      OBVIOUS
  <2>2. QED
      BY <1>1, <2>1, FieldsGiven
<1>4. Alike(n, work[k][v])
    BY <1>1, WorkFields, FieldsAre DEF Alike
<1> HIDE DEF n
<1>5. Kept(n, work[k][v], jobs[k])
    BY <1>1, <1>3, <1>4, HoldsNotDone, AlikeIsShaped
<1>6. QED
    BY <1>2, <1>5, ItselfKept, OneRecordKept

\* The work of all jobs after a step of one of them.
WorksKept(works) == works \in [Jobs -> [VMs -> Work]] /\ \A k \in Jobs : JobKept(works[k], k)

LEMMA OneJobKept ==
    ASSUME TInv, NEW j \in Jobs, NEW w, JobKept(w, j)
    PROVE  WorksKept([work EXCEPT ![j] = w])
<1> DEFINE after == [work EXCEPT ![j] = w]
<1>1. work \in [Jobs -> [VMs -> Work]] /\ w \in [VMs -> Work]
    BY DEF TInv, WorkShaped, JobKept
<1>2. after \in [Jobs -> [VMs -> Work]] /\ \A k \in Jobs : after[k] = IF k = j THEN w ELSE work[k]
    BY <1>1
<1> HIDE DEF after
<1>3. WorksKept(after)
    BY <1>2, ItselfKept DEF WorksKept
<1>4. QED
    BY <1>3 DEF after

LEMMA AbortKept ==
    ASSUME TInv, NEW j \in Jobs, NEW v \in VMs, Abort(j, v)
    PROVE  WorksKept(work')
<1>1. CASE jobs[j] = "bulk_capture"
  <2>1. JobKept(Finish(work[j], v, "failed"), j)
      BY ItselfKept, FinishKept DEF Ended
  <2>2. QED
      BY <1>1, <2>1, OneJobKept DEF Abort
<1>2. CASE jobs[j] # "bulk_capture"
  <2> DEFINE s == Strand(work[j], v)
             n == [NoWork EXCEPT !.pc = "stranded"]
  <2>1. s = [u \in VMs |-> s[u]] /\ \A u \in VMs : s[u] = work[j][u] \/ s[u] = n
      BY DEF Strand
  <2>2. Shaped(n, jobs[j]) /\ n.pc \in Ended
    <3>1. "stranded" \in Ended
        BY DEF Ended
    <3>2. n.pc = "stranded"
        BY DEF NoWork
    <3>3. QED
        BY <3>1, <3>2, NoWorkTyped
  <2> HIDE DEF s, n
  <2>3. ASSUME NEW u \in VMs PROVE s[u] \in Work /\ Kept(s[u], work[j][u], jobs[j])
    <3>1. n \in Work
        BY <2>2 DEF Shaped
    <3>2. QED
        BY <2>1, <2>2, <3>1, ShapedOf DEF Kept
  <2>4. JobKept(s, j)
      BY <2>1, <2>3 DEF JobKept
  <2>5. QED
      BY <1>2, <2>4, OneJobKept DEF Abort, s
<1>3. QED
    BY <1>1, <1>2

\* As long as no job that was done with a VM is at it again, its snapshots stay few.
LEMMA MoreAreDone ==
    ASSUME TInv, UNCHANGED snapshots,
           \A v \in VMs : DoneWith(work, jobs, v) \subseteq DoneWith(work', jobs', v)
    PROVE  FewSnapshots(snapshots', work', jobs')
<1>1. ASSUME NEW v \in VMs
      PROVE  Len(snapshots[v]) <= MaxSnapshots + Cardinality(DoneWith(work', jobs', v))
  <2> DEFINE before == DoneWith(work, jobs, v)
             after == DoneWith(work', jobs', v)
  <2>1. before \subseteq after
      OBVIOUS
  <2>2. after \in SUBSET Jobs
      BY DEF DoneWith
  <2> HIDE DEF before, after
  <2>3. Cardinality(before) <= Cardinality(after) /\ Cardinality(before) \in Nat /\ Cardinality(after) \in Nat
      BY <2>1, <2>2, JobsAssumption, FS_Subset, FS_CardinalityType
  <2>4. Len(snapshots[v]) <= MaxSnapshots + Cardinality(before) /\ Len(snapshots[v]) \in Nat
      BY DEF TInv, FewSnapshots, before
  <2>5. Len(snapshots[v]) <= MaxSnapshots + Cardinality(after)
      BY <2>3, <2>4, SnapshotAssumption
  <2>6. QED
      BY <2>5 DEF after
<1>2. QED
    BY <1>1 DEF FewSnapshots, TInv

\* A step of a task that leaves the snapshots alone.
LEMMA KeptIsShaped ==
    ASSUME TInv, WorksKept(work'), UNCHANGED <<jobs, snapshots>>
    PROVE  WorkShaped(work', jobs') /\ FewSnapshots(snapshots', work', jobs')
<1>1. WorkShaped(work', jobs')
    BY DEF WorksKept, JobKept, Kept, WorkShaped
<1>2. \A v \in VMs : DoneWith(work, jobs, v) \subseteq DoneWith(work', jobs', v)
    BY DEF DoneWith, WorksKept, JobKept, Kept
<1>3. QED
    BY <1>1, <1>2, MoreAreDone

\* Such a step, when it leaves the rest alone as well.
LEMMA OnlyWorkTyped ==
    ASSUME TInv, WorksKept(work'),
           UNCHANGED <<guest, snapshots, latest, cache, jobs, answered, events>>
    PROVE  TInv'
BY KeptIsShaped DEF TInv

\* A VM's turn that goes on.
LEMMA TurnKept ==
    ASSUME TInv, NEW j \in Jobs, NEW v \in VMs, NEW b, NEW r, JobKept(b, j),
           work[j][v].pc \notin Ended, Shaped(r, jobs[j]), work' = [work EXCEPT ![j] = [b EXCEPT ![v] = r]]
    PROVE  WorksKept(work')
BY OneRecordKept, OneJobKept DEF Kept

LEMMA FinishesKept ==
    ASSUME TInv, NEW j \in Jobs, NEW v \in VMs, NEW w, NEW pc \in Ended, JobKept(w, j),
           work' = [work EXCEPT ![j] = Finish(w, v, pc)]
    PROVE  WorksKept(work')
BY FinishKept, OneJobKept

-----------------------------------------------------------------------------
(* The beginning of a job and of a turn *)

LEMMA BaselineGuest ==
    ASSUME TInv, NEW j \in Jobs, NEW v \in VMs, NEW base \in Baselines(j, v)
    PROVE  base \in Guests \cup {none} /\ (jobs[j] \notin Captures => base \in Guests)
<1>1. \A n \in DOMAIN snapshots[v] : snapshots[v][n] \in Guests
    BY SMTT(60) DEF TInv, FewSnapshots
<1>2. QED
    BY <1>1 DEF Baselines, ToSet

LEMMA BeginTyped ==
    ASSUME TInv, VInv, NEW j \in Jobs, NEW v \in VMs, NEW row \in Statuses,
           work[j][v].pc \notin Ended, Begin(j, v, row)
    PROVE  WorksKept(work')
<1> DEFINE flag == work[j][v].alone /\ NobodyElseHas(j, v)
           turn(base) == [work[j] EXCEPT ![v].pc = "collecting", ![v].loaded = row, ![v].base = base,
                                         ![v].alone = @ /\ NobodyElseHas(j, v)]
<1>1. CASE Working(j, Finish(work[j], v, "failed"))
    BY <1>1, ItselfKept, FinishesKept DEF Working, Ended
<1>2. ASSUME NEW base \in Baselines(j, v), work' = Crossed([work EXCEPT ![j] = turn(base)], j, v)
      PROVE  WorksKept(work')
  <2> DEFINE begun == turn(base)
             r == [work[j][v] EXCEPT !.pc = "collecting", !.loaded = row, !.base = base, !.alone = flag]
  <2>1. work[j][v] \in Work /\ DOMAIN work[j] = VMs
      BY ShapedOf
  <2>2. begun = [work[j] EXCEPT ![v] = r]
      BY <2>1
  <2>3. base \in Guests \cup {none} /\ (jobs[j] \notin Captures => base \in Guests)
      BY BaselineGuest
  <2>4. flag \in BOOLEAN
      BY <2>1, WorkFields DEF NobodyElseHas
  <2> HIDE DEF flag
  <2>5. r \in Work /\ r.pc = "collecting" /\ r.base = base
    <3> DEFINE numbers == Numbers
    <3>1. Work = [pc : Points, loaded : Statuses \cup {"unread", "expired"}, alone : BOOLEAN,
                  base : Guests \cup {none}, now : Guests \cup {none}, number : numbers,
                  verdict : Verdicts \cup {"none"}, source : {"none", "rule", "cache", "model", "review"},
                  row : BOOLEAN]
        BY DEF Work, Points, Numbers
    <3> HIDE DEF numbers
    <3>2. "collecting" \in Points
        BY DEF Points
    <3>3. QED
        BY <2>1, <2>3, <2>4, <3>1, <3>2
  <2> HIDE DEF r
  <2>6. Shaped(r, jobs[j])
      BY <2>3, <2>5, SMTT(60) DEF Shaped, Ended, Undecided
  <2> DEFINE w == [work EXCEPT ![j] = begun]
  <2>7. WorksKept(w)
      BY <2>2, <2>6, OneRecordKept, OneJobKept, ItselfKept DEF Kept
  <2>8. /\ \A k \in Jobs : k # j => w[k] = work[k]
        /\ work' = [k \in Jobs |-> IF k # j /\ w[k][v].loaded # "unread"
                                  THEN [w[k] EXCEPT ![v].alone = FALSE] ELSE w[k]]
      BY <1>2 DEF Crossed, TInv, WorkShaped
  <2> HIDE DEF w
  <2>9. ASSUME NEW k \in Jobs PROVE JobKept(work'[k], k)
    <3>1. JobKept(w[k], k)
        BY <2>7 DEF WorksKept
    <3>2. CASE work'[k] = w[k]
        BY <3>1, <3>2
    <3>3. CASE k # j /\ w[k][v].loaded # "unread" /\ work'[k] = [w[k] EXCEPT ![v].alone = FALSE]
      <4>1. w[k] = work[k]
          BY <2>8, <3>3
      <4>2. JobKept([work[k] EXCEPT ![v].alone = FALSE], k)
          BY <3>3, <4>1, CrossedKept
      <4>3. QED
          BY <3>3, <4>1, <4>2
    <3>4. QED
        BY <2>8, <3>2, <3>3
  <2>10. work' = [k \in Jobs |-> work'[k]]
      BY <2>8
  <2>11. QED
      BY <2>9, <2>10 DEF WorksKept, JobKept
<1>3. QED
    BY <1>1, <1>2 DEF Begin

LEMMA TurnTyped ==
    ASSUME TInv, VInv, Rows, NEW j \in Jobs, NEW v \in VMs, RunTask(j, v) \/ NextInLoop(j, v)
    PROVE  TInv'
<1>1. /\ work[j][v].pc = "queued"
      /\ UNCHANGED <<guest, snapshots, latest, cache, jobs, answered, events>>
      /\ \/ work' = [work EXCEPT ![j] = Finish(work[j], v, "failed")]
         \/ Begin(j, v, status[v])
         \/ work[j][v].loaded \in Statuses /\ Begin(j, v, work[j][v].loaded)
         \/ Abort(j, v)
    BY DEF RunTask, NextInLoop, database, Working
<1>2. work[j][v].pc \notin Ended /\ status[v] \in Statuses /\ "failed" \in Ended
    BY <1>1 DEF Ended, Rows
<1>3. WorksKept(work')
    BY <1>1, <1>2, BeginTyped, AbortKept, ItselfKept, FinishesKept
<1>4. QED
    BY <1>1, <1>3, OnlyWorkTyped

\* The jobs that hold the VMs of a job that starts are no longer alone with them.
LEMMA StartTyped ==
    ASSUME TInv, VInv, Rows, NEW j \in Jobs, NEW kind \in Kinds, NEW scope, Start(j, kind, scope)
    PROVE  TInv'
<1>1. /\ jobs[j] = "idle" /\ jobs' = [jobs EXCEPT ![j] = kind]
      /\ UNCHANGED <<guest, snapshots, latest, cache, answered, events>>
    BY DEF Start, database
<1>2. /\ jobs' \in [Jobs -> Kinds \cup {"idle", "lost"}]
      /\ \A k \in Jobs : jobs'[k] = IF k = j THEN kind ELSE jobs[k]
    BY <1>1 DEF TInv
<1>3. work' = [k \in Jobs |-> [v \in VMs |-> work'[k][v]]]
    BY DEF Start
<1>4. ASSUME NEW k \in Jobs, NEW v \in VMs
      PROVE  /\ Shaped(work'[k][v], jobs'[k])
             /\ k # j => work'[k][v].pc = work[k][v].pc
  <2> DEFINE row == IF kind \in Shared THEN status[v] ELSE "unread"
             flag == NobodyElseHas(j, v)
             q == [NoWork EXCEPT !.pc = "queued", !.loaded = row, !.alone = flag]
             crossed == [work[k][v] EXCEPT !.alone = FALSE]
  <2>1. \/ work'[k][v] = work[k][v]
        \/ k # j /\ work[k][v].loaded # "unread" /\ work'[k][v] = crossed
        \/ k = j /\ work'[k][v] = q
      BY DEF Start
  <2>2. Shaped(work[k][v], jobs[k]) /\ work[k][v] \in Work /\ DOMAIN work[k] = VMs
      BY ShapedOf
  <2>3. k = j => work[k][v].pc = "none"
      BY <1>1 DEF VInv, WorkSane, Sane
  <2>4. CASE work'[k][v] = work[k][v]
    <3>1. CASE k = j
        BY <1>2, <2>2, <2>3, <2>4, <3>1 DEF Shaped, Undecided
    <3>2. CASE k # j
        BY <1>2, <2>2, <2>4, <3>2
    <3>3. QED
        BY <2>4, <3>1, <3>2
  <2>5. CASE k # j /\ work[k][v].loaded # "unread" /\ work'[k][v] = crossed
    <3>1. JobKept([work[k] EXCEPT ![v].alone = FALSE], k)
        BY <2>5, CrossedKept
    <3>2. [work[k] EXCEPT ![v].alone = FALSE][v] = crossed
        BY <2>2
    <3>3. crossed.pc = work[k][v].pc
        BY <2>2, WorkFields, FieldsAre
    <3> HIDE DEF crossed
    <3>4. Shaped(crossed, jobs[k])
        BY <3>1, <3>2 DEF JobKept, Kept
    <3>5. QED
        BY <1>2, <2>5, <3>3, <3>4
  <2>6. CASE k = j /\ work'[k][v] = q
    <3>1. row \in Statuses \cup {"unread", "expired"} /\ flag \in BOOLEAN
        BY DEF Rows, NobodyElseHas
    <3>2. q.pc = "queued"
        BY DEF NoWork
    <3> DEFINE numbers == Numbers
    <3>3. Work = [pc : Points, loaded : Statuses \cup {"unread", "expired"}, alone : BOOLEAN,
                  base : Guests \cup {none}, now : Guests \cup {none}, number : numbers,
                  verdict : Verdicts \cup {"none"}, source : {"none", "rule", "cache", "model", "review"},
                  row : BOOLEAN]
        BY DEF Work, Points, Numbers
    <3>4. 0 \in numbers
        BY NumbersAre
    <3>5. "queued" \in Points
        BY DEF Points
    <3> HIDE DEF numbers, row, flag
    <3>6. q \in Work
        BY <3>1, <3>3, <3>4, <3>5 DEF NoWork
    <3> HIDE DEF q
    <3>7. Shaped(q, kind)
        BY <3>2, <3>6 DEF Shaped, Ended, Undecided
    <3>8. QED
        BY <1>2, <2>6, <3>7
  <2>7. QED
      BY <2>1, <2>4, <2>5, <2>6, SMTT(60)
<1>5. WorkShaped(work', jobs')
  <2>1. \A k \in Jobs, v \in VMs : work'[k][v] \in Work
      BY <1>4 DEF Shaped
  <2>2. QED
      BY <1>3, <1>4, <2>1 DEF WorkShaped
<1>6. \A v \in VMs : DoneWith(work, jobs, v) \subseteq DoneWith(work', jobs', v)
    BY <1>1, <1>2, <1>4 DEF DoneWith
<1>7. FewSnapshots(snapshots', work', jobs')
    BY <1>1, <1>6, MoreAreDone
<1>8. QED
    BY <1>1, <1>2, <1>5, <1>7 DEF TInv

-----------------------------------------------------------------------------
(* Collecting *)

LEMMA CollectionKept ==
    ASSUME TInv, VInv, Rows, NEW j \in Jobs, NEW v \in VMs, NEW added, work[j][v].pc = "collecting"
    PROVE  /\ JobKept(Collection(j, v, added), j)
           /\ Collection(j, v, added)[v].pc = "collecting"
           /\ Collection(j, v, added)[v].base = work[j][v].base
           /\ Collection(j, v, added)[v].now = guest[v]
           /\ guest[v] \in Guests
<1> DEFINE kept == IF added THEN [AfterCommit(j, v) EXCEPT ![v].loaded = status[v]] ELSE work[j]
           r == [kept[v] EXCEPT !.now = guest[v]]
<1>1. /\ JobKept(kept, j) /\ Alike(kept[v], work[j][v])
  <2>1. CASE added
      BY <2>1, ReadKept, ReadIsAlike DEF Ended
  <2>2. CASE ~added
      BY <2>2, ItselfKept, WorkIsAlike
  <2>3. QED
      BY <2>1, <2>2
<1>2. Collection(j, v, added) = [kept EXCEPT ![v].now = guest[v]]
    BY DEF Collection
<1> HIDE DEF kept
<1>3. kept \in [VMs -> Work] /\ kept[v] \in Work /\ guest[v] \in Guests
    BY <1>1 DEF JobKept, TInv
<1>4. Collection(j, v, added) = [kept EXCEPT ![v] = r]
    BY <1>2, <1>3
<1>5. r \in Work
    BY <1>3, FieldsGiven
<1>6. r.pc = "collecting" /\ r.base = work[j][v].base /\ r.now = guest[v]
    BY <1>1, <1>3, WorkFields, FieldsAre DEF Alike
<1> HIDE DEF r
<1>7. Shaped(r, jobs[j])
  <2>1. jobs[j] \notin Captures => work[j][v].base \in Guests
      BY ShapedOf DEF Shaped
  <2>2. QED
      BY <1>5, <1>6, <2>1 DEF Shaped, Ended, Undecided
<1>8. Kept(r, work[j][v], jobs[j])
    BY <1>7 DEF Kept, Ended
<1>9. JobKept([kept EXCEPT ![v] = r], j)
    BY <1>1, <1>8, OneRecordKept
<1>10. [kept EXCEPT ![v] = r][v] = r
    BY <1>3
<1>11. QED
    BY <1>3, <1>4, <1>6, <1>9, <1>10

\* The number of the next snapshot.
LEMMA NextNumber ==
    ASSUME TInv, NEW v \in VMs PROVE Len(snapshots[v]) + 1 \in Numbers
<1> DEFINE done == DoneWith(work, jobs, v)
<1>1. done \in SUBSET Jobs
    BY DEF DoneWith
<1>2. Len(snapshots[v]) \in Nat /\ Len(snapshots[v]) <= MaxSnapshots + Cardinality(done)
    BY DEF TInv, FewSnapshots
<1> HIDE DEF done
<1>3. Cardinality(done) <= Cardinality(Jobs) /\ Cardinality(done) \in Nat /\ Cardinality(Jobs) \in Nat
    BY <1>1, JobsAssumption, FS_Subset, FS_CardinalityType, SMTT(60)
<1>4. QED
    BY <1>2, <1>3, SnapshotAssumption DEF Numbers

\* A record whose fields are given anew.
LEMMA Rebuilt ==
    /\ \A w \in Work, pc \in Points, number \in Numbers :
          [w EXCEPT !.pc = pc, !.number = number] \in Work
    /\ \A w \in Work, pc \in Points, verdict \in Verdicts, source \in {"rule", "cache", "model", "review"} :
          [w EXCEPT !.pc = pc, !.source = source, !.verdict = verdict] \in Work
    /\ \A w \in Work, pc \in Points, verdict \in Verdicts, source \in {"rule", "cache", "model", "review"},
          row \in BOOLEAN :
          [w EXCEPT !.pc = pc, !.source = source, !.verdict = verdict, !.row = row] \in Work
<1> DEFINE numbers == Numbers
<1>1. Work = [pc : Points, loaded : Statuses \cup {"unread", "expired"}, alone : BOOLEAN,
              base : Guests \cup {none}, now : Guests \cup {none}, number : numbers,
              verdict : Verdicts \cup {"none"}, source : {"none", "rule", "cache", "model", "review"},
              row : BOOLEAN]
    BY DEF Work, Points, Numbers
<1> HIDE DEF numbers
<1>2. ASSUME NEW w \in Work, NEW pc \in Points, NEW number \in numbers
      PROVE  [w EXCEPT !.pc = pc, !.number = number] \in Work
    BY <1>1
<1>3. ASSUME NEW w \in Work, NEW pc \in Points, NEW verdict \in Verdicts,
             NEW source \in {"rule", "cache", "model", "review"}
      PROVE  [w EXCEPT !.pc = pc, !.source = source, !.verdict = verdict] \in Work
    BY <1>1
<1>4. ASSUME NEW w \in Work, NEW pc \in Points, NEW verdict \in Verdicts,
             NEW source \in {"rule", "cache", "model", "review"}, NEW row \in BOOLEAN
      PROVE  [w EXCEPT !.pc = pc, !.source = source, !.verdict = verdict, !.row = row] \in Work
    BY <1>1, ZenonT(60)
<1>5. QED
    BY <1>2, <1>3, <1>4 DEF numbers

\* A rule that decides gives one of the three verdicts.
LEMMA RuleDecides ==
    ASSUME NEW diff, NEW production, Classify(diff, production).tier < 3
    PROVE  Classify(diff, production).status \in Verdicts
<1>1. \/ Classify(diff, production) = [tier |-> 1, status |-> "pass"]
      \/ Classify(diff, production) = [tier |-> 2, status |-> IF production THEN "fail" ELSE "warn"]
      \/ Classify(diff, production) = [tier |-> 2, status |-> "pass"]
      \/ Classify(diff, production) = [tier |-> 3, status |-> "open"]
    BY DEF Classify
<1>2. QED
    BY <1>1 DEF Verdicts

LEMMA CollectedTyped ==
    ASSUME TInv, VInv, Rows, NEW j \in Jobs, NEW v \in VMs, NEW added,
           CaptureCollected(j, v, added) \/ ValidationCollected(j, v, added)
    PROVE  TInv'
<1> DEFINE rule == Classify(ComputeDiff(work[j][v].base, guest[v]), v \in Production)
           c == Collection(j, v, added)
           captured == [c[v] EXCEPT !.pc = "storing", !.number = Len(snapshots[v]) + 1]
           decided == [c[v] EXCEPT !.pc = "storing", !.source = "rule", !.verdict = rule.status]
           open == [c[v] EXCEPT !.pc = "reasoning"]
<1>1. /\ work[j][v].pc = "collecting"
      /\ UNCHANGED <<guest, snapshots, latest, cache, jobs, answered, events>>
      /\ \/ Abort(j, v)
         \/ /\ jobs[j] \in Captures
            /\ work' = [work EXCEPT ![j] = [c EXCEPT ![v].pc = "storing",
                                                     ![v].number = Len(snapshots[v]) + 1]]
         \/ /\ jobs[j] \notin Captures /\ rule.tier < 3
            /\ work' = [work EXCEPT ![j] = [c EXCEPT ![v].pc = "storing", ![v].source = "rule",
                                                     ![v].verdict = rule.status]]
         \/ /\ jobs[j] \notin Captures
            /\ work' = [work EXCEPT ![j] = [c EXCEPT ![v].pc = "reasoning"]]
    BY DEF CaptureCollected, ValidationCollected, database, Working
<1>2. /\ JobKept(c, j) /\ c[v].pc = "collecting" /\ c[v].base = work[j][v].base
      /\ c[v].now = guest[v] /\ guest[v] \in Guests
    BY <1>1, CollectionKept
<1>3. rule.tier < 3 => rule.status \in Verdicts
    BY RuleDecides
<1>4. jobs[j] \notin Captures => work[j][v].base \in Guests
    BY <1>1, ShapedOf DEF Shaped
<1> HIDE DEF c, rule
<1>5. c \in [VMs -> Work] /\ c[v] \in Work
    BY <1>2 DEF JobKept
<1>6. /\ [c EXCEPT ![v].pc = "storing", ![v].number = Len(snapshots[v]) + 1] = [c EXCEPT ![v] = captured]
      /\ [c EXCEPT ![v].pc = "storing", ![v].source = "rule", ![v].verdict = rule.status]
            = [c EXCEPT ![v] = decided]
      /\ [c EXCEPT ![v].pc = "reasoning"] = [c EXCEPT ![v] = open]
    BY <1>5
<1>7. "storing" \in Points /\ "reasoning" \in Points
    BY DEF Points
<1>8. jobs[j] \in Captures => Shaped(captured, jobs[j])
  <2>1. captured \in Work
      BY <1>5, <1>7, NextNumber, Rebuilt
  <2>2. captured.pc = "storing" /\ captured.now = guest[v]
      BY <1>2, <1>5, WorkFields, FieldsAre
  <2> HIDE DEF captured
  <2>3. QED
      BY <1>2, <2>1, <2>2 DEF Shaped, Ended, Undecided
<1>9. jobs[j] \notin Captures /\ rule.tier < 3 => Shaped(decided, jobs[j])
  <2> SUFFICES ASSUME jobs[j] \notin Captures, rule.tier < 3 PROVE Shaped(decided, jobs[j])
      BY SMTT(60)
  <2>1. decided \in Work
      BY <1>3, <1>5, <1>7, Rebuilt
  <2>2. /\ decided.pc = "storing" /\ decided.now = guest[v] /\ decided.base = work[j][v].base
        /\ decided.verdict = rule.status /\ decided.source = "rule"
      BY <1>2, <1>5, WorkFields, FieldsAre
  <2> HIDE DEF decided
  <2>3. QED
      BY <1>2, <1>3, <1>4, <2>1, <2>2 DEF Shaped, Ended, Undecided
<1>10. jobs[j] \notin Captures => Shaped(open, jobs[j])
  <2>1. open \in Work
      BY <1>5, <1>7, FieldsGiven
  <2>2. open.pc = "reasoning" /\ open.now = guest[v] /\ open.base = work[j][v].base
      BY <1>2, <1>5, WorkFields, FieldsAre
  <2> HIDE DEF open
  <2>3. QED
      BY <1>2, <1>4, <2>1, <2>2 DEF Shaped, Ended, Undecided
<1> HIDE DEF captured, decided, open
<1>11. work[j][v].pc \notin Ended
    BY <1>1 DEF Ended
<1>12. WorksKept(work')
    BY <1>1, <1>2, <1>6, <1>8, <1>9, <1>10, <1>11, TurnKept, AbortKept
<1>13. QED
    BY <1>1, <1>12, OnlyWorkTyped

\* A collection that fails, and a call of a backend that does.
LEMMA FailureTyped ==
    ASSUME TInv, VInv, Rows, NEW j \in Jobs, NEW v \in VMs, NEW audited,
           \/ CollectionFails(j, v, audited) \/ ConnectionDrops(j, v)
           \/ BackendFails(j, v) \/ BackendRaises(j, v)
    PROVE  TInv'
<1>1. /\ UNCHANGED <<guest, snapshots, latest, cache, jobs, answered, events>>
      /\ \/ Abort(j, v)
         \/ work' = [work EXCEPT ![j] = Finish(AfterCommit(j, v), v, "failed")]
         \/ work' = [work EXCEPT ![j] = Finish(work[j], v, "failed")]
    BY DEF CollectionFails, ConnectionDrops, BackendFails, BackendRaises, database, Working
<1>2. "failed" \in Ended
    BY DEF Ended
<1>3. WorksKept(work')
    BY <1>1, <1>2, AbortKept, CommitKept, ItselfKept, FinishesKept
<1>4. QED
    BY <1>1, <1>3, OnlyWorkTyped

-----------------------------------------------------------------------------
(* The model and its cache *)

LEMMA KeyTyped ==
    ASSUME TInv, NEW j \in Jobs, NEW v \in VMs, work[j][v].pc \in Undecided \cup {"caching"}
    PROVE  /\ KeyOf(j, v) \in Keys /\ work[j][v].pc \notin Ended
           /\ work[j][v].base \in Guests /\ work[j][v].now \in Guests
<1>1. work[j][v].base \in Guests /\ work[j][v].now \in Guests
    BY ShapedOf DEF Shaped
<1>2. QED
    BY <1>1 DEF KeyOf, Keys, Ended, Undecided

\* What is asked is asked with both states at hand.
LEMMA AskedTyped ==
    ASSUME TInv, VInv, Rows, NEW j \in Jobs, NEW v \in VMs, NEW pc \in {"asking", "asking_again"},
           work[j][v].pc \in Undecided, Working(j, [work[j] EXCEPT ![v].pc = pc])
    PROVE  WorksKept(work')
<1> DEFINE r == [work[j][v] EXCEPT !.pc = pc]
<1>1. work[j][v] \in Work /\ DOMAIN work[j] = VMs /\ pc \in Points
    BY ShapedOf DEF Points
<1>2. [work[j] EXCEPT ![v].pc = pc] = [work[j] EXCEPT ![v] = r]
    BY <1>1
<1>3. r \in Work
    BY <1>1, FieldsGiven
<1>4. r.pc = pc /\ r.base = work[j][v].base /\ r.now = work[j][v].now
    BY <1>1, WorkFields, FieldsAre
<1> HIDE DEF r
<1>5. Shaped(r, jobs[j])
    BY <1>3, <1>4, KeyTyped DEF Shaped, Ended, Undecided
<1>6. QED
    BY <1>2, <1>5, KeyTyped, ItselfKept, TurnKept DEF Working

\* A hit, a review, or an entry that was stored: the row is read and the result is stored next.
LEMMA ConcludedTyped ==
    ASSUME TInv, VInv, Rows, NEW j \in Jobs, NEW v \in VMs, NEW verdict \in Verdicts,
           NEW source \in {"rule", "cache", "model", "review"},
           work[j][v].pc \in Undecided \cup {"caching"}, NEW w,
           w = [AfterCommit(j, v) EXCEPT ![v].loaded = status[v]],
           work' = [work EXCEPT ![j] = [w EXCEPT ![v].pc = "storing", ![v].source = source,
                                                 ![v].verdict = verdict]]
    PROVE  WorksKept(work')
<1> DEFINE r == [w[v] EXCEPT !.pc = "storing", !.source = source, !.verdict = verdict]
<1>1. work[j][v].pc \notin Ended /\ work[j][v].base \in Guests /\ work[j][v].now \in Guests
    BY KeyTyped
<1>2. JobKept(w, j) /\ Alike(w[v], work[j][v])
    BY <1>1, ReadKept, ReadIsAlike
<1>3. w \in [VMs -> Work] /\ w[v] \in Work
    BY <1>2 DEF JobKept
<1>4. [w EXCEPT ![v].pc = "storing", ![v].source = source, ![v].verdict = verdict] = [w EXCEPT ![v] = r]
    BY <1>3
<1>5. r \in Work
  <2>1. "storing" \in Points
      BY DEF Points
  <2>2. QED
      BY <1>3, <2>1, Rebuilt
<1>6. /\ r.pc = "storing" /\ r.base = work[j][v].base /\ r.now = work[j][v].now
      /\ r.source = source /\ r.verdict = verdict
    BY <1>2, <1>3, WorkFields, FieldsAre DEF Alike
<1> HIDE DEF r
<1>7. Shaped(r, jobs[j])
    BY <1>1, <1>5, <1>6 DEF Shaped, Ended, Undecided
<1>8. QED
    BY <1>1, <1>2, <1>4, <1>7, TurnKept

\* An entry that was stored: the row is read and its verdict is stored next.
LEMMA CachedTyped ==
    ASSUME TInv, VInv, Rows, NEW j \in Jobs, NEW v \in VMs, work[j][v].pc = "caching", NEW w,
           w = [AfterCommit(j, v) EXCEPT ![v].loaded = status[v]],
           work' = [work EXCEPT ![j] = [w EXCEPT ![v].pc = "storing"]]
    PROVE  WorksKept(work')
<1> DEFINE r == [w[v] EXCEPT !.pc = "storing"]
<1>1. /\ work[j][v].pc \notin Ended /\ work[j][v].base \in Guests /\ work[j][v].now \in Guests
      /\ work[j][v].verdict \in Verdicts /\ work[j][v].source # "none"
    BY KeyTyped, ShapedOf DEF Shaped
<1>2. JobKept(w, j) /\ Alike(w[v], work[j][v])
    BY <1>1, ReadKept, ReadIsAlike
<1>3. w \in [VMs -> Work] /\ w[v] \in Work
    BY <1>2 DEF JobKept
<1>4. [w EXCEPT ![v].pc = "storing"] = [w EXCEPT ![v] = r]
    BY <1>3
<1>5. r \in Work
  <2>1. "storing" \in Points
      BY DEF Points
  <2>2. QED
      BY <1>3, <2>1, FieldsGiven
<1>6. /\ r.pc = "storing" /\ r.base = work[j][v].base /\ r.now = work[j][v].now
      /\ r.source = work[j][v].source /\ r.verdict = work[j][v].verdict
    BY <1>2, <1>3, WorkFields, FieldsAre DEF Alike
<1> HIDE DEF r
<1>7. Shaped(r, jobs[j])
    BY <1>1, <1>5, <1>6 DEF Shaped, Ended, Undecided
<1>8. QED
    BY <1>1, <1>2, <1>4, <1>7, TurnKept

LEMMA ReviewTyped ==
    ASSUME TInv, VInv, Rows, NEW j \in Jobs, NEW v \in VMs, work[j][v].pc \in Undecided, ManualReview(j, v)
    PROVE  WorksKept(work')
<1> DEFINE b == [AfterCommit(j, v) EXCEPT ![v].loaded = status[v]]
<1>1. \/ Abort(j, v)
      \/ work' = [work EXCEPT ![j] = [b EXCEPT ![v].pc = "storing", ![v].source = "review",
                                              ![v].verdict = "warn"]]
    BY DEF ManualReview, Working
<1>2. "warn" \in Verdicts
    BY DEF Verdicts
<1>3. b = [AfterCommit(j, v) EXCEPT ![v].loaded = status[v]]
    BY SMTT(30)
<1> HIDE DEF b
<1>4. CASE work' = [work EXCEPT ![j] = [b EXCEPT ![v].pc = "storing", ![v].source = "review",
                                                 ![v].verdict = "warn"]]
    BY <1>2, <1>3, <1>4, ConcludedTyped
<1>5. QED
    BY <1>1, <1>4, AbortKept

LEMMA AskingTyped ==
    ASSUME TInv, VInv, Rows, NEW j \in Jobs, NEW v \in VMs,
           \/ CacheMiss(j, v) \/ GuardrailFlags(j, v)
           \/ \E answer \in Answers : Rejected(j, v, answer)
    PROVE  TInv'
<1>1. /\ work[j][v].pc \in Undecided
      /\ UNCHANGED <<guest, snapshots, latest, cache, jobs, answered, events>>
      /\ \/ Working(j, [work[j] EXCEPT ![v].pc = "asking"])
         \/ Working(j, [work[j] EXCEPT ![v].pc = "asking_again"])
         \/ ManualReview(j, v)
    BY DEF CacheMiss, GuardrailFlags, Rejected, database, Undecided
<1>2. WorksKept(work')
    BY <1>1, AskedTyped, ReviewTyped
<1>3. QED
    BY <1>1, <1>2, OnlyWorkTyped

LEMMA CacheHitTyped ==
    ASSUME TInv, VInv, Rows, NEW j \in Jobs, NEW v \in VMs, CacheHit(j, v) PROVE TInv'
<1> DEFINE verdict == cache[KeyOf(j, v)].verdict
           b == [AfterCommit(j, v) EXCEPT ![v].loaded = status[v]]
           w == [b EXCEPT ![v].pc = "storing", ![v].source = "cache", ![v].verdict = verdict]
<1>1. /\ work[j][v].pc \in Undecided /\ KeyOf(j, v) \in DOMAIN cache
      /\ UNCHANGED <<guest, snapshots, latest, cache, jobs, answered, events>>
    BY DEF CacheHit, Fresh, database, Undecided
<1>2. Abort(j, v) \/ work' = [work EXCEPT ![j] = w]
    BY DEF CacheHit, Working
<1>3. verdict \in Verdicts
  <2>1. cache[KeyOf(j, v)] \in [verdict : Verdicts, fresh : BOOLEAN]
      BY <1>1 DEF TInv, CacheTyped
  <2>2. QED
      BY <2>1
<1>4. ASSUME work' = [work EXCEPT ![j] = w] PROVE WorksKept(work')
  <2>1. \A x \in Verdicts : x = verdict => WorksKept(work')
    <3> SUFFICES ASSUME NEW x \in Verdicts, x = verdict PROVE WorksKept(work')
        OBVIOUS
    <3>1. b = [AfterCommit(j, v) EXCEPT ![v].loaded = status[v]]
        OBVIOUS
    <3>2. w = [b EXCEPT ![v].pc = "storing", ![v].source = "cache", ![v].verdict = x]
        OBVIOUS
    <3>3. work[j][v].pc \in Undecided \cup {"caching"} /\ "cache" \in {"rule", "cache", "model", "review"}
        BY <1>1
    <3> HIDE DEF verdict, b, w
    <3>4. work' = [work EXCEPT ![j] = [b EXCEPT ![v].pc = "storing", ![v].source = "cache",
                                                ![v].verdict = x]]
        BY <1>4, <3>2
    <3>5. QED
        BY <3>1, <3>3, <3>4, ConcludedTyped
  <2>2. QED
      BY <1>3, <2>1, SMTT(30)
<1> HIDE DEF w
<1>5. WorksKept(work')
    BY <1>2, <1>4, AbortKept, SMTT(60)
<1>6. QED
    BY <1>1, <1>5, OnlyWorkTyped

LEMMA AnsweredTyped ==
    ASSUME TInv, VInv, Rows, NEW j \in Jobs, NEW v \in VMs, NEW answer, Answered(j, v, answer)
    PROVE  TInv'
<1> DEFINE row == KeyOf(j, v) \in DOMAIN cache
           r == [work[j][v] EXCEPT !.pc = "caching", !.source = "model",
                                   !.verdict = answer.status, !.row = row]
<1>1. /\ work[j][v].pc \in Undecided /\ answer.status \in Verdicts
      /\ UNCHANGED <<guest, snapshots, latest, cache, jobs, events>>
      /\ answered' = answered \cup {<<KeyOf(j, v), answer.status>>}
      /\ work' = [work EXCEPT ![j] = [work[j] EXCEPT ![v].pc = "caching", ![v].source = "model",
                                        ![v].verdict = answer.status, ![v].row = row]]
    BY DEF Answered, Accepted, Verdicts, database, Working, Undecided
<1>2. work[j][v] \in Work /\ DOMAIN work[j] = VMs
    BY ShapedOf
<1>3. /\ KeyOf(j, v) \in Keys /\ work[j][v].pc \notin Ended
      /\ work[j][v].base \in Guests /\ work[j][v].now \in Guests
    BY <1>1, KeyTyped
<1>4. [work[j] EXCEPT ![v].pc = "caching", ![v].source = "model", ![v].verdict = answer.status,
                      ![v].row = row] = [work[j] EXCEPT ![v] = r]
    BY <1>2
<1>5. r \in Work
  <2>1. "caching" \in Points /\ row \in BOOLEAN
      BY DEF Points
  <2> HIDE DEF row
  <2>2. QED
      BY <1>1, <1>2, <2>1, Rebuilt
<1>6. /\ r.pc = "caching" /\ r.base = work[j][v].base /\ r.now = work[j][v].now
      /\ r.source = "model" /\ r.verdict = answer.status
    BY <1>2, WorkFields, FieldsAre
<1> HIDE DEF r
<1>7. Shaped(r, jobs[j])
    BY <1>1, <1>3, <1>5, <1>6, SMTT(60) DEF Shaped, Ended, Undecided
<1>8. WorksKept(work')
    BY <1>1, <1>3, <1>4, <1>7, ItselfKept, TurnKept
<1>9. answered' \subseteq Keys \X Verdicts
    BY <1>1, <1>3 DEF TInv
<1>10. QED
    BY <1>1, <1>8, <1>9, KeptIsShaped DEF TInv

LEMMA CacheStoredTyped ==
    ASSUME TInv, VInv, Rows, NEW j \in Jobs, NEW v \in VMs, CacheStored(j, v) PROVE TInv'
<1>1. /\ work[j][v].pc = "caching"
      /\ UNCHANGED <<guest, snapshots, latest, jobs, answered, events>>
      /\ \/ Abort(j, v)
         \/ work' = [work EXCEPT ![j] = [[AfterCommit(j, v) EXCEPT ![v].loaded = status[v]] EXCEPT
                                           ![v].pc = "storing"]]
    BY DEF CacheStored, Working
<1>2. WorksKept(work')
    BY <1>1, AbortKept, CachedTyped, ZenonT(60)
<1>3. CacheTyped(cache')
  <2> DEFINE entry == [verdict |-> work[j][v].verdict, fresh |-> TRUE]
             key == KeyOf(j, v)
  <2>1. key \in Keys /\ work[j][v].verdict \in Verdicts
      BY <1>1, KeyTyped, ShapedOf DEF Shaped
  <2>2. entry \in [verdict : Verdicts, fresh : BOOLEAN]
      BY <2>1
  <2>3. \/ UNCHANGED cache
        \/ cache' = [k \in DOMAIN cache \cup {key} |-> IF k = key THEN entry ELSE cache[k]]
      BY DEF CacheStored
  <2> HIDE DEF entry, key
  <2>4. QED
      BY <2>1, <2>2, <2>3 DEF TInv, CacheTyped
<1>4. QED
    BY <1>1, <1>2, <1>3, KeptIsShaped DEF TInv

-----------------------------------------------------------------------------
(* Storing *)

LEMMA StoreResultTyped ==
    ASSUME TInv, VInv, Rows, NEW j \in Jobs, NEW v \in VMs, StoreResult(j, v) PROVE TInv'
<1> DEFINE w == work[j][v]
           result == [verdict |-> w.verdict, source |-> w.source,
                      base |-> w.base, now |-> w.now, alone |-> w.alone]
<1>1. /\ w.pc = "storing" /\ jobs[j] \notin Captures
      /\ UNCHANGED <<guest, snapshots, cache, jobs, answered, events>>
      /\ \/ Abort(j, v) /\ UNCHANGED latest
         \/ /\ work' = [work EXCEPT ![j] = Finish(AfterCommit(j, v), v, "completed")]
            /\ latest' = [latest EXCEPT ![v] = result]
    BY DEF StoreResult, Working
<1>2. "completed" \in Ended
    BY DEF Ended
<1>3. WorksKept(work')
    BY <1>1, <1>2, AbortKept, CommitKept, FinishesKept
<1>4. result \in Results
  <2>1. /\ w \in Work /\ w.now \in Guests /\ w.base \in Guests
        /\ w.verdict \in Verdicts /\ w.source # "none"
      BY <1>1, ShapedOf DEF Shaped
  <2>2. w.alone \in BOOLEAN /\ w.source \in {"rule", "cache", "model", "review"}
      BY <2>1, WorkFields
  <2> HIDE DEF w
  <2>3. QED
      BY <2>1, <2>2 DEF Results
<1> HIDE DEF result
<1>5. latest' \in [VMs -> Results \cup {none}]
    BY <1>1, <1>4 DEF TInv
<1>6. QED
    BY <1>1, <1>3, <1>5, KeptIsShaped DEF TInv

\* A snapshot more, and a job more that is done.
LEMMA StoreSnapshotTyped ==
    ASSUME TInv, VInv, Rows, NEW j \in Jobs, NEW v \in VMs, StoreSnapshot(j, v) PROVE TInv'
<1>1. /\ work[j][v].pc = "storing" /\ jobs[j] \in Captures
      /\ UNCHANGED <<guest, latest, cache, jobs, answered, events>>
      /\ \/ Abort(j, v) /\ UNCHANGED snapshots
         \/ /\ work' = [work EXCEPT ![j] = Finish(AfterCommit(j, v), v, "completed")]
            /\ snapshots' = [snapshots EXCEPT ![v] = Append(@, work[j][v].now)]
    BY DEF StoreSnapshot, Working
<1>2. "completed" \in Ended /\ work[j][v].pc \notin Ended /\ work[j][v].now \in Guests
    BY <1>1, ShapedOf DEF Ended, Shaped
<1>3. WorksKept(work')
    BY <1>1, <1>2, AbortKept, CommitKept, FinishesKept
<1>4. WorkShaped(work', jobs')
    BY <1>1, <1>3 DEF WorksKept, JobKept, Kept, WorkShaped
<1>5. CASE UNCHANGED snapshots
    BY <1>1, <1>3, <1>5, KeptIsShaped DEF TInv
<1>6. CASE /\ work' = [work EXCEPT ![j] = Finish(AfterCommit(j, v), v, "completed")]
           /\ snapshots' = [snapshots EXCEPT ![v] = Append(@, work[j][v].now)]
  <2>1. /\ snapshots \in [VMs -> Seq(Guests)]
        /\ \A u \in VMs : Len(snapshots[u]) <= MaxSnapshots + Cardinality(DoneWith(work, jobs, u))
      BY DEF TInv, FewSnapshots
  <2> DEFINE longer == Append(snapshots[v], work[j][v].now)
  <2>2. longer \in Seq(Guests) /\ Len(longer) = Len(snapshots[v]) + 1 /\ Len(snapshots[v]) \in Nat
      BY <1>2, <2>1
  <2>3. /\ snapshots' \in [VMs -> Seq(Guests)] /\ snapshots'[v] = longer
        /\ \A u \in VMs \ {v} : snapshots'[u] = snapshots[u]
      BY <1>6, <2>1, <2>2
  <2> HIDE DEF longer
  <2>4. ASSUME NEW u \in VMs
        PROVE  Len(snapshots'[u]) <= MaxSnapshots + Cardinality(DoneWith(work', jobs, u))
    <3> DEFINE before == DoneWith(work, jobs, u)
               after == DoneWith(work', jobs, u)
    <3>1. before \subseteq after /\ after \in SUBSET Jobs
        BY <1>3 DEF DoneWith, WorksKept, JobKept, Kept
    <3>2. u = v => j \in after /\ j \notin before
      <4>1. jobs[j] # "idle"
          BY <1>1 DEF Captures
      <4>2. work'[j][v].pc \in Ended
        <5>1. Finish(AfterCommit(j, v), v, "completed")[v] = [NoWork EXCEPT !.pc = "completed"]
            BY DEF Finish, AfterCommit
        <5>2. [NoWork EXCEPT !.pc = "completed"].pc = "completed"
            BY DEF NoWork
        <5>3. work'[j] = Finish(AfterCommit(j, v), v, "completed")
            BY <1>6 DEF TInv, WorkShaped
        <5>4. QED
            BY <1>2, <5>1, <5>2, <5>3
      <4>3. QED
          BY <1>2, <4>1, <4>2 DEF DoneWith
    <3> HIDE DEF before, after
    <3>3. IsFiniteSet(after) /\ IsFiniteSet(before)
        BY <3>1, JobsAssumption, FS_Subset
    <3>4. Cardinality(before) \in Nat /\ Cardinality(after) \in Nat /\ Cardinality(before) <= Cardinality(after)
        BY <3>1, <3>3, FS_Subset, FS_CardinalityType
    <3>5. u = v => Cardinality(before) < Cardinality(after)
      <4> SUFFICES ASSUME u = v PROVE Cardinality(before) < Cardinality(after)
          OBVIOUS
      <4>1. before \cup {j} \subseteq after /\ j \notin before
          BY <3>1, <3>2
      <4>2. Cardinality(before \cup {j}) = Cardinality(before) + 1
          BY <3>3, <4>1, FS_AddElement
      <4>3. Cardinality(before \cup {j}) <= Cardinality(after)
          BY <3>3, <4>1, FS_Subset
      <4>4. QED
          BY <3>4, <4>2, <4>3
    <3>6. Len(snapshots[u]) <= MaxSnapshots + Cardinality(before) /\ Len(snapshots[u]) \in Nat
        BY <2>1 DEF before
    <3>7. Len(snapshots'[u]) <= MaxSnapshots + Cardinality(after)
      <4>1. CASE u = v
          BY <2>2, <2>3, <3>4, <3>5, <3>6, <4>1, SnapshotAssumption
      <4>2. CASE u # v
          BY <2>3, <3>4, <3>6, <4>2, SnapshotAssumption
      <4>3. QED
          BY <4>1, <4>2
    <3>8. QED
        BY <3>7 DEF after
  <2>5. FewSnapshots(snapshots', work', jobs')
      BY <1>1, <2>3, <2>4 DEF FewSnapshots
  <2>6. QED
      BY <1>1, <1>4, <2>5 DEF TInv
<1>7. QED
    BY <1>1, <1>5, <1>6

-----------------------------------------------------------------------------
(* The environment, and the theorem *)

LEMMA InitTyped == Init => TInv
<1> SUFFICES ASSUME Init PROVE TInv
    OBVIOUS
<1>1. PICK s \in Starts :
          /\ guest = s.guest
          /\ snapshots = [v \in VMs |-> IF s.baseline[v] = none THEN <<>> ELSE <<s.baseline[v]>>]
    BY DEF Init
<1>2. s.guest \in [VMs -> Guests] /\ s.baseline \in [VMs -> Guests \cup {none}]
    BY StartsAssumption
<1>3. WorkShaped(work, jobs)
  <2>1. work = [j \in Jobs |-> [v \in VMs |-> NoWork]]
      BY DEF Init
  <2>2. \A kind : Shaped(NoWork, kind)
    <3>1. "none" \in Ended
        BY DEF Ended
    <3>2. QED
        BY <3>1, NoWorkIs, NoWorkTyped
  <2>3. NoWork \in Work
      BY <2>2 DEF Shaped
  <2>4. QED
      BY <2>1, <2>2, <2>3 DEF WorkShaped
<1>4. FewSnapshots(snapshots, work, jobs)
  <2>1. ASSUME NEW v \in VMs
        PROVE  /\ snapshots[v] \in Seq(Guests)
               /\ Len(snapshots[v]) <= MaxSnapshots + Cardinality(DoneWith(work, jobs, v))
    <3>1. snapshots[v] = <<>> \/ \E state \in Guests : snapshots[v] = <<state>>
        BY <1>1, <1>2
    <3>2. snapshots[v] \in Seq(Guests) /\ Len(snapshots[v]) \in {0, 1}
      <4>1. <<>> \in Seq(Guests) /\ Len(<<>>) = 0
          OBVIOUS
      <4>2. ASSUME NEW state \in Guests PROVE <<state>> \in Seq(Guests) /\ Len(<<state>>) = 1
          OBVIOUS
      <4>3. CASE snapshots[v] = <<>>
          BY <4>1, <4>3
      <4>4. CASE snapshots[v] # <<>>
        <5>1. PICK state \in Guests : snapshots[v] = <<state>>
            BY <3>1, <4>4
        <5>2. QED
            BY <4>2, <5>1
      <4>5. QED
          BY <4>3, <4>4
    <3>3. DoneWith(work, jobs, v) = {}
        BY DEF DoneWith, Init
    <3>4. Cardinality(DoneWith(work, jobs, v)) = 0
        BY <3>3, FS_EmptySet
    <3>5. Len(snapshots[v]) <= MaxSnapshots
      <4>1. 0 <= MaxSnapshots /\ 1 <= MaxSnapshots
          BY SnapshotAssumption
      <4>2. Len(snapshots[v]) = 0 \/ Len(snapshots[v]) = 1
          BY <3>2
      <4>3. QED
          BY <4>1, <4>2
    <3> DEFINE count == Cardinality(DoneWith(work, jobs, v))
    <3>6. count = 0
        BY <3>4
    <3> HIDE DEF count
    <3>7. Len(snapshots[v]) <= MaxSnapshots + count
        BY <3>5, <3>6, SnapshotAssumption
    <3>8. QED
        BY <3>2, <3>7 DEF count
  <2>2. snapshots = [v \in VMs |-> snapshots[v]]
      BY <1>1
  <2>3. QED
      BY <2>1, <2>2 DEF FewSnapshots
<1>5. CacheTyped(cache) /\ answered \subseteq Keys \X Verdicts
    BY DEF Init, CacheTyped
<1>6. /\ guest \in [VMs -> Guests] /\ latest \in [VMs -> Results \cup {none}]
      /\ jobs \in [Jobs -> Kinds \cup {"idle", "lost"}] /\ events \in 0 .. MaxEvents
    BY <1>1, <1>2, EventsAssumption DEF Init
<1>7. QED
    BY <1>3, <1>4, <1>5, <1>6 DEF TInv

LEMMA EventTyped == Event /\ events \in 0 .. MaxEvents => events' \in 0 .. MaxEvents
BY EventsAssumption DEF Event

\* The work and the jobs stay: what the snapshots of a VM may be is what it was.
LEMMA SameWorkTyped ==
    ASSUME TInv, UNCHANGED <<jobs, work>>, NEW stored \in [VMs -> Seq(Guests)], snapshots' = stored,
           \A v \in VMs : Len(stored[v]) <= Len(snapshots[v]) \/ Len(stored[v]) <= MaxSnapshots
    PROVE  WorkShaped(work', jobs') /\ FewSnapshots(snapshots', work', jobs')
<1>1. ASSUME NEW v \in VMs
      PROVE  Len(stored[v]) <= MaxSnapshots + Cardinality(DoneWith(work, jobs, v))
  <2> DEFINE done == DoneWith(work, jobs, v)
  <2>1. done \in SUBSET Jobs
      BY DEF DoneWith
  <2>2. Len(snapshots[v]) <= MaxSnapshots + Cardinality(done) /\ Len(snapshots[v]) \in Nat
      BY DEF TInv, FewSnapshots
  <2> HIDE DEF done
  <2>3. Cardinality(done) \in Nat
      BY <2>1, JobsAssumption, FS_Subset, FS_CardinalityType
  <2>4. Len(stored[v]) \in Nat
      OBVIOUS
  <2>5. Len(stored[v]) <= MaxSnapshots + Cardinality(done)
      BY <2>2, <2>3, <2>4, SnapshotAssumption
  <2>6. QED
      BY <2>5 DEF done
<1>2. FewSnapshots(snapshots', work', jobs')
    BY <1>1 DEF FewSnapshots, DoneWith
<1>3. QED
    BY <1>2 DEF TInv, WorkShaped

LEMMA PostAndDeleteTyped ==
    ASSUME TInv, Rows, NEW v \in VMs,
           DeleteVM(v) \/ \E state \in Guests : PostSnapshot(v, state)
    PROVE  TInv'
<1>1. CASE DeleteVM(v)
  <2> DEFINE stored == [snapshots EXCEPT ![v] = <<>>]
  <2>1. /\ UNCHANGED <<guest, cache, jobs, work, answered>> /\ Event
        /\ snapshots' = stored /\ latest' = [latest EXCEPT ![v] = none]
      BY <1>1 DEF DeleteVM
  <2>2. stored \in [VMs -> Seq(Guests)] /\ \A u \in VMs : Len(stored[u]) <= Len(snapshots[u])
    <3>1. snapshots \in [VMs -> Seq(Guests)] /\ \A u \in VMs : Len(snapshots[u]) \in Nat
        BY DEF TInv, FewSnapshots
    <3>2. <<>> \in Seq(Guests) /\ Len(<<>>) = 0
        OBVIOUS
    <3>3. \A u \in VMs : stored[u] = IF u = v THEN <<>> ELSE snapshots[u]
        BY <3>1
    <3>4. QED
        BY <3>1, <3>2, <3>3
  <2> HIDE DEF stored
  <2>3. WorkShaped(work', jobs') /\ FewSnapshots(snapshots', work', jobs')
      BY <2>1, <2>2, SameWorkTyped
  <2>4. latest' \in [VMs -> Results \cup {none}]
      BY <2>1 DEF TInv
  <2>5. QED
      BY <2>1, <2>3, <2>4, EventTyped DEF TInv
<1>2. ASSUME NEW state \in Guests, PostSnapshot(v, state) PROVE TInv'
  <2> DEFINE longer == Append(snapshots[v], state)
             stored == [snapshots EXCEPT ![v] = longer]
  <2>1. /\ UNCHANGED <<guest, latest, cache, jobs, work, answered>> /\ Event
        /\ Len(snapshots[v]) < MaxSnapshots /\ snapshots' = stored
      BY <1>2 DEF PostSnapshot
  <2>2. stored \in [VMs -> Seq(Guests)]
        /\ \A u \in VMs : Len(stored[u]) <= Len(snapshots[u]) \/ Len(stored[u]) <= MaxSnapshots
    <3>1. snapshots \in [VMs -> Seq(Guests)] /\ \A u \in VMs : Len(snapshots[u]) \in Nat
        BY DEF TInv, FewSnapshots
    <3>2. longer \in Seq(Guests) /\ Len(longer) = Len(snapshots[v]) + 1
        BY <3>1
    <3> HIDE DEF longer
    <3>3. stored \in [VMs -> Seq(Guests)] /\ \A u \in VMs : stored[u] = IF u = v THEN longer ELSE snapshots[u]
        BY <3>1, <3>2
    <3>4. QED
        BY <2>1, <3>1, <3>2, <3>3, SnapshotAssumption
  <2> HIDE DEF stored
  <2>3. WorkShaped(work', jobs') /\ FewSnapshots(snapshots', work', jobs')
      BY <2>1, <2>2, SameWorkTyped
  <2>4. QED
      BY <2>1, <2>3, EventTyped DEF TInv
<1>3. QED
    BY <1>1, <1>2

LEMMA OthersTyped ==
    ASSUME TInv,
           \/ \E v \in VMs, state \in Guests : GuestChanges(v, state)
           \/ \E key \in DOMAIN cache : EntryExpires(key)
    PROVE  TInv'
<1>1. UNCHANGED <<snapshots, latest, jobs, work, answered>> /\ Event
    BY DEF GuestChanges, EntryExpires, database
<1>2. WorkShaped(work', jobs') /\ FewSnapshots(snapshots', work', jobs')
    BY <1>1 DEF TInv, WorkShaped, FewSnapshots, DoneWith
<1>3. guest' \in [VMs -> Guests]
    BY DEF GuestChanges, EntryExpires, TInv
<1>4. CacheTyped(cache')
  <2>1. ASSUME NEW key \in DOMAIN cache, cache' = [cache EXCEPT ![key].fresh = FALSE]
        PROVE  CacheTyped(cache')
    <3> DEFINE entry == [cache[key] EXCEPT !.fresh = FALSE]
    <3>1. entry \in [verdict : Verdicts, fresh : BOOLEAN]
        BY DEF TInv, CacheTyped
    <3>2. DOMAIN cache' = DOMAIN cache /\ \A k \in DOMAIN cache : cache'[k] = IF k = key THEN entry ELSE cache[k]
        BY <2>1
    <3> HIDE DEF entry
    <3>3. QED
        BY <3>1, <3>2 DEF TInv, CacheTyped
  <2>2. CASE UNCHANGED cache
      BY <2>2 DEF TInv
  <2>3. QED
      BY <2>1, <2>2 DEF GuestChanges, EntryExpires, database
<1>5. QED
    BY <1>1, <1>2, <1>3, <1>4, EventTyped DEF TInv

\* What is done holds no row, so an operator's status unties nothing of it.
LEMMA PatchStatusTyped ==
    ASSUME TInv, Rows, NEW v \in VMs, NEW new, PatchStatus(v, new) PROVE TInv'
<1>1. /\ UNCHANGED <<guest, snapshots, cache, jobs, answered>> /\ Event
      /\ latest' = [latest EXCEPT ![v] = IF @ = none THEN @ ELSE [@ EXCEPT !.alone = FALSE]]
      /\ work' = [k \in Jobs |-> [work[k] EXCEPT ![v].alone = @ /\ work[k][v].loaded = "unread"]]
    BY DEF PatchStatus, Untied
<1>2. ASSUME NEW k \in Jobs PROVE JobKept(work'[k], k)
  <2> DEFINE flag == work[k][v].alone /\ work[k][v].loaded = "unread"
             n == [work[k][v] EXCEPT !.alone = flag]
  <2>1. Shaped(work[k][v], jobs[k]) /\ work[k][v] \in Work /\ DOMAIN work[k] = VMs
      BY ShapedOf
  <2>2. work'[k] = [work[k] EXCEPT ![v] = n]
      BY <1>1, <2>1
  <2>3. flag \in BOOLEAN
      BY <2>1, WorkFields
  <2>4. work[k][v].pc \in Ended => flag = work[k][v].alone
    <3>1. work[k][v].pc \in Ended => work[k][v].loaded = "unread"
        BY <2>1, HoldsNotDone
    <3>2. work[k][v].alone \in BOOLEAN
        BY <2>1, WorkFields
    <3>3. QED
        BY <3>1, <3>2
  <2> HIDE DEF flag
  <2>5. n \in Work /\ Alike(n, work[k][v])
      BY <2>1, <2>3, FieldsGiven, WorkFields, FieldsAre DEF Alike
  <2>6. flag = work[k][v].alone => n = work[k][v]
      BY <2>1 DEF Work
  <2> HIDE DEF n
  <2>7. Kept(n, work[k][v], jobs[k])
    <3>1. CASE work[k][v].pc \in Ended
        BY <2>1, <2>4, <2>6, <3>1 DEF Kept
    <3>2. CASE work[k][v].pc \notin Ended
        BY <2>1, <2>5, <3>2, AlikeIsShaped
    <3>3. QED
        BY <3>1, <3>2
  <2>8. QED
      BY <2>2, <2>7, ItselfKept, OneRecordKept
<1>3. WorksKept(work')
  <2>1. work' = [k \in Jobs |-> work'[k]]
      BY <1>1
  <2>2. QED
      BY <1>2, <2>1 DEF WorksKept, JobKept
<1>4. latest' \in [VMs -> Results \cup {none}]
  <2> DEFINE result == IF latest[v] = none THEN latest[v] ELSE [latest[v] EXCEPT !.alone = FALSE]
  <2>1. latest \in [VMs -> Results \cup {none}]
      BY DEF TInv
  <2>2. result \in Results \cup {none}
      BY <2>1 DEF Results
  <2>3. latest' = [latest EXCEPT ![v] = result]
      BY <1>1, <2>1
  <2> HIDE DEF result
  <2>4. QED
      BY <2>1, <2>2, <2>3
<1>5. QED
    BY <1>1, <1>3, <1>4, KeptIsShaped, EventTyped DEF TInv

LEMMA RestartTyped ==
    ASSUME TInv, Restart PROVE TInv'
<1>1. /\ UNCHANGED <<guest, snapshots, latest, cache, answered>> /\ Event
      /\ jobs' = [j \in Jobs |-> IF jobs[j] \in Kinds THEN "lost" ELSE jobs[j]]
      /\ work' = [j \in Jobs |-> [v \in VMs |-> NoWork]]
    BY DEF Restart, database
<1>2. jobs' \in [Jobs -> Kinds \cup {"idle", "lost"}]
    BY <1>1 DEF TInv
<1>3. (\A kind : Shaped(NoWork, kind)) /\ NoWork.pc \in Ended
  <2>1. NoWork.pc = "none" /\ "none" \in Ended
      BY DEF NoWork, Ended
  <2>2. QED
      BY <2>1, NoWorkIs, NoWorkTyped
<1>4. WorkShaped(work', jobs')
  <2>1. NoWork \in Work
      BY <1>3 DEF Shaped
  <2>2. QED
      BY <1>1, <1>3, <2>1 DEF WorkShaped
<1>5. \A v \in VMs : DoneWith(work, jobs, v) \subseteq DoneWith(work', jobs', v)
  <2>1. ASSUME NEW j \in Jobs, jobs[j] # "idle" PROVE jobs'[j] # "idle"
      BY <1>1, <2>1
  <2>2. QED
      BY <1>1, <1>3, <2>1 DEF DoneWith
<1>6. FewSnapshots(snapshots', work', jobs')
    BY <1>1, <1>5, MoreAreDone
<1>7. QED
    BY <1>1, <1>2, <1>4, <1>6, EventTyped DEF TInv

LEMMA StepTyped ==
    ASSUME TInv, VInv, Rows, NEW j \in Jobs, NEW v \in VMs, Step(j, v) PROVE TInv'
<1>1. CASE RunTask(j, v) \/ NextInLoop(j, v)
    BY <1>1, TurnTyped
<1>2. CASE \E flag \in BOOLEAN : \/ CaptureCollected(j, v, flag) \/ ValidationCollected(j, v, flag)
                                 \/ CollectionFails(j, v, flag)
    BY <1>2, CollectedTyped, FailureTyped
<1>3. CASE ConnectionDrops(j, v) \/ BackendFails(j, v) \/ BackendRaises(j, v)
    BY <1>3, FailureTyped
<1>4. CASE CacheHit(j, v) \/ CacheMiss(j, v) \/ GuardrailFlags(j, v)
    BY <1>4, CacheHitTyped, AskingTyped
<1>5. CASE \E answer \in Answers : Answered(j, v, answer) \/ Rejected(j, v, answer)
    BY <1>5, AnsweredTyped, AskingTyped
<1>6. CASE CacheStored(j, v) \/ StoreSnapshot(j, v) \/ StoreResult(j, v)
    BY <1>6, CacheStoredTyped, StoreSnapshotTyped, StoreResultTyped
<1>7. QED
    BY <1>1, <1>2, <1>3, <1>4, <1>5, <1>6 DEF Step

LEMMA NextTyped == TInv /\ VInv /\ Rows /\ [Next]_vars => TInv'
<1> SUFFICES ASSUME TInv, VInv, Rows, [Next]_vars PROVE TInv'
    OBVIOUS
<1>1. ASSUME NEW j \in Jobs, NEW v \in VMs, TriggerCapture(j, v) \/ TriggerValidation(j, v)
      PROVE  TInv'
    BY <1>1, StartTyped DEF TriggerCapture, TriggerValidation, Kinds
<1>2. ASSUME NEW j \in Jobs, CaptureAll(j) \/ ValidateAll(j) \/ CollectBaselinesForAllVMs(j)
      PROVE  TInv'
    BY <1>2, StartTyped DEF CaptureAll, ValidateAll, CollectBaselinesForAllVMs, Kinds
<1>3. ASSUME NEW j \in Jobs, NEW scope \in SUBSET VMs,
             CaptureBulk(j, scope) \/ RunBulk(j, scope) \/ FireSchedule(j, scope)
      PROVE  TInv'
    BY <1>3, StartTyped DEF CaptureBulk, RunBulk, FireSchedule, Kinds
<1>4. ASSUME NEW j \in Jobs, NEW v \in VMs, Step(j, v) PROVE TInv'
    BY <1>4, StepTyped
<1>5. ASSUME NEW v \in VMs, NEW state \in Guests, PostSnapshot(v, state) PROVE TInv'
    BY <1>5, PostAndDeleteTyped
<1>6. ASSUME NEW v \in VMs, DeleteVM(v) PROVE TInv'
    BY <1>6, PostAndDeleteTyped
<1>7. ASSUME NEW v \in VMs, NEW new \in Settable, PatchStatus(v, new) PROVE TInv'
    BY <1>7, PatchStatusTyped
<1>8. CASE \/ \E v \in VMs, state \in Guests : GuestChanges(v, state)
           \/ \E key \in DOMAIN cache : EntryExpires(key)
    BY <1>8, OthersTyped
<1>9. CASE Restart
    BY <1>9, RestartTyped
<1>10. CASE UNCHANGED vars
    BY <1>10 DEF vars, TInv, WorkShaped, FewSnapshots, DoneWith
<1>11. QED
    BY <1>1, <1>2, <1>3, <1>4, <1>5, <1>6, <1>7, <1>8, <1>9, <1>10 DEF Next

\* Every variable of the validations keeps its type, a task that ended holds no
\* row, and snapshot numbers stay within those posted and one per job, for any
\* number of VMs and guest states and any finite set of jobs.
THEOREM TypeCorrect == Spec => []TypeOK
<1>1. TInv /\ VInv /\ Rows => TypeOK
  <2> SUFFICES ASSUME TInv, VInv, Rows PROVE TypeOK
      OBVIOUS
  <2>1. \A v \in VMs : \A n \in DOMAIN snapshots[v] : snapshots[v][n] \in Guests
    <3>1. \A v \in VMs : snapshots[v] \in Seq(Guests)
        BY DEF TInv, FewSnapshots
    <3>2. QED
        BY <3>1
  <2>2. status \in [VMs -> Statuses]
      BY DEF Rows
  <2>3. /\ work \in [Jobs -> [VMs -> Work]]
        /\ \A j \in Jobs, v \in VMs :
              work[j][v].pc \in Ended => work[j][v] = [NoWork EXCEPT !.pc = work[j][v].pc]
      BY DEF TInv, WorkShaped, Shaped
  <2>4. QED
      BY <2>1, <2>2, <2>3 DEF TypeOK, TInv, CacheTyped
<1>2. QED
    BY <1>1, InitSane, InitRows, InitTyped, NextSane, NextRows, NextTyped, PTL DEF Spec

=============================================================================
