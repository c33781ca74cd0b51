------------------------------ MODULE PlanEdits ------------------------------
(***************************************************************************)
(* POST /api/plans/{id}/edits over several plans (core/plan_edit.py,       *)
(* core/wave_constraints.py, core/plan_membership.py, api/plan_edits.py):  *)
(* which edits are refused, which need the operator's confirmation, and    *)
(* what the plans record of the rules they break.  A request locks its     *)
(* plans, evaluates the edit and commits: the VMs and the mappings that    *)
(* the evaluation reads are not locked and may change before the commit.   *)
(*                                                                         *)
(* The collection runs that hold a wave back, the deletion of plans and    *)
(* the text of the waves are in PlanWaves and PlanLifecycle.               *)
(***************************************************************************)
EXTENDS WaveSkeleton, TargetMapping

CONSTANTS
    Plans,
    Requests,      \* bound: edits that are evaluated but not committed yet
    Layouts,       \* bound: what generation left, wave by wave
    Mappings,      \* bound: sets of mappings
    Patches,       \* bound: what PATCHes and imports set of VMs
    MaxNumber,     \* bound: wave numbers
    MaxVMsPerPlan, \* settings.max_vms_per_plan
    MaxEvents      \* bound: edits, and changes to the plans, VMs and mappings

ASSUME BoundsAssumption ==
    MaxNumber \in Nat \ {0} /\ MaxVMsPerPlan \in Nat /\ MaxEvents \in Nat

\* NoPlan is none of them.
ASSUME PlansAssumption == 0 \notin Plans

\* detect_family: what of a VM its name decides.
NameFields == {"stem", "ha", "num", "dash"}

\* An import gives a VM that it matched by MoRef another name.
Renames == {c \in Patches : NameFields \subseteq DOMAIN c.fields}

ASSUME PatchesAssumption == \A c \in Patches \ Renames : NameFields \cap DOMAIN c.fields = {}

\* Ids are numbers, and a plan's waves share no VM.
ASSUME LayoutsAssumption ==
    \A l \in Layouts :
       /\ DOMAIN l.vm \subseteq Nat /\ IsFiniteSet(DOMAIN l.vm)
       /\ \A v \in DOMAIN l.vm : NameFields \subseteq DOMAIN l.vm[v]
       /\ \A p \in Plans :
             /\ l.plans[p].type \in {"cold", "warm"}
             /\ \A n \in 1..MaxNumber : l.plans[p].waves[n] \subseteq DOMAIN l.vm
       /\ \A p \in Plans, m, n \in 1..MaxNumber :
             m # n => l.plans[p].waves[m] \cap l.plans[p].waves[n] = {}

\* vm, the attributes of every VM, keeps those of a deleted one: its waves have
\* its name, and nothing else of it is asked for.  Of a plan, generated and dropped
\* are history: the rules it broke when it was generated, and whether a rebuilt
\* wave left out a VM that is gone.
VARIABLES
    rows,      \* VMs that are in the inventory
    lifecycle, \* of each VM
    maps,      \* ResourceMapping rows
    plan,      \* the plans
    req,       \* the edits that are evaluated and not committed yet
    changed,   \* history: a VM or a mapping is not what it was
    renamed,   \* history: the name of a VM is not what it was
    events

vars == <<vm, rows, lifecycle, maps, plan, req, changed, renamed, events>>

Numbers == 1..MaxNumber

NoDoc == [vms |-> {}, overrides |-> {}, yaml |-> FALSE, colour |-> 0]

-----------------------------------------------------------------------------
(* core/wave_constraints.py.  A layout gives the VMs of each wave number of a *)
(* plan d.                                                                    *)

Layout(d) == [n \in Numbers |-> d.waves[n].vms]

Keys(layout) == {n \in Numbers : layout[n] # {}}
Members(layout) == UNION {layout[n] : n \in Numbers}

Violation(code, n, family, count, limit) ==
    [code |-> code, wave |-> n, family |-> family, count |-> count, limit |-> limit]

WaveSizeViolations(layout) ==
    {Violation("wave_size", n, <<>>, Cardinality(layout[n]), MaxVMsPerWave) :
        n \in {n \in Numbers : Cardinality(layout[n]) > MaxVMsPerWave}}

\* The cap follows the size of the family in the whole plan.
HAFamilyViolations(layout) ==
    LET size(v) == Cardinality(FamilyIn(v, Members(layout)))
        count(n, v) == Cardinality(FamilyIn(v, layout[n]))
    IN  UNION {{Violation("ha_family_cap", n, Family(v), count(n, v), FamilyCap(size(v))) :
                   v \in {v \in layout[n] : size(v) >= 2 /\ count(n, v) > FamilyCap(size(v))}} :
                n \in Numbers}

CheckWaves(layout) == WaveSizeViolations(layout) \cup HAFamilyViolations(layout)

SameRule(v, w) == v.code = w.code /\ v.wave = w.wave /\ v.family = w.family

\* Mutant: what was broken before may be broken worse.
Introduced_NewOnly(before, after) == {v \in after : ~\E w \in before : SameRule(v, w)}

\* diff_violations.
Introduced(before, after) ==
    {v \in after : \A w \in before : SameRule(v, w) => v.count > w.count}

-----------------------------------------------------------------------------
(* core/plan_membership.py *)

\* The plan's vm_ids: wave by wave; within a wave in the order of the ids.
WaveOf(layout, v) == CHOOSE n \in Numbers : v \in layout[n]

Precedes(layout, v, w) ==
    LET m == WaveOf(layout, v)
        n == WaveOf(layout, w)
    IN  m < n \/ (m = n /\ v < w)

Candidates(layout) ==
    LET all == Members(layout)
    IN  {v \in all : Cardinality({w \in all : Precedes(layout, w, v)}) < 3}

\* plan_partitions: that of the first candidate that is left in the inventory.
TargetOf(p) ==
    LET layout == Layout(plan[p])
        left == Candidates(layout) \cap rows
        first == CHOOSE v \in left : \A w \in left \ {v} : Precedes(layout, v, w)
    IN  IF left = {} THEN Unresolved ELSE Target(vm[first], maps)

PlanMappings(d) == {m \in maps : m.vc = d.pair[1] /\ m.cluster = d.pair[2]}

Complete(d) == d.status = "complete"

\* Mutant: only the cluster is compared.
SamePartition_Cluster(s, t) == s.cluster = t.cluster
SamePartition(s, t) == s = t

\* Mutant: every plan that resolves is offered.
EditTargets_AnyPartition(p) ==
    {t \in Plans \ {p} : Complete(plan[t]) /\ TargetOf(p) # Unresolved /\ TargetOf(t) # Unresolved}
\* GET .../edit-targets.
EditTargets(p) ==
    {t \in Plans \ {p} : /\ Complete(plan[t])
                         /\ TargetOf(p) # Unresolved /\ TargetOf(t) # Unresolved
                         /\ SamePartition(TargetOf(p), TargetOf(t))}

-----------------------------------------------------------------------------
(* What prepare() finds.  vs leave plan p for wave dest of plan t, NoPlan for  *)
(* neither.                                                                    *)

NoPlan == 0

Entering(p, t) == t # NoPlan /\ t # p

\* _target_violations finds nothing: the gates of plan generation.
SameTarget(v, t) == SamePartition(Target(vm[v], maps), TargetOf(t))

Admits(p, t, vs) ==
    /\ p = NoPlan => \A v \in vs : lifecycle[v] = "available"
    /\ TargetOf(t) # Unresolved
    /\ \A v \in vs : SameTarget(v, t) /\ Covered(vm[v], PlanMappings(plan[t]))
    /\ (IF p = NoPlan THEN TRUE ELSE plan[p].type # plan[t].type) =>
          \A v \in vs : plan[t].type \in vm[v].fit

\* Mutant: the VMs stay where they were.
After_Copies(q, p, t, vs, dest) ==
    [n \in Numbers |-> IF q = t /\ n = dest THEN Layout(plan[q])[n] \cup vs ELSE Layout(plan[q])[n]]
After(q, p, t, vs, dest) ==
    [n \in Numbers |-> IF q = t /\ n = dest THEN Layout(plan[q])[n] \cup vs
                       ELSE IF q = p THEN Layout(plan[q])[n] \ vs ELSE Layout(plan[q])[n]]

Touched(q, after) == {n \in Numbers : after[n] # Layout(plan[q])[n]}

NextNumber(q) == Max({plan[q].seq} \cup Keys(Layout(plan[q]))) + 1

\* The rules the edit breaks anew or worse; the layouts still count the VMs
\* that are gone.
NewlyBroken(q, after) == Introduced(CheckWaves(Layout(plan[q])), CheckWaves(after))

\* _override_entries: what was acknowledged and still holds, and what this edit adds.
Overrides(q, after) ==
    LET acknowledged == UNION {plan[q].waves[n].overrides : n \in Numbers}
        new == NewlyBroken(q, after)
        entries == {v \in CheckWaves(after) : v \in new \/ \E o \in acknowledged : SameRule(o, v)}
    IN  [n \in Numbers |-> {v \in entries : v.wave = n}]

\* _build_wave_doc and _rebuild_plan: a touched wave is built from the VMs that
\* are left, and every wave is coloured again.
AttributesOf(vms) == {vm[v] : v \in vms}

Yaml(d, vms) == Emits(AttributesOf(vms), WaveMapping(AttributesOf(vms), PlanMappings(d)))

ShellWave(vms) ==
    LET known == {v \in vms \cap rows : vm[v].vc # NoSource}
    IN  {[vms |-> vms, key |-> [primary |->
            [vc |-> IF known = {} THEN NoSource ELSE vm[Least(known)].vc]]]}

Coloured(waves) ==
    LET colours == ConcurrencyGroups([n \in {n \in Numbers : waves[n].vms # {}} |->
                                         ShellWave(waves[n].vms)])
    IN  [n \in Numbers |->
            IF waves[n].vms = {} THEN NoDoc ELSE [waves[n] EXCEPT !.colour = colours[n]]]

Rebuilt(q, after) ==
    LET touched == Touched(q, after)
        overrides == Overrides(q, after)
        doc(n) == IF n \notin touched THEN plan[q].waves[n]
                  ELSE [NoDoc EXCEPT !.vms = after[n] \cap rows,
                                     !.yaml = Yaml(plan[q], after[n] \cap rows)]
    IN  Coloured([n \in Numbers |-> [doc(n) EXCEPT !.overrides = overrides[n]]])

\* A wave that is new, or that had YAML, must have it.
YamlLost(q, after) ==
    \E n \in Touched(q, after) :
       /\ after[n] \cap rows # {}
       /\ n \in Keys(Layout(plan[q])) => plan[q].waves[n].yaml
       /\ ~Yaml(plan[q], after[n] \cap rows)

Oversized(p, t, after) == Entering(p, t) /\ Cardinality(Members(after)) > MaxVMsPerPlan

\* What needs confirm_overrides.
Overridable(p, t, q, after) ==
    NewlyBroken(q, after) # {} \/ (q = t /\ Oversized(p, t, after))

Blocked(q, p, after) == (q = p /\ Members(after) = {}) \/ YamlLost(q, after)

-----------------------------------------------------------------------------
(* An edit is evaluated, and later committed as it was evaluated. *)

Event == events < MaxEvents /\ events' = events + 1

NoEdit == [from |-> NoPlan, to |-> NoPlan, vs |-> {}, seen |-> [v \in {} |-> "planned"],
           rows |-> [q \in {} |-> NoDoc], stale |-> FALSE]

Locked(q) == \E r \in Requests : q \in DOMAIN req[r].rows

\* PlanChange: what plan q will be.
Changed(q, p, t, vs, dest) ==
    LET after == After(q, p, t, vs, dest)
    IN  [plan[q] EXCEPT !.waves = Rebuilt(q, after),
                        !.seq = Max({@} \cup Keys(Layout(plan[q])) \cup Keys(after)),
                        !.dropped = @ \/ \E n \in Touched(q, after) : ~(after[n] \subseteq rows)]

\* The rows of the plans are locked first.  confirm_overrides where it is needed:
\* without it the edit is refused, and where it is not needed it makes no
\* difference.  A VM that is in both plans would be in the target twice, and is
\* refused.
Prepare(r, p, t, vs, dest) ==
    LET sides == {p, t} \ {NoPlan}
        after == [q \in sides |-> After(q, p, t, vs, dest)]
    IN  /\ Event /\ req[r] = NoEdit
        /\ \A q \in sides : ~Locked(q) /\ Complete(plan[q])
        /\ \E q \in sides : Touched(q, after[q]) # {}
        /\ Entering(p, t) => Admits(p, t, vs) /\ vs \cap Members(Layout(plan[t])) = {}
        /\ \A q \in sides : ~Blocked(q, p, after[q])
        /\ \E confirm \in BOOLEAN : confirm = \E q \in sides : Overridable(p, t, q, after[q])
        /\ req' = [req EXCEPT ![r] =
                     [from |-> p, to |-> t, vs |-> vs, seen |-> [v \in vs |-> lifecycle[v]],
                      rows |-> [q \in sides |-> Changed(q, p, t, vs, dest)], stale |-> FALSE]]
        /\ UNCHANGED <<vm, rows, lifecycle, maps, plan, changed, renamed>>

\* Unknown VMs, waves that are not there and VMs that are not in the plan, or that
\* are in it already, are refused.
InPlan(p) == (SUBSET (Members(Layout(plan[p])) \cap rows)) \ {{}}
WavesFor(t) == Numbers \cap (Keys(Layout(plan[t])) \cup {NextNumber(t)})

MoveToWave(r, p) ==
    \E vs \in InPlan(p), dest \in WavesFor(p) : Prepare(r, p, p, vs, dest)
MoveToPlan(r, p, t) ==
    p # t /\ \E vs \in InPlan(p), dest \in WavesFor(t) : Prepare(r, p, t, vs, dest)
RemoveVMs(r, p) ==
    \E vs \in InPlan(p) : Prepare(r, p, NoPlan, vs, 0)
AddVMs(r, t) ==
    \E vs \in (SUBSET (rows \ Members(Layout(plan[t])))) \ {{}}, dest \in WavesFor(t) :
       Prepare(r, NoPlan, t, vs, dest)

\* The rows of the VMs are locked now, but the session may still hold their states
\* as the evaluation read them.
Readings(r) == {req[r].seen, [v \in req[r].vs |-> lifecycle[v]]}

Moved(vs, state) == [v \in DOMAIN vm |-> IF v \in vs THEN state ELSE lifecycle[v]]

\* transition_to_planned and record_plan_reassignment want every VM there, and in
\* this state.
Expected(r) == IF req[r].from = NoPlan THEN "available" ELSE "planned"

AllAs(r, states) == req[r].vs \subseteq rows /\ \A v \in req[r].vs : states[v] = Expected(r)

Done(r) == req[r] # NoEdit /\ req' = [req EXCEPT ![r] = NoEdit]

Commit(r) ==
    /\ Done(r)
    /\ plan' = [q \in Plans |-> IF q \in DOMAIN req[r].rows THEN req[r].rows[q] ELSE plan[q]]
    /\ \E states \in Readings(r) :
          LET planned == {v \in req[r].vs \cap rows : states[v] = "planned"}
          IN  \/ /\ Entering(req[r].from, req[r].to) /\ AllAs(r, states)
                 /\ lifecycle' = IF req[r].from = NoPlan THEN Moved(req[r].vs, "planned") ELSE lifecycle
              \/ req[r].from = req[r].to /\ UNCHANGED lifecycle
              \/ req[r].to = NoPlan /\ lifecycle' = Moved(planned, "available")
    /\ UNCHANGED <<vm, rows, maps, changed, renamed, events>>

\* LifecycleTransitionError
Refuse(r) ==
    /\ Done(r)
    /\ Entering(req[r].from, req[r].to) /\ \E states \in Readings(r) : ~AllAs(r, states)
    /\ UNCHANGED <<vm, rows, lifecycle, maps, plan, changed, renamed, events>>

-----------------------------------------------------------------------------
(* Everything else that touches these rows *)

\* History: the edits that were evaluated before this change.
Outdate == req' = [r \in Requests |-> IF req[r] = NoEdit THEN NoEdit ELSE [req[r] EXCEPT !.stale = TRUE]]

\* transition_to_migrated
MarkSucceeded(p) ==
    /\ Event /\ ~Locked(p) /\ Complete(plan[p])
    /\ Members(Layout(plan[p])) \subseteq rows
    /\ \A v \in Members(Layout(plan[p])) : lifecycle[v] \in {"planned", "migrated"}
    /\ plan' = [plan EXCEPT ![p].status = "migrated"]
    /\ lifecycle' = Moved(Members(Layout(plan[p])), "migrated")
    /\ UNCHANGED <<vm, rows, maps, req, changed, renamed>>

DeleteVM(v) ==
    /\ Event /\ Outdate
    /\ rows' = rows \ {v}
    /\ UNCHANGED <<vm, lifecycle, maps, plan, changed, renamed>>

\* PATCH of a VM, its labels, networks, datastores and targets; or an import, which
\* may rename it too.
Patched(a, fields) == [f \in DOMAIN a |-> IF f \in DOMAIN fields THEN fields[f] ELSE a[f]]

EditVM(v) ==
    /\ Event /\ Outdate /\ v \in rows
    /\ \E c \in Patches :
          /\ c.id = v
          /\ vm' = [vm EXCEPT ![v] = Patched(vm[v], c.fields)]
          /\ renamed' = (renamed \/ NameFields \cap DOMAIN c.fields # {})
    /\ changed' = TRUE
    /\ UNCHANGED <<rows, lifecycle, maps, plan>>

EditMappings ==
    /\ Event /\ Outdate
    /\ maps' \in Mappings \ {maps}
    /\ changed' = TRUE
    /\ UNCHANGED <<vm, rows, lifecycle, plan, renamed>>

Next ==
    \/ \E r \in Requests :
          \/ \E p \in Plans : MoveToWave(r, p) \/ RemoveVMs(r, p) \/ AddVMs(r, p)
          \/ \E p, t \in Plans : MoveToPlan(r, p, t)
          \/ Commit(r) \/ Refuse(r)
    \/ \E p \in Plans : MarkSucceeded(p)
    \/ \E v \in rows : DeleteVM(v) \/ EditVM(v)
    \/ EditMappings

\* What generation leaves: each plan within one partition that its mappings
\* cover, every wave rendered, no wave larger than the packer makes it, while the
\* packer may put more of a name family into a wave than the cap allows.
Generated(l) ==
    LET waves(p) == [n \in Numbers |->
            [NoDoc EXCEPT !.vms = l[p].waves[n], !.yaml = l[p].waves[n] # {}]]
        layout(p) == [n \in Numbers |-> l[p].waves[n]]
    IN  [p \in Plans |-> [type |-> l[p].type, status |-> "complete", pair |-> l[p].pair,
                          seq |-> 0, waves |-> Coloured(waves(p)),
                          generated |-> CheckWaves(layout(p)), dropped |-> FALSE]]

Uniform(d) ==
    \E t \in {Target(vm[v], maps) : v \in Members(Layout(d)) \cap rows} :
       /\ t # Unresolved
       /\ \A v \in Members(Layout(d)) \cap rows : Target(vm[v], maps) = t

\* plan.mapping_ids: the mappings of the partition's vCenter and cluster.
OfItsPartition(d, t) == d.pair = <<t.vc, t.cluster>>

Sound(d) ==
    /\ Uniform(d)
    /\ \A v \in Members(Layout(d)) : OfItsPartition(d, Target(vm[v], maps))
    /\ \A v \in Members(Layout(d)) : Covered(vm[v], PlanMappings(d)) /\ d.type \in vm[v].fit
    /\ \A n \in Keys(Layout(d)) :
          Cardinality(Layout(d)[n]) <= MaxVMsPerWave /\ Yaml(d, Layout(d)[n])
    /\ Cardinality(Members(Layout(d))) <= MaxVMsPerPlan

Init ==
    /\ \E l \in Layouts :
          /\ vm = l.vm
          /\ rows = DOMAIN vm
          /\ maps \in Mappings
          /\ plan = Generated(l.plans)
    /\ \A p \in Plans : Sound(plan[p])
    /\ lifecycle = [v \in DOMAIN vm |->
          IF \E p \in Plans : v \in Members(Layout(plan[p])) THEN "planned" ELSE "available"]
    /\ req = [r \in Requests |-> NoEdit]
    /\ changed = FALSE /\ renamed = FALSE
    /\ events = 0

Spec == Init /\ [][Next]_vars

-----------------------------------------------------------------------------
(* Properties *)

\* The families that names can be of.
NameOf(a) == <<a.stem, a.ha, IF a.dash THEN 0 ELSE a.num>>

Families ==
    {<<>>} \cup {NameOf(c.fields) : c \in Renames}
    \cup UNION {{NameOf(l.vm[v]) : v \in DOMAIN l.vm} : l \in Layouts}

Violations ==
    [code : {"wave_size", "ha_family_cap"}, wave : Numbers, family : Families,
     count : 0 .. Cardinality(DOMAIN vm), limit : 0 .. Cardinality(DOMAIN vm)]

\* What a plan is, and will be by an edit: no VM is in two of its waves.
WellFormed(d) ==
    /\ d.type \in {"cold", "warm"} /\ d.status \in {"complete", "migrated"}
    /\ d.seq \in Numbers \cup {0} /\ d.dropped \in BOOLEAN
    /\ d.generated \subseteq Violations
    /\ \A n \in Numbers : LET doc == d.waves[n] IN
          /\ doc.vms \subseteq DOMAIN vm /\ doc.overrides \subseteq Violations
          /\ doc.yaml \in BOOLEAN /\ doc.colour \in Nat
          /\ doc.vms = {} => doc = NoDoc
    /\ \A m, n \in Numbers : m # n => Layout(d)[m] \cap Layout(d)[n] = {}

\* Every variable has its type; two edits that are not committed have no plan in
\* common.
TypeOK ==
    /\ rows \subseteq DOMAIN vm
    /\ lifecycle \in [DOMAIN vm -> {"available", "planned", "migrated"}]
    /\ maps \in Mappings
    /\ \A p \in Plans : WellFormed(plan[p])
    /\ \A r \in Requests : \A q \in DOMAIN req[r].rows :
          /\ q \in Plans /\ WellFormed(req[r].rows[q])
          /\ \A s \in Requests \ {r} : q \notin DOMAIN req[s].rows
    /\ changed \in BOOLEAN /\ renamed \in BOOLEAN
    /\ events \in 0..MaxEvents

\* core/wave_constraints.py, core/plan_edit.py: an operator confirms every rule
\* an edit breaks or breaks worse, "a rule the layout no longer breaks drops off
\* the wave", and generated plans may break the family cap from the start.  So a
\* rule that a wave breaks is either on its record, as it is broken now, or it
\* was broken as much by the generation.  Two things make them differ: the
\* rebuild of a wave that leaves out a deleted VM, with which the rules were
\* evaluated, and a VM that an import renames, which no rule is evaluated for.
RulesAreConfirmed ==
    ~renamed => \A p \in Plans :
       LET standing == CheckWaves(Layout(plan[p]))
       IN  ~plan[p].dropped =>
              /\ \A n \in Numbers : plan[p].waves[n].overrides \subseteq standing
              /\ \A v \in standing :
                    \/ v \in plan[p].waves[v.wave].overrides
                    \/ \E w \in plan[p].generated : SameRule(v, w) /\ w.count >= v.count

\* core/plan_membership.py: "edits refuse cross-partition moves, so a single VM
\* answers for the plan".  Whatever was retargeted before, an edit leaves a plan
\* within one partition when it was within one, provided that no VM and no mapping
\* changed between the evaluation of the edit and its commit, of which only the
\* first reads them; and as long as nothing was retargeted, every wave of every
\* plan is one MTV plan with its YAML, and waves of one concurrency group share
\* neither a vCenter nor a name family.
EditsKeepPartitions ==
    /\ [](~changed => \A p \in Plans, n \in Numbers :
             LET layout == Layout(plan[p])
             IN  layout[n] # {} =>
                    /\ plan[p].waves[n].yaml
                    /\ Cardinality({Target(vm[v], maps) : v \in layout[n]}) = 1
                    /\ \A m \in Keys(layout) \ {n} :
                          plan[p].waves[m].colour = plan[p].waves[n].colour =>
                             ~Conflict(ShellWave(layout[m]), ShellWave(layout[n])))
    /\ [][\A r \in Requests : Done(r) /\ ~req[r].stale => \A q \in DOMAIN req[r].rows :
             Uniform(plan[q]) /\ Members(Layout(plan[q]))' \cap rows # {} => Uniform(plan[q])']_vars

\* api/plan_edits.py: edit-targets lists the plans "this plan's VMs can be moved
\* into": the move of any of them is admitted there, unless the plans are of
\* different types.
OfferedTargetsAdmit ==
    ~changed => \A p \in Plans : \A t \in EditTargets(p) :
       \A v \in Members(Layout(plan[p])) \cap rows :
          plan[p].type = plan[t].type => Admits(p, t, {v})
=============================================================================
