---------------------------- MODULE PlanPipeline ----------------------------
(***************************************************************************)
(* One plan from its selection to its YAML: POST /api/plans gates,         *)
(* partitions and cuts the selection (api/plans.py), the background task   *)
(* loads what it needs and walks the seven stages (core/plan_generation.py *)
(* and core/plan_pipeline.py), asking the model about every wave           *)
(* concurrently (core/wave_annotation.py), and the waves are downloaded.   *)
(* Meanwhile other requests change the inventory and the mappings.         *)
(*                                                                         *)
(* The model follows one plan of the series that the POST creates; what    *)
(* the plan's row and the lifecycle of its VMs go through is in            *)
(* PlanLifecycle.                                                          *)
(***************************************************************************)
EXTENDS WaveSkeleton, WaveMaps

CONSTANTS
    Fleets,       \* bound: inventories
    Mappings,     \* bound: sets of mappings
    Catalogs,     \* what each cluster declares
    Addresses,    \* the address of each vCenter
    Shapes(_),    \* bound: what an edit may make of a VM
    MaxVMsPerPlan,\* settings.max_vms_per_plan
    MaxCalls,     \* max_concurrent_calls of the backend
    MaxAttempts,  \* max_llm_attempts
    MaxEvents     \* bound: changes to inventory and mappings

\* VMs are numbered, and there are finitely many.
ASSUME FleetsAssumption ==
    \A f \in Fleets : DOMAIN f \subseteq Nat /\ IsFiniteSet(DOMAIN f)

\* Rows are lists, a mapping has a vCenter, and uq_mapping_per_pair allows one of
\* each pair.
IsList(rows) == Len(rows) \in Nat /\ DOMAIN rows = 1..Len(rows)

IsMapping(m) ==
    {"nets", "stores"} \subseteq DOMAIN m /\ m.vc # 0 /\ IsList(m.nets) /\ IsList(m.stores)

ASSUME MappingsAssumption ==
    \A s \in Mappings : \A m \in s :
       IsMapping(m) /\ \A n \in s : n.vc = m.vc /\ n.cluster = m.cluster => n = m

\* Every wave gets an attempt (max_llm_attempts is 3).
ASSUME BoundsAssumption == MaxAttempts \in Nat \ {0} /\ MaxEvents \in Nat

VARIABLES
    inventory,  \* VM rows: id -> attributes
    maps,       \* ResourceMapping rows
    stage,      \* MigrationPlan.status, with what comes before it
    plan,       \* the plan: its VMs, its partition and the mappings it refers to
    rows,       \* those mappings, as the task loaded them
    groups,     \* of the pipeline
    waves,      \* of the pipeline: groups of each wave
    colour,     \* concurrency_group_id of each wave
    call,       \* what has become of the request about each wave
    attempt,    \* how many answers it has had
    banner,     \* AppSettings.last_llm_error is set
    served,     \* the last download of YAML
    events      \* changes made so far

pvars == <<groups, waves, colour, call, attempt>>
vars  == <<vm, inventory, maps, stage, plan, rows, pvars, banner, served, events>>

NoPlan == [vms |-> {}, partition |-> Unresolved, pairs |-> {}, changed |-> FALSE]

Ended == {"complete", "failed", "unrendered", "refused"}

Stages == Ended \union {"idle", "pending", "validating", "partitioning", "splitting", "packing",
                        "analyzing_concurrency", "annotating", "emitting_yaml"}

Routes == {"wave", "bundle"}

Calls == {"queued", "asking", "llm", "fallback"}

\* "unrendered" is a failure in Stage 7, "failed" one before it.
TypeOK ==
    /\ stage \in Stages
    /\ DOMAIN vm \subseteq plan.vms
    /\ \A g \in groups : g.vms # {} /\ g.key.role \in Roles /\ g.key.state \in States /\ g.risk \in Risks
    /\ DOMAIN colour \subseteq DOMAIN waves
    /\ DOMAIN call \subseteq DOMAIN waves
    /\ \A w \in DOMAIN call : call[w] \in Calls
    /\ \A w \in DOMAIN attempt : attempt[w] \in 0..MaxAttempts
    /\ banner \in BOOLEAN
    /\ served.status \in {"none", "refused", "served"} /\ served.route \in Routes
    /\ \A part \in served.parts : part.wave \in DOMAIN waves /\ part.vms # {}
    /\ events \in 0..MaxEvents

Init ==
    /\ inventory \in Fleets
    /\ maps \in Mappings
    /\ stage = "idle"
    /\ plan = NoPlan
    /\ vm = <<>> /\ rows = {} /\ groups = {} /\ waves = <<>> /\ colour = <<>>
    /\ call = <<>> /\ attempt = <<>>
    /\ banner = FALSE
    /\ served = [status |-> "none", route |-> "wave", parts |-> {}]
    /\ events = 0

-----------------------------------------------------------------------------
(* POST /api/plans *)

\* blocks_migration_type: fit is the set of types the assessment leaves.
Unfit(type) == {v \in DOMAIN inventory : type \notin inventory[v].fit}

\* _mapping_rows_for_partitions: those of the pair, or none when the operator opted out.
RowsFor(partition, optOut) ==
    IF optOut THEN {} ELSE {m \in maps : m.vc = partition.vc /\ m.cluster = partition.cluster}

\* skip_ineligible leaves out what cannot be planned instead of refusing it all.
Accepted(selected, optOut, skip) ==
    LET target(v) == Target(inventory[v], maps)
        good(v) == /\ target(v) # Unresolved
                   /\ Covered(inventory[v], RowsFor(target(v), optOut))
    IN  IF skip THEN {v \in selected : good(v)}
        ELSE IF \A v \in selected : good(v) THEN selected ELSE {}

\* chunk_partition: ordered by hint, family, name and id, cut into batches
\* whose sizes differ by at most one.
ChunkOrder(v, w) ==
    LET a == inventory[v]  b == inventory[w]
        family(x) == <<x.hint, x.stem, x.ha>>
        first(x) == Least({u \in DOMAIN inventory : family(inventory[u]) = family(x)})
    IN  first(a) < first(b) \/ (first(a) = first(b) /\ (a.num < b.num \/ (a.num = b.num /\ v < w)))

Chunks(vms) ==
    LET size  == Cardinality(vms)
        n     == (size + MaxVMsPerPlan - 1) \div MaxVMsPerPlan
        end(i) == i * (size \div n) + (IF i < size % n THEN i ELSE size % n)
        place(v) == Cardinality({w \in vms : ChunkOrder(w, v)})
    IN  {{v \in vms : end(i) <= place(v) /\ place(v) < end(i + 1)} : i \in 0..(n - 1)}

Create ==
    /\ stage = "idle"
    /\ \E type \in {"cold", "warm"}, optOut, skip, override \in BOOLEAN :
          LET unfit    == IF override THEN {} ELSE Unfit(type)
              accepted == IF unfit # {} /\ ~skip THEN {}
                          ELSE Accepted(DOMAIN inventory \ unfit, optOut, skip)
              target(v) == Target(inventory[v], maps)
          IN  \/ /\ accepted = {}
                 /\ stage' = "refused"
                 /\ UNCHANGED plan
              \/ \E t \in {target(v) : v \in accepted} :
                 \E batch \in Chunks({v \in accepted : target(v) = t}) :
                    /\ stage' = "pending"
                    /\ plan' = [vms |-> batch, partition |-> t, changed |-> FALSE,
                                pairs |-> {<<m.vc, m.cluster>> : m \in RowsFor(t, optOut)}]
    /\ UNCHANGED <<vm, inventory, maps, rows, pvars, banner, served, events>>

-----------------------------------------------------------------------------
(* run_simple_plan_generation and run_pipeline *)

Referred == {m \in maps : <<m.vc, m.cluster>> \in plan.pairs}

Load ==
    /\ stage = "pending"
    /\ IF plan.vms \subseteq DOMAIN inventory
       THEN /\ stage' = "validating"
            /\ vm' = [v \in plan.vms |-> inventory[v]]
            /\ rows' = Referred
       ELSE /\ stage' = "failed"
            /\ UNCHANGED <<vm, rows>>
    /\ UNCHANGED <<inventory, maps, plan, pvars, banner, served, events>>

Validate ==
    /\ stage = "validating"
    /\ stage' = IF \A v \in DOMAIN vm : Covered(vm[v], rows) THEN "partitioning" ELSE "failed"
    /\ UNCHANGED <<vm, inventory, maps, plan, rows, pvars, banner, served, events>>

PartitionVMs ==
    /\ stage = "partitioning"
    /\ stage' = "splitting"
    /\ groups' = Classify
    /\ UNCHANGED <<vm, inventory, maps, plan, rows, waves, colour, call, attempt, banner, served, events>>

Split ==
    /\ stage = "splitting"
    /\ stage' = "packing"
    /\ groups' = SplitFamilies(groups)
    /\ UNCHANGED <<vm, inventory, maps, plan, rows, waves, colour, call, attempt, banner, served, events>>

Pack ==
    /\ stage = "packing"
    /\ stage' = "analyzing_concurrency"
    /\ waves' = AssignWaves(groups)
    /\ UNCHANGED <<vm, inventory, maps, plan, rows, groups, colour, call, attempt, banner, served, events>>

\* Then every wave's request is queued; without a backend none is made.
Analyze ==
    /\ stage = "analyzing_concurrency"
    /\ stage' = "annotating"
    /\ colour' = ConcurrencyGroups(waves)
    /\ \E backend \in BOOLEAN :
          call' = [w \in DOMAIN waves |-> IF backend THEN "queued" ELSE "fallback"]
    /\ attempt' = [w \in DOMAIN waves |-> 0]
    /\ UNCHANGED <<vm, inventory, maps, plan, rows, groups, waves, banner, served, events>>

\* annotate_one_wave, under the semaphore of annotate_waves.
Asking == {w \in DOMAIN call : call[w] = "asking"}

SlotFree == Cardinality(Asking) < MaxCalls

Ask(w) ==
    /\ stage = "annotating"
    /\ call[w] = "queued"
    /\ SlotFree
    /\ call' = [call EXCEPT ![w] = "asking"]
    /\ UNCHANGED <<vm, inventory, maps, stage, plan, rows, groups, waves, colour, attempt, banner, served, events>>

\* A usable answer also clears what an earlier failure of the plan recorded.
Usable(w) ==
    /\ call' = [call EXCEPT ![w] = "llm"]
    /\ banner' = FALSE

\* The answer does not parse or breaks the schema: the next attempt says why.
Retry_OnceMore(w) == attempt[w] < MaxAttempts
Retry(w) == attempt[w] + 1 < MaxAttempts

Invalid(w) ==
    /\ call' = [call EXCEPT ![w] = IF Retry(w) THEN "queued" ELSE "fallback"]
    /\ UNCHANGED banner

\* Authentication, a guardrail: recorded for the operator.
Flagged(w) ==
    /\ call' = [call EXCEPT ![w] = "fallback"]
    /\ banner' = TRUE

Unreachable(w) ==
    /\ call' = [call EXCEPT ![w] = "fallback"]
    /\ UNCHANGED banner

Answer(w) ==
    /\ stage = "annotating"
    /\ call[w] = "asking"
    /\ attempt' = [attempt EXCEPT ![w] = @ + 1]
    /\ Usable(w) \/ Invalid(w) \/ Flagged(w) \/ Unreachable(w)
    /\ UNCHANGED <<vm, inventory, maps, stage, plan, rows, groups, waves, colour, served, events>>

Annotated ==
    /\ stage = "annotating"
    /\ \A w \in DOMAIN call : call[w] \in {"llm", "fallback"}
    /\ stage' = "emitting_yaml"
    /\ call' = <<>> /\ attempt' = <<>>
    /\ UNCHANGED <<vm, inventory, maps, plan, rows, groups, waves, colour, banner, served, events>>

AttributesOf(w) == {vm[v] : v \in VMsOf(waves[w])}

Emit ==
    /\ stage = "emitting_yaml"
    /\ stage' = IF \A w \in DOMAIN waves : Emits(AttributesOf(w), WaveMapping(AttributesOf(w), rows))
                THEN "complete" ELSE "unrendered"
    /\ UNCHANGED <<vm, inventory, maps, plan, rows, pvars, banner, served, events>>

-----------------------------------------------------------------------------
(* GET .../waves/{n}/mtv-yaml and GET .../yaml *)

\* What is left of a wave in the inventory, rendered with the mappings of now.
Left(w) == VMsOf(waves[w]) \intersect DOMAIN inventory

Now(w) == {inventory[v] : v \in Left(w)}

Renders(w) == Emits(Now(w), WaveMapping(Now(w), Referred))

YAML(w) ==
    LET m == WaveMapping(Now(w), Referred)
    IN  [wave |-> w, vms |-> Left(w), ns |-> {EmittedNamespace(m, a) : a \in Now(w)},
         nets |-> NetworkMap(Now(w), m, Catalogs[m.cluster]),
         stores |-> StorageMap(Now(w), m, Catalogs[m.cluster])]

Respond(route, ok, ws) ==
    /\ served' = IF ok THEN [status |-> "served", route |-> route, parts |-> {YAML(w) : w \in ws}]
                 ELSE [status |-> "refused", route |-> route, parts |-> {}]
    /\ UNCHANGED <<vm, inventory, maps, stage, plan, rows, pvars, banner, events>>

\* Refused when a VM of it is gone, or a mapping and no other serves the wave.
Whole_Partly(w) == TRUE
Whole(w) == VMsOf(waves[w]) \subseteq DOMAIN inventory

DownloadWave(w) ==
    /\ stage = "complete"
    /\ Respond("wave", Whole(w) /\ Renders(w), {w})

\* VMs that are gone are left out of the bundle.
DownloadBundle ==
    /\ stage = "complete"
    /\ Respond("bundle", \A w \in DOMAIN waves : Renders(w), DOMAIN waves)

-----------------------------------------------------------------------------
(* Other requests.  They matter before Load and before a download. *)

Event ==
    /\ stage \in {"pending", "complete"}
    /\ events < MaxEvents
    /\ events' = events + 1
    /\ plan' = [plan EXCEPT !.changed = TRUE]
    /\ UNCHANGED <<vm, stage, rows, pvars, banner, served>>

\* PATCH of a VM: its labels and overrides.
EditVM(v) ==
    /\ Event
    /\ \E a \in Shapes(v) : inventory' = [inventory EXCEPT ![v] = a]
    /\ UNCHANGED maps

DeleteVM(v) ==
    /\ Event
    /\ inventory' = Restrict(inventory, DOMAIN inventory \ {v})
    /\ UNCHANGED maps

\* PATCH of mappings.
EditMappings ==
    /\ Event
    /\ maps' \in {s \in Mappings : {<<m.vc, m.cluster>> : m \in s} = {<<m.vc, m.cluster>> : m \in maps}}
    /\ UNCHANGED inventory

\* The vCenter of the plan goes, with its mappings; its VMs stay without one.
DeleteVCenter(vc) ==
    /\ Event
    /\ inventory' = [v \in DOMAIN inventory |->
          [inventory[v] EXCEPT !.vc = IF @ = vc THEN NoSource ELSE @]]
    /\ maps' = {m \in maps : m.vc # vc}

DeleteTarget(cluster) ==
    /\ Event
    /\ inventory' = [v \in DOMAIN inventory |->
          [inventory[v] EXCEPT !.cluster = IF @ = cluster THEN NoCluster ELSE @]]
    /\ maps' = {m \in maps : m.cluster # cluster}

-----------------------------------------------------------------------------
Pipeline ==
    \/ Load \/ Validate \/ PartitionVMs \/ Split \/ Pack \/ Analyze
    \/ \E w \in DOMAIN call : Ask(w) \/ Answer(w)
    \/ Annotated \/ Emit

Change ==
    \/ \E v \in DOMAIN inventory : EditVM(v) \/ DeleteVM(v)
    \/ EditMappings
    \/ \E m \in maps : DeleteVCenter(m.vc) \/ DeleteTarget(m.cluster)

Download == DownloadBundle \/ \E w \in DOMAIN waves : DownloadWave(w)

Finished == stage \in Ended /\ UNCHANGED vars

Next == Create \/ Pipeline \/ Download \/ Change \/ Finished

Spec == Init /\ [][Next]_vars
-----------------------------------------------------------------------------
(* Properties *)

Packed == stage \in {"analyzing_concurrency", "annotating", "emitting_yaml", "complete", "unrendered"}

Clash == \E g, h \in groups : g # h /\ Id(g) = Id(h)

Placed == UNION {VMsOf(waves[w]) : w \in DOMAIN waves}

\* docs/PLANNING_ARCHITECTURE.md: "Every input vm_id placed in exactly one wave".
\* Partitioning, splitting and packing lose no VM and place none twice, as long
\* as no two groups render to the same id (GroupKey.as_string): the packer indexes
\* groups by it, and the VMs of all but one of them are then in no wave.
VMsArePlaced ==
    Packed => /\ \A w, u \in DOMAIN waves : w # u => VMsOf(waves[w]) \intersect VMsOf(waves[u]) = {}
              /\ ~Clash => Placed = plan.vms

WithinSize(w) == Cardinality(VMsOf(waves[w])) <= MaxVMsPerWave

OnePartition(w) == \A g, h \in waves[w] : Partition(g) = Partition(h)

\* core/wave_skeleton.py: no more peers of one HA family share a wave than
\* MAX_HA_PEERS_PER_WAVE, and "primaries never share a wave with another peer from
\* their family".  A group that has more peers than its own allowance, or a primary
\* and a replica, is placed without regard to either: what the other groups of its
\* family add up to is what the packer answers for.
PeersApart(w) ==
    \A g \in waves[w] : Peers(g) # {} =>
       LET family == {h \in waves[w] : HAFamily(h) = HAFamily(g) /\ ~TooLarge(h)}
       IN  Cardinality(UNION {Peers(h) : h \in family})
              <= IF \E h \in family : HasPrimary(h) THEN 1 ELSE MaxPeers

\* core/family.py: at most half of a name family in one group.  The packer reads
\* other families, and may join in a wave what was split: see FamilyCapHolds.
GroupsWithinCap(w) ==
    \A g \in waves[w] : \A v \in g.vms : Cardinality(FamilyIn(v, g.vms)) <= CapOf(v)

\* A hint that still names a group, which splits may have renamed.
DependenciesFirst(w) ==
    \A g \in waves[w] : \A u \in DOMAIN waves : \A h \in waves[u] : Id(h) \in g.hints => u < w

\* Waves that may run at the same time share neither a vCenter nor a name family.
Independent(w) ==
    \A u \in DOMAIN colour \ {w} : colour[u] = colour[w] =>
       /\ SourcesOf(waves[u]) \intersect SourcesOf(waves[w]) = {}
       /\ FamiliesOf(waves[u]) \intersect FamiliesOf(waves[w]) = {}

\* What Stages 3 to 5 are for: a wave is small enough for MTV, one MTV plan can
\* express it, HA peers that could be kept apart are, no group of it holds more
\* than half of a name family, what it depends on comes first, and only
\* independent waves share a concurrency group.
WavesRespectTheRules ==
    Packed => \A w \in DOMAIN waves :
       /\ WithinSize(w) /\ OnePartition(w) /\ PeersApart(w) /\ GroupsWithinCap(w) /\ DependenciesFirst(w)
       /\ w \in DOMAIN colour => Independent(w)

\* core/family.py, family_cap: "no wave may contain more than ceil(family_size / 2)
\* members of a family with family_size >= 2".
FamilyCapHolds ==
    Packed => \A w \in DOMAIN waves : \A v \in VMsOf(waves[w]) :
       Cardinality(FamilyIn(v, VMsOf(waves[w]))) <= CapOf(v)

Overridden == \E v \in DOMAIN vm : vm[v].ns # ""

Repeated == \E m \in rows : \E x \in {m.nets, m.stores} :
               \E i, j \in DOMAIN x : i # j /\ x[i].source = x[j].source

EmittedInto(w) == {EmittedNamespace(WaveMapping(AttributesOf(w), rows), a) : a \in AttributesOf(w)}

\* A plan that passed Stage 0 is rendered, into the namespace its partition was
\* cut by, unless something changed since, a VM overrides its namespace (the
\* emitter asks the strategy first) or a mapping repeats a source (Stage 0
\* accepts any row of it, the emitter reads the first).
StageZeroSuffices ==
    ~plan.changed /\ ~Overridden =>
       /\ stage = "unrendered" => Repeated
       /\ stage = "complete" => \A w \in DOMAIN waves : EmittedInto(w) = {plan.partition.ns}

\* The mapping of a wave, every VM of its vCenter, and what its preflight says.
Scope(m) == {inventory[v] : v \in {u \in DOMAIN inventory : inventory[u].vc = m.vc}}

Ready(m) == PreflightOk(m, Scope(m), Catalogs[m.cluster], Addresses[m.vc])

\* api/targets.py, preflight: "ready to drive plan generation".  Stage 0 takes
\* every VM of the vCenter that has a datastore and a namespace, and no card of
\* a cold wave shows anything that blocks.  Compared when the generation is
\* asked for and when it has ended.
PreflightHolds ==
    ~plan.changed /\ stage \in Ended \union {"pending"} =>
       \A m \in maps : Ready(m) =>
          /\ \A a \in Scope(m) :
                a.stores # {} /\ (a.ns # "" \/ StrategyNamespace(m, a) # "") => Covered(a, maps)
          /\ Packed => \A w \in DOMAIN waves :
                WaveMapping(AttributesOf(w), rows) = m =>
                   Blocking(WaveFindings(AttributesOf(w), m, Catalogs[m.cluster], "cold")) = {}

\* core/mtv.py: "First VM that references a given source network wins for the
\* destination side".  No wave has VMs that disagree, and what it is rendered to is
\* what the target resolution shows for each of its VMs, as long as nothing changed
\* and no source is repeated.  The namespaces of a network are compared where its
\* row has one and the network is not cluster-wide: otherwise the resolution shows
\* the catalog's, or the row's, and the emitter writes the VM's.
Shows(part, v) ==
    LET a == inventory[v]
        m == PairMapping(a.vc, ResolvedCluster(a, maps), maps)
        cat == Catalogs[m.cluster]
    IN  /\ FullyResolved(a, maps, cat)
        /\ \A e \in part.nets : e.source \in a.nets =>
              LET shown == ResolvedNetwork(m, e.source, cat)
                  row == LastRow(m.nets, e.source)
              IN  CASE e.to.type = "multus" ->
                          /\ shown.name = e.to.name
                          /\ shown.kind \in {"multus", "localnet"}
                          /\ row.ns # "" /\ Declared(row, cat).type # "cudn" => shown.ns = e.to.ns
                    [] e.to.type = "pod" -> shown.kind \in {"pod", "primary_udn"}
                    [] e.to.type = "ignored" -> shown.kind = "ignored"
        /\ \A e \in part.stores : e.source \in a.stores =>
              ResolvedStore(m, e.source, cat) =
                 [class |-> e.class, access |-> e.access, volume |-> e.volume]

RenderedAsResolved ==
    \A part \in served.parts :
       /\ \A d, e \in part.nets : d.source = e.source => d = e
       /\ ~plan.changed /\ ~Repeated => \A v \in part.vms : Shows(part, v)

\* A download renders what the generation rendered when nothing changed since.
\* When something did it is refused, or it leaves out VMs that are gone, and a
\* single wave leaves out none.
DownloadsAreWhole ==
    [][served' # served =>
          /\ ~plan.changed => served'.status = "served"
          /\ \A part \in served'.parts :
                LET missing == VMsOf(waves[part.wave]) \ part.vms
                IN  /\ missing \intersect DOMAIN inventory = {}
                    /\ served'.route = "wave" => missing = {}
                    /\ ~plan.changed => part.ns = EmittedInto(part.wave)]_vars
=============================================================================
