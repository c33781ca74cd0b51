---------------------------- MODULE TargetMapping ----------------------------
(***************************************************************************)
(* Where a VM goes: the resolution that plan creation partitions by        *)
(* (core/target_resolution.py), the coverage check of Stage 0              *)
(* (core/mapping_validation.py) and the emission of one wave's NetworkMap, *)
(* StorageMap and Plan (core/mtv.py).  The three read the same mapping     *)
(* rows by different rules.                                                *)
(*                                                                         *)
(* Operators take the attributes a of a VM, or the attributes of a wave's  *)
(* VMs, and the mappings they may choose from.                             *)
(***************************************************************************)
EXTENDS Integers, Sequences, FiniteSets, FiniteSetsExt, SequencesExt

\* A mapping is [vc, cluster, nets, stores, strategy], at most one per vc and
\* cluster.  A row of nets is [source, target, ignored], one of stores is
\* [source, class]: rows of one source may repeat.  "" is an empty field.
NoMapping == [vc |-> 0, cluster |-> 0, nets |-> <<>>, stores |-> <<>>,
              strategy |-> [kind |-> "rows", rows |-> <<>>]]

Indices(rows, source) == {i \in DOMAIN rows : rows[i].source = source}

FirstRow(rows, source) == rows[Min(Indices(rows, source))]
LastRow(rows, source)  == rows[Max(Indices(rows, source))]

-----------------------------------------------------------------------------
(* Namespaces *)

\* A row of the older list form: the first that has a namespace and matches.
Matches(row, a) ==
    /\ row.ns # ""
    /\ \/ row.criteria = "default"
       \/ row.criteria = "environment" /\ a.env = row.value
       \/ row.criteria = "application" /\ a.hint = row.value
       \/ row.criteria = "vcenter_folder" /\ a.folder = row.value

\* resolve_namespace, and its copy in the resolver.  env: a function, or absent.
StrategyNamespace(m, a) ==
    LET s == m.strategy
        rows == {i \in DOMAIN s.rows : Matches(s.rows[i], a)}
    IN  CASE s.kind = "single" -> s.namespace
          [] s.kind = "per_environment" -> IF a.env \in DOMAIN s.envs THEN s.envs[a.env] ELSE ""
          [] s.kind = "per_application" -> IF a.hint = "" THEN "unassigned-vms" ELSE s.apps[a.hint]
          [] s.kind = "rows" -> IF rows = {} THEN "" ELSE s.rows[Min(rows)].ns

-----------------------------------------------------------------------------
(* core/target_resolution.py *)

\* An override decides, otherwise the only mapping of the vCenter.
ResolvedCluster(a, maps) ==
    LET own == {m \in maps : m.vc = a.vc}
    IN  IF a.cluster # 0 THEN a.cluster
        ELSE IF a.vc # 0 /\ Cardinality(own) = 1 THEN (CHOOSE m \in own : TRUE).cluster
        ELSE 0

PairMapping(vc, cluster, maps) ==
    IF \E m \in maps : m.vc = vc /\ m.cluster = cluster
    THEN CHOOSE m \in maps : m.vc = vc /\ m.cluster = cluster
    ELSE NoMapping

ResolvedNamespace(a, maps) ==
    IF a.ns # "" THEN a.ns
    ELSE StrategyNamespace(PairMapping(a.vc, ResolvedCluster(a, maps), maps), a)

\* The partition of a VM, or Unresolved.
Unresolved == [vc |-> 0, cluster |-> 0, ns |-> ""]

Target(a, maps) ==
    LET t == [vc |-> a.vc, cluster |-> ResolvedCluster(a, maps), ns |-> ResolvedNamespace(a, maps)]
    IN  IF t.cluster = 0 \/ t.ns = "" THEN Unresolved ELSE t

-----------------------------------------------------------------------------
(* Stage 0: core/mapping_validation.py.  Any row of a source counts. *)

MappedNets(m)   == {r.source : r \in {r \in ToSet(m.nets) : r.target # "" \/ r.ignored}}
MappedStores(m) == {r.source : r \in {r \in ToSet(m.stores) : r.class # ""}}

Covers(nets, stores, a) ==
    /\ a.nets \subseteq nets
    /\ a.stores # {}
    /\ a.stores \subseteq stores

\* A VM without a vCenter is measured by all mappings together.
Covered_IgnoresStores(a, maps) ==
    \E m \in maps : m.vc = a.vc /\ a.nets \subseteq MappedNets(m)
                    /\ (a.ns # "" \/ StrategyNamespace(m, a) # "")
Covered(a, maps) ==
    IF a.vc = 0
    THEN /\ Covers(UNION {MappedNets(m) : m \in maps}, UNION {MappedStores(m) : m \in maps}, a)
         /\ a.ns # "" \/ \E m \in maps : StrategyNamespace(m, a) # ""
    ELSE \E m \in maps : /\ m.vc = a.vc
                         /\ Covers(MappedNets(m), MappedStores(m), a)
                         /\ a.ns # "" \/ StrategyNamespace(m, a) # ""

-----------------------------------------------------------------------------
(* Stage 7: core/mtv.py.  The first row of a source counts. *)

EmitsNet(m, source) ==
    LET row == FirstRow(m.nets, source)
    IN  Indices(m.nets, source) # {} /\ (row.ignored \/ row.target # "")

EmitsStore(m, source) ==
    Indices(m.stores, source) # {} /\ FirstRow(m.stores, source).class # ""

\* The strategy comes before the override here.
EmittedNamespace(m, a) ==
    IF StrategyNamespace(m, a) # "" THEN StrategyNamespace(m, a) ELSE a.ns

\* _mapping_for_wave: that of the first VM that has a vCenter.
WaveMapping(wave, maps) ==
    LET known == {a.vc : a \in wave} \ {0}
    IN  IF \E m \in maps : m.vc \in known
        THEN CHOOSE m \in maps : m.vc \in known
        ELSE NoMapping

\* wave: the attributes of its VMs.  What generate_wave_yaml refuses to render.
Emits(wave, m) ==
    /\ wave # {}
    /\ \A a \in wave : /\ EmittedNamespace(m, a) # ""
                       /\ \A n \in a.nets : EmitsNet(m, n)
                       /\ \A d \in a.stores : EmitsStore(m, d)
    /\ \E a \in wave : a.stores # {}
    /\ Cardinality({EmittedNamespace(m, a) : a \in wave}) = 1
=============================================================================
