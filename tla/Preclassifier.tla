---------------------------- MODULE Preclassifier ----------------------------
(***************************************************************************)
(* Stages 1 and 2 of the planning pipeline (core/preclassifier.py): how    *)
(* the VMs of a plan are grouped.  Every operator is a function of vm, the *)
(* attributes of the VMs the pipeline was given; VMs are numbered in the   *)
(* order of their ids, which is also that of the selection.                *)
(*                                                                         *)
(* Texts are values of small sets.  Networks and datastores are numbered   *)
(* in the order of their names, because the least one names a group.       *)
(***************************************************************************)
EXTENDS Integers, Sequences, FiniteSets, FiniteSetsExt, SequencesExt

CONSTANT SmallPartition  \* _SMALL_PARTITION_THRESHOLD: below it the groups are merged

VARIABLE vm  \* VM id -> its attributes

Roles    == {"infrastructure", "data", "app", "web", "edge", "other"}
States   == {"stateful", "stateless", "unknown"}
Risks    == {"low", "medium", "high"}
HARoles  == {"primary", "replica", "standby", "member", "standalone"}

\* vc, cluster: NoSource, NoCluster for null.  ns: the override, "" for none.
\* role: the operator's hint, "" when it is none of Roles.  words: the roles
\* whose pattern occurs in the name and hints.  stem, ha, num: what the name
\* is made of, num = 0 when it ends in no number; dash: a separator before it.
\* moref, folder and fit are read by the emitter and the assessment gate.
NoSource  == 0
NoCluster == 0

-----------------------------------------------------------------------------
(* Heuristics over one VM and over one group *)

Least(xs) == Min(xs)

\* normalize: the aliases of an environment.
Normalized(env) ==
    CASE env \in {"production", "prod"} -> "production"
      [] env \in {"development", "dev"} -> "development"
      [] OTHER -> "unknown"

RoleOrder == <<"edge", "data", "infrastructure", "web", "app">>

DetectRole(v) ==
    LET found == {i \in DOMAIN RoleOrder : RoleOrder[i] \in vm[v].words}
    IN  IF vm[v].role # "" THEN vm[v].role
        ELSE IF found = {} THEN "other" ELSE RoleOrder[Least(found)]

DetectState(role) ==
    CASE role \in {"data", "infrastructure"} -> "stateful"
      [] role \in {"web", "app", "edge"} -> "stateless"
      [] role = "other" -> "unknown"

DetectRisk(role, state, count) ==
    CASE role \in {"data", "infrastructure"} /\ state = "stateful" -> "high"
      [] role \in {"web", "app", "edge"} /\ state = "stateless" /\ count <= 3 -> "low"
      [] OTHER -> "medium"

\* Ties of the vote, and merges, go to the riskier role.
Weight == [data |-> 5, infrastructure |-> 4, edge |-> 3, app |-> 2, web |-> 1, other |-> 0]

Heaviest(roles) == CHOOSE r \in roles : \A s \in roles : Weight[s] <= Weight[r]

MajorityRole(vms) ==
    LET votes == [r \in Roles |-> Cardinality({v \in vms : DetectRole(v) = r})]
    IN  Heaviest({r \in Roles : \A s \in Roles : votes[s] <= votes[r]})

\* The first VM counts with the state of the group's role, the others with their own.
GroupState(vms, role) ==
    IF \E v \in vms \ {Least(vms)} : DetectState(DetectRole(v)) = "stateful"
    THEN "stateful"
    ELSE DetectState(role)

\* The lowest number is the primary when nothing else is known of a numbered set.
HAMembers(vms) ==
    LET numbered == /\ Cardinality(vms) > 1
                    /\ \A v \in vms : vm[v].ha = "standalone" /\ vm[v].num # 0
        first == CHOOSE v \in vms : \A w \in vms :
                    vm[v].num < vm[w].num \/ (vm[v].num = vm[w].num /\ v <= w)
    IN  [v \in vms |-> IF ~numbered THEN vm[v].ha
                       ELSE IF v = first THEN "primary" ELSE "member"]

\* _shared_overlap: VMs that list nothing do not count.
Shared(lists) ==
    LET known == lists \ {{}}
    IN  {x \in UNION known : \A l \in known : x \in l}

-----------------------------------------------------------------------------
(* Groups.  cut: which part of a group that Stages 3 and 4 have split. *)

NoCut == [family |-> 0, batch |-> 0]

Primary(v) == [vc |-> vm[v].vc, cluster |-> vm[v].cluster, ns |-> vm[v].ns,
               env |-> Normalized(vm[v].env)]

Group(primary, role, state, disc, vms, members, risk, app) ==
    [key |-> [primary |-> primary, role |-> role, state |-> state, disc |-> disc, cut |-> NoCut],
     vms |-> vms, members |-> members, risk |-> risk, app |-> app, hints |-> {}]

\* GroupKey.as_string writes "default" for an empty namespace.
Id(g) == [g.key EXCEPT !.primary.ns = IF @ = "" THEN "default" ELSE @]

\* The parts of a key an MTV plan can have only one of.
Partition(g) == [vc |-> g.key.primary.vc, cluster |-> g.key.primary.cluster, ns |-> g.key.primary.ns]

BuildGroup(primary, vms, disc) ==
    LET role  == MajorityRole(vms)
        state == GroupState(vms, role)
        app   == vm[Least(vms)].hint
    IN  Group(primary, role, state, disc, vms, HAMembers(vms),
              DetectRisk(role, state, Cardinality(vms)), IF app = "" THEN "unknown" ELSE app)

\* Pass 1: the application hint, and the role within it.
HintGroups(primary, bucket) ==
    LET kind(v) == <<"hint", vm[v].hint, DetectRole(v)>>
        hinted  == {v \in bucket : vm[v].hint # ""}
    IN  {BuildGroup(primary, {v \in hinted : kind(v) = k}, k) : k \in {kind(v) : v \in hinted}}

Overlap(v, w) ==
    LET nets   == vm[v].nets \intersect vm[w].nets # {}
        stores == vm[v].stores \intersect vm[w].stores # {}
    IN  \/ nets /\ stores
        \/ stores /\ vm[v].nets = {} /\ vm[w].nets = {}
        \/ nets /\ vm[v].stores = {} /\ vm[w].stores = {}

\* Pass 2, in the order of the VMs: each that is in no cluster yet seeds one with
\* all it overlaps.
Clusters(vms) ==
    LET cluster[v \in vms] ==
            LET taken == UNION {cluster[u] : u \in {u \in vms : u < v}}
            IN  IF v \in taken THEN {} ELSE {v} \union {w \in vms \ taken : Overlap(v, w)}
    IN  {c \in {cluster[v] : v \in vms} : Cardinality(c) > 1}

ClusterDisc(vms) ==
    LET nets   == Shared({vm[v].nets : v \in vms})
        stores == Shared({vm[v].stores : v \in vms})
    IN  CASE nets # {} /\ stores # {} -> <<"net+ds", Least(nets), Least(stores)>>
          [] nets # {} /\ stores = {} -> <<"net", Least(nets)>>
          [] nets = {} /\ stores # {} -> <<"ds", Least(stores)>>
          [] OTHER -> <<"cluster", Least(vms)>>

\* Pass 3: the name without its number.
Prefix(v) == <<vm[v].stem, vm[v].ha>>

PrefixGroups(primary, vms) ==
    {BuildGroup(primary, {v \in vms : Prefix(v) = p}, <<"prefix", p>>) : p \in {Prefix(v) : v \in vms}}

ClassifyWithinPrimary(primary, bucket) ==
    LET rest     == {v \in bucket : vm[v].hint = ""}
        clusters == Clusters(rest)
    IN  HintGroups(primary, bucket)
          \union {BuildGroup(primary, c, ClusterDisc(c)) : c \in clusters}
          \union PrefixGroups(primary, rest \ UNION clusters)

\* _merge_groups, over all groups of a small partition.  No HA member survives it.
Merged(primary, groups) ==
    LET states == {g.key.state : g \in groups}
        risks  == {g.risk : g \in groups}
    IN  Group(primary, Heaviest({g.key.role : g \in groups}),
              IF "stateful" \in states THEN "stateful"
              ELSE IF "unknown" \in states THEN "unknown" ELSE "stateless",
              <<"merged", {g.key.disc : g \in groups}>>,
              UNION {g.vms : g \in groups}, <<>>,
              IF "high" \in risks THEN "high" ELSE IF "medium" \in risks THEN "medium" ELSE "low",
              "unknown")

Collapsed(primary, bucket) ==
    LET groups == ClassifyWithinPrimary(primary, bucket)
    IN  IF Cardinality(bucket) < SmallPartition /\ Cardinality(groups) > 1
        THEN {Merged(primary, groups)}
        ELSE groups

DependsOn(role) ==
    CASE role = "app" -> {"data", "infrastructure"}
      [] role \in {"web", "edge"} -> {"app", "data"}
      [] OTHER -> {}

WithHints(groups) ==
    {[g EXCEPT !.hints = {Id(h) : h \in {h \in groups : h.key.role \in DependsOn(g.key.role)}}
                             \ {Id(g)}] : g \in groups}

Classify ==
    LET primaries == {Primary(v) : v \in DOMAIN vm}
    IN  WithHints(UNION {Collapsed(p, {v \in DOMAIN vm : Primary(v) = p}) : p \in primaries})
=============================================================================
