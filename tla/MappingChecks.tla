---------------------------- MODULE MappingChecks ----------------------------
(***************************************************************************)
(* Will a mapping work on its cluster?  The checks of                      *)
(* core/mapping_checks.py against the declared catalog                     *)
(* (core/mapping_catalog.py) and the support matrix                        *)
(* (core/platform_features.py), which the preflight of a mapping           *)
(* (api/targets.py) and the card of a wave (core/plan_pipeline.py) report. *)
(*                                                                         *)
(* A catalog c is [ocp, mtv, bridges, networks, classes, spaces]: versions *)
(* are pairs, networks and classes map a name to its attributes, spaces a  *)
(* namespace to its primary network, and bridges is the set of localnets   *)
(* its nodes map, or {NeverImported}.  "" is an attribute without a value. *)
(* A VM is seen as its networks, its datastores, its addresses by network  *)
(* and the namespace it resolves to.                                       *)
(***************************************************************************)
EXTENDS TargetMapping

CONSTANT Inside(_, _)   \* _in_any: an address and a set of subnets, or neither parses

NeverImported == "never imported"
NoVersion == <<0, 0>>

-----------------------------------------------------------------------------
(* core/platform_features.py *)

Earlier(v, w) == v[1] < w[1] \/ (v[1] = w[1] /\ v[2] < w[2])

LatestOCP == <<4, 22>>
LatestMTV == <<2, 12>>

\* _OCP_TO_MTV: five minor releases, paired in order.
PairedOCP == {<<4, n>> : n \in 18 .. 22}

MTVFor(ocp) ==
    CASE ocp \in PairedOCP -> <<2, ocp[2] - 10>>
      [] Earlier(LatestOCP, ocp) -> LatestMTV
      [] OTHER -> NoVersion

EffectiveMTV(cat) == IF cat.mtv # NoVersion THEN cat.mtv ELSE MTVFor(cat.ocp)

\* The features the checks ask for: since when, and at which level.
Features ==
    [passt_binding         |-> [product |-> "ocp", since |-> <<4, 18>>, level |-> "TP"],
     bgp_evpn_primary_cudn |-> [product |-> "ocp", since |-> <<4, 22>>, level |-> "TP"],
     mtv_udn_destination   |-> [product |-> "ocp", since |-> <<4, 20>>, level |-> "TP"],
     copy_offload_cold     |-> [product |-> "mtv", since |-> <<2, 10>>, level |-> "TP"],
     copy_offload_warm     |-> [product |-> "mtv", since |-> <<2, 10>>, level |-> "DP"]]

\* status_by_version: single releases, not "from this release on".
LevelIn(key, version) ==
    CASE key = "copy_offload_cold" /\ version \in {<<2, 11>>, <<2, 12>>} -> "GA"
      [] key = "copy_offload_warm" /\ version = <<2, 11>> -> "TP"
      [] key = "copy_offload_warm" /\ version = <<2, 12>> -> "GA"
      [] OTHER -> Features[key].level

\* A version nobody recorded counts as the newest.
Release(product, cat) ==
    LET recorded == IF product = "ocp" THEN cat.ocp ELSE EffectiveMTV(cat)
    IN  IF recorded # NoVersion THEN recorded
        ELSE IF product = "ocp" THEN LatestOCP ELSE LatestMTV

FeatureStatus(key, cat) ==
    LET version == Release(Features[key].product, cat)
    IN  IF Earlier(version, Features[key].since) THEN "unavailable" ELSE LevelIn(key, version)

-----------------------------------------------------------------------------
(* core/mapping_catalog.py: destination_kind *)

DestinationKind(net) ==
    CASE net.type = "pod" -> "pod"
      [] net.type \in {"udn", "cudn"} /\ net.role = "primary" -> "primary_udn"
      [] net.type # "pod" /\ ~(net.type \in {"udn", "cudn"} /\ net.role = "primary")
         /\ net.topology = "localnet" -> "localnet"
      [] OTHER -> "multus"

-----------------------------------------------------------------------------
(* core/mapping_checks.py: check_mapping.  A finding of a network or class *)
(* names the target; the per-VM findings name the source as well.          *)

Finding(code, severity, target) ==
    [code |-> code, severity |-> severity, target |-> target, sources |-> {}]

When(condition, finding) == IF condition THEN {finding} ELSE {}

\* The rows are read into a dict: the last one of a source counts.
Sources(rows) == {r.source : r \in ToSet(rows)}

\* The sources that are mapped to a target, by the row that counts.
Mapped(nets) == {s \in Sources(nets) : ~LastRow(nets, s).ignored /\ LastRow(nets, s).target # ""}

UsedNetworks(nets) == {LastRow(nets, s).target : s \in Mapped(nets)}

UsedClasses(stores) == {LastRow(stores, s).class : s \in Sources(stores)} \ {""}

PrimaryFindings(name, net, cat, provider) ==
    LET evpn == FeatureStatus("bgp_evpn_primary_cudn", cat)
        onto == FeatureStatus("mtv_udn_destination", cat)
    IN  When(net.topology \notin {"", "layer2"}, Finding("primary_not_layer2", "blocking", name))
        \cup When(net.ipam \notin {"", "persistent"}, Finding("ipam_not_persistent", "blocking", name))
        \cup When(net.binding = "passt" /\ FeatureStatus("passt_binding", cat) # "GA",
                  Finding("passt_tech_preview", "warning", name))
        \cup When(net.transport = "evpn" /\ evpn = "unavailable",
                  Finding("evpn_unavailable", "blocking", name))
        \cup When(net.transport = "evpn" /\ evpn \notin {"unavailable", "GA"},
                  Finding("evpn_support_level", "warning", name))
        \cup When(provider # "" /\ Inside(provider, net.subnets) = "inside",
                  Finding("provider_ip_inside_subnet", "blocking", name))
        \cup When(onto \notin {"unavailable", "GA"}, Finding("mtv_destination_support", "warning", name))

LocalnetFindings(name, net, cat) ==
    When(net.ipam \notin {"", "disabled", "none"}, Finding("ipam_enabled", "blocking", name))
    \cup When(net.physical = "", Finding("no_physical_network", "warning", name))
    \cup When(net.physical # "" /\ cat.bridges # {NeverImported} /\ net.physical \notin cat.bridges,
              Finding("bridge_mapping_missing", "blocking", name))

UDNBatch == 72    \* UDN_BATCH_WARN_THRESHOLD

UDNs(cat) == {n \in DOMAIN cat.networks : cat.networks[n].type \in {"udn", "cudn"}}

\* A network the catalog does not declare is not judged.
NetworkFindings(name, cat, provider) ==
    IF name \notin DOMAIN cat.networks THEN {}
    ELSE CASE DestinationKind(cat.networks[name]) = "primary_udn" ->
                PrimaryFindings(name, cat.networks[name], cat, provider)
           [] DestinationKind(cat.networks[name]) = "localnet" ->
                LocalnetFindings(name, cat.networks[name], cat)
           [] OTHER -> {}

\* A VM that lands on a primary network needs a namespace that has it, and
\* addresses within it.
VMFindings(vm, nets, cat) ==
    UNION {
        LET name == LastRow(nets, s).target
            net == cat.networks[name]
            About(code) == [Finding(code, "blocking", name) EXCEPT !.sources = {s}]
        IN  When(/\ vm.ns \in DOMAIN cat.spaces /\ cat.spaces[vm.ns] # name,
                 About("namespace_not_primary"))
            \cup When(\E ip \in vm.ips[s] : net.subnets # {} /\ Inside(ip, net.subnets) = "outside",
                      About("static_ip_outside_subnet"))
        : s \in {t \in vm.nets \cap Mapped(nets) :
                   /\ LastRow(nets, t).target \in DOMAIN cat.networks
                   /\ DestinationKind(cat.networks[LastRow(nets, t).target]) = "primary_udn"}}

\* A row's own access mode, and the datastore types that no caller passes, feed
\* warnings only and are left out.
DeveloperPreviewVendors == {"infinibox", "primera3par"}

ClassFindings(name, cat, type) ==
    LET class == cat.classes[name]
        offload == FeatureStatus(IF type = "warm" THEN "copy_offload_warm" ELSE "copy_offload_cold", cat)
    IN  IF name \notin DOMAIN cat.classes THEN {}
        ELSE When(class.access = "ReadWriteOnce", Finding("rwo_no_live_migration", "warning", name))
             \cup IF class.vendor = "" THEN {}
                  ELSE When(class.secret = "", Finding("no_secret", "warning", name))
                       \cup When(class.vendor \in DeveloperPreviewVendors,
                                 Finding("vendor_developer_preview", "warning", name))
                       \cup When(offload = "unavailable", Finding("offload_unavailable", "blocking", name))
                       \cup When(offload \notin {"unavailable", "GA"},
                                 Finding("offload_support_level", "warning", name))

CheckMapping(m, cat, vms, type, provider) ==
    When(cat.ocp = NoVersion, Finding("version_unknown", "info", ""))
    \cup (UNION {NetworkFindings(n, cat, provider) : n \in UsedNetworks(m.nets)})
    \cup (UNION {VMFindings(vm, m.nets, cat) : vm \in vms})
    \cup (UNION {ClassFindings(n, cat, type) : n \in UsedClasses(m.stores)})
    \cup When(Cardinality(UDNs(cat)) > UDNBatch, Finding("many_networks", "info", ""))

Blocking(findings) == {f \in findings : f.severity = "blocking"}

-----------------------------------------------------------------------------
(* Its two callers *)

\* The view both take of a VM: an override of its namespace comes before the
\* strategy of the mapping (the emission asks the strategy first).
View(a, m) ==
    [nets |-> a.nets, stores |-> a.stores, ips |-> a.ips,
     ns |-> IF a.ns # "" THEN a.ns ELSE StrategyNamespace(m, a)]

Views(scope, m) == {View(a, m) : a \in scope}

\* wave_mapping_view: the rows the wave's VMs use, and no address of a vCenter.
WaveRows(rows, used) == Restrict(rows, {i \in DOMAIN rows : rows[i].source \in used})

WaveFindings(wave, m, cat, type) ==
    LET nets == UNION {a.nets : a \in wave}
        stores == UNION {a.stores : a \in wave}
        scoped == [m EXCEPT !.nets = WaveRows(@, nets), !.stores = WaveRows(@, stores)]
    IN  {f \in CheckMapping(scoped, cat, Views(wave, m), type, "") : f.code # "version_unknown"}

\* preflight: every VM of the vCenter, always as a cold migration.
UnmappedNets(m, scope) == (UNION {a.nets : a \in scope}) \ MappedNets(m)
UnmappedStores(m, scope) == (UNION {a.stores : a \in scope}) \ MappedStores(m)

MissingOnTarget(m, cat) ==
    (IF DOMAIN cat.networks = {} THEN {}
     ELSE ({r.target : r \in ToSet(m.nets)} \ {""}) \ DOMAIN cat.networks)
    \cup (IF DOMAIN cat.classes = {} THEN {}
          ELSE ({r.class : r \in ToSet(m.stores)} \ {""}) \ DOMAIN cat.classes)

\* Mutant: findings are reported and do not count.
PreflightOk_NamesOnly(m, scope, cat, provider) ==
    /\ UnmappedNets(m, scope) = {}
    /\ UnmappedStores(m, scope) = {}
    /\ MissingOnTarget(m, cat) = {}

PreflightOk(m, scope, cat, provider) ==
    /\ UnmappedNets(m, scope) = {}
    /\ UnmappedStores(m, scope) = {}
    /\ MissingOnTarget(m, cat) = {}
    /\ Blocking(CheckMapping(m, cat, Views(scope, m), "cold", provider)) = {}
=============================================================================
