------------------------------ MODULE WaveMaps ------------------------------
(***************************************************************************)
(* Where each network and datastore of a VM goes, twice: what the target   *)
(* resolution shows for the VM (core/target_resolution.py, which the VM    *)
(* pages and POST /api/plans/preview-partitions report), and what the      *)
(* NetworkMap and StorageMap of its wave say (core/mtv.py).                *)
(*                                                                         *)
(* A row of nets also has a type and the namespace of its target, a row of *)
(* stores an access and a volume mode; "" is an empty field.               *)
(***************************************************************************)
EXTENDS MappingChecks

-----------------------------------------------------------------------------
(* core/mapping_catalog.py: destination_kind.  The catalog decides, and the row *)
(* where the catalog does not have the network.                                 *)

Undeclared(type) ==
    [type |-> IF type = "" THEN "nad" ELSE type, role |-> "", topology |-> "", ns |-> ""]

Declared(row, cat) ==
    IF row.target \in DOMAIN cat.networks THEN cat.networks[row.target] ELSE Undeclared(row.type)

-----------------------------------------------------------------------------
(* core/target_resolution.py: the last row of a source counts. *)

ResolvedNetwork(m, source, cat) ==
    LET row  == LastRow(m.nets, source)
        net  == Declared(row, cat)
        kind == DestinationKind(net)
        To(k, name, ns) == [kind |-> k, name |-> name, ns |-> ns]
    IN  IF Indices(m.nets, source) = {} THEN To("", "", "")
        ELSE IF row.ignored THEN To("ignored", "", "")
        ELSE IF row.target = "" THEN To(IF row.type = "pod" THEN "pod" ELSE "", "", "")
        ELSE To(kind, row.target, IF kind \in {"pod", "primary_udn"} THEN ""
                                  ELSE IF row.ns # "" THEN row.ns ELSE net.ns)

Mode(own, declared) == IF own # "" THEN own ELSE declared

ResolvedStore(m, source, cat) ==
    LET row == LastRow(m.stores, source)
    IN  IF Indices(m.stores, source) = {} \/ row.class = "" THEN [class |-> "", access |-> "", volume |-> ""]
        ELSE LET class == IF row.class \in DOMAIN cat.classes THEN cat.classes[row.class]
                          ELSE [access |-> "", volume |-> ""]
             IN  [class |-> row.class, access |-> Mode(row.access, class.access),
                  volume |-> Mode(row.volume, class.volume)]

\* is_complete: nothing of the VM is left to map.
FullyResolved(a, maps, cat) ==
    LET m == PairMapping(a.vc, ResolvedCluster(a, maps), maps)
    IN  /\ m # NoMapping /\ ResolvedNamespace(a, maps) # ""
        /\ \A s \in a.nets : ResolvedNetwork(m, s, cat).kind # ""
        /\ \A s \in a.stores : ResolvedStore(m, s, cat).class # ""

-----------------------------------------------------------------------------
(* core/mtv.py: the first row of a source counts. *)

\* Mutant: the row's own type comes before the catalog's.
EmittedKind_RowFirst(row, cat) ==
    DestinationKind(IF row.type # "" THEN Undeclared(row.type) ELSE Declared(row, cat))

EmittedKind(row, cat) == DestinationKind(Declared(row, cat))

\* MTV finds a primary network by the namespace: it is the pod network for it.  A
\* cluster-wide one has an attachment in every namespace, and any other lives where
\* its row says, or with the VM.
NetworkDestination(row, ns, cat) ==
    CASE row.ignored -> [type |-> "ignored", name |-> "", ns |-> ""]
      [] ~row.ignored /\ EmittedKind(row, cat) \in {"pod", "primary_udn"} ->
            [type |-> "pod", name |-> "", ns |-> ""]
      [] OTHER -> [type |-> "multus", name |-> row.target,
                   ns |-> IF Declared(row, cat).type = "cudn" \/ row.ns = "" THEN ns ELSE row.ns]

\* _build_network_map takes the first VM that has a source; here are all.
NetworkMap(wave, m, cat) ==
    UNION {{[source |-> s,
             to |-> NetworkDestination(FirstRow(m.nets, s), EmittedNamespace(m, a), cat)] :
                s \in a.nets} : a \in wave}

OffloadVendors ==
    {"flashsystem", "vantara", "ontap", "primera3par", "pureFlashArray", "powerflex", "powermax",
     "powerstore", "infinibox"}

\* resolve_offload: the catalog has to have both the vendor and its secret.
Offload(class) ==
    IF class.vendor \in OffloadVendors /\ class.secret # "" THEN class.vendor ELSE ""

StorageMap(wave, m, cat) ==
    LET entry(s) ==
          LET row == FirstRow(m.stores, s)
          IN  IF row.class \in DOMAIN cat.classes
              THEN LET class == cat.classes[row.class]
                   IN  [source |-> s, class |-> row.class, access |-> Mode(row.access, class.access),
                        volume |-> Mode(row.volume, class.volume), offload |-> Offload(class)]
              ELSE [source |-> s, class |-> row.class, access |-> row.access,
                    volume |-> row.volume, offload |-> ""]
    IN  {entry(s) : s \in UNION {a.stores : a \in wave}}
=============================================================================
