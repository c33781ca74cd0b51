---------------------------- MODULE TargetCatalog ----------------------------
(***************************************************************************)
(* Clusters, what operators declare of them (api/target_entities.py), and  *)
(* what refers to it: the resource mappings (api/targets.py), the target   *)
(* overrides of VMs (api/vms.py) and the mappings plans were made with     *)
(* (api/plans.py).  References are names and ids without a foreign key, so *)
(* every handler checks them in what its own transaction reads, and two    *)
(* handlers may overlap: a request is a step that reads and a step that    *)
(* commits, at PostgreSQL's READ COMMITTED.                                *)
(*                                                                         *)
(* Networks and storage classes are entries of one catalog: a storage      *)
(* class is an entry of type "storage".  Mapping rows are as in            *)
(* TargetMapping.                                                          *)
(***************************************************************************)
EXTENDS TargetMapping, Functions

CONSTANTS
    Clusters, VCenters, VMs, Plans, Requests,
    NetNames, ClassNames, Namespaces,
    Seeds,          \* bound: catalogs to start from
    Needs(_),       \* the networks and datastores of a VM
    NetRows,        \* bound: network rows of a mapping
    StoreRows,      \* bound: storage rows of a mapping
    Strategies,     \* bound: namespace strategies
    Pastes,         \* bound: sequences of pasted documents
    MaxEvents       \* bound: requests

None == 0

ASSUME NoneAssumption ==
    /\ None \notin Clusters \union VCenters
    /\ NetNames \intersect ClassNames = {}
    /\ "" \notin NetNames \union ClassNames \union Namespaces

VARIABLES
    cluster,   \* OCPTarget rows
    vcenter,   \* VCenterSource rows
    catalog,   \* per cluster: name -> type and default flag
    spaces,    \* per cluster: the OCPTargetNamespace rows
    maps,      \* ResourceMapping rows
    place,     \* VM id -> its vCenter and overrides
    plans,     \* plan id -> its mapping_ids
    req,       \* requests in flight, with what they have read
    events     \* requests so far

vars == <<cluster, vcenter, catalog, spaces, maps, place, plans, req, events>>

NetTypes == {"nad", "udn", "cudn"}
Types    == NetTypes \union {"storage"}
Names    == NetNames \union ClassNames
TypesOf(name) == IF name \in ClassNames THEN {"storage"} ELSE NetTypes

Statuses == {"complete", "incomplete", "needs_review"}

\* f with n set to e, which may be new to it.
With(f, n, e) == [x \in DOMAIN f \union {n} |-> IF x = n THEN e ELSE f[x]]

\* What catalogs, mapping rows and pasted documents hold: an entry of a name
\* has a type of that name, and rows and documents name what may be declared.
Entries == [type : Types, default : BOOLEAN]

IsCatalog(entries) ==
    /\ DOMAIN entries \subseteq Names
    /\ \A n \in DOMAIN entries : entries[n] \in Entries /\ entries[n].type \in TypesOf(n)

ASSUME SeedsAssumption == \A s \in Seeds : IsCatalog(s.catalog) /\ s.spaces \subseteq Namespaces

ASSUME RowsAssumption ==
    /\ \A nets \in NetRows : \A row \in ToSet(nets) : row.target \in NetNames \union {""}
    /\ \A stores \in StoreRows : \A row \in ToSet(stores) : row.class \in ClassNames \union {""}

NetworkType == [NAD |-> "nad", UDN |-> "udn", CUDN |-> "cudn"]

ASSUME PastesAssumption ==
    \A paste \in Pastes : \A i \in DOMAIN paste :
       /\ i \in Nat
       /\ paste[i].ns \subseteq Namespaces /\ paste[i].default \in BOOLEAN
       /\ paste[i].kind \in DOMAIN NetworkType => paste[i].name \in NetNames
       /\ paste[i].kind = "StorageClass" => paste[i].name \in ClassNames

NoReq == [op |-> "none"]

TypeOK ==
    /\ cluster \subseteq Clusters /\ vcenter \subseteq VCenters
    /\ DOMAIN catalog = cluster /\ DOMAIN spaces = cluster
    /\ \A c \in cluster :
          IsCatalog(catalog[c]) /\ spaces[c] \subseteq Namespaces
    /\ \A m \in maps : m.vc \in vcenter /\ m.cluster \in cluster /\ m.status \in Statuses
    /\ \A m, o \in maps : m # o => m.id # o.id /\ <<m.vc, m.cluster>> # <<o.vc, o.cluster>>
    /\ \A v \in VMs : place[v].vc \in vcenter \union {None} /\ place[v].cluster \in cluster \union {None}

Init ==
    /\ cluster = Clusters /\ vcenter = VCenters
    /\ \E s \in Seeds : catalog = [c \in Clusters |-> s.catalog] /\ spaces = [c \in Clusters |-> s.spaces]
    /\ maps = {}
    /\ place \in [VMs -> {[vc |-> x, cluster |-> None, ns |-> ""] : x \in VCenters}]
    /\ plans = <<>>
    /\ req = [r \in Requests |-> NoReq]
    /\ events = 0

-----------------------------------------------------------------------------
(* Requests *)

Begin(r, record) ==
    /\ req[r] = NoReq
    /\ events < MaxEvents
    /\ events' = events + 1
    /\ req' = [req EXCEPT ![r] = record]
    /\ UNCHANGED <<cluster, vcenter, catalog, spaces, maps, place, plans>>

Ready(r, op) == req[r].op = op /\ req' = [req EXCEPT ![r] = NoReq] /\ UNCHANGED events

\* A constraint or a row that is gone: the transaction is rolled back.
Refuse == UNCHANGED <<cluster, vcenter, catalog, spaces, maps, place, plans>>

\* Handlers that read nothing they rely on are one step.
AtOnce == events < MaxEvents /\ events' = events + 1 /\ UNCHANGED req

-----------------------------------------------------------------------------
(* Catalog entries *)

Defaults(c, t) == {n \in DOMAIN catalog[c] : catalog[c][n].type = t /\ catalog[c][n].default}

\* _enforce_single_network_default, _enforce_single_storage_default: the other
\* defaults of the type that the handler saw; it writes their flags.
Others_Forgotten(c, n, t) == {}
Others(c, n, t) == Defaults(c, t) \ {n}

Cleared(entries, others) ==
    [n \in DOMAIN entries |-> IF n \in others THEN [entries[n] EXCEPT !.default = FALSE] ELSE entries[n]]

CreateRead(r, c, n, t, d) ==
    Begin(r, [op |-> "create", cluster |-> c, name |-> n, entry |-> [type |-> t, default |-> d],
              seen |-> catalog[c], others |-> IF d THEN Others(c, n, t) ELSE {}])

CreateNetwork(r, c) ==
    \E n \in NetNames, t \in NetTypes, d \in BOOLEAN : CreateRead(r, c, n, t, d)

CreateStorageClass(r, c) ==
    \E n \in ClassNames, d \in BOOLEAN : CreateRead(r, c, n, "storage", d)

CreateCommit(r) ==
    LET q == req[r]  c == q.cluster
    IN  /\ Ready(r, "create")
        /\ \/ /\ c \in cluster /\ q.name \notin DOMAIN catalog[c] /\ q.others \subseteq DOMAIN catalog[c]
              /\ catalog' = [catalog EXCEPT ![c] = With(Cleared(@, q.others), q.name, q.entry)]
              /\ UNCHANGED <<cluster, vcenter, spaces, maps, place, plans>>
           \/ /\ ~(c \in cluster /\ q.name \notin DOMAIN catalog[c] /\ q.others \subseteq DOMAIN catalog[c])
              /\ Refuse

\* PATCH of one field.  Only that field is written, and the default flags of
\* others when the entry, as the handler sees it, is a default.
UpdateRead(r, c, n, name, entry) ==
    Begin(r, [op |-> "update", cluster |-> c, name |-> n, to |-> name, entry |-> entry,
              seen |-> catalog[c], others |-> IF entry.default THEN Others(c, n, entry.type) ELSE {}])

Rename(r, c, n) ==
    \E name \in (IF n \in ClassNames THEN ClassNames ELSE NetNames) \ {n} :
       UpdateRead(r, c, n, name, catalog[c][n])

Retype(r, c, n) ==
    \E t \in TypesOf(n) \ {catalog[c][n].type} : UpdateRead(r, c, n, n, [catalog[c][n] EXCEPT !.type = t])

Redefault(r, c, n) == UpdateRead(r, c, n, n, [catalog[c][n] EXCEPT !.default = ~@])

UpdateNetwork(r, c, n) == n \in NetNames /\ (Rename(r, c, n) \/ Retype(r, c, n) \/ Redefault(r, c, n))

UpdateStorageClass(r, c, n) == n \in ClassNames /\ (Rename(r, c, n) \/ Redefault(r, c, n))

UpdateCommit(r) ==
    LET q == req[r]  c == q.cluster  old == q.seen[q.name]
        fits == /\ c \in cluster /\ {q.name} \union q.others \subseteq DOMAIN catalog[c]
                /\ q.to = q.name \/ q.to \notin DOMAIN catalog[c]
        now  == catalog[c][q.name]
        row  == [type    |-> IF q.entry.type # old.type THEN q.entry.type ELSE now.type,
                 default |-> IF q.entry.default # old.default THEN q.entry.default ELSE now.default]
        rest == Restrict(catalog[c], DOMAIN catalog[c] \ {q.name})
    IN  /\ Ready(r, "update")
        /\ \/ /\ fits
              /\ catalog' = [catalog EXCEPT ![c] = With(Cleared(rest, q.others), q.to, row)]
              /\ UNCHANGED <<cluster, vcenter, spaces, maps, place, plans>>
           \/ ~fits /\ Refuse

\* _mappings_referencing_network, _mappings_referencing_sc.
Targets(m) == {row.target : row \in ToSet(m.nets)} \union {row.class : row \in ToSet(m.stores)}

Referring(c, n) == {m.id : m \in {m \in maps : m.cluster = c /\ n \in Targets(m)}}

Unreferred_NetworksOnly(c, n) == {m \in maps : m.cluster = c /\ \E row \in ToSet(m.nets) : row.target = n} = {}
Unreferred(c, n) == Referring(c, n) = {}

DeleteEntryRead(r, c, n) ==
    /\ Unreferred(c, n)
    /\ Begin(r, [op |-> "delete", cluster |-> c, name |-> n, refs |-> Referring(c, n)])

DeleteEntryCommit(r) ==
    LET c == req[r].cluster
    IN  /\ Ready(r, "delete")
        /\ \/ /\ c \in cluster
              /\ catalog' = [catalog EXCEPT ![c] = Restrict(@, DOMAIN @ \ {req[r].name})]
              /\ UNCHANGED <<cluster, vcenter, spaces, maps, place, plans>>
           \/ c \notin cluster /\ Refuse

-----------------------------------------------------------------------------
(* Import from pasted YAML.  A document is [kind, name, ns, primary, owned,  *)
(* default]; ns: the namespaces it is of, or that its selector matches.      *)

IsNetwork(d) == d.kind \in DOMAIN NetworkType /\ ~d.owned

\* Attachments that a UDN owns are its own; of one name the first is kept.
PastedNetworks(paste) ==
    {paste[i] : i \in {i \in DOMAIN paste :
        /\ IsNetwork(paste[i])
        /\ \A j \in 1..(i - 1) : IsNetwork(paste[j]) => paste[j].name # paste[i].name}}

\* Storage classes by their place in the paste.
PastedClasses(paste) == {i \in DOMAIN paste : paste[i].kind = "StorageClass"}

\* Namespaces of primary UDNs; CUDNs only add namespaces.
PastedSpaces(paste) ==
    UNION {d.ns : d \in {d \in ToSet(paste) : d.kind \in {"UDN", "CUDN"} /\ d.primary}}

\* plan_import: what is new or differs in what the handler saw.
Changed(c, paste) ==
    [nets    |-> {d \in PastedNetworks(paste) :
                    d.name \notin DOMAIN catalog[c] \/ catalog[c][d.name].type # NetworkType[d.kind]},
     classes |-> [i \in {i \in PastedClasses(paste) :
                           \/ paste[i].name \notin DOMAIN catalog[c]
                           \/ paste[i].default /\ ~catalog[c][paste[i].name].default} |-> paste[i]],
     spaces  |-> PastedSpaces(paste) \ spaces[c]]

\* The last default of the paste replaces every other.
Replaced(c, classes) ==
    LET marked == {i \in DOMAIN classes : classes[i].default}
        last   == {i \in marked : \A j \in marked : j <= i}
        NamesAt(places) == {classes[i].name : i \in places}
    IN  IF marked = {} THEN {}
        ELSE (Defaults(c, "storage") \union NamesAt(marked)) \ NamesAt(last)

ImportRead(r, c) ==
    \E paste \in Pastes :
       LET changed == Changed(c, paste)
       IN  Begin(r, [op |-> "import", cluster |-> c, changed |-> changed, seen |-> catalog[c],
                     others |-> Replaced(c, changed.classes)])

NamesOf(changed) == {d.name : d \in changed.nets \union Range(changed.classes)}

\* A network keeps its default flag when its type changes.
Imported(entries, changed) ==
    LET was(n) == n \in DOMAIN entries /\ entries[n].default
        isNet(n) == \E d \in changed.nets : d.name = n
        type(n) == NetworkType[(CHOOSE d \in changed.nets : d.name = n).kind]
        set(n) == \E d \in Range(changed.classes) : d.name = n /\ d.default
    IN  [n \in DOMAIN entries \union NamesOf(changed) |->
            IF n \notin NamesOf(changed) THEN entries[n]
            ELSE IF isNet(n) THEN [type |-> type(n), default |-> was(n)]
            ELSE [type |-> "storage", default |-> was(n) \/ set(n)]]

ImportCommit(r) ==
    LET q == req[r]  c == q.cluster  known == DOMAIN q.seen  names == NamesOf(q.changed)
        fits == /\ c \in cluster
                /\ names \intersect known \subseteq DOMAIN catalog[c]
                /\ (names \ known) \intersect DOMAIN catalog[c] = {}
                /\ q.changed.spaces \intersect spaces[c] = {}
                /\ IsInjective([i \in DOMAIN q.changed.classes |-> q.changed.classes[i].name])
                /\ (q.others \ names) \subseteq DOMAIN catalog[c]
    IN  /\ Ready(r, "import")
        /\ \/ /\ fits
              /\ catalog' = [catalog EXCEPT ![c] = Cleared(Imported(@, q.changed), q.others)]
              /\ spaces' = [spaces EXCEPT ![c] = @ \union q.changed.spaces]
              /\ UNCHANGED <<cluster, vcenter, maps, place, plans>>
           \/ ~fits /\ Refuse

-----------------------------------------------------------------------------
(* Namespaces *)

CreateNamespace(c, n) ==
    /\ AtOnce
    /\ n \notin spaces[c]
    /\ spaces' = [spaces EXCEPT ![c] = @ \union {n}]
    /\ UNCHANGED <<cluster, vcenter, catalog, maps, place, plans>>

RenameNamespace(c, n) ==
    /\ AtOnce
    /\ \E name \in Namespaces \ spaces[c] : spaces' = [spaces EXCEPT ![c] = (@ \ {n}) \union {name}]
    /\ UNCHANGED <<cluster, vcenter, catalog, maps, place, plans>>

\* _namespace_referencing_vms: only VMs that are pinned to the cluster as well.
PinnedTo(c, n) == {v \in VMs : place[v].cluster = c /\ place[v].ns = n}

\* _namespace_referencing_mappings.
Spaces(m) ==
    CASE m.strategy.kind = "single" -> {m.strategy.namespace}
      [] m.strategy.kind = "per_environment" -> Range(m.strategy.envs)
      [] OTHER -> {row.ns : row \in ToSet(m.strategy.rows)}

Naming(c, n) == {m.id : m \in {m \in maps : m.cluster = c /\ n \in Spaces(m)}}

DeleteNamespaceRead(r, c, n) ==
    /\ PinnedTo(c, n) = {} /\ Naming(c, n) = {}
    /\ Begin(r, [op |-> "deleteNamespace", cluster |-> c, name |-> n])

DeleteNamespaceCommit(r) ==
    LET c == req[r].cluster
    IN  /\ Ready(r, "deleteNamespace")
        /\ \/ /\ c \in cluster
              /\ spaces' = [spaces EXCEPT ![c] = @ \ {req[r].name}]
              /\ UNCHANGED <<cluster, vcenter, catalog, maps, place, plans>>
           \/ c \notin cluster /\ Refuse

-----------------------------------------------------------------------------
(* Mappings *)

\* _target_net_names and _target_sc_names: an empty catalog is no authority.
Known(name, declared) == name = "" \/ declared = {} \/ name \in declared

Declared(c, names) == DOMAIN catalog[c] \intersect names

NetsKnown(m) == \A row \in ToSet(m.nets) : Known(row.target, Declared(m.cluster, NetNames))
StoresKnown(m) == \A row \in ToSet(m.stores) : Known(row.class, Declared(m.cluster, ClassNames))

NamesKnown(m) == NetsKnown(m) /\ StoresKnown(m)

Scope(m) == {v \in VMs : place[v].vc = m.vc}

\* _compute_mapping_status
Computed_NetworksOnly(m) ==
    IF UNION {Needs(v).nets : v \in Scope(m)} \subseteq MappedNets(m)
    THEN IF NamesKnown(m) THEN "complete" ELSE "needs_review"
    ELSE "incomplete"
Computed(m) ==
    IF /\ UNION {Needs(v).nets : v \in Scope(m)} \subseteq MappedNets(m)
       /\ UNION {Needs(v).stores : v \in Scope(m)} \subseteq MappedStores(m)
    THEN IF NamesKnown(m) THEN "complete" ELSE "needs_review"
    ELSE "incomplete"

Rows(m, nets, stores, strategy) == [m EXCEPT !.nets = nets, !.stores = stores, !.strategy = strategy]

\* Nothing measures the names a new mapping refers to, but its status says so.
CreateMapping(vc, c) ==
    /\ AtOnce
    /\ ~\E m \in maps : m.vc = vc /\ m.cluster = c
    /\ \E nets \in NetRows, stores \in StoreRows, strategy \in Strategies :
          LET m == [id |-> events, vc |-> vc, cluster |-> c, nets |-> nets, stores |-> stores,
                    strategy |-> strategy, status |-> "incomplete"]
          IN  maps' = maps \union {[m EXCEPT !.status = Computed(m)]}
    /\ UNCHANGED <<cluster, vcenter, catalog, spaces, place, plans>>

\* PATCH of some of the fields: the names of those it sets are checked, the
\* status is that of the row as the handler sees it, all fields together.
UpdateMappingRead(r, m) ==
    \E nets \in NetRows \union {m.nets}, stores \in StoreRows \union {m.stores},
       strategy \in Strategies \union {m.strategy} :
       LET new == Rows(m, nets, stores, strategy)
       IN  /\ nets # m.nets => NetsKnown(new)
           /\ stores # m.stores => StoresKnown(new)
           /\ Begin(r, [op |-> "updateMapping", old |-> m, new |-> [new EXCEPT !.status = Computed(new)],
                        names |-> DOMAIN catalog[m.cluster], scope |-> Scope(m)])

\* The UPDATE of a row sets the columns whose value the handler changed.
Column(now, old, new) == IF new = old THEN now ELSE new

Updated(now, old, new) ==
    [now EXCEPT !.nets = Column(@, old.nets, new.nets), !.stores = Column(@, old.stores, new.stores),
                !.strategy = Column(@, old.strategy, new.strategy),
                !.status = Column(@, old.status, new.status)]

UpdateMappingCommit(r) ==
    LET old == req[r].old  new == req[r].new
    IN  /\ Ready(r, "updateMapping")
        /\ \/ \E m \in maps :
                 /\ m.id = old.id
                 /\ maps' = (maps \ {m}) \union {Updated(m, old, new)}
                 /\ UNCHANGED <<cluster, vcenter, catalog, spaces, place, plans>>
           \/ (~\E m \in maps : m.id = old.id) /\ Refuse

Users(id) == {p \in DOMAIN plans : id \in plans[p]}

DeleteMappingRead(r, m) ==
    /\ Users(m.id) = {}
    /\ Begin(r, [op |-> "deleteMapping", id |-> m.id, users |-> Users(m.id)])

DeleteMappingCommit(r) ==
    /\ Ready(r, "deleteMapping")
    /\ maps' = {m \in maps : m.id # req[r].id}
    /\ UNCHANGED <<cluster, vcenter, catalog, spaces, place, plans>>

-----------------------------------------------------------------------------
(* Clusters, vCenters, VMs and plans *)

\* ON DELETE CASCADE of its catalog and mappings, SET NULL of overrides.
OverrideAfter_Kept(o, c) == o
OverrideAfter(o, c) == IF o = c THEN None ELSE o

DeleteTarget(c) ==
    /\ AtOnce
    /\ cluster' = cluster \ {c}
    /\ catalog' = Restrict(catalog, cluster \ {c})
    /\ spaces' = Restrict(spaces, cluster \ {c})
    /\ maps' = {m \in maps : m.cluster # c}
    /\ place' = [v \in VMs |-> [place[v] EXCEPT !.cluster = OverrideAfter(@, c)]]
    /\ UNCHANGED <<vcenter, plans>>

DeleteVCenter(vc) ==
    /\ AtOnce
    /\ vcenter' = vcenter \ {vc}
    /\ maps' = {m \in maps : m.vc # vc}
    /\ place' = [v \in VMs |-> [place[v] EXCEPT !.vc = IF @ = vc THEN None ELSE @]]
    /\ UNCHANGED <<cluster, catalog, spaces, plans>>

\* The bulk overrides: the cluster must exist, a namespace may be any text.
SetCluster(v) ==
    /\ AtOnce
    /\ \E c \in cluster \union {None} : place' = [place EXCEPT ![v].cluster = c]
    /\ UNCHANGED <<cluster, vcenter, catalog, spaces, maps, plans>>

SetNamespace(v) ==
    /\ AtOnce
    /\ \E n \in Namespaces \union {""} : place' = [place EXCEPT ![v].ns = n]
    /\ UNCHANGED <<cluster, vcenter, catalog, spaces, maps, plans>>

PlanRead(r, p) ==
    /\ p \notin DOMAIN plans
    /\ \E m \in maps : Begin(r, [op |-> "plan", plan |-> p, ids |-> {m.id}])

PlanCommit(r) ==
    /\ Ready(r, "plan")
    /\ plans' = With(plans, req[r].plan, req[r].ids)
    /\ UNCHANGED <<cluster, vcenter, catalog, spaces, maps, place>>

DeletePlan(p) ==
    /\ AtOnce
    /\ plans' = Restrict(plans, DOMAIN plans \ {p})
    /\ UNCHANGED <<cluster, vcenter, catalog, spaces, maps, place>>

-----------------------------------------------------------------------------
EntryRead(r) ==
    \E c \in cluster :
       \/ CreateNetwork(r, c) \/ CreateStorageClass(r, c) \/ ImportRead(r, c)
       \/ \E n \in DOMAIN catalog[c] :
             UpdateNetwork(r, c, n) \/ UpdateStorageClass(r, c, n) \/ DeleteEntryRead(r, c, n)
       \/ \E n \in spaces[c] : DeleteNamespaceRead(r, c, n)

Commit(r) ==
    \/ CreateCommit(r) \/ UpdateCommit(r) \/ DeleteEntryCommit(r) \/ ImportCommit(r)
    \/ DeleteNamespaceCommit(r) \/ UpdateMappingCommit(r) \/ DeleteMappingCommit(r) \/ PlanCommit(r)

Single ==
    \/ \E c \in cluster :
          \/ DeleteTarget(c)
          \/ \E n \in Namespaces : CreateNamespace(c, n)
          \/ \E n \in spaces[c] : RenameNamespace(c, n)
          \/ \E vc \in vcenter : CreateMapping(vc, c)
    \/ \E vc \in vcenter : DeleteVCenter(vc)
    \/ \E v \in VMs : SetCluster(v) \/ SetNamespace(v)
    \/ \E p \in DOMAIN plans : DeletePlan(p)

Next ==
    \/ \E r \in Requests :
          \/ EntryRead(r) \/ Commit(r)
          \/ \E m \in maps : UpdateMappingRead(r, m) \/ DeleteMappingRead(r, m)
          \/ \E p \in Plans : PlanRead(r, p)
    \/ Single

Spec == Init /\ [][Next]_vars
-----------------------------------------------------------------------------
(* Properties *)

Ended(r, op) == req[r].op = op /\ req'[r] = NoReq

AtMostOne(S) == \A x, y \in S : x = y

\* A cluster gets a second default of a type only when its catalog changed
\* after the handler had read it, or when an import, which does not look at
\* default flags of networks, changes the type of a default network.
DefaultsStayUnique ==
    [][\A c \in cluster \intersect cluster', t \in Types :
          AtMostOne(Defaults(c, t)) /\ ~AtMostOne(Defaults(c, t)') =>
             \E r \in Requests :
                \/ Ended(r, "import") /\ t # "storage"
                \/ /\ \E op \in {"create", "update", "import"} : Ended(r, op)
                   /\ req[r].seen # catalog[c]]_vars

MappingIds == {m.id : m \in maps}

\* Rows whose target the cluster does not declare.
Dangling ==
    UNION {{<<m.id, n>> : n \in Targets(m) \ ({""} \union DOMAIN catalog[m.cluster])} : m \in maps}

PlanDangling == UNION {{<<p, id>> : id \in plans[p] \ MappingIds} : p \in DOMAIN plans}

\* A row loses its target only by a rename, by a new mapping (nothing measures
\* its names), by a save against a catalog that declared nothing or still had
\* the name, or by a deletion that did not see the row.
RowsKeepTargets ==
    \A x \in Dangling' \ Dangling :
       \/ x[1] \notin MappingIds
       \/ \E r \in Requests :
             \/ Ended(r, "update") /\ req[r].to # req[r].name
             \/ Ended(r, "delete") /\ x[1] \notin req[r].refs
             \/ /\ Ended(r, "updateMapping")
                /\ x[2] \in req[r].names \/ \E names \in {NetNames, ClassNames} :
                                              x[2] \in names /\ req[r].names \intersect names = {}

\* A plan loses a mapping only with its cluster or vCenter, or when the two
\* handlers overlap.
PlansKeepMappings ==
    \A x \in PlanDangling' \ PlanDangling :
       \/ cluster' # cluster \/ vcenter' # vcenter
       \/ \E r \in Requests : \/ Ended(r, "plan")
                              \/ Ended(r, "deleteMapping") /\ x[1] \notin req[r].users

\* References to catalog entries and mappings are kept without foreign keys:
\* they are lost only in the ways named above, never by an import or by a
\* deletion that could see them.
ReferencesAreKept == [][RowsKeepTargets /\ PlansKeepMappings]_vars

\* A mapping saved as complete passes Stage 0 (core/mapping_validation.py) for
\* the networks and datastores of every VM of its vCenter that has a
\* datastore, unless VMs moved while it was saved, or another save of it
\* overlapped: each writes its own columns and a status computed without the
\* other's, and the row may say complete while it covers nothing.
CompleteMappingsCover ==
    [][\A m \in maps' \ maps :
          m.status = "complete"
            /\ (\A r \in Requests : Ended(r, "updateMapping") =>
                  req[r].scope = Scope(m) /\ req[r].old \in maps) =>
          \A v \in Scope(m) : Needs(v).stores # {} =>
             Covers(MappedNets(m), MappedStores(m), Needs(v))]_vars
=============================================================================
