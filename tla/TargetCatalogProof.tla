------------------------- MODULE TargetCatalogProof -------------------------
(***************************************************************************)
(* Theorems about TargetCatalog, for any number of clusters, vCenters, VMs *)
(* and plans, and any number of handlers in flight.                        *)
(***************************************************************************)
EXTENDS TargetCatalog, TLAPS

-----------------------------------------------------------------------------
(* The operators on catalogs *)

DefaultsOf(entries, t) == {n \in DOMAIN entries : entries[n].type = t /\ entries[n].default}

LEMMA DefaultsAreOfTheCatalog ==
    \A c, t : Defaults(c, t) = DefaultsOf(catalog[c], t)
BY DEF Defaults, DefaultsOf

\* An entry whose flag is cleared stays an entry of its type.
LEMMA ClearedEntry ==
    ASSUME NEW e \in Entries
    PROVE  LET f == [e EXCEPT !.default = FALSE]
           IN  f \in Entries /\ f.type = e.type /\ f.default = FALSE
BY DEF Entries

LEMMA ClearedEntries ==
    ASSUME NEW entries, IsCatalog(entries), NEW others
    PROVE  /\ DOMAIN Cleared(entries, others) = DOMAIN entries
           /\ IsCatalog(Cleared(entries, others))
           /\ \A t : DefaultsOf(Cleared(entries, others), t) = DefaultsOf(entries, t) \ others
<1> DEFINE after == Cleared(entries, others)
<1>1. DOMAIN after = DOMAIN entries
    BY DEF Cleared
<1>2. ASSUME NEW n \in DOMAIN entries
      PROVE  /\ after[n] \in Entries /\ after[n].type = entries[n].type
             /\ after[n].default <=> entries[n].default /\ n \notin others
  <2>1. entries[n] \in Entries
      BY DEF IsCatalog
  <2>2. CASE n \in others
      BY <2>1, <2>2, ClearedEntry DEF Cleared
  <2>3. CASE n \notin others
      BY <2>1, <2>3 DEF Cleared
  <2>4. QED
      BY <2>2, <2>3
<1> HIDE DEF after
<1>3. IsCatalog(after)
    BY <1>1, <1>2 DEF IsCatalog
<1>4. \A t : DefaultsOf(after, t) = DefaultsOf(entries, t) \ others
    BY <1>1, <1>2 DEF DefaultsOf
<1>5. QED
    BY <1>1, <1>3, <1>4 DEF after

LEMMA WithEntry ==
    ASSUME NEW entries, IsCatalog(entries),
           NEW n \in Names, NEW e \in Entries, e.type \in TypesOf(n)
    PROVE  /\ DOMAIN With(entries, n, e) = DOMAIN entries \union {n}
           /\ IsCatalog(With(entries, n, e))
           /\ \A t : DefaultsOf(With(entries, n, e), t) \subseteq
                        DefaultsOf(entries, t)
                          \union (IF e.type = t /\ e.default THEN {n} ELSE {})
BY DEF With, IsCatalog, DefaultsOf

LEMMA RestrictedEntries ==
    ASSUME NEW entries, IsCatalog(entries), NEW names \in SUBSET DOMAIN entries
    PROVE  /\ DOMAIN Restrict(entries, names) = names
           /\ IsCatalog(Restrict(entries, names))
           /\ \A t : DefaultsOf(Restrict(entries, names), t) = DefaultsOf(entries, t) \intersect names
BY DEF Restrict, IsCatalog, DefaultsOf

LEMMA TypesOfNames ==
    \A n \in Names : /\ TypesOf(n) \subseteq Types
                     /\ n \in ClassNames <=> "storage" \in TypesOf(n)
                     /\ n \in NetNames => TypesOf(n) = NetTypes
                     /\ n \in ClassNames => TypesOf(n) = {"storage"}
BY NoneAssumption DEF TypesOf, Types, NetTypes, Names

-----------------------------------------------------------------------------
(* The invariant.  What a handler has read fits what it will write, and the  *)
(* rows it may replace are still of the vCenter and cluster it saw.          *)

Mapping ==
    [id : Nat, vc : VCenters, cluster : Clusters, nets : NetRows, stores : StoreRows,
     strategy : Strategies, status : Statuses]

Ops == {"none", "create", "update", "delete", "import", "deleteNamespace", "updateMapping",
        "deleteMapping", "plan"}

\* A handler that saw the catalog it changes replaces every other default.
EntryFits(q) ==
    /\ IsCatalog(q.seen)
    /\ q.name \in Names /\ q.entry \in Entries /\ q.entry.type \in TypesOf(q.name)
    /\ q.entry.default => DefaultsOf(q.seen, q.entry.type) \ {q.name} \subseteq q.others

Marked(classes) == {i \in DOMAIN classes : classes[i].default}
LastMarked(classes) == {classes[i].name : i \in {i \in Marked(classes) : \A j \in Marked(classes) : j <= i}}

ImportFits(q) ==
    LET classes == q.changed.classes
    IN  /\ IsCatalog(q.seen)
        /\ q.changed.spaces \subseteq Namespaces
        /\ \A d \in q.changed.nets : d.kind \in DOMAIN NetworkType /\ d.name \in NetNames
        /\ \A i \in DOMAIN classes : /\ i \in Nat /\ classes[i].default \in BOOLEAN
                                     /\ classes[i].name \in ClassNames
        /\ Marked(classes) # {} =>
              (DefaultsOf(q.seen, "storage") \union {classes[i].name : i \in Marked(classes)})
                 \ LastMarked(classes) \subseteq q.others

\* The names that a save brings in.
NewNets(q) == IF q.new.nets = q.old.nets THEN {} ELSE {row.target : row \in ToSet(q.new.nets)}
NewClasses(q) ==
    IF q.new.stores = q.old.stores THEN {} ELSE {row.class : row \in ToSet(q.new.stores)}

MappingFits(q) ==
    /\ q.old \in Mapping /\ q.new \in Mapping
    /\ q.new.id = q.old.id /\ q.new.vc = q.old.vc /\ q.new.cluster = q.old.cluster
    /\ \A n \in (NewNets(q) \union NewClasses(q)) \ {""} :
          n \in q.names \/ \E names \in {NetNames, ClassNames} :
                              n \in names /\ q.names \intersect names = {}
    /\ q.new.status = "complete" =>
          \A v \in q.scope : /\ Needs(v).nets \subseteq MappedNets(q.new)
                             /\ Needs(v).stores \subseteq MappedStores(q.new)

Fits(q) ==
    /\ q.op \in Ops
    /\ q.op \in {"create", "update"} => EntryFits(q)
    /\ q.op = "update" =>
          q.name \in DOMAIN q.seen /\ q.to \in Names /\ TypesOf(q.to) = TypesOf(q.name)
    /\ q.op = "delete" => q.refs = {}
    /\ q.op = "import" => ImportFits(q)
    /\ q.op = "updateMapping" => MappingFits(q)
    /\ q.op = "deleteMapping" => q.users = {}

\* The row that a save replaces, if it is still there.
Replaces(q) ==
    q.op = "updateMapping" =>
       /\ q.new.id < events
       /\ \A m \in maps : m.id = q.new.id => m.vc = q.new.vc /\ m.cluster = q.new.cluster

RequestsFit == DOMAIN req = Requests /\ \A r \in Requests : Fits(req[r]) /\ Replaces(req[r])

MapsFit == events \in Nat /\ maps \subseteq Mapping /\ \A m \in maps : m.id < events

Places ==
    [vc : VCenters \union {None}, cluster : Clusters \union {None}, ns : Namespaces \union {""}]

PlaceFits == place \in [VMs -> Places]

CatalogInv == TypeOK /\ PlaceFits /\ MapsFit /\ RequestsFit

LEMMA InitCatalogInv == Init => CatalogInv
<1> SUFFICES ASSUME Init PROVE CatalogInv
    OBVIOUS
<1> DEFINE Start(x) == [vc |-> x, cluster |-> None, ns |-> ""]
<1>a. \A x \in VCenters : Start(x) \in Places /\ Start(x).vc = x /\ Start(x).cluster = None
    BY DEF Places
<1>b. place \in [VMs -> {Start(x) : x \in VCenters}]
    BY DEF Init
<1>c. PlaceFits <=> place \in [VMs -> Places]
    BY DEF PlaceFits
<1> HIDE DEF Start
<1>1. PlaceFits
    BY <1>a, <1>b, <1>c
<1>2. \A v \in VMs : place[v].vc \in VCenters /\ place[v].cluster = None
    BY <1>a, <1>b
<1>3. Fits(NoReq) /\ Replaces(NoReq)
    BY DEF Fits, Replaces, NoReq, Ops
<1>4. RequestsFit
    BY <1>3 DEF Init, RequestsFit
<1>5. MapsFit
    BY DEF Init, MapsFit
<1>6. PICK s \in Seeds : /\ catalog = [c \in Clusters |-> s.catalog]
                        /\ spaces = [c \in Clusters |-> s.spaces]
    BY DEF Init
<1>7. TypeOK
    BY <1>2, <1>6, SeedsAssumption DEF Init, TypeOK
<1>8. QED
    BY <1>1, <1>4, <1>5, <1>7 DEF CatalogInv

\* A handler that reads has only its request to keep.
LEMMA BeginKeeps ==
    ASSUME CatalogInv, NEW r \in Requests, NEW q, Begin(r, q), Fits(q), Replaces(q)
    PROVE  CatalogInv'
<1>1. TypeOK' /\ PlaceFits'
    BY DEF Begin, CatalogInv, TypeOK, PlaceFits
<1>2. MapsFit'
  <2>1. \A m \in maps : m.id \in Nat
      BY DEF CatalogInv, MapsFit, Mapping
  <2>2. QED
      BY <2>1 DEF Begin, CatalogInv, MapsFit
<1>3. DOMAIN req' = Requests /\ \A s \in Requests : req'[s] = IF s = r THEN q ELSE req[s]
    BY DEF Begin, CatalogInv, RequestsFit
<1>4. ASSUME NEW s \in Requests PROVE Fits(req'[s]) /\ Replaces(req[s])' 
  <2>1. Fits(req'[s])
      BY <1>3 DEF CatalogInv, RequestsFit
  <2>2. maps' = maps /\ events' = events + 1 /\ events \in Nat
      BY DEF Begin, CatalogInv, MapsFit
  <2>3. req'[s].op = "updateMapping" => req'[s].new.id \in Nat
      BY <2>1 DEF Fits, MappingFits, Mapping
  <2>4. CASE s = r
      BY <2>2, <2>3, <2>4, <1>3 DEF Replaces
  <2>5. CASE s # r
      BY <2>2, <2>3, <2>5, <1>3 DEF Replaces, CatalogInv, RequestsFit
  <2>6. QED
      BY <2>1, <2>4, <2>5
<1>5. RequestsFit'
    BY <1>3, <1>4 DEF RequestsFit
<1>6. QED
    BY <1>1, <1>2, <1>5 DEF CatalogInv

-----------------------------------------------------------------------------
(* What the handlers read *)

LEMMA CreateReadFits ==
    ASSUME CatalogInv, NEW r \in Requests, NEW c \in cluster, NEW n \in Names,
           NEW t \in TypesOf(n), NEW d \in BOOLEAN, CreateRead(r, c, n, t, d)
    PROVE  \E q : Begin(r, q) /\ Fits(q) /\ Replaces(q)
<1>1. PICK q : q = [op |-> "create", cluster |-> c, name |-> n,
                    entry |-> [type |-> t, default |-> d], seen |-> catalog[c],
                    others |-> IF d THEN Others(c, n, t) ELSE {}]
    OBVIOUS
<1>2. /\ q.op = "create" /\ q.name = n /\ q.entry = [type |-> t, default |-> d]
      /\ q.seen = catalog[c] /\ q.others = IF d THEN Others(c, n, t) ELSE {}
    BY <1>1
<1>3. IsCatalog(catalog[c])
    BY DEF CatalogInv, TypeOK
<1>4. q.entry \in Entries /\ q.entry.type = t /\ q.entry.default = d
    BY <1>2, TypesOfNames DEF Entries
<1>5. d => Others(c, n, t) = DefaultsOf(catalog[c], t) \ {n}
    BY DefaultsAreOfTheCatalog DEF Others
<1>6. EntryFits(q)
    BY <1>2, <1>3, <1>4, <1>5 DEF EntryFits
<1>7. Fits(q) /\ Replaces(q)
    BY <1>2, <1>6 DEF Fits, Replaces, Ops
<1>8. Begin(r, q)
    BY <1>1 DEF CreateRead
<1>9. QED
    BY <1>7, <1>8

LEMMA UpdateReadFits ==
    ASSUME CatalogInv, NEW r \in Requests, NEW c \in cluster, NEW n \in DOMAIN catalog[c],
           NEW name \in Names, TypesOf(name) = TypesOf(n),
           NEW entry \in Entries, entry.type \in TypesOf(n), UpdateRead(r, c, n, name, entry)
    PROVE  \E q : Begin(r, q) /\ Fits(q) /\ Replaces(q)
<1>1. PICK q : q = [op |-> "update", cluster |-> c, name |-> n, to |-> name, entry |-> entry,
                    seen |-> catalog[c],
                    others |-> IF entry.default THEN Others(c, n, entry.type) ELSE {}]
    OBVIOUS
<1>2. /\ q.op = "update" /\ q.name = n /\ q.to = name /\ q.entry = entry
      /\ q.seen = catalog[c] /\ q.others = IF entry.default THEN Others(c, n, entry.type) ELSE {}
    BY <1>1
<1>3. IsCatalog(catalog[c]) /\ n \in Names
    BY DEF CatalogInv, TypeOK, IsCatalog
<1>4. Others(c, n, entry.type) = DefaultsOf(catalog[c], entry.type) \ {n}
    BY DefaultsAreOfTheCatalog DEF Others
<1>5. EntryFits(q)
    BY <1>2, <1>3, <1>4 DEF EntryFits
<1>6. Fits(q) /\ Replaces(q)
    BY <1>2, <1>5 DEF Fits, Replaces, Ops
<1>7. Begin(r, q)
    BY <1>1 DEF UpdateRead
<1>8. QED
    BY <1>6, <1>7

LEMMA UpdatesFit ==
    ASSUME CatalogInv, NEW r \in Requests, NEW c \in cluster, NEW n \in DOMAIN catalog[c],
           UpdateNetwork(r, c, n) \/ UpdateStorageClass(r, c, n)
    PROVE  \E q : Begin(r, q) /\ Fits(q) /\ Replaces(q)
<1>1. /\ n \in Names /\ catalog[c][n] \in Entries /\ catalog[c][n].type \in TypesOf(n)
    BY DEF CatalogInv, TypeOK, IsCatalog
<1>2. CASE Rename(r, c, n)
  <2>1. PICK name \in (IF n \in ClassNames THEN ClassNames ELSE NetNames) \ {n} :
               UpdateRead(r, c, n, name, catalog[c][n])
      BY <1>2 DEF Rename
  <2>2. name \in Names /\ TypesOf(name) = TypesOf(n)
      BY <1>1, NoneAssumption DEF Names, TypesOf
  <2>3. QED
      BY <1>1, <2>1, <2>2, UpdateReadFits
<1>3. CASE Retype(r, c, n)
  <2>1. PICK t \in TypesOf(n) \ {catalog[c][n].type} :
               UpdateRead(r, c, n, n, [catalog[c][n] EXCEPT !.type = t])
      BY <1>3 DEF Retype
  <2>2. /\ [catalog[c][n] EXCEPT !.type = t] \in Entries
        /\ [catalog[c][n] EXCEPT !.type = t].type = t
      BY <1>1, TypesOfNames DEF Entries
  <2>3. QED
      BY <1>1, <2>1, <2>2, UpdateReadFits
<1>4. CASE Redefault(r, c, n)
  <2>1. UpdateRead(r, c, n, n, [catalog[c][n] EXCEPT !.default = ~@])
      BY <1>4 DEF Redefault
  <2>2. /\ [catalog[c][n] EXCEPT !.default = ~@] \in Entries
        /\ [catalog[c][n] EXCEPT !.default = ~@].type = catalog[c][n].type
      BY <1>1 DEF Entries
  <2>3. QED
      BY <1>1, <2>1, <2>2, UpdateReadFits
<1>5. QED
    BY <1>2, <1>3, <1>4 DEF UpdateNetwork, UpdateStorageClass

\* What an import changes is what a paste may hold.
LEMMA ImportReadFits ==
    ASSUME CatalogInv, NEW r \in Requests, NEW c \in cluster, ImportRead(r, c)
    PROVE  \E q : Begin(r, q) /\ Fits(q) /\ Replaces(q)
<1>1. PICK paste \in Pastes :
        Begin(r, [op |-> "import", cluster |-> c, changed |-> Changed(c, paste),
                  seen |-> catalog[c], others |-> Replaced(c, Changed(c, paste).classes)])
    BY DEF ImportRead
<1>2. PICK changed : changed = Changed(c, paste)
    OBVIOUS
<1>3. PICK q : q = [op |-> "import", cluster |-> c, changed |-> changed,
                    seen |-> catalog[c], others |-> Replaced(c, changed.classes)]
    OBVIOUS
<1>4. /\ q.op = "import" /\ q.changed = changed /\ q.seen = catalog[c]
      /\ q.others = Replaced(c, changed.classes)
    BY <1>3
<1>5. Begin(r, q)
    BY <1>1, <1>2, <1>3
<1>6. \A d \in changed.nets : d.kind \in DOMAIN NetworkType /\ d.name \in NetNames
  <2>1. changed.nets \subseteq PastedNetworks(paste)
      BY <1>2 DEF Changed
  <2>2. \A d \in PastedNetworks(paste) : \E i \in DOMAIN paste : d = paste[i] /\ IsNetwork(d)
      BY DEF PastedNetworks
  <2>3. QED
      BY <2>1, <2>2, PastesAssumption DEF IsNetwork
<1>7. \A i \in DOMAIN changed.classes :
         /\ i \in Nat /\ changed.classes[i].default \in BOOLEAN
         /\ changed.classes[i].name \in ClassNames
  <2>1. /\ DOMAIN changed.classes \subseteq PastedClasses(paste)
        /\ \A i \in DOMAIN changed.classes : changed.classes[i] = paste[i]
      BY <1>2 DEF Changed
  <2>2. QED
      BY <2>1, PastesAssumption DEF PastedClasses
<1>8. changed.spaces \subseteq Namespaces
  <2>1. changed.spaces \subseteq PastedSpaces(paste)
      BY <1>2 DEF Changed
  <2>2. \A d \in ToSet(paste) : d.ns \subseteq Namespaces
      BY PastesAssumption DEF ToSet
  <2>3. QED
      BY <2>1, <2>2 DEF PastedSpaces
<1>9. Marked(changed.classes) # {} =>
         Replaced(c, changed.classes) =
           (DefaultsOf(catalog[c], "storage")
              \union {changed.classes[i].name : i \in Marked(changed.classes)})
             \ LastMarked(changed.classes)
    BY DefaultsAreOfTheCatalog DEF Replaced, Marked, LastMarked
<1>10. IsCatalog(catalog[c])
    BY DEF CatalogInv, TypeOK
<1>11. ImportFits(q)
    BY <1>4, <1>6, <1>7, <1>8, <1>9, <1>10 DEF ImportFits
<1>12. Fits(q) /\ Replaces(q)
    BY <1>4, <1>11 DEF Fits, Replaces, Ops
<1>13. QED
    BY <1>5, <1>12

LEMMA DeletionsFit ==
    ASSUME CatalogInv, NEW r \in Requests,
           \/ \E c \in cluster : \E n \in DOMAIN catalog[c] : DeleteEntryRead(r, c, n)
           \/ \E c \in cluster : \E n \in spaces[c] : DeleteNamespaceRead(r, c, n)
           \/ \E m \in maps : DeleteMappingRead(r, m)
           \/ \E p \in Plans : PlanRead(r, p)
    PROVE  \E q : Begin(r, q) /\ Fits(q) /\ Replaces(q)
<1>1. ASSUME NEW c, NEW n, DeleteEntryRead(r, c, n)
      PROVE  \E q : Begin(r, q) /\ Fits(q) /\ Replaces(q)
  <2>1. PICK q : q = [op |-> "delete", cluster |-> c, name |-> n, refs |-> Referring(c, n)]
      OBVIOUS
  <2>2. q.op = "delete" /\ q.refs = {}
      BY <1>1, <2>1 DEF DeleteEntryRead, Unreferred
  <2>3. QED
      BY <1>1, <2>1, <2>2 DEF DeleteEntryRead, Fits, Replaces, Ops
<1>2. ASSUME NEW c, NEW n, DeleteNamespaceRead(r, c, n)
      PROVE  \E q : Begin(r, q) /\ Fits(q) /\ Replaces(q)
  <2>1. PICK q : q = [op |-> "deleteNamespace", cluster |-> c, name |-> n]
      OBVIOUS
  <2>2. q.op = "deleteNamespace"
      BY <2>1
  <2>3. QED
      BY <1>2, <2>1, <2>2 DEF DeleteNamespaceRead, Fits, Replaces, Ops
<1>3. ASSUME NEW m, DeleteMappingRead(r, m)
      PROVE  \E q : Begin(r, q) /\ Fits(q) /\ Replaces(q)
  <2>1. PICK q : q = [op |-> "deleteMapping", id |-> m.id, users |-> Users(m.id)]
      OBVIOUS
  <2>2. q.op = "deleteMapping" /\ q.users = {}
      BY <1>3, <2>1 DEF DeleteMappingRead
  <2>3. QED
      BY <1>3, <2>1, <2>2 DEF DeleteMappingRead, Fits, Replaces, Ops
<1>4. ASSUME NEW p, PlanRead(r, p)
      PROVE  \E q : Begin(r, q) /\ Fits(q) /\ Replaces(q)
  <2>1. PICK m \in maps : Begin(r, [op |-> "plan", plan |-> p, ids |-> {m.id}])
      BY <1>4 DEF PlanRead
  <2>2. PICK q : q = [op |-> "plan", plan |-> p, ids |-> {m.id}]
      OBVIOUS
  <2>3. q.op = "plan"
      BY <2>2
  <2>4. QED
      BY <2>1, <2>2, <2>3 DEF Fits, Replaces, Ops
<1>5. QED
    BY <1>1, <1>2, <1>3, <1>4

\* Rows as a handler writes them, before and after their status is computed.
LEMMA RowsOfMapping ==
    ASSUME NEW m \in Mapping, NEW nets \in NetRows, NEW stores \in StoreRows,
           NEW strategy \in Strategies, NEW status \in Statuses
    PROVE  LET new == [Rows(m, nets, stores, strategy) EXCEPT !.status = status]
           IN  /\ new \in Mapping
               /\ new.id = m.id /\ new.vc = m.vc /\ new.cluster = m.cluster
               /\ new.nets = nets /\ new.stores = stores /\ new.status = status
BY DEF Mapping, Rows

LEMMA ComputedStatus == \A m : Computed(m) \in Statuses
BY DEF Computed, Statuses

\* "complete" means that the rows cover every VM in scope.
LEMMA ComputedCovers ==
    ASSUME NEW m, Computed(m) = "complete", NEW v \in Scope(m)
    PROVE  Needs(v).nets \subseteq MappedNets(m) /\ Needs(v).stores \subseteq MappedStores(m)
<1>1. UNION {Needs(w).nets : w \in Scope(m)} \subseteq MappedNets(m)
    BY DEF Computed
<1>2. UNION {Needs(w).stores : w \in Scope(m)} \subseteq MappedStores(m)
    BY DEF Computed
<1>3. QED
    BY <1>1, <1>2

\* Names are known of a cluster that declares them, or none of their kind.
LEMMA KnownNets ==
    ASSUME NEW m, NetsKnown(m), m.nets \in NetRows,
           NEW n \in {row.target : row \in ToSet(m.nets)} \ {""}
    PROVE  \/ n \in DOMAIN catalog[m.cluster]
           \/ n \in NetNames /\ DOMAIN catalog[m.cluster] \intersect NetNames = {}
<1>1. Known(n, Declared(m.cluster, NetNames)) /\ n \in NetNames
    BY RowsAssumption DEF NetsKnown
<1>2. QED
    BY <1>1 DEF Known, Declared

\* As KnownNets, for storage classes.
LEMMA KnownClasses ==
    ASSUME NEW m, StoresKnown(m), m.stores \in StoreRows,
           NEW n \in {row.class : row \in ToSet(m.stores)} \ {""}
    PROVE  \/ n \in DOMAIN catalog[m.cluster]
           \/ n \in ClassNames /\ DOMAIN catalog[m.cluster] \intersect ClassNames = {}
<1>1. Known(n, Declared(m.cluster, ClassNames)) /\ n \in ClassNames
    BY RowsAssumption DEF StoresKnown
<1>2. QED
    BY <1>1 DEF Known, Declared

LEMMA UpdateMappingFits ==
    ASSUME CatalogInv, NEW r \in Requests, NEW m \in maps, UpdateMappingRead(r, m)
    PROVE  \E q : Begin(r, q) /\ Fits(q) /\ Replaces(q)
<1>3. m \in Mapping
    BY DEF CatalogInv, MapsFit
<1>1. PICK nets \in NetRows, stores \in StoreRows, strategy \in Strategies :
        LET new == Rows(m, nets, stores, strategy)
        IN  /\ nets # m.nets => NetsKnown(new)
            /\ stores # m.stores => StoresKnown(new)
            /\ Begin(r, [op |-> "updateMapping", old |-> m, new |-> [new EXCEPT !.status = Computed(new)],
                         names |-> DOMAIN catalog[m.cluster], scope |-> Scope(m)])
    BY <1>3 DEF UpdateMappingRead, Mapping
<1> DEFINE rows == Rows(m, nets, stores, strategy)
<1>2. PICK new : new = [rows EXCEPT !.status = Computed(rows)]
    OBVIOUS
<1>4. /\ new \in Mapping
      /\ new.id = m.id /\ new.vc = m.vc /\ new.cluster = m.cluster
      /\ new.nets = nets /\ new.stores = stores /\ new.status = Computed(rows)
    BY <1>2, <1>3, RowsOfMapping, ComputedStatus
<1>5. /\ rows.vc = m.vc /\ rows.cluster = m.cluster /\ rows.nets = nets /\ rows.stores = stores
    BY <1>3 DEF Mapping, Rows
<1>6. (nets # m.nets => NetsKnown(rows)) /\ (stores # m.stores => StoresKnown(rows))
    BY <1>1
<1>7. PICK q : q = [op |-> "updateMapping", old |-> m, new |-> new,
                    names |-> DOMAIN catalog[m.cluster], scope |-> Scope(m)]
    OBVIOUS
<1>8. /\ q.op = "updateMapping" /\ q.old = m /\ q.new = new
      /\ q.names = DOMAIN catalog[m.cluster] /\ q.scope = Scope(m)
    BY <1>7
<1>9. Begin(r, q)
    BY <1>1, <1>2, <1>7
<1> HIDE DEF rows
<1>11. MappedNets(new) = MappedNets(rows) /\ MappedStores(new) = MappedStores(rows)
    BY <1>4, <1>5 DEF MappedNets, MappedStores
<1>12. Scope(m) = Scope(rows)
    BY <1>5 DEF Scope
<1>13. \A n \in (NewNets(q) \union NewClasses(q)) \ {""} :
          n \in q.names \/ \E names \in {NetNames, ClassNames} :
                              n \in names /\ q.names \intersect names = {}
  <2>1. ASSUME NEW n \in NewNets(q) \ {""}
        PROVE  \/ n \in q.names
               \/ n \in NetNames /\ q.names \intersect NetNames = {}
    <3>1. nets # m.nets /\ n \in {row.target : row \in ToSet(rows.nets)} \ {""}
        BY <2>1, <1>4, <1>5, <1>8 DEF NewNets
    <3>2. NetsKnown(rows) /\ rows.nets \in NetRows
        BY <3>1, <1>5, <1>6
    <3>3. \/ n \in DOMAIN catalog[rows.cluster]
          \/ n \in NetNames /\ DOMAIN catalog[rows.cluster] \intersect NetNames = {}
        BY <3>1, <3>2, KnownNets
    <3>4. DOMAIN catalog[rows.cluster] = q.names
        BY <1>5, <1>8
    <3>5. QED
        BY <3>3, <3>4
  <2>2. ASSUME NEW n \in NewClasses(q) \ {""}
        PROVE  \/ n \in q.names
               \/ n \in ClassNames /\ q.names \intersect ClassNames = {}
    <3>1. stores # m.stores /\ n \in {row.class : row \in ToSet(rows.stores)} \ {""}
        BY <2>2, <1>4, <1>5, <1>8 DEF NewClasses
    <3>2. StoresKnown(rows) /\ rows.stores \in StoreRows
        BY <3>1, <1>5, <1>6
    <3>3. \/ n \in DOMAIN catalog[rows.cluster]
          \/ n \in ClassNames /\ DOMAIN catalog[rows.cluster] \intersect ClassNames = {}
        BY <3>1, <3>2, KnownClasses
    <3>4. DOMAIN catalog[rows.cluster] = q.names
        BY <1>5, <1>8
    <3>5. QED
        BY <3>3, <3>4
  <2>3. QED
      BY <2>1, <2>2
<1>14. MappingFits(q)
  <2>1. ASSUME new.status = "complete", NEW v \in Scope(m)
        PROVE  Needs(v).nets \subseteq MappedNets(new) /\ Needs(v).stores \subseteq MappedStores(new)
      BY <2>1, <1>4, <1>11, <1>12, ComputedCovers
  <2>2. QED
      BY <2>1, <1>3, <1>4, <1>8, <1>13 DEF MappingFits
<1>15. \A o \in maps : o.id = m.id => o = m
    BY DEF CatalogInv, TypeOK
<1>16. Replaces(q)
    BY <1>4, <1>8, <1>15 DEF Replaces, CatalogInv, MapsFit
<1>17. Fits(q)
    BY <1>8, <1>14 DEF Fits, Ops
<1>18. QED
    BY <1>9, <1>16, <1>17

\* Whatever a handler reads, the invariant holds of its request.
LEMMA ReadsKeep ==
    ASSUME CatalogInv, NEW r \in Requests,
           \/ EntryRead(r)
           \/ \E m \in maps : UpdateMappingRead(r, m) \/ DeleteMappingRead(r, m)
           \/ \E p \in Plans : PlanRead(r, p)
    PROVE  CatalogInv' /\ \E q : Begin(r, q)
<1> DEFINE Reads == \E q : Begin(r, q) /\ Fits(q) /\ Replaces(q)
<1>1. ASSUME NEW c \in cluster, CreateNetwork(r, c) PROVE Reads
  <2>1. PICK n \in NetNames, t \in NetTypes, d \in BOOLEAN : CreateRead(r, c, n, t, d)
      BY <1>1 DEF CreateNetwork
  <2>2. n \in Names /\ t \in TypesOf(n)
      BY TypesOfNames DEF Names
  <2>3. QED
      BY <2>1, <2>2, CreateReadFits
<1>2. ASSUME NEW c \in cluster, CreateStorageClass(r, c) PROVE Reads
  <2>1. PICK n \in ClassNames, d \in BOOLEAN : CreateRead(r, c, n, "storage", d)
      BY <1>2 DEF CreateStorageClass
  <2>2. n \in Names /\ "storage" \in TypesOf(n)
      BY TypesOfNames DEF Names
  <2>3. QED
      BY <2>1, <2>2, CreateReadFits
<1>3. Reads
    BY <1>1, <1>2, UpdatesFit, ImportReadFits, DeletionsFit, UpdateMappingFits DEF EntryRead
<1>4. QED
    BY <1>3, BeginKeeps

-----------------------------------------------------------------------------
(* What the handlers commit *)

\* A handler that ends keeps the other requests, and so does one that gives
\* rows other contents.
LEMMA ReadyKeeps ==
    ASSUME CatalogInv, NEW r \in Requests, NEW op, Ready(r, op),
           \A m \in maps' : \E o \in maps : o.id = m.id /\ o.vc = m.vc /\ o.cluster = m.cluster
    PROVE  RequestsFit' /\ req'[r] = NoReq /\ events' = events
<1>1. events' = events
    BY DEF Ready
<1>2. DOMAIN req' = Requests /\ \A s \in Requests : req'[s] = IF s = r THEN NoReq ELSE req[s]
    BY DEF Ready, CatalogInv, RequestsFit
<1>3. Fits(NoReq) /\ NoReq.op = "none"
    BY DEF Fits, NoReq, Ops
<1>4. ASSUME NEW s \in Requests PROVE Fits(req'[s]) /\ Replaces(req[s])'
  <2>1. CASE s = r
      BY <1>2, <1>3, <2>1 DEF Replaces
  <2>2. CASE s # r
      BY <1>1, <1>2, <2>2 DEF Replaces, CatalogInv, RequestsFit
  <2>3. QED
      BY <2>1, <2>2
<1>5. RequestsFit'
    BY <1>2, <1>4 DEF RequestsFit
<1>6. QED
    BY <1>1, <1>2, <1>5

\* A commit on the catalog of c.
EntryStep(c, entries) ==
    /\ c \in cluster /\ IsCatalog(entries)
    /\ catalog' = [catalog EXCEPT ![c] = entries]
    /\ DOMAIN spaces' = cluster /\ \A k \in cluster : spaces'[k] \subseteq Namespaces
    /\ UNCHANGED <<cluster, vcenter, maps, place, plans>>

LEMMA EntryStepKeeps ==
    ASSUME CatalogInv, NEW r \in Requests, NEW op, Ready(r, op),
           NEW c, NEW entries, EntryStep(c, entries)
    PROVE  CatalogInv'
<1>1. TypeOK'
    BY DEF EntryStep, CatalogInv, TypeOK
<1>2. PlaceFits' /\ MapsFit'
    BY DEF EntryStep, Ready, CatalogInv, PlaceFits, MapsFit
<1>3. RequestsFit'
    BY ReadyKeeps DEF EntryStep
<1>4. QED
    BY <1>1, <1>2, <1>3 DEF CatalogInv

LEMMA RefuseKeeps ==
    ASSUME CatalogInv, NEW r \in Requests, NEW op, Ready(r, op), Refuse
    PROVE  CatalogInv'
<1>1. TypeOK' /\ PlaceFits' /\ MapsFit'
    BY DEF Refuse, Ready, CatalogInv, TypeOK, PlaceFits, MapsFit
<1>2. RequestsFit'
    BY ReadyKeeps DEF Refuse
<1>3. QED
    BY <1>1, <1>2 DEF CatalogInv

\* One default stays one.
KeepsDefaults(before, after) ==
    \A t : AtMostOne(DefaultsOf(before, t)) => AtMostOne(DefaultsOf(after, t))

LEMMA CreateEffect ==
    ASSUME CatalogInv, NEW r \in Requests, CreateCommit(r)
    PROVE  \/ Refuse
           \/ \E c, entries :
                 /\ EntryStep(c, entries)
                 /\ DOMAIN catalog[c] \subseteq DOMAIN entries
                 /\ req[r].seen = catalog[c] => KeepsDefaults(catalog[c], entries)
<1> SUFFICES ASSUME ~Refuse
             PROVE  \E c, entries :
                       /\ EntryStep(c, entries)
                       /\ DOMAIN catalog[c] \subseteq DOMAIN entries
                       /\ req[r].seen = catalog[c] => KeepsDefaults(catalog[c], entries)
    OBVIOUS
<1>1. PICK q, c : q = req[r] /\ c = q.cluster
    OBVIOUS
<1>2. /\ q.op = "create" /\ c \in cluster
      /\ catalog' = [catalog EXCEPT ![c] = With(Cleared(catalog[c], q.others), q.name, q.entry)]
      /\ UNCHANGED <<cluster, vcenter, spaces, maps, place, plans>>
    BY <1>1 DEF CreateCommit, Ready
<1>3. PICK cleared : cleared = Cleared(catalog[c], q.others)
    OBVIOUS
<1>4. PICK entries : entries = With(cleared, q.name, q.entry)
    OBVIOUS
<1>5. EntryFits(q)
    BY <1>1, <1>2 DEF CatalogInv, RequestsFit, Fits
<1>6. IsCatalog(catalog[c])
    BY <1>2 DEF CatalogInv, TypeOK
<1>7. /\ IsCatalog(cleared) /\ DOMAIN cleared = DOMAIN catalog[c]
      /\ \A t : DefaultsOf(cleared, t) = DefaultsOf(catalog[c], t) \ q.others
    BY <1>3, <1>6, ClearedEntries
<1>8. /\ IsCatalog(entries) /\ DOMAIN entries = DOMAIN cleared \union {q.name}
      /\ \A t : DefaultsOf(entries, t) \subseteq
                   DefaultsOf(cleared, t)
                     \union (IF q.entry.type = t /\ q.entry.default THEN {q.name} ELSE {})
    BY <1>4, <1>5, <1>7, WithEntry DEF EntryFits
<1>9. EntryStep(c, entries)
    BY <1>2, <1>3, <1>4, <1>8 DEF EntryStep, CatalogInv, TypeOK
<1>10. ASSUME q.seen = catalog[c], NEW t, AtMostOne(DefaultsOf(catalog[c], t))
       PROVE  AtMostOne(DefaultsOf(entries, t))
  <2>1. CASE q.entry.type = t /\ q.entry.default
    <3>1. DefaultsOf(entries, t) \subseteq {q.name}
        BY <1>5, <1>7, <1>8, <1>10, <2>1 DEF EntryFits
    <3>2. QED
        BY <3>1 DEF AtMostOne
  <2>2. CASE ~(q.entry.type = t /\ q.entry.default)
    <3>1. DefaultsOf(entries, t) \subseteq DefaultsOf(catalog[c], t)
        BY <1>7, <1>8, <2>2
    <3>2. QED
        BY <1>10, <3>1 DEF AtMostOne
  <2>3. QED
      BY <2>1, <2>2
<1>11. QED
    BY <1>1, <1>7, <1>8, <1>9, <1>10 DEF KeepsDefaults

LEMMA UpdateEffect ==
    ASSUME CatalogInv, NEW r \in Requests, UpdateCommit(r)
    PROVE  \/ Refuse
           \/ \E c, entries :
                 /\ EntryStep(c, entries)
                 /\ req[r].to = req[r].name => DOMAIN catalog[c] \subseteq DOMAIN entries
                 /\ req[r].seen = catalog[c] => KeepsDefaults(catalog[c], entries)
<1> SUFFICES ASSUME ~Refuse
             PROVE  \E c, entries :
                       /\ EntryStep(c, entries)
                       /\ req[r].to = req[r].name => DOMAIN catalog[c] \subseteq DOMAIN entries
                       /\ req[r].seen = catalog[c] => KeepsDefaults(catalog[c], entries)
    OBVIOUS
<1>1. PICK q, c : q = req[r] /\ c = q.cluster
    OBVIOUS
<1>2. PICK old, now : old = q.seen[q.name] /\ now = catalog[c][q.name]
    OBVIOUS
<1>3. PICK row : row = [type    |-> IF q.entry.type # old.type THEN q.entry.type ELSE now.type,
                        default |-> IF q.entry.default # old.default THEN q.entry.default
                                    ELSE now.default]
    OBVIOUS
<1>4. PICK rest : rest = Restrict(catalog[c], DOMAIN catalog[c] \ {q.name})
    OBVIOUS
<1>5. PICK cleared : cleared = Cleared(rest, q.others)
    OBVIOUS
<1>6. PICK entries : entries = With(cleared, q.to, row)
    OBVIOUS
<1>7. /\ q.op = "update" /\ c \in cluster /\ q.name \in DOMAIN catalog[c]
      /\ catalog' = [catalog EXCEPT ![c] = entries]
      /\ UNCHANGED <<cluster, vcenter, spaces, maps, place, plans>>
    BY <1>1, <1>2, <1>3, <1>4, <1>5, <1>6 DEF UpdateCommit, Ready
<1>8. /\ EntryFits(q) /\ q.name \in DOMAIN q.seen
      /\ q.to \in Names /\ TypesOf(q.to) = TypesOf(q.name)
    BY <1>1, <1>7 DEF CatalogInv, RequestsFit, Fits
<1>9. IsCatalog(catalog[c])
    BY <1>7 DEF CatalogInv, TypeOK
<1>10. /\ q.entry \in Entries /\ old \in Entries /\ now \in Entries
       /\ q.entry.type \in TypesOf(q.to) /\ now.type \in TypesOf(q.to)
    BY <1>2, <1>7, <1>8, <1>9 DEF EntryFits, IsCatalog
<1>11. /\ row \in Entries /\ row.type \in TypesOf(q.to)
       /\ old = now => row.type = q.entry.type /\ row.default = q.entry.default
    BY <1>3, <1>10 DEF Entries
<1>12. /\ IsCatalog(rest) /\ DOMAIN rest = DOMAIN catalog[c] \ {q.name}
       /\ \A t : DefaultsOf(rest, t) = DefaultsOf(catalog[c], t) \intersect (DOMAIN catalog[c] \ {q.name})
    BY <1>4, <1>9, RestrictedEntries
<1>13. /\ IsCatalog(cleared) /\ DOMAIN cleared = DOMAIN rest
       /\ \A t : DefaultsOf(cleared, t) = DefaultsOf(rest, t) \ q.others
    BY <1>5, <1>12, ClearedEntries
<1>14. /\ IsCatalog(entries) /\ DOMAIN entries = DOMAIN cleared \union {q.to}
       /\ \A t : DefaultsOf(entries, t) \subseteq
                    DefaultsOf(cleared, t)
                      \union (IF row.type = t /\ row.default THEN {q.to} ELSE {})
    BY <1>6, <1>8, <1>11, <1>13, WithEntry
<1>15. EntryStep(c, entries)
    BY <1>7, <1>14 DEF EntryStep, CatalogInv, TypeOK
<1>16. ASSUME q.seen = catalog[c], NEW t, AtMostOne(DefaultsOf(catalog[c], t))
       PROVE  AtMostOne(DefaultsOf(entries, t))
  <2>1. row.type = q.entry.type /\ row.default = q.entry.default
      BY <1>2, <1>11, <1>16
  <2>2. CASE row.type = t /\ row.default
    <3>1. DefaultsOf(catalog[c], t) \ {q.name} \subseteq q.others
        BY <1>8, <1>16, <2>1, <2>2 DEF EntryFits
    <3>2. DefaultsOf(entries, t) \subseteq {q.to}
        BY <1>12, <1>13, <1>14, <2>2, <3>1
    <3>3. QED
        BY <3>2 DEF AtMostOne
  <2>3. CASE ~(row.type = t /\ row.default)
    <3>1. DefaultsOf(entries, t) \subseteq DefaultsOf(catalog[c], t)
        BY <1>12, <1>13, <1>14, <2>3
    <3>2. QED
        BY <1>16, <3>1 DEF AtMostOne
  <2>4. QED
      BY <2>2, <2>3
<1>17. q.to = q.name => DOMAIN catalog[c] \subseteq DOMAIN entries
    BY <1>12, <1>13, <1>14
<1>18. QED
    BY <1>1, <1>15, <1>16, <1>17 DEF KeepsDefaults

\* The catalog an import leaves, before the flags of others are cleared.
LEMMA ImportedEntries ==
    ASSUME NEW entries, IsCatalog(entries), NEW q, ImportFits(q)
    PROVE  LET after == Imported(entries, q.changed)
               classes == q.changed.classes
           IN  /\ IsCatalog(after) /\ DOMAIN entries \subseteq DOMAIN after
               /\ DefaultsOf(after, "storage") \subseteq
                     DefaultsOf(entries, "storage") \union {classes[i].name : i \in Marked(classes)}
<1> DEFINE changed == q.changed
           classes == changed.classes
           after == Imported(entries, changed)
           was(n) == n \in DOMAIN entries /\ entries[n].default
           chosen(n) == CHOOSE d \in changed.nets : d.name = n
           set(n) == \E d \in Range(classes) : d.name = n /\ d.default
<1>1. /\ \A d \in changed.nets : d.kind \in DOMAIN NetworkType /\ d.name \in NetNames
      /\ \A i \in DOMAIN classes : classes[i].default \in BOOLEAN /\ classes[i].name \in ClassNames
    BY DEF ImportFits
<1>2. \A n \in DOMAIN entries : /\ n \in Names /\ entries[n] \in Entries
                                /\ entries[n].type \in TypesOf(n) /\ entries[n].default \in BOOLEAN
    BY DEF IsCatalog, Entries
<1>3. DOMAIN after = DOMAIN entries \union NamesOf(changed)
    BY DEF Imported
<1>4. ASSUME NEW n \in DOMAIN after, n \notin NamesOf(changed)
      PROVE  after[n] = entries[n]
    BY <1>4 DEF Imported
<1>5. ASSUME NEW n \in NamesOf(changed), \E d \in changed.nets : d.name = n
      PROVE  /\ n \in NetNames /\ after[n] \in Entries
             /\ after[n].type \in NetTypes
  <2>1. chosen(n) \in changed.nets /\ chosen(n).name = n
      BY <1>5
  <2>2. NetworkType[chosen(n).kind] \in NetTypes
      BY <1>1, <2>1 DEF NetworkType, NetTypes
  <2>3. after[n] = [type |-> NetworkType[chosen(n).kind], default |-> was(n)]
      BY <1>5 DEF Imported
  <2> HIDE DEF after, chosen
  <2>4. was(n) \in BOOLEAN
      OBVIOUS
  <2> HIDE DEF was
  <2>5. QED
      BY <1>1, <2>1, <2>2, <2>3, <2>4 DEF Entries, Types
<1>6. ASSUME NEW n \in NamesOf(changed), ~\E d \in changed.nets : d.name = n
      PROVE  /\ n \in ClassNames /\ after[n] \in Entries
             /\ after[n].type = "storage"
             /\ after[n].default <=> was(n) \/ set(n)
  <2>1. n \in ClassNames
      BY <1>1, <1>6 DEF NamesOf, Range
  <2>2. after[n] = [type |-> "storage", default |-> was(n) \/ set(n)]
      BY <1>6 DEF Imported
  <2> HIDE DEF after, was, set
  <2>3. PICK b \in BOOLEAN : b = (was(n) \/ set(n))
      OBVIOUS
  <2>4. after[n] = [type |-> "storage", default |-> b]
      BY <2>2, <2>3
  <2>5. after[n] \in Entries /\ after[n].type = "storage" /\ after[n].default = b
      BY <2>4 DEF Entries, Types
  <2>6. b <=> was(n) \/ set(n)
      BY <2>3
  <2>7. QED
      BY <2>1, <2>5, <2>6
<1> HIDE DEF after, was, set
<1>7. IsCatalog(after)
  <2> SUFFICES ASSUME NEW n \in DOMAIN after
               PROVE  n \in Names /\ after[n] \in Entries /\ after[n].type \in TypesOf(n)
      BY DEF IsCatalog
  <2>1. CASE n \notin NamesOf(changed)
      BY <1>2, <1>3, <1>4, <2>1
  <2>2. CASE n \in NamesOf(changed) /\ \E d \in changed.nets : d.name = n
      BY <1>5, <2>2, TypesOfNames DEF Names
  <2>3. CASE n \in NamesOf(changed) /\ ~\E d \in changed.nets : d.name = n
      BY <1>6, <2>3, TypesOfNames DEF Names
  <2>4. QED
      BY <2>1, <2>2, <2>3
<1>8. ASSUME NEW n \in DefaultsOf(after, "storage")
      PROVE  n \in DefaultsOf(entries, "storage") \/ \E i \in Marked(classes) : n = classes[i].name
  <2>1. n \in DOMAIN after /\ after[n].type = "storage" /\ after[n].default
      BY DEF DefaultsOf
  <2>2. CASE n \notin NamesOf(changed)
      BY <1>3, <1>4, <2>1, <2>2 DEF DefaultsOf
  <2>3. CASE n \in NamesOf(changed) /\ \E d \in changed.nets : d.name = n
      BY <1>5, <2>1, <2>3 DEF NetTypes
  <2>4. CASE n \in NamesOf(changed) /\ ~\E d \in changed.nets : d.name = n
    <3>1. n \in ClassNames /\ (was(n) \/ set(n))
        BY <1>6, <2>1, <2>4
    <3>2. CASE was(n)
        BY <1>2, <3>1, <3>2, TypesOfNames DEF was, DefaultsOf
    <3>3. CASE set(n)
        BY <3>3 DEF set, Range, Marked
    <3>4. QED
        BY <3>1, <3>2, <3>3
  <2>5. QED
      BY <2>2, <2>3, <2>4
<1>9. DefaultsOf(after, "storage") \subseteq
         DefaultsOf(entries, "storage") \union {classes[i].name : i \in Marked(classes)}
    BY <1>8
<1>10. QED
    BY <1>3, <1>7, <1>9 DEF after

LEMMA ImportEffect ==
    ASSUME CatalogInv, NEW r \in Requests, ImportCommit(r)
    PROVE  \/ Refuse
           \/ \E c, entries :
                 /\ EntryStep(c, entries)
                 /\ DOMAIN catalog[c] \subseteq DOMAIN entries
                 /\ req[r].seen = catalog[c] /\ AtMostOne(DefaultsOf(catalog[c], "storage")) =>
                       AtMostOne(DefaultsOf(entries, "storage"))
<1> SUFFICES ASSUME ~Refuse
             PROVE  \E c, entries :
                       /\ EntryStep(c, entries)
                       /\ DOMAIN catalog[c] \subseteq DOMAIN entries
                       /\ req[r].seen = catalog[c] /\ AtMostOne(DefaultsOf(catalog[c], "storage")) =>
                             AtMostOne(DefaultsOf(entries, "storage"))
    OBVIOUS
<1>1. PICK q, c : q = req[r] /\ c = q.cluster
    OBVIOUS
<1>2. PICK after : after = Imported(catalog[c], q.changed)
    BY SMTT(60)
<1>3. PICK entries : entries = Cleared(after, q.others)
    OBVIOUS
<1>4. /\ q.op = "import" /\ c \in cluster
      /\ catalog' = [catalog EXCEPT ![c] = entries]
      /\ spaces' = [spaces EXCEPT ![c] = @ \union q.changed.spaces]
      /\ UNCHANGED <<cluster, vcenter, maps, place, plans>>
    BY <1>1, <1>2, <1>3 DEF ImportCommit, Ready
<1>5. ImportFits(q)
    BY <1>1, <1>4 DEF CatalogInv, RequestsFit, Fits
<1>6. IsCatalog(catalog[c])
    BY <1>4 DEF CatalogInv, TypeOK
<1>7. PICK marked : marked = {q.changed.classes[i].name : i \in Marked(q.changed.classes)}
    OBVIOUS
<1>8. /\ IsCatalog(after) /\ DOMAIN catalog[c] \subseteq DOMAIN after
      /\ DefaultsOf(after, "storage") \subseteq DefaultsOf(catalog[c], "storage") \union marked
    BY <1>2, <1>5, <1>6, <1>7, ImportedEntries
<1>9. /\ IsCatalog(entries) /\ DOMAIN entries = DOMAIN after
      /\ \A t : DefaultsOf(entries, t) = DefaultsOf(after, t) \ q.others
    BY <1>3, <1>8, ClearedEntries
<1>10. EntryStep(c, entries)
  <2>1. q.changed.spaces \subseteq Namespaces
      BY <1>5 DEF ImportFits
  <2>2. QED
      BY <1>4, <1>9, <2>1 DEF EntryStep, CatalogInv, TypeOK
<1>11. ASSUME q.seen = catalog[c], AtMostOne(DefaultsOf(catalog[c], "storage"))
       PROVE  AtMostOne(DefaultsOf(entries, "storage"))
  <2>1. CASE Marked(q.changed.classes) # {}
    <3>1. (DefaultsOf(catalog[c], "storage") \union marked) \ LastMarked(q.changed.classes)
             \subseteq q.others
        BY <1>5, <1>7, <1>11, <2>1 DEF ImportFits
    <3>2. DefaultsOf(entries, "storage") \subseteq LastMarked(q.changed.classes)
        BY <1>8, <1>9, <3>1
    <3>3. \A i, j \in Marked(q.changed.classes) : i <= j /\ j <= i => i = j
        BY <1>5 DEF ImportFits, Marked
    <3>4. AtMostOne(LastMarked(q.changed.classes))
        BY <3>3 DEF AtMostOne, LastMarked
    <3>5. QED
        BY <3>2, <3>4 DEF AtMostOne
  <2>2. CASE Marked(q.changed.classes) = {}
    <3>1. DefaultsOf(entries, "storage") \subseteq DefaultsOf(catalog[c], "storage")
        BY <1>7, <1>8, <1>9, <2>2
    <3>2. QED
        BY <1>11, <3>1 DEF AtMostOne
  <2>3. QED
      BY <2>1, <2>2
<1>12. QED
    BY <1>1, <1>8, <1>9, <1>10, <1>11

LEMMA DeleteEntryEffect ==
    ASSUME CatalogInv, NEW r \in Requests, DeleteEntryCommit(r)
    PROVE  /\ req[r].refs = {}
           /\ \/ Refuse
              \/ \E c, entries :
                    /\ EntryStep(c, entries)
                    /\ \A t : DefaultsOf(entries, t) \subseteq DefaultsOf(catalog[c], t)
<1>1. req[r].op = "delete"
    BY DEF DeleteEntryCommit, Ready
<1>2. req[r].refs = {}
    BY <1>1 DEF CatalogInv, RequestsFit, Fits
<1> SUFFICES ASSUME ~Refuse
             PROVE  \E c, entries :
                       /\ EntryStep(c, entries)
                       /\ \A t : DefaultsOf(entries, t) \subseteq DefaultsOf(catalog[c], t)
    BY <1>2
<1>3. PICK c : c = req[r].cluster
    OBVIOUS
<1>4. PICK entries : entries = Restrict(catalog[c], DOMAIN catalog[c] \ {req[r].name})
    OBVIOUS
<1>5. /\ c \in cluster /\ catalog' = [catalog EXCEPT ![c] = entries]
      /\ UNCHANGED <<cluster, vcenter, spaces, maps, place, plans>>
    BY <1>3, <1>4 DEF DeleteEntryCommit
<1>6. IsCatalog(catalog[c])
    BY <1>5 DEF CatalogInv, TypeOK
<1>7. /\ IsCatalog(entries)
      /\ \A t : DefaultsOf(entries, t) \subseteq DefaultsOf(catalog[c], t)
    BY <1>4, <1>6, RestrictedEntries
<1>8. EntryStep(c, entries)
    BY <1>5, <1>7 DEF EntryStep, CatalogInv, TypeOK
<1>9. QED
    BY <1>7, <1>8

\* Entries come and go only by these; the other commits leave them.
LEMMA EntryCommitsKeep ==
    ASSUME CatalogInv, NEW r \in Requests,
           CreateCommit(r) \/ UpdateCommit(r) \/ ImportCommit(r) \/ DeleteEntryCommit(r)
    PROVE  CatalogInv'
<1>1. \E op : Ready(r, op)
    BY DEF CreateCommit, UpdateCommit, ImportCommit, DeleteEntryCommit
<1>2. Refuse \/ \E c, entries : EntryStep(c, entries)
    BY CreateEffect, UpdateEffect, ImportEffect, DeleteEntryEffect
<1>3. QED
    BY <1>1, <1>2, EntryStepKeeps, RefuseKeeps, SMTT(60)

LEMMA DeleteNamespaceKeeps ==
    ASSUME CatalogInv, NEW r \in Requests, DeleteNamespaceCommit(r)
    PROVE  CatalogInv'
<1>1. Ready(r, "deleteNamespace")
    BY DEF DeleteNamespaceCommit
<1>2. CASE Refuse
    BY <1>1, <1>2, RefuseKeeps
<1>3. CASE ~Refuse
  <2>1. /\ UNCHANGED <<cluster, vcenter, catalog, maps, place, plans>>
        /\ \E c \in cluster : spaces' = [spaces EXCEPT ![c] = @ \ {req[r].name}]
      BY <1>3 DEF DeleteNamespaceCommit
  <2>2. TypeOK'
      BY <2>1 DEF CatalogInv, TypeOK
  <2>3. PlaceFits' /\ MapsFit'
      BY <1>1, <2>1 DEF Ready, CatalogInv, PlaceFits, MapsFit
  <2>4. RequestsFit'
      BY <1>1, <2>1, ReadyKeeps
  <2>5. QED
      BY <2>2, <2>3, <2>4 DEF CatalogInv
<1>4. QED
    BY <1>2, <1>3

\* A save writes its columns, of its own values or of those it found.
LEMMA UpdatedRow ==
    ASSUME NEW now \in Mapping, NEW q, MappingFits(q), NEW row, row = Updated(now, q.old, q.new)
    PROVE  /\ row \in Mapping /\ row.id = now.id /\ row.vc = now.vc /\ row.cluster = now.cluster
           /\ Targets(row) \subseteq Targets(now) \union NewNets(q) \union NewClasses(q)
           /\ now = q.old => /\ MappedNets(row) = MappedNets(q.new)
                             /\ MappedStores(row) = MappedStores(q.new)
                             /\ row.status = q.new.status
<1>1. q.old \in Mapping /\ q.new \in Mapping
    BY DEF MappingFits
<1>2. /\ row.id = now.id /\ row.vc = now.vc /\ row.cluster = now.cluster
      /\ row.nets = Column(now.nets, q.old.nets, q.new.nets)
      /\ row.stores = Column(now.stores, q.old.stores, q.new.stores)
      /\ row.status = Column(now.status, q.old.status, q.new.status)
    BY DEF Updated, Mapping
<1>3. row \in Mapping
    BY <1>1 DEF Updated, Column, Mapping
<1>4. \A n \in Targets(row) : n \in Targets(now) \union NewNets(q) \union NewClasses(q)
    BY <1>2 DEF Targets, NewNets, NewClasses, Column
<1>5. ASSUME now = q.old
      PROVE  row.nets = q.new.nets /\ row.stores = q.new.stores /\ row.status = q.new.status
    BY <1>2, <1>5 DEF Column
<1>6. QED
    BY <1>2, <1>3, <1>4, <1>5 DEF MappedNets, MappedStores

\* A save replaces a row by one of its id, of the same vCenter and cluster.
LEMMA UpdateMappingEffect ==
    ASSUME CatalogInv, NEW r \in Requests, UpdateMappingCommit(r)
    PROVE  /\ MappingFits(req[r]) /\ UNCHANGED <<cluster, vcenter, catalog, spaces, place, plans>>
           /\ \/ maps' = maps
              \/ \E m \in maps, new \in Mapping :
                    /\ maps' = (maps \ {m}) \union {new}
                    /\ m.id = req[r].old.id
                    /\ new.id = m.id /\ new.vc = m.vc /\ new.cluster = m.cluster
                    /\ Targets(new) \subseteq
                          Targets(m) \union NewNets(req[r]) \union NewClasses(req[r])
                    /\ m = req[r].old => /\ MappedNets(new) = MappedNets(req[r].new)
                                         /\ MappedStores(new) = MappedStores(req[r].new)
                                         /\ new.status = req[r].new.status
<1>1. req[r].op = "updateMapping"
    BY DEF UpdateMappingCommit, Ready
<1>2. MappingFits(req[r])
    BY <1>1 DEF CatalogInv, RequestsFit, Fits
<1>3. CASE Refuse
    BY <1>2, <1>3 DEF Refuse
<1>4. CASE ~Refuse
  <2>1. PICK m \in maps :
          /\ m.id = req[r].old.id
          /\ maps' = (maps \ {m}) \union {Updated(m, req[r].old, req[r].new)}
          /\ UNCHANGED <<cluster, vcenter, catalog, spaces, place, plans>>
      BY <1>4 DEF UpdateMappingCommit
  <2>2. PICK new : new = Updated(m, req[r].old, req[r].new)
      OBVIOUS
  <2>3. m \in Mapping
      BY DEF CatalogInv, MapsFit
  <2>4. QED
      BY <1>2, <2>1, <2>2, <2>3, UpdatedRow
<1>5. QED
    BY <1>3, <1>4

LEMMA MappingCommitsKeep ==
    ASSUME CatalogInv, NEW r \in Requests, UpdateMappingCommit(r) \/ DeleteMappingCommit(r)
    PROVE  CatalogInv'
<1> DEFINE op == IF UpdateMappingCommit(r) THEN "updateMapping" ELSE "deleteMapping"
<1>1. Ready(r, op) /\ UNCHANGED <<cluster, vcenter, catalog, spaces, place, plans>>
    BY UpdateMappingEffect DEF UpdateMappingCommit, DeleteMappingCommit
<1> HIDE DEF op
<1>2. \/ maps' \subseteq maps
      \/ \E m \in maps, new \in Mapping :
            /\ maps' = (maps \ {m}) \union {new}
            /\ new.id = m.id /\ new.vc = m.vc /\ new.cluster = m.cluster
    BY UpdateMappingEffect DEF DeleteMappingCommit
<1>3. \A m \in maps' : \E o \in maps : o.id = m.id /\ o.vc = m.vc /\ o.cluster = m.cluster
    BY <1>2
<1>4. maps' \subseteq Mapping
    BY <1>2 DEF CatalogInv, MapsFit
<1>5. RequestsFit' /\ events' = events
    BY <1>1, <1>3, ReadyKeeps
<1>6. MapsFit'
    BY <1>3, <1>4, <1>5 DEF CatalogInv, MapsFit
<1>7. PlaceFits'
    BY <1>1 DEF CatalogInv, PlaceFits
<1>8. \A m, o \in maps' : m # o => m.id # o.id /\ <<m.vc, m.cluster>> # <<o.vc, o.cluster>>
    BY <1>2 DEF CatalogInv, TypeOK
<1>9. TypeOK'
    BY <1>1, <1>3, <1>4, <1>8 DEF CatalogInv, TypeOK, Mapping
<1>10. QED
    BY <1>5, <1>6, <1>7, <1>9 DEF CatalogInv

LEMMA PlanCommitKeeps ==
    ASSUME CatalogInv, NEW r \in Requests, PlanCommit(r)
    PROVE  CatalogInv'
<1>1. Ready(r, "plan") /\ UNCHANGED <<cluster, vcenter, catalog, spaces, maps, place>>
    BY DEF PlanCommit
<1>2. TypeOK' /\ PlaceFits' /\ MapsFit'
    BY <1>1 DEF Ready, CatalogInv, TypeOK, PlaceFits, MapsFit
<1>3. RequestsFit'
    BY <1>1, ReadyKeeps
<1>4. QED
    BY <1>2, <1>3 DEF CatalogInv

-----------------------------------------------------------------------------
(* Handlers of one step *)

\* The requests in flight keep their rows when rows only go, or a new one comes.
LEMMA AtOnceKeeps ==
    ASSUME CatalogInv, AtOnce,
           \A m \in maps' : m \in maps \/ (m \in Mapping /\ m.id = events)
    PROVE  RequestsFit' /\ MapsFit'
<1>1. events' = events + 1 /\ events \in Nat /\ req' = req
    BY DEF AtOnce, CatalogInv, MapsFit
<1>2. maps' \subseteq Mapping /\ \A m \in maps' : m.id \in Nat /\ (m \in maps => m.id < events)
    BY DEF CatalogInv, MapsFit, Mapping
<1>3. MapsFit'
    BY <1>1, <1>2 DEF MapsFit
<1>4. ASSUME NEW r \in Requests PROVE Fits(req'[r]) /\ Replaces(req[r])'
  <2>1. Fits(req[r]) /\ Replaces(req[r])
      BY DEF CatalogInv, RequestsFit
  <2>2. req[r].op = "updateMapping" => req[r].new.id \in Nat
      BY <2>1 DEF Fits, MappingFits, Mapping
  <2>3. QED
      BY <1>1, <2>1, <2>2 DEF Replaces
<1>5. RequestsFit'
    BY <1>1, <1>4 DEF CatalogInv, RequestsFit
<1>6. QED
    BY <1>3, <1>5

LEMMA NamespacesKeep ==
    ASSUME CatalogInv, NEW c \in cluster,
           \/ \E n \in Namespaces : CreateNamespace(c, n)
           \/ \E n \in spaces[c] : RenameNamespace(c, n)
    PROVE  CatalogInv'
<1>1. AtOnce /\ UNCHANGED <<cluster, vcenter, catalog, maps, place, plans>>
    BY DEF CreateNamespace, RenameNamespace
<1>2. TypeOK'
    BY <1>1 DEF CreateNamespace, RenameNamespace, CatalogInv, TypeOK
<1>3. RequestsFit' /\ MapsFit'
    BY <1>1, AtOnceKeeps
<1>4. QED
    BY <1>1, <1>2, <1>3 DEF CatalogInv, PlaceFits

\* A new mapping, with the status of its rows.
LEMMA CreateMappingEffect ==
    ASSUME CatalogInv, NEW vc \in vcenter, NEW c \in cluster, CreateMapping(vc, c)
    PROVE  /\ AtOnce /\ UNCHANGED <<cluster, vcenter, catalog, spaces, place, plans>>
           /\ \E m \in Mapping :
                 /\ maps' = maps \union {m}
                 /\ m.id = events /\ m.vc = vc /\ m.cluster = c
                 /\ m.status = "complete" =>
                       \A v \in Scope(m) : /\ Needs(v).nets \subseteq MappedNets(m)
                                           /\ Needs(v).stores \subseteq MappedStores(m)
<1>1. PICK nets \in NetRows, stores \in StoreRows, strategy \in Strategies :
        LET m == [id |-> events, vc |-> vc, cluster |-> c, nets |-> nets, stores |-> stores,
                  strategy |-> strategy, status |-> "incomplete"]
        IN  maps' = maps \union {[m EXCEPT !.status = Computed(m)]}
    BY DEF CreateMapping
<1> DEFINE old == [id |-> events, vc |-> vc, cluster |-> c, nets |-> nets, stores |-> stores,
                   strategy |-> strategy, status |-> "incomplete"]
<1>2. PICK m : m = [old EXCEPT !.status = Computed(old)]
    OBVIOUS
<1>3. old \in Mapping
    BY DEF Mapping, Statuses, CatalogInv, TypeOK, MapsFit
<1>4. /\ m \in Mapping /\ m.id = events /\ m.vc = vc /\ m.cluster = c
      /\ m.nets = old.nets /\ m.stores = old.stores /\ m.vc = old.vc
      /\ m.status = Computed(old)
    BY <1>2, <1>3, ComputedStatus DEF Mapping
<1>5. maps' = maps \union {m}
    BY <1>1, <1>2
<1> HIDE DEF old
<1>6. /\ Scope(m) = Scope(old) /\ MappedNets(m) = MappedNets(old)
      /\ MappedStores(m) = MappedStores(old)
    BY <1>4 DEF Scope, MappedNets, MappedStores
<1>7. m.status = "complete" =>
         \A v \in Scope(m) : /\ Needs(v).nets \subseteq MappedNets(m)
                             /\ Needs(v).stores \subseteq MappedStores(m)
    BY <1>4, <1>6, ComputedCovers
<1>8. QED
    BY <1>4, <1>5, <1>7 DEF CreateMapping

LEMMA CreateMappingKeeps ==
    ASSUME CatalogInv, NEW vc \in vcenter, NEW c \in cluster, CreateMapping(vc, c)
    PROVE  CatalogInv'
<1>1. AtOnce /\ UNCHANGED <<cluster, vcenter, catalog, spaces, place, plans>>
    BY CreateMappingEffect
<1>2. PICK m \in Mapping : /\ maps' = maps \union {m}
                           /\ m.id = events /\ m.vc = vc /\ m.cluster = c
    BY CreateMappingEffect
<1>3. RequestsFit' /\ MapsFit'
    BY <1>1, <1>2, AtOnceKeeps
<1>4. \A o \in maps : o.id < events /\ o.id \in Nat /\ ~(o.vc = vc /\ o.cluster = c)
    BY DEF CreateMapping, CatalogInv, MapsFit, Mapping
<1>5. \A o \in maps : o.id # m.id /\ <<o.vc, o.cluster>> # <<m.vc, m.cluster>>
    BY <1>2, <1>4
<1>6. TypeOK'
    BY <1>1, <1>2, <1>5 DEF CatalogInv, TypeOK, Mapping
<1>7. QED
    BY <1>1, <1>3, <1>6 DEF CatalogInv, PlaceFits

\* The fields of a VM change one at a time.
LEMMA PlaceVCenter ==
    ASSUME NEW p \in Places, NEW x \in VCenters \union {None}
    PROVE  LET new == [p EXCEPT !.vc = x]
           IN  new \in Places /\ new.vc = x /\ new.cluster = p.cluster
BY DEF Places

LEMMA PlaceCluster ==
    ASSUME NEW p \in Places, NEW c \in Clusters \union {None}
    PROVE  LET new == [p EXCEPT !.cluster = c]
           IN  new \in Places /\ new.vc = p.vc /\ new.cluster = c
BY DEF Places

LEMMA PlaceNamespace ==
    ASSUME NEW p \in Places, NEW n \in Namespaces \union {""}
    PROVE  LET new == [p EXCEPT !.ns = n]
           IN  new \in Places /\ new.vc = p.vc /\ new.cluster = p.cluster
BY DEF Places

LEMMA DeleteTargetKeeps ==
    ASSUME CatalogInv, NEW c \in cluster, DeleteTarget(c)
    PROVE  CatalogInv'
<1>1. RequestsFit' /\ MapsFit'
    BY AtOnceKeeps DEF DeleteTarget
<1>2. ASSUME NEW v \in VMs
      PROVE  /\ place'[v] \in Places
             /\ place'[v].vc = place[v].vc
             /\ place'[v].cluster = OverrideAfter(place[v].cluster, c)
  <2>1. PICK o : o = OverrideAfter(place[v].cluster, c)
      OBVIOUS
  <2>2. place'[v] = [place[v] EXCEPT !.cluster = o]
      BY <2>1 DEF DeleteTarget
  <2>3. o \in Clusters \union {None}
      BY <2>1 DEF OverrideAfter, CatalogInv, TypeOK
  <2>4. place[v] \in Places
      BY DEF CatalogInv, PlaceFits
  <2>5. QED
      BY <2>1, <2>2, <2>3, <2>4, PlaceCluster
<1>3. PlaceFits'
  <2>1. place' = [v \in VMs |-> place'[v]]
      BY DEF DeleteTarget
  <2>2. QED
      BY <1>2, <2>1 DEF PlaceFits
<1>4. \A v \in VMs : place'[v].vc \in vcenter' \union {None} /\ place'[v].cluster \in cluster' \union {None}
    BY <1>2 DEF DeleteTarget, OverrideAfter, CatalogInv, TypeOK
<1>5. TypeOK'
    BY <1>4 DEF DeleteTarget, CatalogInv, TypeOK, Restrict
<1>6. QED
    BY <1>1, <1>3, <1>5 DEF CatalogInv

LEMMA DeleteVCenterKeeps ==
    ASSUME CatalogInv, NEW vc \in vcenter, DeleteVCenter(vc)
    PROVE  CatalogInv'
<1>1. RequestsFit' /\ MapsFit'
    BY AtOnceKeeps DEF DeleteVCenter
<1>2. ASSUME NEW v \in VMs
      PROVE  /\ place'[v] \in Places
             /\ place'[v].vc = IF place[v].vc = vc THEN None ELSE place[v].vc
             /\ place'[v].cluster = place[v].cluster
  <2>1. PICK x : x = IF place[v].vc = vc THEN None ELSE place[v].vc
      OBVIOUS
  <2>2. place'[v] = [place[v] EXCEPT !.vc = x]
      BY <2>1 DEF DeleteVCenter
  <2>3. x \in VCenters \union {None}
      BY <2>1 DEF CatalogInv, TypeOK
  <2>4. place[v] \in Places
      BY DEF CatalogInv, PlaceFits
  <2>5. QED
      BY <2>1, <2>2, <2>3, <2>4, PlaceVCenter
<1>3. PlaceFits'
  <2>1. place' = [v \in VMs |-> place'[v]]
      BY DEF DeleteVCenter
  <2>2. QED
      BY <1>2, <2>1 DEF PlaceFits
<1>4. \A v \in VMs : place'[v].vc \in vcenter' \union {None} /\ place'[v].cluster \in cluster' \union {None}
    BY <1>2 DEF DeleteVCenter, CatalogInv, TypeOK
<1>5. TypeOK'
    BY <1>4 DEF DeleteVCenter, CatalogInv, TypeOK
<1>6. QED
    BY <1>1, <1>3, <1>5 DEF CatalogInv

LEMMA OverridesKeep ==
    ASSUME CatalogInv, NEW v \in VMs, SetCluster(v) \/ SetNamespace(v)
    PROVE  CatalogInv'
<1>1. AtOnce /\ UNCHANGED <<cluster, vcenter, catalog, spaces, maps, plans>>
    BY DEF SetCluster, SetNamespace
<1>2. RequestsFit' /\ MapsFit'
    BY <1>1, AtOnceKeeps
<1>3. PICK p : /\ place' = [place EXCEPT ![v] = p]
               /\ p \in Places
               /\ p.vc = place[v].vc /\ p.cluster \in {place[v].cluster, None} \union cluster
  <2>1. CASE SetCluster(v)
    <3>1. PICK c \in cluster \union {None} : place' = [place EXCEPT ![v].cluster = c]
        BY <2>1 DEF SetCluster
    <3>2. PICK p : p = [place[v] EXCEPT !.cluster = c]
        OBVIOUS
    <3>3. place' = [place EXCEPT ![v] = p]
        BY <3>1, <3>2
    <3>4. c \in Clusters \union {None} /\ place[v] \in Places
        BY DEF CatalogInv, TypeOK, PlaceFits
    <3>5. p \in Places /\ p.vc = place[v].vc /\ p.cluster = c
        BY <3>2, <3>4, PlaceCluster
    <3>6. QED
        BY <3>1, <3>3, <3>5
  <2>2. CASE SetNamespace(v)
    <3>1. PICK n \in Namespaces \union {""} : place' = [place EXCEPT ![v].ns = n]
        BY <2>2 DEF SetNamespace
    <3>2. PICK p : p = [place[v] EXCEPT !.ns = n]
        OBVIOUS
    <3>3. place' = [place EXCEPT ![v] = p]
        BY <3>1, <3>2
    <3>4. place[v] \in Places
        BY DEF CatalogInv, PlaceFits
    <3>5. p \in Places /\ p.vc = place[v].vc /\ p.cluster = place[v].cluster
        BY <3>2, <3>4, PlaceNamespace
    <3>6. QED
        BY <3>1, <3>3, <3>5
  <2>3. QED
      BY <2>1, <2>2
<1>4. PlaceFits'
    BY <1>3 DEF CatalogInv, PlaceFits
<1>5. TypeOK'
    BY <1>1, <1>3 DEF CatalogInv, TypeOK, PlaceFits
<1>6. QED
    BY <1>2, <1>4, <1>5 DEF CatalogInv

LEMMA DeletePlanKeeps ==
    ASSUME CatalogInv, NEW p \in DOMAIN plans, DeletePlan(p)
    PROVE  CatalogInv'
<1>1. AtOnce /\ UNCHANGED <<cluster, vcenter, catalog, spaces, maps, place>>
    BY DEF DeletePlan
<1>2. RequestsFit' /\ MapsFit'
    BY <1>1, AtOnceKeeps
<1>3. QED
    BY <1>1, <1>2 DEF CatalogInv, TypeOK, PlaceFits

LEMMA NextCatalogInv == CatalogInv /\ [Next]_vars => CatalogInv'
<1> SUFFICES ASSUME CatalogInv, [Next]_vars PROVE CatalogInv'
    OBVIOUS
<1>1. ASSUME NEW r \in Requests, Commit(r) PROVE CatalogInv'
    BY <1>1, EntryCommitsKeep, DeleteNamespaceKeeps, MappingCommitsKeep, PlanCommitKeeps
       DEF Commit
<1>2. CASE Single
    BY <1>2, NamespacesKeep, CreateMappingKeeps, DeleteTargetKeeps, DeleteVCenterKeeps,
       OverridesKeep, DeletePlanKeeps DEF Single
<1>3. CASE UNCHANGED vars
    BY <1>3 DEF vars, CatalogInv, TypeOK, PlaceFits, MapsFit, RequestsFit, Replaces
<1>4. QED
    BY <1>1, <1>2, <1>3, ReadsKeep DEF Next

\* Whatever handlers overlap, what each is about to write fits what it read.
THEOREM CatalogInvariant == Spec => []CatalogInv
BY InitCatalogInv, NextCatalogInv, PTL DEF Spec

\* The type invariant that the run checks: rows keep their cluster and vCenter,
\* there is one mapping for a pair, and no VM is pinned to a cluster that is gone.
THEOREM TypeCorrect == Spec => []TypeOK
<1>1. CatalogInv => TypeOK
    BY DEF CatalogInv
<1>2. QED
    BY CatalogInvariant, <1>1, PTL

-----------------------------------------------------------------------------
(* Action properties *)

EntryCommit(r) == CreateCommit(r) \/ UpdateCommit(r) \/ ImportCommit(r) \/ DeleteEntryCommit(r)

\* A catalog changes only by these commits, and goes only with its cluster.
LEMMA OthersKeepEntries ==
    ASSUME CatalogInv, [Next]_vars, NEW c \in cluster \intersect cluster',
           ~\E r \in Requests : EntryCommit(r)
    PROVE  catalog'[c] = catalog[c]
<1>1. ASSUME NEW r \in Requests, NEW q, Begin(r, q) PROVE catalog' = catalog
    BY <1>1 DEF Begin
<1>2. ASSUME NEW r \in Requests,
             \/ DeleteNamespaceCommit(r) \/ UpdateMappingCommit(r)
             \/ DeleteMappingCommit(r) \/ PlanCommit(r)
      PROVE  catalog' = catalog
    BY <1>2 DEF DeleteNamespaceCommit, UpdateMappingCommit, DeleteMappingCommit, PlanCommit, Refuse
<1>3. ASSUME NEW d, DeleteTarget(d) PROVE catalog'[c] = catalog[c]
    BY <1>3 DEF DeleteTarget, Restrict
<1>4. CASE Single
    BY <1>3, <1>4 DEF Single, CreateNamespace, RenameNamespace, CreateMapping, DeleteVCenter,
                      SetCluster, SetNamespace, DeletePlan
<1>5. CASE UNCHANGED vars
    BY <1>5 DEF vars
<1>6. QED
    BY ReadsKeep, <1>1, <1>2, <1>4, <1>5 DEF Next, Commit, EntryCommit

\* A commit on one cluster leaves the others, and does what it does to its own.
LEMMA EntryStepChanges ==
    ASSUME CatalogInv, NEW c, NEW entries, EntryStep(c, entries), NEW d \in cluster
    PROVE  catalog'[d] = IF d = c THEN entries ELSE catalog[d]
BY DEF EntryStep, CatalogInv, TypeOK

LEMMA ReadyEnds ==
    ASSUME CatalogInv, NEW r \in Requests, NEW op, Ready(r, op)
    PROVE  Ended(r, op)
BY DEF Ready, Ended, CatalogInv, RequestsFit

(***************************************************************************)
(* _enforce_single_network_default and _enforce_single_storage_default     *)
(* keep one default of a type: a second one takes a handler that had not   *)
(* seen the catalog it changes, or the import of a default network under   *)
(* another type.                                                           *)
(***************************************************************************)
THEOREM OneDefault == Spec => DefaultsStayUnique
<1> DEFINE Excused(c, t) ==
        \E r \in Requests :
           \/ Ended(r, "import") /\ t # "storage"
           \/ /\ \E op \in {"create", "update", "import"} : Ended(r, op)
              /\ req[r].seen # catalog[c]
           Step == \A c \in cluster \intersect cluster', t \in Types :
                      AtMostOne(Defaults(c, t)) /\ ~AtMostOne(Defaults(c, t)') => Excused(c, t)
<1>1. CatalogInv /\ [Next]_vars => Step
  <2> SUFFICES ASSUME CatalogInv, [Next]_vars,
                      NEW c \in cluster \intersect cluster', NEW t \in Types,
                      AtMostOne(Defaults(c, t)), ~AtMostOne(Defaults(c, t)')
               PROVE  Excused(c, t)
      OBVIOUS
  <2>1. /\ AtMostOne(DefaultsOf(catalog[c], t))
        /\ ~AtMostOne(DefaultsOf(catalog'[c], t))
      BY DEF Defaults, DefaultsOf, AtMostOne
  <2>2. catalog'[c] # catalog[c]
      BY <2>1
  <2>3. PICK r \in Requests : EntryCommit(r)
      BY <2>2, OthersKeepEntries
  <2>4. ~Refuse
      BY <2>2 DEF Refuse
  <2>5. \A k, entries : EntryStep(k, entries) =>
           k = c /\ ~AtMostOne(DefaultsOf(entries, t)) /\ AtMostOne(DefaultsOf(catalog[k], t))
      BY <2>1, <2>2, EntryStepChanges
  <2>6. CASE CreateCommit(r)
    <3>1. Ended(r, "create")
        BY <2>6, ReadyEnds DEF CreateCommit
    <3>2. req[r].seen # catalog[c]
        BY <2>4, <2>5, <2>6, CreateEffect DEF KeepsDefaults
    <3>3. QED
        BY <3>1, <3>2
  <2>7. CASE UpdateCommit(r)
    <3>1. Ended(r, "update")
        BY <2>7, ReadyEnds DEF UpdateCommit
    <3>2. req[r].seen # catalog[c]
        BY <2>4, <2>5, <2>7, UpdateEffect DEF KeepsDefaults
    <3>3. QED
        BY <3>1, <3>2
  <2>8. CASE ImportCommit(r)
    <3>1. Ended(r, "import")
        BY <2>8, ReadyEnds DEF ImportCommit
    <3>2. t = "storage" => req[r].seen # catalog[c]
        BY <2>4, <2>5, <2>8, ImportEffect
    <3>3. QED
        BY <3>1, <3>2
  <2>9. CASE DeleteEntryCommit(r)
    <3>1. PICK k, entries : /\ EntryStep(k, entries)
                            /\ DefaultsOf(entries, t) \subseteq DefaultsOf(catalog[k], t)
        BY <2>4, <2>9, DeleteEntryEffect
    <3>2. QED
        BY <2>5, <3>1 DEF AtMostOne
  <2>10. QED
      BY <2>3, <2>6, <2>7, <2>8, <2>9 DEF EntryCommit
<1>2. QED
    BY CatalogInvariant, <1>1, PTL DEF Spec, DefaultsStayUnique

AddsMapping ==
    \/ \E r \in Requests : UpdateMappingCommit(r)
    \/ \E vc \in vcenter, c \in cluster : CreateMapping(vc, c)

\* Rows and mappings of plans are written by these steps only.
LEMMA OthersKeepReferences ==
    ASSUME CatalogInv, [Next]_vars
    PROVE  /\ AddsMapping \/ maps' \subseteq maps
           /\ (\E r \in Requests : EntryCommit(r) \/ UpdateMappingCommit(r)) => UNCHANGED plans
           /\ \/ cluster' # cluster \/ vcenter' # vcenter
              \/ \E r \in Requests : PlanCommit(r) \/ DeleteMappingCommit(r)
              \/ AddsMapping /\ UNCHANGED plans
              \/ maps' = maps /\ \A p \in DOMAIN plans' : p \in DOMAIN plans /\ plans'[p] = plans[p]
<1> DEFINE Same == maps' = maps /\ \A p \in DOMAIN plans' : p \in DOMAIN plans /\ plans'[p] = plans[p]
<1>1. ASSUME NEW r \in Requests, NEW q, Begin(r, q) PROVE Same
    BY <1>1 DEF Begin
<1>2. ASSUME NEW r \in Requests, EntryCommit(r) PROVE UNCHANGED <<maps, plans>>
    BY <1>2, CreateEffect, UpdateEffect, ImportEffect, DeleteEntryEffect
       DEF EntryCommit, EntryStep, Refuse
<1>3. ASSUME NEW r \in Requests, DeleteNamespaceCommit(r) PROVE UNCHANGED <<maps, plans>>
    BY <1>3 DEF DeleteNamespaceCommit, Refuse
<1>4. ASSUME NEW r \in Requests, UpdateMappingCommit(r) PROVE UNCHANGED plans
    BY <1>4, UpdateMappingEffect
<1>5. ASSUME NEW r \in Requests, DeleteMappingCommit(r) \/ PlanCommit(r) PROVE maps' \subseteq maps
    BY <1>5 DEF DeleteMappingCommit, PlanCommit
<1>6. ASSUME NEW c \in cluster, DeleteTarget(c) PROVE maps' \subseteq maps /\ cluster' # cluster
    BY <1>6 DEF DeleteTarget
<1>7. ASSUME NEW vc \in vcenter, DeleteVCenter(vc) PROVE maps' \subseteq maps /\ vcenter' # vcenter
    BY <1>7 DEF DeleteVCenter
<1>8. ASSUME NEW vc \in vcenter, NEW c \in cluster, CreateMapping(vc, c) PROVE UNCHANGED plans
    BY <1>8 DEF CreateMapping
<1>9. ASSUME NEW p, DeletePlan(p) PROVE Same
    BY <1>9 DEF DeletePlan, Restrict
<1>10. ASSUME NEW c \in cluster,
              \/ \E n \in Namespaces : CreateNamespace(c, n)
              \/ \E n \in spaces[c] : RenameNamespace(c, n)
              \/ \E v \in VMs : SetCluster(v) \/ SetNamespace(v)
       PROVE  UNCHANGED <<maps, plans>>
    BY <1>10 DEF CreateNamespace, RenameNamespace, SetCluster, SetNamespace
<1>11. ASSUME NEW v \in VMs, SetCluster(v) \/ SetNamespace(v) PROVE UNCHANGED <<maps, plans>>
    BY <1>11 DEF SetCluster, SetNamespace
<1>12. CASE UNCHANGED vars
    BY <1>12 DEF vars
<1>13. (\E r \in Requests : EntryCommit(r) \/ UpdateMappingCommit(r)) => UNCHANGED plans
    BY <1>2, <1>4
<1>14. CASE \E r \in Requests : Commit(r)
    BY <1>2, <1>3, <1>4, <1>5, <1>13, <1>14 DEF Commit, EntryCommit, AddsMapping
<1>15. CASE Single
    BY <1>6, <1>7, <1>8, <1>9, <1>10, <1>11, <1>13, <1>15 DEF Single, AddsMapping
<1>16. QED
    BY ReadsKeep, <1>1, <1>12, <1>13, <1>14, <1>15 DEF Next

\* The next id is that of no mapping.
LEMMA NewIds == CatalogInv => events \notin MappingIds
<1> SUFFICES ASSUME CatalogInv, NEW m \in maps PROVE m.id # events
    BY DEF MappingIds
<1>1. m.id \in Nat /\ m.id < events
    BY DEF CatalogInv, MapsFit, Mapping
<1>2. QED
    BY <1>1

LEMMA RowsKeep ==
    ASSUME CatalogInv, [Next]_vars
    PROVE  RowsKeepTargets
<1> SUFFICES ASSUME NEW x \in Dangling' \ Dangling
             PROVE  \/ x[1] \notin MappingIds
                    \/ \E r \in Requests :
                          \/ Ended(r, "update") /\ req[r].to # req[r].name
                          \/ Ended(r, "delete") /\ x[1] \notin req[r].refs
                          \/ /\ Ended(r, "updateMapping")
                             /\ x[2] \in req[r].names
                                  \/ \E names \in {NetNames, ClassNames} :
                                        x[2] \in names /\ req[r].names \intersect names = {}
    BY DEF RowsKeepTargets
<1>1. PICK m \in maps' : x \in {<<m.id, n>> : n \in Targets(m) \ ({""} \union DOMAIN catalog'[m.cluster])}
    BY DEF Dangling
<1>2. PICK n \in Targets(m) \ {""} : x = <<m.id, n>> /\ n \notin DOMAIN catalog'[m.cluster]
    BY <1>1
<1>3. m \in maps => n \in DOMAIN catalog[m.cluster]
  <2> SUFFICES ASSUME m \in maps, n \notin DOMAIN catalog[m.cluster] PROVE x \in Dangling
      OBVIOUS
  <2> DEFINE RowsOfOne(o) ==
          {<<o.id, k>> : k \in Targets(o) \ ({""} \union DOMAIN catalog[o.cluster])}
  <2>1. x \in RowsOfOne(m)
      BY <1>2
  <2>2. Dangling = UNION {RowsOfOne(o) : o \in maps}
      BY DEF Dangling
  <2> HIDE DEF RowsOfOne
  <2>3. QED
      BY <2>1, <2>2
<1>4. m \in maps => m.cluster \in cluster /\ m.id \in MappingIds
    BY DEF CatalogInv, TypeOK, MappingIds
<1>5. ASSUME NEW r \in Requests, EntryCommit(r), m \in maps
      PROVE  \/ Ended(r, "update") /\ req[r].to # req[r].name
             \/ Ended(r, "delete") /\ x[1] \notin req[r].refs
  <2>1. ~Refuse
      BY <1>2, <1>3, <1>5 DEF Refuse
  <2>2. \A k, entries : EntryStep(k, entries) => ~(DOMAIN catalog[k] \subseteq DOMAIN entries)
      BY <1>2, <1>3, <1>4, <1>5, EntryStepChanges, ZenonT(60)
  <2>3. ~CreateCommit(r) /\ ~ImportCommit(r)
      BY <2>1, <2>2, CreateEffect, ImportEffect
  <2>4. CASE UpdateCommit(r)
      BY <2>1, <2>2, <2>4, UpdateEffect, ReadyEnds DEF UpdateCommit
  <2>5. CASE DeleteEntryCommit(r)
      BY <2>5, DeleteEntryEffect, ReadyEnds DEF DeleteEntryCommit
  <2>6. QED
      BY <1>5, <2>3, <2>4, <2>5 DEF EntryCommit
<1>6. ASSUME NEW r \in Requests, UpdateMappingCommit(r)
      PROVE  /\ Ended(r, "updateMapping")
             /\ x[2] \in req[r].names
                  \/ \E names \in {NetNames, ClassNames} :
                        x[2] \in names /\ req[r].names \intersect names = {}
  <2>1. catalog' = catalog /\ MappingFits(req[r])
      BY <1>6, UpdateMappingEffect
  <2>2. n \in (NewNets(req[r]) \union NewClasses(req[r])) \ {""}
    <3>1. m \notin maps
        BY <1>2, <1>3, <2>1
    <3>2. PICK o \in maps :
            /\ m.id = o.id /\ m.cluster = o.cluster
            /\ Targets(m) \subseteq Targets(o) \union NewNets(req[r]) \union NewClasses(req[r])
        BY <1>6, <3>1, UpdateMappingEffect, ZenonT(60)
    <3>3. n \notin Targets(o)
      <4> SUFFICES ASSUME n \in Targets(o) PROVE x \in Dangling
          OBVIOUS
      <4> DEFINE RowsOfOne(w) ==
              {<<w.id, k>> : k \in Targets(w) \ ({""} \union DOMAIN catalog[w.cluster])}
      <4>1. x \in RowsOfOne(o)
          BY <1>2, <2>1, <3>2
      <4>2. Dangling = UNION {RowsOfOne(w) : w \in maps}
          BY DEF Dangling
      <4> HIDE DEF RowsOfOne
      <4>3. QED
          BY <4>1, <4>2
    <3>4. QED
        BY <1>2, <3>2, <3>3
  <2>3. Ended(r, "updateMapping")
      BY <1>6, ReadyEnds DEF UpdateMappingCommit
  <2>4. QED
      BY <1>2, <2>1, <2>2, <2>3 DEF MappingFits
<1>7. ASSUME NEW vc \in vcenter, NEW c \in cluster, CreateMapping(vc, c)
      PROVE  x[1] \notin MappingIds
  <2>1. PICK new \in Mapping : maps' = maps \union {new} /\ new.id = events
      BY <1>7, CreateMappingEffect
  <2>2. catalog' = catalog
      BY <1>7 DEF CreateMapping
  <2>3. m.id = events
      BY <1>2, <1>3, <2>1, <2>2
  <2>4. QED
      BY <1>2, <2>3, NewIds
<1>8. CASE ~AddsMapping
  <2>1. m \in maps
      BY <1>8, OthersKeepReferences
  <2>2. m.cluster \in cluster'
      BY NextCatalogInv DEF CatalogInv, TypeOK
  <2>3. catalog'[m.cluster] # catalog[m.cluster]
      BY <1>2, <1>3, <2>1
  <2>4. QED
      BY <1>4, <1>5, <2>1, <2>2, <2>3, OthersKeepEntries
<1>9. QED
    BY <1>6, <1>7, <1>8 DEF AddsMapping

LEMMA PlansKeep ==
    ASSUME CatalogInv, [Next]_vars
    PROVE  PlansKeepMappings
<1> SUFFICES ASSUME NEW x \in PlanDangling' \ PlanDangling,
                    cluster' = cluster, vcenter' = vcenter
             PROVE  \E r \in Requests : \/ Ended(r, "plan")
                                        \/ Ended(r, "deleteMapping") /\ x[1] \notin req[r].users
    BY DEF PlansKeepMappings
<1>1. PICK p \in DOMAIN plans' : x \in {<<p, id>> : id \in plans'[p] \ MappingIds'}
    BY DEF PlanDangling
<1>2. PICK id \in plans'[p] \ MappingIds' : x = <<p, id>>
    BY <1>1
<1>3. p \in DOMAIN plans /\ plans'[p] = plans[p] => id \in MappingIds
  <2> SUFFICES ASSUME p \in DOMAIN plans, plans'[p] = plans[p], id \notin MappingIds
               PROVE  x \in PlanDangling
      OBVIOUS
  <2>1. x \in {<<p, k>> : k \in plans[p] \ MappingIds}
      BY <1>2
  <2>2. QED
      BY <2>1 DEF PlanDangling
<1>4. ASSUME NEW r \in Requests, PlanCommit(r) PROVE Ended(r, "plan")
    BY <1>4, ReadyEnds DEF PlanCommit
<1>5. ASSUME NEW r \in Requests, DeleteMappingCommit(r)
      PROVE  Ended(r, "deleteMapping") /\ x[1] \notin req[r].users
  <2>1. req[r].op = "deleteMapping"
      BY <1>5 DEF DeleteMappingCommit, Ready
  <2>2. req[r].users = {}
      BY <2>1 DEF CatalogInv, RequestsFit, Fits
  <2>3. QED
      BY <1>5, <2>2, ReadyEnds DEF DeleteMappingCommit
<1>6. ASSUME AddsMapping, UNCHANGED plans PROVE FALSE
  <2>1. id \in MappingIds
      BY <1>2, <1>3, <1>6
  <2>2. PICK m \in maps : m.id = id
      BY <2>1 DEF MappingIds
  <2>3. \A o \in maps' : o.id # id
      BY <1>2 DEF MappingIds
  <2>4. \A o \in maps : o.id = id => o \notin maps'
      BY <2>3
  <2>5. QED
      BY <1>6, <2>2, <2>3, UpdateMappingEffect, CreateMappingEffect DEF AddsMapping
<1>7. ASSUME maps' = maps, \A k \in DOMAIN plans' : k \in DOMAIN plans /\ plans'[k] = plans[k]
      PROVE  FALSE
    BY <1>2, <1>3, <1>7 DEF MappingIds
<1>8. QED
    BY <1>4, <1>5, <1>6, <1>7, OthersKeepReferences

(***************************************************************************)
(* A mapping saved as complete (_compute_mapping_status) passes Stage 0    *)
(* for the VMs of its vCenter, unless VMs moved, or the row was saved by   *)
(* another request, while it was saved.                                    *)
(***************************************************************************)
THEOREM CompleteCovers == Spec => CompleteMappingsCover
<1> DEFINE Step ==
        \A m \in maps' \ maps :
           m.status = "complete"
             /\ (\A r \in Requests : Ended(r, "updateMapping") =>
                   req[r].scope = Scope(m) /\ req[r].old \in maps) =>
           \A v \in Scope(m) : Needs(v).stores # {} =>
              Covers(MappedNets(m), MappedStores(m), Needs(v))
<1>1. CatalogInv /\ [Next]_vars => Step
  <2> SUFFICES ASSUME CatalogInv, [Next]_vars,
                      NEW m \in maps' \ maps, m.status = "complete",
                      \A r \in Requests : Ended(r, "updateMapping") =>
                         req[r].scope = Scope(m) /\ req[r].old \in maps,
                      NEW v \in Scope(m)
               PROVE  Needs(v).nets \subseteq MappedNets(m) /\ Needs(v).stores \subseteq MappedStores(m)
      BY DEF Covers
  <2>1. ASSUME NEW r \in Requests, UpdateMappingCommit(r)
        PROVE  Needs(v).nets \subseteq MappedNets(m) /\ Needs(v).stores \subseteq MappedStores(m)
    <3>1. req[r].scope = Scope(m) /\ req[r].old \in maps
        BY <2>1, ReadyEnds DEF UpdateMappingCommit
    <3>2. \A o \in maps : o.id = req[r].old.id => o = req[r].old
        BY <3>1 DEF CatalogInv, TypeOK
    <3>3. /\ MappingFits(req[r])
          /\ MappedNets(m) = MappedNets(req[r].new) /\ MappedStores(m) = MappedStores(req[r].new)
          /\ m.status = req[r].new.status
        BY <2>1, <3>2, UpdateMappingEffect
    <3>4. QED
        BY <3>1, <3>3 DEF MappingFits
  <2>2. ASSUME NEW vc \in vcenter, NEW c \in cluster, CreateMapping(vc, c)
        PROVE  Needs(v).nets \subseteq MappedNets(m) /\ Needs(v).stores \subseteq MappedStores(m)
      BY <2>2, CreateMappingEffect
  <2>3. QED
      BY <2>1, <2>2, OthersKeepReferences DEF AddsMapping
<1>2. QED
    BY CatalogInvariant, <1>1, PTL DEF Spec, CompleteMappingsCover

(***************************************************************************)
(* References to catalog entries and mappings are kept without foreign     *)
(* keys: a row loses its target and a plan its mapping only in the ways    *)
(* that ReferencesAreKept names, never by an import or by a deletion that  *)
(* could have seen the reference.                                          *)
(***************************************************************************)
THEOREM ReferencesKept == Spec => ReferencesAreKept
<1>1. CatalogInv /\ [Next]_vars => RowsKeepTargets
    BY RowsKeep
<1>2. CatalogInv /\ [Next]_vars => PlansKeepMappings
    BY PlansKeep
<1>3. QED
    BY CatalogInvariant, <1>1, <1>2, PTL DEF Spec, ReferencesAreKept

=============================================================================
