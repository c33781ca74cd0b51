----------------------------- MODULE WaveSkeleton -----------------------------
(***************************************************************************)
(* Stages 3 to 5 of the planning pipeline: groups that hold too much of a  *)
(* name family are split (core/family.py), groups are packed into waves    *)
(* (core/wave_skeleton.py), and waves that may not run at the same time    *)
(* get different concurrency groups (core/concurrency.py).                 *)
(***************************************************************************)
EXTENDS Preclassifier

CONSTANTS
    MaxVMsPerWave,  \* MAX_VMS_PER_WAVE
    MaxPeers        \* MAX_HA_PEERS_PER_WAVE

ASSUME LimitsAssumption == MaxVMsPerWave \in Nat \ {0} /\ MaxPeers \in Nat \ {0}

-----------------------------------------------------------------------------
(* Stage 3 *)

\* detect_family: a number that no separator sets off is part of the family's name.
Family(v) ==
    <<vm[v].stem, vm[v].ha, IF vm[v].dash THEN 0 ELSE vm[v].num>>

FamilyIn(v, vms) == {w \in vms : Family(w) = Family(v)}

\* family_cap: half of the family, rounded up.
FamilyCap(size) == (size + 1) \div 2

CapOf(v) == FamilyCap(Cardinality(FamilyIn(v, DOMAIN vm)))

\* Sub-groups fill in the order of ids, each up to the cap.
Part(v, vms) == Cardinality({w \in FamilyIn(v, vms) : w < v}) \div CapOf(v)

Restricted(g, vms) ==
    [g EXCEPT !.vms = vms, !.members = [v \in DOMAIN g.members \intersect vms |-> g.members[v]]]

\* The hints still name the groups as they were before.
SplitFamilies(groups) ==
    LET parts(g) == {Part(v, g.vms) : v \in g.vms}
        part(g, p) == [Restricted(g, {v \in g.vms : Part(v, g.vms) = p})
                          EXCEPT !.key.cut.family = p + 1]
    IN  UNION {IF parts(g) = {0} THEN {g} ELSE {part(g, p) : p \in parts(g)} : g \in groups}

-----------------------------------------------------------------------------
(* Stage 4 *)

SplitOversized_Floor(groups) ==
    LET batch(v, g) == Cardinality({w \in g.vms : w < v}) \div MaxVMsPerWave
        part(g, b)  == [Restricted(g, {v \in g.vms : batch(v, g) = b}) EXCEPT !.key.cut.batch = b + 1]
    IN  UNION {IF Cardinality(g.vms) <= MaxVMsPerWave THEN {g}
               ELSE {part(g, b) : b \in 0..((Cardinality(g.vms) \div MaxVMsPerWave) - 1)} : g \in groups}
SplitOversized(groups) ==
    LET batch(v, g) == Cardinality({w \in g.vms : w < v}) \div MaxVMsPerWave
        part(g, b)  == [Restricted(g, {v \in g.vms : batch(v, g) = b}) EXCEPT !.key.cut.batch = b + 1]
    IN  UNION {IF Cardinality(g.vms) <= MaxVMsPerWave THEN {g}
               ELSE {part(g, b) : b \in {batch(v, g) : v \in g.vms}} : g \in groups}

RolePriority == [infrastructure |-> 0, data |-> 1, app |-> 2, web |-> 3, edge |-> 4, other |-> 5]
RiskPriority == [low |-> 0, medium |-> 1, high |-> 2]

\* The text of an id has no meaning: the least VM stands for its place among ids.
Before(g, h) ==
    LET pg == RolePriority[g.key.role]  ph == RolePriority[h.key.role]
        rg == RiskPriority[g.risk]      rh == RiskPriority[h.risk]
    IN  pg < ph \/ (pg = ph /\ (rg < rh \/ (rg = rh /\ Least(g.vms) < Least(h.vms))))

\* _topological_sort indexes the groups by id: of two with the same id the later
\* stays, by the order classify returned them in.  The order of dependencies it
\* works out is lost to the sort by role and risk that follows.
Later(g, h) ==
    \/ g.key.primary.ns # "" /\ h.key.primary.ns = ""
    \/ (g.key.primary.ns = "") = (h.key.primary.ns = "") /\ Least(g.vms) > Least(h.vms)

Packable(groups) == {g \in groups : \A h \in groups \ {g} : Id(h) = Id(g) => Later(g, h)}

Peers(g) == {v \in DOMAIN g.members : g.members[v] # "standalone"}

HasPrimary(g) == \E v \in DOMAIN g.members : g.members[v] = "primary"

\* _ha_family_key: by the name of the first member.
HAFamily(g) ==
    IF Peers(g) = {} THEN <<>>
    ELSE <<g.key.role, g.app, Prefix(Least(Peers(g)))>>

\* A primary takes the whole allowance of its family in its wave.
PeersIn_NoLockout(g, there) ==
    Cardinality(UNION {Peers(h) : h \in {h \in there : HAFamily(h) = HAFamily(g)}})
PeersIn(g, there) ==
    LET family == {h \in there : HAFamily(h) = HAFamily(g)}
    IN  IF \E h \in family : HasPrimary(h) THEN MaxPeers
        ELSE Cardinality(UNION {Peers(h) : h \in family})

PeerCap(g) == IF HasPrimary(g) THEN 1 ELSE MaxPeers

TooLarge(g) == Cardinality(Peers(g)) > PeerCap(g)

\* Families of one group are not spread, and neither is a group too large to be.
FitsFamily(g, there, all) ==
    \/ Peers(g) = {}
    \/ ~\E h \in all \ {g} : HAFamily(h) = HAFamily(g)
    \/ TooLarge(g)
    \/ PeersIn(g, there) + Cardinality(Peers(g)) <= PeerCap(g)

VMsOf(groups) == UNION {g.vms : g \in groups}

Fits(g, there, all) ==
    /\ \A h \in there : Partition(h) = Partition(g)
    /\ Cardinality(VMsOf(there)) + Cardinality(g.vms) <= MaxVMsPerWave
    /\ FitsFamily(g, there, all)

\* Groups are placed by Before, each in the first wave after those its hints name
\* that it fits.  wave: the wave of each group placed so far.
In(placed, wave, w) == {h \in placed : wave[h] = w}

MinWave(g, placed, wave) ==
    Max({1} \union {wave[h] + 1 : h \in {h \in placed : Id(h) \in g.hints}})

TopWave(placed, wave) == Max({0} \union {wave[h] : h \in placed})

Packing(all) ==
    LET wave[g \in all] ==
            LET placed == {h \in all : Before(h, g)}
                free   == {w \in MinWave(g, placed, wave)..(TopWave(placed, wave) + 1) :
                              Fits(g, In(placed, wave, w), all)}
            IN  Least(free)
    IN  wave

\* Waves are numbered 1..N in the order of the packer's own numbers.
AssignWaves(groups) ==
    LET all  == Packable(SplitOversized(groups))
        wave == Packing(all)
        used == {wave[g] : g \in all}
        number(w) == Cardinality({u \in used : u <= w})
    IN  [i \in 1..Cardinality(used) |-> {g \in all : number(wave[g]) = i}]

-----------------------------------------------------------------------------
(* Stage 5.  waves: the set of groups of each wave number. *)

SourcesOf(groups)  == {g.key.primary.vc : g \in groups} \ {NoSource}
FamiliesOf(groups) == {Family(v) : v \in VMsOf(groups)}

Conflict(a, b) ==
    \/ SourcesOf(a) \intersect SourcesOf(b) # {}
    \/ FamiliesOf(a) \intersect FamiliesOf(b) # {}

\* Greedy, in the order of the wave numbers.
ConcurrencyGroups(waves) ==
    LET colour[n \in DOMAIN waves] ==
            Least(0..n \ {colour[m] : m \in {m \in DOMAIN waves : m < n /\ Conflict(waves[m], waves[n])}})
    IN  colour
=============================================================================
