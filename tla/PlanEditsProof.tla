--------------------------- MODULE PlanEditsProof ---------------------------
(***************************************************************************)
(* Theorems about PlanEdits, for any plans, any VMs and mappings, any      *)
(* number of waves, any edits of plans that overlap, and any changes of    *)
(* VMs and mappings between an edit's evaluation and its commit.           *)
(***************************************************************************)
EXTENDS PlanEdits, FiniteSetTheorems, WellFoundedInduction, TLAPS

-----------------------------------------------------------------------------
(* Least and greatest numbers *)

Less == {xy \in Nat \X Nat : xy[1] < xy[2]}

\* A non-empty set of naturals has a least element, and Least is it.
LEMMA HasLowest ==
    ASSUME NEW S \in SUBSET Nat, S # {}
    PROVE  Least(S) \in S /\ \A y \in S : Least(S) <= y
<1>1. IsWellFoundedOn(Less, Nat)
    BY NatLessThanWellFounded, Zenon DEF OpToRel, Less
<1>2. PICK x \in S : \A y \in S : ~(<<y, x>> \in Less)
    BY <1>1, WFMin, Zenon
<1>3. \A y \in S : x <= y
  <2> SUFFICES ASSUME NEW y \in S, y < x PROVE FALSE
    OBVIOUS
  <2>1. <<y, x>> \in Nat \X Nat /\ <<y, x>>[1] < <<y, x>>[2]
    OBVIOUS
  <2>2. QED
    BY <2>1, <1>2 DEF Less
<1>4. QED
    BY <1>3 DEF Least, Min

\* The greatest of a bounded, non-empty set of naturals is one of them.
LEMMA HasHighest ==
    ASSUME NEW m \in Nat, NEW S \in SUBSET (0..m), S # {}
    PROVE  Max(S) \in S
<1> DEFINE T == {n \in Nat : m - n \in S}
<1>1. T \in SUBSET Nat /\ T # {}
  <2>1. PICK x \in S : x \in 0..m
    OBVIOUS
  <2>2. m - x \in Nat /\ m - (m - x) = x
    BY <2>1
  <2>3. QED
    BY <2>1, <2>2
<1>2. Least(T) \in T /\ \A y \in T : Least(T) <= y
  <2> HIDE DEF T
  <2>1. QED
    BY <1>1, HasLowest
<1>3. PICK t \in T : \A y \in T : t <= y
    BY <1>2
<1>4. \A y \in S : m - t >= y
  <2> SUFFICES ASSUME NEW y \in S PROVE m - t >= y
    OBVIOUS
  <2>1. y \in 0..m
    OBVIOUS
  <2>2. m - y \in T
    BY <2>1
  <2>3. QED
    BY <2>1, <2>2, <1>1, <1>3
<1>5. m - t \in S
    OBVIOUS
<1>6. QED
    BY <1>4, <1>5 DEF Max

-----------------------------------------------------------------------------
(* Concurrency groups *)

\* The colours that wave n may not have.
Used(waves, c, n) == {c[m] : m \in {m \in DOMAIN waves : m < n /\ Conflict(waves[m], waves[n])}}

Greedy(waves, c, j) ==
    c = [n \in DOMAIN waves |-> IF n <= j THEN Least(0..n \ Used(waves, c, n)) ELSE 0]

\* The colours of the waves up to j decide that of the next one.
LEMMA OneMoreColour ==
    ASSUME NEW waves, NEW m \in Nat, DOMAIN waves \subseteq 1..m,
           NEW j \in 1..m, NEW g, Greedy(waves, g, j - 1)
    PROVE  \E h : Greedy(waves, h, j)
<1> DEFINE h == [n \in DOMAIN waves |-> IF n = j THEN Least(0..j \ Used(waves, g, j)) ELSE g[n]]
<1>1. \A n \in DOMAIN waves : n <= j => Used(waves, h, n) = Used(waves, g, n)
  <2> SUFFICES ASSUME NEW n \in DOMAIN waves, n <= j PROVE Used(waves, h, n) = Used(waves, g, n)
    OBVIOUS
  <2>1. n \in Int /\ j \in Int
    OBVIOUS
  <2>2. \A k \in DOMAIN waves : k < n => h[k] = g[k]
    BY <2>1
  <2>3. QED
    BY <2>2 DEF Used
<1>2. \A n \in DOMAIN waves : g[n] = IF n <= j - 1 THEN Least(0..n \ Used(waves, g, n)) ELSE 0
    BY DEF Greedy
<1>3. \A n \in DOMAIN waves : h[n] = IF n <= j THEN Least(0..n \ Used(waves, h, n)) ELSE 0
  <2> SUFFICES ASSUME NEW n \in DOMAIN waves
               PROVE h[n] = IF n <= j THEN Least(0..n \ Used(waves, h, n)) ELSE 0
    OBVIOUS
  <2>1. n \in Int /\ j \in Int
    OBVIOUS
  <2>2. CASE n = j
    <3>1. n <= j
      BY <2>1, <2>2
    <3>2. Used(waves, h, n) = Used(waves, g, n)
      BY <3>1, <1>1
    <3>3. h[n] = Least(0..n \ Used(waves, g, n))
      BY <2>2
    <3> HIDE DEF h
    <3>4. QED
      BY <3>1, <3>2, <3>3
  <2>3. CASE n < j
    <3>1. n <= j - 1 /\ n <= j /\ n # j
      BY <2>1, <2>3
    <3>2. QED
      BY <3>1, <1>1, <1>2
  <2>4. CASE n > j
    <3>1. ~(n <= j - 1) /\ ~(n <= j) /\ n # j
      BY <2>1, <2>4
    <3>2. QED
      BY <3>1, <1>2
  <2>5. QED
    BY <2>1, <2>2, <2>3, <2>4
<1>4. h = [n \in DOMAIN waves |-> IF n <= j THEN Least(0..n \ Used(waves, h, n)) ELSE 0]
  <2>1. h = [n \in DOMAIN waves |-> h[n]]
    OBVIOUS
  <2> HIDE DEF h
  <2>2. QED
    BY <2>1, <1>3
<1>5. QED
    BY <1>4, Zenon DEF Greedy

\* Each wave has the least colour that no wave before it, in conflict with it, has.
LEMMA GreedyColours ==
    ASSUME NEW waves, NEW m \in Nat, DOMAIN waves \subseteq 1..m
    PROVE  \A n \in DOMAIN waves :
              ConcurrencyGroups(waves)[n] = Least(0..n \ Used(waves, ConcurrencyGroups(waves), n))
<1> DEFINE T == {j \in 0..m : ~\E c : Greedy(waves, c, j)}
<1>1. 0 \notin T
  <2>1. \A n \in DOMAIN waves : ~(n <= 0)
    OBVIOUS
  <2>2. Greedy(waves, [n \in DOMAIN waves |-> 0], 0)
    BY <2>1 DEF Greedy
  <2>3. QED
    BY <2>2
<1>2. T = {}
  <2> SUFFICES ASSUME T # {} PROVE FALSE
    OBVIOUS
  <2>1. T \in SUBSET Nat
    OBVIOUS
  <2>2. Least(T) \in T /\ \A y \in T : Least(T) <= y
    <3> HIDE DEF T
    <3>1. QED
      BY <2>1, HasLowest
  <2>3. PICK j \in T : \A y \in T : j <= y
    BY <2>2
  <2>4. j \in 1..m /\ j - 1 \in 0..m /\ ~(j <= j - 1)
    BY <1>1
  <2>5. j - 1 \notin T
    BY <2>3, <2>4
  <2>6. PICK g : Greedy(waves, g, j - 1)
    BY <2>4, <2>5
  <2>7. \E h : Greedy(waves, h, j)
    BY <2>4, <2>6, OneMoreColour
  <2>8. QED
    BY <2>7
<1>3. PICK c : Greedy(waves, c, m)
    BY <1>2
<1>4. \A n \in DOMAIN waves : n <= m
    OBVIOUS
<1>5. c = [n \in DOMAIN waves |->
              Least(0..n \ {c[k] : k \in {k \in DOMAIN waves : k < n /\ Conflict(waves[k], waves[n])}})]
    BY <1>3, <1>4 DEF Greedy, Used
<1>6. ConcurrencyGroups(waves) = [n \in DOMAIN waves |->
              Least(0..n \ {ConcurrencyGroups(waves)[k] :
                  k \in {k \in DOMAIN waves : k < n /\ Conflict(waves[k], waves[n])}})]
    BY <1>5, Zenon DEF ConcurrencyGroups
<1>7. QED
    BY <1>6 DEF Used

\* Colours are numbers, and waves of one colour do not conflict.
LEMMA ColoursAreProper ==
    ASSUME NEW waves, NEW m \in Nat, DOMAIN waves \subseteq 1..m
    PROVE  \A n \in DOMAIN waves :
              /\ ConcurrencyGroups(waves)[n] \in Nat
              /\ \A k \in DOMAIN waves :
                    k # n /\ Conflict(waves[k], waves[n]) =>
                       ConcurrencyGroups(waves)[k] # ConcurrencyGroups(waves)[n]
<1>1. PICK c : c = ConcurrencyGroups(waves)
    OBVIOUS
<1>2. \A n \in DOMAIN waves : c[n] = Least(0..n \ Used(waves, c, n))
    BY <1>1, GreedyColours
<1> DEFINE T == {n \in DOMAIN waves : c[n] \notin 0..n}
<1>3. \A n \in DOMAIN waves : (\A k \in DOMAIN waves : k < n => c[k] \in 0..k)
                                => c[n] \in 0..n \ Used(waves, c, n)
  <2> SUFFICES ASSUME NEW n \in DOMAIN waves, \A k \in DOMAIN waves : k < n => c[k] \in 0..k
               PROVE  c[n] \in 0..n \ Used(waves, c, n)
    OBVIOUS
  <2>1. n \in Nat /\ n \in 0..n
    OBVIOUS
  <2>2. \A k \in DOMAIN waves : k < n => c[k] # n
    BY <2>1
  <2>3. n \notin Used(waves, c, n)
    BY <2>2 DEF Used
  <2>4. (0..n \ Used(waves, c, n)) \in SUBSET Nat /\ (0..n \ Used(waves, c, n)) # {}
    BY <2>1, <2>3
  <2>5. QED
    BY <2>4, HasLowest, <1>2, ZenonT(60)
<1>4. T = {}
  <2> SUFFICES ASSUME T # {} PROVE FALSE
    OBVIOUS
  <2>1. T \in SUBSET Nat
    OBVIOUS
  <2>2. Least(T) \in T /\ \A y \in T : Least(T) <= y
    <3> HIDE DEF T
    <3>1. QED
      BY <2>1, HasLowest
  <2>3. PICK j \in T : \A y \in T : j <= y
    BY <2>2
  <2>4. \A k \in DOMAIN waves : k < j => c[k] \in 0..k
    BY <2>3
  <2>5. QED
    BY <2>4, <1>3
<1>5. \A n \in DOMAIN waves : c[n] \in 0..n /\ c[n] \notin Used(waves, c, n)
    BY <1>3, <1>4
<1>6. ASSUME NEW n \in DOMAIN waves, NEW k \in DOMAIN waves, k < n, Conflict(waves[k], waves[n])
      PROVE  c[k] # c[n]
    BY <1>5, <1>6 DEF Used
<1>7. \A a, b : Conflict(a, b) => Conflict(b, a)
    BY DEF Conflict
<1>8. ASSUME NEW n \in DOMAIN waves, NEW k \in DOMAIN waves, k # n, Conflict(waves[k], waves[n])
      PROVE  c[k] # c[n]
  <2>1. k < n \/ n < k
    BY <1>8
  <2>2. QED
    BY <2>1, <1>6, <1>7, <1>8
<1>9. QED
    BY <1>1, <1>5, <1>8

-----------------------------------------------------------------------------
(* The wave rules *)

Inventory ==
    /\ rows \subseteq DOMAIN vm
    /\ DOMAIN vm \subseteq Nat /\ IsFiniteSet(DOMAIN vm)
    /\ \A v \in DOMAIN vm : NameFields \subseteq DOMAIN vm[v] /\ NameOf(vm[v]) \in Families

LayoutsOf(vms) == [Numbers -> SUBSET vms]

\* The step renames no VM.
NamesKept ==
    /\ DOMAIN vm' = DOMAIN vm
    /\ \A v \in DOMAIN vm : \A f \in NameFields : vm'[v][f] = vm[v][f]

\* Any part of the inventory is finite, and no larger than it.
LEMMA PartsAreFinite ==
    ASSUME Inventory, NEW S \in SUBSET DOMAIN vm
    PROVE  /\ Cardinality(S) \in Nat
           /\ Cardinality(S) \in 0..Cardinality(DOMAIN vm)
<1>1. IsFiniteSet(S) /\ Cardinality(S) <= Cardinality(DOMAIN vm)
    BY FS_Subset DEF Inventory
<1>2. Cardinality(S) \in Nat /\ Cardinality(DOMAIN vm) \in Nat
    BY <1>1, FS_CardinalityType DEF Inventory
<1>3. QED
    BY <1>1, <1>2

\* Half of a family, rounded up, is no more than the family.
LEMMA CapIsSmaller ==
    ASSUME NEW size \in Nat, NEW total \in Nat, size <= total, size >= 2
    PROVE  FamilyCap(size) \in 0..total
BY DEF FamilyCap

\* What the rules find names a wave that has VMs, and is a violation.
LEMMA RulesFindViolations ==
    ASSUME Inventory, NEW layout \in LayoutsOf(DOMAIN vm), NEW x \in CheckWaves(layout)
    PROVE  x \in Violations /\ layout[x.wave] # {}
<1> DEFINE total == Cardinality(DOMAIN vm)
<1>1. Members(layout) \in SUBSET DOMAIN vm
    BY DEF Members, LayoutsOf
<1>2. \A n \in Numbers : layout[n] \in SUBSET DOMAIN vm
    BY DEF LayoutsOf
<1>3. total \in Nat
    BY PartsAreFinite
<1>4. CASE x \in WaveSizeViolations(layout)
  <2>1. PICK n \in Numbers : /\ Cardinality(layout[n]) > MaxVMsPerWave
                             /\ x = Violation("wave_size", n, <<>>, Cardinality(layout[n]), MaxVMsPerWave)
    BY <1>4 DEF WaveSizeViolations
  <2>2. Cardinality(layout[n]) \in 0..total /\ Cardinality(layout[n]) \in Nat
    BY <1>2, PartsAreFinite
  <2>3. MaxVMsPerWave \in 0..total
    BY <2>1, <2>2, <1>3, LimitsAssumption
  <2>4. layout[n] # {}
    <3>1. Cardinality({}) = 0 /\ ~(0 > MaxVMsPerWave)
      BY FS_EmptySet, LimitsAssumption
    <3>2. QED
      BY <2>1, <3>1
  <2>5. x.wave = n
    BY <2>1 DEF Violation
  <2>6. x \in Violations
    BY <2>1, <2>2, <2>3 DEF Violation, Violations, Families
  <2>7. QED
    BY <2>4, <2>5, <2>6
<1>5. CASE x \in HAFamilyViolations(layout)
  <2>0. PICK n \in Numbers : \E v \in layout[n] :
           /\ Cardinality(FamilyIn(v, Members(layout))) >= 2
           /\ x = Violation("ha_family_cap", n, Family(v), Cardinality(FamilyIn(v, layout[n])),
                            FamilyCap(Cardinality(FamilyIn(v, Members(layout)))))
    BY <1>5 DEF HAFamilyViolations
  <2>1. PICK v \in layout[n] :
           /\ Cardinality(FamilyIn(v, Members(layout))) >= 2
           /\ x = Violation("ha_family_cap", n, Family(v), Cardinality(FamilyIn(v, layout[n])),
                            FamilyCap(Cardinality(FamilyIn(v, Members(layout)))))
    BY <2>0
  <2>2. v \in DOMAIN vm
    BY <1>2
  <2>3. FamilyIn(v, layout[n]) \in SUBSET DOMAIN vm /\ FamilyIn(v, Members(layout)) \in SUBSET DOMAIN vm
    BY <1>1, <1>2 DEF FamilyIn
  <2>4. Cardinality(FamilyIn(v, layout[n])) \in 0..total
    BY <2>3, PartsAreFinite
  <2>5. /\ Cardinality(FamilyIn(v, Members(layout))) \in Nat
        /\ Cardinality(FamilyIn(v, Members(layout))) \in 0..total
    BY <2>3, PartsAreFinite
  <2>6. FamilyCap(Cardinality(FamilyIn(v, Members(layout)))) \in 0..total
    BY <2>1, <2>5, <1>3, CapIsSmaller
  <2>7. x.wave = n
    BY <2>1 DEF Violation
  <2>71. Family(v) \in Families
    BY <2>2 DEF Inventory, Family, NameOf
  <2>8. x \in Violations
    BY <2>1, <2>71, <2>4, <2>6 DEF Violation, Violations
  <2>9. QED
    BY <2>1, <2>7, <2>8
<1>6. QED
    BY <1>4, <1>5 DEF CheckWaves

\* The family of a VM is that of its name.
LEMMA FamiliesKept ==
    ASSUME Inventory, NamesKept, NEW v \in DOMAIN vm
    PROVE  Family(v)' = Family(v)
<1>1. \A f \in NameFields : vm'[v][f] = vm[v][f]
    BY DEF NamesKept
<1>2. vm'[v].stem = vm[v].stem /\ vm'[v].ha = vm[v].ha /\ vm'[v].num = vm[v].num
      /\ vm'[v].dash = vm[v].dash
    BY <1>1 DEF NameFields
<1>3. QED
    BY <1>2 DEF Family

\* And so is who is of its family.
LEMMA FamilyKept ==
    ASSUME Inventory, NamesKept, NEW CONSTANT v \in DOMAIN vm, NEW CONSTANT S \in SUBSET DOMAIN vm
    PROVE  {w \in S : Family(w)' = Family(v)'} = FamilyIn(v, S)
BY FamiliesKept DEF FamilyIn

\* What a violation can be does not change.
LEMMA ViolationsKept ==
    ASSUME DOMAIN vm' = DOMAIN vm
    PROVE  Violations' = Violations
BY DEF Violations

\* After a step that renames no VM the rules find what they found.
LEMMA RulesFollowLayout ==
    ASSUME Inventory, NamesKept, NEW CONSTANT L, L \in LayoutsOf(DOMAIN vm)
    PROVE  CheckWaves(L)' = CheckWaves(L)
<1>1. Members(L) \in SUBSET DOMAIN vm
    BY DEF Members, LayoutsOf
<1>2. \A n \in Numbers : L[n] \in SUBSET DOMAIN vm
    BY DEF LayoutsOf
<1>3. \A n \in Numbers : \A v \in L[n] :
         /\ Family(v)' = Family(v)
         /\ {w \in L[n] : Family(w)' = Family(v)'} = FamilyIn(v, L[n])
         /\ {w \in Members(L) : Family(w)' = Family(v)'} = FamilyIn(v, Members(L))
    BY <1>1, <1>2, FamiliesKept, FamilyKept
<1>4. WaveSizeViolations(L)' = WaveSizeViolations(L)
    BY DEF WaveSizeViolations, Violation
<1>5. Members(L)' = Members(L)
    BY DEF Members
<1>6. ASSUME NEW CONSTANT n \in Numbers, NEW CONSTANT v \in L[n]
      PROVE  /\ FamilyIn(v, L[n])' = FamilyIn(v, L[n])
             /\ FamilyIn(v, Members(L))' = FamilyIn(v, Members(L))
  <2>1. FamilyIn(v, L[n])' = {w \in L[n] : Family(w)' = Family(v)'}
    BY DEF FamilyIn
  <2>2. FamilyIn(v, Members(L))' = {w \in Members(L) : Family(w)' = Family(v)'}
    BY <1>5 DEF FamilyIn
  <2>3. QED
    BY <2>1, <2>2, <1>3
<1> DEFINE Breaks(x, n, v, family, here, all) ==
              /\ Cardinality(all) >= 2
              /\ Cardinality(here) > FamilyCap(Cardinality(all))
              /\ x = Violation("ha_family_cap", n, family, Cardinality(here), FamilyCap(Cardinality(all)))
<1>7. ASSUME NEW CONSTANT x
      PROVE  x \in HAFamilyViolations(L)' <=> x \in HAFamilyViolations(L)
  <2>1. x \in HAFamilyViolations(L) <=>
           \E n \in Numbers : \E v \in L[n] :
              Breaks(x, n, v, Family(v), FamilyIn(v, L[n]), FamilyIn(v, Members(L)))
    BY DEF HAFamilyViolations
  <2>2. x \in HAFamilyViolations(L)' <=>
           \E n \in Numbers : \E v \in L[n] :
              Breaks(x, n, v, Family(v)', FamilyIn(v, L[n])', FamilyIn(v, Members(L))')
    BY DEF HAFamilyViolations, Violation, FamilyCap
  <2>3. QED
    BY <2>1, <2>2, <1>3, <1>6
<1>8. HAFamilyViolations(L)' = HAFamilyViolations(L)
    BY <1>7
<1>9. QED
    BY <1>4, <1>8 DEF CheckWaves

-----------------------------------------------------------------------------
(* Types *)

Docs == [vms : SUBSET DOMAIN vm, overrides : SUBSET Violations, yaml : BOOLEAN, colour : Nat]

\* The waves of a plan: a wave without VMs is no wave.
Documents == {waves \in [Numbers -> Docs] : \A n \in Numbers : waves[n].vms = {} => waves[n] = NoDoc}

Pairs == {l.plans[p].pair : l \in Layouts, p \in Plans}

\* What a plan is, and what it will be by an edit.
PlanRows ==
    [type : {"cold", "warm"}, status : {"complete", "migrated"}, pair : Pairs,
     seq : Numbers \cup {0}, waves : Documents, generated : SUBSET Violations, dropped : BOOLEAN]

Lifecycles == {"available", "planned", "migrated"}

SomeStates == UNION {[S -> Lifecycles] : S \in SUBSET DOMAIN vm}
SomeRows == UNION {[S -> PlanRows] : S \in SUBSET Plans}

Edits ==
    [from : Plans \cup {NoPlan}, to : Plans \cup {NoPlan}, vs : SUBSET DOMAIN vm,
     seen : SomeStates, rows : SomeRows, stale : BOOLEAN]

Typed ==
    /\ Inventory
    /\ lifecycle \in [DOMAIN vm -> Lifecycles]
    /\ maps \in Mappings
    /\ plan \in [Plans -> PlanRows]
    /\ req \in [Requests -> Edits]
    /\ \A r, s \in Requests : r # s => DOMAIN req[r].rows \cap DOMAIN req[s].rows = {}
    /\ changed \in BOOLEAN /\ renamed \in BOOLEAN
    /\ events \in 0..MaxEvents

\* Colouring a plan's waves changes nothing but the colours, which are proper.
LEMMA ColouredDocs ==
    ASSUME NEW CONSTANT waves, waves \in [Numbers -> Docs]
    PROVE  /\ Coloured(waves) \in Documents
           /\ \A n \in Numbers :
                 /\ Coloured(waves)[n].vms = waves[n].vms
                 /\ waves[n].vms # {} =>
                       /\ Coloured(waves)[n].overrides = waves[n].overrides
                       /\ Coloured(waves)[n].yaml = waves[n].yaml
           /\ \A m, n \in Numbers :
                 /\ m # n /\ waves[m].vms # {} /\ waves[n].vms # {}
                 /\ Conflict(ShellWave(waves[m].vms), ShellWave(waves[n].vms))
                 => Coloured(waves)[m].colour # Coloured(waves)[n].colour
<1>1. PICK shells : shells = [n \in {n \in Numbers : waves[n].vms # {}} |-> ShellWave(waves[n].vms)]
    OBVIOUS
<1>2. PICK c : c = ConcurrencyGroups(shells)
    OBVIOUS
<1>3. DOMAIN shells = {n \in Numbers : waves[n].vms # {}}
    BY <1>1
<1>4. DOMAIN shells \subseteq 1..MaxNumber /\ MaxNumber \in Nat
    BY <1>3, BoundsAssumption DEF Numbers
<1>5. \A n \in DOMAIN shells :
         /\ c[n] \in Nat
         /\ \A k \in DOMAIN shells : k # n /\ Conflict(shells[k], shells[n]) => c[k] # c[n]
    BY <1>2, <1>4, ColoursAreProper
<1>6. PICK w : w = Coloured(waves)
    OBVIOUS
<1>7. w = [n \in Numbers |-> IF waves[n].vms = {} THEN NoDoc ELSE [waves[n] EXCEPT !.colour = c[n]]]
    BY <1>1, <1>2, <1>6, Zenon DEF Coloured
<1>8. NoDoc \in Docs /\ NoDoc.vms = {}
    BY DEF NoDoc, Docs
<1>9. ASSUME NEW n \in Numbers, waves[n].vms # {}
      PROVE  /\ w[n] \in Docs /\ w[n].vms = waves[n].vms /\ w[n].overrides = waves[n].overrides
             /\ w[n].yaml = waves[n].yaml /\ w[n].colour = c[n]
  <2>1. waves[n] \in Docs /\ c[n] \in Nat
    BY <1>3, <1>5, <1>9
  <2>2. w[n] = [waves[n] EXCEPT !.colour = c[n]]
    BY <1>7, <1>9
  <2>3. QED
    BY <2>1, <2>2 DEF Docs
<1>10. ASSUME NEW n \in Numbers, waves[n].vms = {} PROVE w[n] = NoDoc
    BY <1>7, <1>10
<1>11. w \in [Numbers -> Docs]
  <2>1. \A n \in Numbers : w[n] \in Docs
    BY <1>8, <1>9, <1>10
  <2>2. QED
    BY <2>1, <1>7
<1>12. \A n \in Numbers : w[n].vms = waves[n].vms
    BY <1>8, <1>9, <1>10
<1>13. w \in Documents
    BY <1>10, <1>11, <1>12 DEF Documents
<1>14. ASSUME NEW m \in Numbers, NEW n \in Numbers, m # n, waves[m].vms # {}, waves[n].vms # {},
              Conflict(ShellWave(waves[m].vms), ShellWave(waves[n].vms))
       PROVE  w[m].colour # w[n].colour
  <2>1. m \in DOMAIN shells /\ n \in DOMAIN shells
    BY <1>3, <1>14
  <2>2. shells[m] = ShellWave(waves[m].vms) /\ shells[n] = ShellWave(waves[n].vms)
    BY <1>1, <2>1, <1>3
  <2>3. c[m] # c[n]
    BY <1>5, <1>14, <2>1, <2>2
  <2>4. QED
    BY <2>3, <1>9, <1>14
<1>15. QED
    BY <1>6, <1>9, <1>12, <1>13, <1>14


-----------------------------------------------------------------------------
(* What an edit leaves of a plan *)

\* The layout that the rebuild leaves: touched waves lose the VMs that are gone.
Left(q, after) ==
    [n \in Numbers |-> IF n \in Touched(q, after) THEN after[n] \cap rows ELSE Layout(plan[q])[n]]

\* The layout of a row has VMs only.
LEMMA RowType ==
    ASSUME NEW d \in PlanRows
    PROVE  /\ Layout(d) \in LayoutsOf(DOMAIN vm)
           /\ d.waves \in Documents
           /\ \A n \in Numbers : d.waves[n] \in Docs /\ Layout(d)[n] = d.waves[n].vms
<1>1. d.waves \in Documents
    BY DEF PlanRows
<1>2. \A n \in Numbers : d.waves[n] \in Docs
    BY <1>1 DEF Documents
<1>3. \A n \in Numbers : d.waves[n].vms \in SUBSET DOMAIN vm
    BY <1>2 DEF Docs
<1>4. QED
    BY <1>1, <1>2, <1>3 DEF Layout, LayoutsOf

\* A plan's layout has VMs only.
LEMMA LayoutType ==
    ASSUME Typed, NEW q \in Plans
    PROVE  /\ Layout(plan[q]) \in LayoutsOf(DOMAIN vm)
           /\ plan[q] \in PlanRows /\ plan[q].waves \in Documents
           /\ \A n \in Numbers : plan[q].waves[n] \in Docs /\ Layout(plan[q])[n] = plan[q].waves[n].vms
<1>1. plan[q] \in PlanRows
    BY DEF Typed
<1>2. QED
    BY <1>1, RowType

\* The rebuild leaves no VM that was not meant to be there, and no VM out.
LEMMA LeftLayout ==
    ASSUME Typed, NEW q \in Plans, NEW after, after \in LayoutsOf(DOMAIN vm)
    PROVE  /\ Left(q, after) \in LayoutsOf(DOMAIN vm)
           /\ \A n \in Numbers : /\ Left(q, after)[n] \subseteq after[n]
                                 /\ Left(q, after)[n] \cap rows = after[n] \cap rows
           /\ Members(Left(q, after)) \cap rows = Members(after) \cap rows
<1>1. \A n \in Numbers : Left(q, after)[n] = IF n \in Touched(q, after) THEN after[n] \cap rows ELSE after[n]
    BY DEF Left, Touched
<1>2. \A n \in Numbers : Left(q, after)[n] \subseteq after[n] /\ Left(q, after)[n] \cap rows = after[n] \cap rows
    BY <1>1
<1>3. \A n \in Numbers : Left(q, after)[n] \in SUBSET DOMAIN vm
    BY <1>2 DEF LayoutsOf
<1>4. Left(q, after) \in LayoutsOf(DOMAIN vm)
    BY <1>3 DEF LayoutsOf, Left
<1>5. Members(Left(q, after)) \cap rows = Members(after) \cap rows
    BY <1>2 DEF Members
<1>6. QED
    BY <1>2, <1>4, <1>5

\* What may be on the record of a wave.
LEMMA OverridesType ==
    ASSUME Typed, NEW q \in Plans, NEW after, after \in LayoutsOf(DOMAIN vm)
    PROVE  \A n \in Numbers : Overrides(q, after)[n] \subseteq CheckWaves(after) /\ Overrides(q, after)[n] \in SUBSET Violations
<1>1. \A x \in CheckWaves(after) : x \in Violations
    BY RulesFindViolations DEF Typed
<1>2. \A n \in Numbers : Overrides(q, after)[n] \subseteq CheckWaves(after)
    BY DEF Overrides
<1>3. QED
    BY <1>1, <1>2

\* The rebuild's documents, as far as they follow from the evaluation.
RebuiltAs(q, after, docs) ==
    /\ docs \in Documents
    /\ \A n \in Numbers : docs[n].vms = Left(q, after)[n]
    /\ \A n \in Numbers : Left(q, after)[n] # {} => docs[n].overrides = Overrides(q, after)[n]
    /\ \A n \in Numbers : Left(q, after)[n] # {} =>
          docs[n].yaml = IF n \in Touched(q, after) THEN Yaml(plan[q], after[n] \cap rows)
                         ELSE plan[q].waves[n].yaml
    /\ \A m, n \in Numbers :
          /\ m # n /\ Left(q, after)[m] # {} /\ Left(q, after)[n] # {}
          /\ Conflict(ShellWave(Left(q, after)[m]), ShellWave(Left(q, after)[n]))
          => docs[m].colour # docs[n].colour

\* The rebuild leaves documents of the evaluated layout, with proper colours.
LEMMA RebuiltDocs ==
    ASSUME Typed, NEW q \in Plans, NEW after, after \in LayoutsOf(DOMAIN vm)
    PROVE  RebuiltAs(q, after, Rebuilt(q, after))
<1> DEFINE doc(n) == IF n \notin Touched(q, after) THEN plan[q].waves[n]
                     ELSE [NoDoc EXCEPT !.vms = after[n] \cap rows, !.yaml = Yaml(plan[q], after[n] \cap rows)]
<1>1. PICK w : w = [n \in Numbers |-> [doc(n) EXCEPT !.overrides = Overrides(q, after)[n]]]
    OBVIOUS
<1>2. Rebuilt(q, after) = Coloured(w)
    BY <1>1, Zenon DEF Rebuilt
<1>3. ASSUME NEW n \in Numbers
      PROVE  /\ w[n] \in Docs /\ w[n].vms = Left(q, after)[n] /\ w[n].overrides = Overrides(q, after)[n]
             /\ w[n].yaml = IF n \in Touched(q, after) THEN Yaml(plan[q], after[n] \cap rows)
                            ELSE plan[q].waves[n].yaml
  <2>1. Overrides(q, after)[n] \in SUBSET Violations
    BY OverridesType
  <2>2. Yaml(plan[q], after[n] \cap rows) \in BOOLEAN
    BY DEF Yaml, Emits
  <2>3. after[n] \cap rows \in SUBSET DOMAIN vm
    BY SMTT(60) DEF LayoutsOf
  <2>4. w[n] = [doc(n) EXCEPT !.overrides = Overrides(q, after)[n]]
    BY <1>1
  <2>5. CASE n \in Touched(q, after)
    <3>1. PICK y \in BOOLEAN : y = Yaml(plan[q], after[n] \cap rows)
      BY <2>2
    <3>2. PICK vms \in SUBSET DOMAIN vm : vms = after[n] \cap rows
      BY <2>3
    <3>3. doc(n) = [vms |-> vms, overrides |-> {}, yaml |-> y, colour |-> 0]
      BY <2>5, <3>1, <3>2 DEF NoDoc
    <3>4. w[n] = [vms |-> vms, overrides |-> Overrides(q, after)[n], yaml |-> y, colour |-> 0]
      <4> HIDE DEF doc
      <4>1. QED
        BY <2>4, <3>3
    <3>5. Left(q, after)[n] = vms
      BY <2>5, <3>2 DEF Left
    <3>6. QED
      BY <2>1, <2>5, <3>1, <3>4, <3>5 DEF Docs
  <2>6. CASE n \notin Touched(q, after)
    <3>1. PICK d \in Docs : d = plan[q].waves[n] /\ d.vms = Layout(plan[q])[n]
      BY LayoutType
    <3>2. w[n] = [d EXCEPT !.overrides = Overrides(q, after)[n]]
      BY <2>4, <2>6, <3>1
    <3>3. Left(q, after)[n] = d.vms
      BY <2>6, <3>1 DEF Left
    <3>4. QED
      BY <2>1, <2>6, <3>1, <3>2, <3>3 DEF Docs
  <2>7. QED
    BY <2>5, <2>6
<1>4. w \in [Numbers -> Docs]
  <2>1. \A n \in Numbers : w[n] \in Docs
    BY <1>3
  <2>2. w = [n \in Numbers |-> w[n]]
    BY <1>1
  <2>3. QED
    BY <2>1, <2>2
<1> HIDE DEF doc
<1>5. PICK c : c = Coloured(w)
    OBVIOUS
<1>6. /\ c \in Documents
      /\ \A n \in Numbers : c[n].vms = w[n].vms
      /\ \A n \in Numbers : w[n].vms # {} => c[n].overrides = w[n].overrides /\ c[n].yaml = w[n].yaml
      /\ \A m, n \in Numbers :
            m # n /\ w[m].vms # {} /\ w[n].vms # {} /\ Conflict(ShellWave(w[m].vms), ShellWave(w[n].vms))
            => c[m].colour # c[n].colour
    BY <1>4, <1>5, ColouredDocs
<1>7. Rebuilt(q, after) = c
    BY <1>2, <1>5
<1>8. \A n \in Numbers : c[n].vms = Left(q, after)[n]
    BY <1>3, <1>6
<1>9. ASSUME NEW n \in Numbers, Left(q, after)[n] # {}
      PROVE  /\ c[n].overrides = Overrides(q, after)[n]
             /\ c[n].yaml = IF n \in Touched(q, after) THEN Yaml(plan[q], after[n] \cap rows)
                            ELSE plan[q].waves[n].yaml
  <2>1. w[n].vms # {} /\ c[n].overrides = w[n].overrides /\ c[n].yaml = w[n].yaml
    BY <1>3, <1>6, <1>9
  <2>2. QED
    BY <2>1, <1>3
<1>10. ASSUME NEW m \in Numbers, NEW n \in Numbers, m # n, Left(q, after)[m] # {}, Left(q, after)[n] # {},
              Conflict(ShellWave(Left(q, after)[m]), ShellWave(Left(q, after)[n]))
       PROVE  c[m].colour # c[n].colour
  <2>1. w[m].vms = Left(q, after)[m] /\ w[n].vms = Left(q, after)[n]
    BY <1>3
  <2>2. QED
    BY <2>1, <1>6, <1>10
<1>11. QED
    BY <1>6, <1>7, <1>8, <1>9, <1>10 DEF RebuiltAs

\* The layouts that an edit evaluates have VMs only.
LEMMA AfterLayouts ==
    ASSUME Typed, NEW q \in Plans, NEW p, NEW t, NEW vs \in SUBSET rows, NEW dest
    PROVE  After(q, p, t, vs, dest) \in LayoutsOf(DOMAIN vm)
<1>1. Layout(plan[q]) \in LayoutsOf(DOMAIN vm)
    BY LayoutType
<1>2. \A n \in Numbers : Layout(plan[q])[n] \in SUBSET DOMAIN vm /\ vs \in SUBSET DOMAIN vm
    BY <1>1 DEF LayoutsOf, Typed, Inventory
<1>3. \A n \in Numbers : After(q, p, t, vs, dest)[n] \in SUBSET DOMAIN vm
    BY <1>2 DEF After
<1>4. QED
    BY <1>3 DEF After, LayoutsOf


-----------------------------------------------------------------------------
(* The steps *)

\* The evaluation of an edit as its handler calls it: the VMs that leave a plan
\* are in it.
Edited(r, p, t, vs, dest) ==
    /\ r \in Requests
    /\ p \in Plans \cup {NoPlan} /\ t \in Plans \cup {NoPlan}
    /\ vs \in SUBSET rows
    /\ p # NoPlan => vs \subseteq Members(Layout(plan[p]))
    /\ Prepare(r, p, t, vs, dest)

\* Every step evaluates an edit or ends one, or is none of an edit.
LEMMA StepsOfNext ==
    ASSUME [Next]_vars
    PROVE  \/ \E r, p, t, vs, dest : Edited(r, p, t, vs, dest)
           \/ \E r \in Requests : Commit(r) \/ Refuse(r)
           \/ \E p \in Plans : MarkSucceeded(p)
           \/ \E v \in rows : DeleteVM(v)
           \/ \E v \in rows : EditVM(v)
           \/ EditMappings
           \/ UNCHANGED vars
<1>1. ASSUME NEW r \in Requests, NEW p \in Plans, MoveToWave(r, p)
      PROVE \E s, q, t, vs, dest : Edited(s, q, t, vs, dest)
  <2>1. PICK vs \in InPlan(p), dest \in WavesFor(p) : Prepare(r, p, p, vs, dest)
    BY <1>1 DEF MoveToWave
  <2>2. Edited(r, p, p, vs, dest)
    BY <2>1 DEF Edited, InPlan
  <2>3. QED
    BY <2>2
<1>2. ASSUME NEW r \in Requests, NEW p \in Plans, NEW t \in Plans, MoveToPlan(r, p, t)
      PROVE \E s, q, u, vs, dest : Edited(s, q, u, vs, dest)
  <2>1. PICK vs \in InPlan(p), dest \in WavesFor(t) : Prepare(r, p, t, vs, dest)
    BY <1>2 DEF MoveToPlan
  <2>2. Edited(r, p, t, vs, dest)
    BY <2>1 DEF Edited, InPlan
  <2>3. QED
    BY <2>2
<1>3. ASSUME NEW r \in Requests, NEW p \in Plans, RemoveVMs(r, p)
      PROVE \E s, q, t, vs, dest : Edited(s, q, t, vs, dest)
  <2>1. PICK vs \in InPlan(p) : Prepare(r, p, NoPlan, vs, 0)
    BY <1>3 DEF RemoveVMs
  <2>2. Edited(r, p, NoPlan, vs, 0)
    BY <2>1 DEF Edited, InPlan
  <2>3. QED
    BY <2>2
<1>4. ASSUME NEW r \in Requests, NEW t \in Plans, AddVMs(r, t)
      PROVE \E s, q, u, vs, dest : Edited(s, q, u, vs, dest)
  <2>1. PICK vs \in SUBSET (rows \ Members(Layout(plan[t]))), dest \in WavesFor(t) :
           Prepare(r, NoPlan, t, vs, dest)
    BY <1>4 DEF AddVMs
  <2>2. vs \in SUBSET rows
    OBVIOUS
  <2>3. Edited(r, NoPlan, t, vs, dest)
    BY <2>1, <2>2 DEF Edited
  <2>4. QED
    BY <2>3
<1>5. QED
    BY <1>1, <1>2, <1>3, <1>4 DEF Next

\* The plans of an edit are locked by no other.
LEMMA SidesAreFree ==
    ASSUME NEW r, NEW p, NEW t, NEW vs, NEW dest, Edited(r, p, t, vs, dest)
    PROVE  /\ {p, t} \ {NoPlan} = Plans \cap {p, t}
           /\ \A q \in Plans \cap {p, t} : Complete(plan[q]) /\ ~Locked(q)
           /\ Plans \cap {p, t} # {}
           /\ Entering(p, t) => Admits(p, t, vs) /\ vs \cap Members(Layout(plan[t])) = {}
           /\ \A q \in Plans \cap {p, t} : ~Blocked(q, p, After(q, p, t, vs, dest))
<1>1. {p, t} \ {NoPlan} = Plans \cap {p, t}
    BY PlansAssumption DEF Edited, NoPlan
<1>2. PICK sides : sides = {p, t} \ {NoPlan}
    OBVIOUS
<1>3. PICK after : after = [q \in sides |-> After(q, p, t, vs, dest)]
    OBVIOUS
<1>4. /\ \A q \in sides : ~Locked(q) /\ Complete(plan[q])
      /\ \E q \in sides : Touched(q, after[q]) # {}
      /\ Entering(p, t) => Admits(p, t, vs) /\ vs \cap Members(Layout(plan[t])) = {}
      /\ \A q \in sides : ~Blocked(q, p, after[q])
    BY <1>2, <1>3, Zenon DEF Edited, Prepare
<1>5. \A q \in sides : after[q] = After(q, p, t, vs, dest)
    BY <1>3
<1>6. QED
    BY <1>1, <1>2, <1>4, <1>5

\* The evaluation writes nothing down but the edit.
LEMMA EditWrites ==
    ASSUME NEW CONSTANT r, NEW CONSTANT p, NEW CONSTANT t, NEW CONSTANT vs, NEW CONSTANT dest,
           Edited(r, p, t, vs, dest)
    PROVE  /\ UNCHANGED <<vm, rows, lifecycle, maps, plan, changed, renamed>> /\ Event
           /\ req[r] = NoEdit
BY DEF Edited, Prepare

\* What an edit makes of a plan: its waves rebuilt.
LEMMA ChangedRow ==
    ASSUME Typed, NEW r, NEW p, NEW t, NEW vs, NEW dest, Edited(r, p, t, vs, dest),
           NEW q \in Plans \cap {p, t}, NEW after, after = After(q, p, t, vs, dest),
           NEW d, d = Changed(q, p, t, vs, dest)
    PROVE  /\ after \in LayoutsOf(DOMAIN vm)
           /\ d \in PlanRows
           /\ d.type = plan[q].type /\ d.pair = plan[q].pair /\ d.generated = plan[q].generated
           /\ RebuiltAs(q, after, d.waves)
           /\ Layout(d) = Left(q, after)
           /\ ~d.dropped => ~plan[q].dropped /\ Left(q, after) = after
<1>1. after \in LayoutsOf(DOMAIN vm)
    BY AfterLayouts DEF Edited
<1>2. plan[q] \in PlanRows
    BY LayoutType
<1>3. PICK w : w = Rebuilt(q, after)
    OBVIOUS
<1>4. RebuiltAs(q, after, w) /\ w \in Documents
    BY <1>1, <1>3, RebuiltDocs DEF RebuiltAs
<1>5. PICK s : s = Max({plan[q].seq} \cup Keys(Layout(plan[q])) \cup Keys(after))
    OBVIOUS
<1>6. s \in Numbers \cup {0}
  <2>1. plan[q].seq \in 0..MaxNumber
    BY <1>2, BoundsAssumption DEF PlanRows, Numbers
  <2>2. {plan[q].seq} \cup Keys(Layout(plan[q])) \cup Keys(after) \in SUBSET (0..MaxNumber)
    BY <2>1, BoundsAssumption DEF Keys, Numbers
  <2>3. s \in 0..MaxNumber
    BY <1>5, <2>2, HasHighest, BoundsAssumption
  <2>4. QED
    BY <2>3, BoundsAssumption DEF Numbers
<1>7. PICK b \in BOOLEAN : b = (plan[q].dropped \/ \E n \in Touched(q, after) : ~(after[n] \subseteq rows))
    OBVIOUS
<1>8. d = [plan[q] EXCEPT !.waves = w, !.seq = s, !.dropped = b]
    BY <1>2, <1>3, <1>5, <1>7, Zenon DEF Changed
<1>9. /\ d \in PlanRows /\ d.waves = w /\ d.dropped = b
      /\ d.type = plan[q].type /\ d.pair = plan[q].pair /\ d.generated = plan[q].generated
    BY <1>2, <1>4, <1>6, <1>8 DEF PlanRows
<1>10. Left(q, after) \in LayoutsOf(DOMAIN vm)
    BY <1>1, LeftLayout
<1>11. Layout(d) = Left(q, after)
  <2>1. \A n \in Numbers : d.waves[n].vms = Left(q, after)[n]
    BY <1>4, <1>9 DEF RebuiltAs
  <2>2. QED
    BY <1>10, <2>1 DEF Layout, LayoutsOf
<1>12. ASSUME ~d.dropped PROVE ~plan[q].dropped /\ Left(q, after) = after
  <2>1. ~plan[q].dropped /\ \A n \in Touched(q, after) : after[n] \subseteq rows
    BY <1>7, <1>9, <1>12
  <2>2. \A n \in Numbers : Left(q, after)[n] = after[n]
    BY <2>1 DEF Left, Touched
  <2>3. QED
    BY <1>1, <1>10, <2>1, <2>2 DEF LayoutsOf
<1>13. QED
    BY <1>1, <1>4, <1>9, <1>11, <1>12

-----------------------------------------------------------------------------
(* The inventory, and type correctness *)

\* What the steps do to the inventory and the mappings: none adds a VM, and the
\* history variables tell of renames, and of other changes.
Around ==
    /\ Inventory' /\ DOMAIN vm' = DOMAIN vm /\ rows' \subseteq rows
    /\ ~renamed' => ~renamed /\ NamesKept
    /\ ~changed' => ~changed /\ vm' = vm /\ maps' = maps

LEMMA PatchedFamily ==
    ASSUME NEW c \in Renames
    PROVE  NameOf(c.fields) \in Families
BY DEF Families

\* A patch renames a VM or changes no name, and the name is of a known family.
LEMMA PatchedNames ==
    ASSUME Inventory, NEW v \in rows, EditVM(v)
    PROVE  Inventory' /\ DOMAIN vm' = DOMAIN vm /\ (~renamed' => ~renamed /\ NamesKept)
<1>1. PICK c \in Patches : /\ vm' = [vm EXCEPT ![v] = Patched(vm[v], c.fields)]
                           /\ renamed' = (renamed \/ NameFields \cap DOMAIN c.fields # {})
    BY DEF EditVM
<1>2. DOMAIN vm' = DOMAIN vm /\ v \in DOMAIN vm /\ vm'[v] = Patched(vm[v], c.fields)
    BY <1>1 DEF Inventory
<1>3. \A w \in DOMAIN vm : w # v => vm'[w] = vm[w]
    BY <1>1
<1>4. NameFields \subseteq DOMAIN vm[v]
    BY <1>2 DEF Inventory
<1>5. DOMAIN vm'[v] = DOMAIN vm[v]
    BY <1>2 DEF Patched
<1>6. CASE NameFields \cap DOMAIN c.fields = {}
  <2>1. \A f \in NameFields : vm'[v][f] = vm[v][f]
    BY <1>2, <1>4, <1>6 DEF Patched
  <2>2. NamesKept
    BY <1>2, <1>3, <2>1 DEF NamesKept
  <2>3. NameOf(vm'[v]) = NameOf(vm[v])
    <3>1. vm'[v].stem = vm[v].stem /\ vm'[v].ha = vm[v].ha /\ vm'[v].num = vm[v].num
          /\ vm'[v].dash = vm[v].dash
      BY <2>1 DEF NameFields
    <3>2. QED
      BY <3>1 DEF NameOf
  <2>4. NameOf(vm'[v]) \in Families
    BY <1>2, <2>3 DEF Inventory
  <2>5. Families' = Families
    BY DEF Families
  <2>6. Inventory'
    BY <1>2, <1>3, <1>4, <1>5, <2>4, <2>5 DEF Inventory, EditVM
  <2>7. QED
    BY <1>1, <1>2, <1>6, <2>2, <2>6
<1>7. CASE NameFields \cap DOMAIN c.fields # {}
  <2>0. c \in Renames
    BY <1>7, PatchesAssumption
  <2>1. NameFields \subseteq DOMAIN c.fields
    BY <2>0 DEF Renames
  <2>2. \A f \in NameFields : vm'[v][f] = c.fields[f]
    BY <1>2, <1>4, <2>1 DEF Patched
  <2>3. NameOf(vm'[v]) = NameOf(c.fields)
    <3>1. vm'[v].stem = c.fields.stem /\ vm'[v].ha = c.fields.ha /\ vm'[v].num = c.fields.num
          /\ vm'[v].dash = c.fields.dash
      BY <2>2 DEF NameFields
    <3>2. QED
      BY <3>1 DEF NameOf
  <2>4. NameOf(vm'[v]) \in Families
    <3>1. NameOf(c.fields) \in Families
      BY <2>0, PatchedFamily
    <3>2. QED
      BY <2>3, <3>1, Zenon
  <2>5. Families' = Families
    BY DEF Families
  <2>6. Inventory'
    BY <1>2, <1>3, <1>4, <1>5, <2>4, <2>5 DEF Inventory, EditVM
  <2>7. renamed'
    BY <1>1, <1>7
  <2>8. QED
    BY <1>2, <2>6, <2>7
<1>8. QED
    BY <1>6, <1>7

\* Every step does no more than that.
LEMMA StepsAround ==
    ASSUME Inventory, [Next]_vars
    PROVE  Around
<1>1. ASSUME vm' = vm, rows' \subseteq rows, renamed' = renamed, changed' \/ (changed' = changed /\ maps' = maps)
      PROVE  Around
  <2>1. NamesKept /\ Families' = Families
    BY <1>1 DEF NamesKept, Families
  <2>2. Inventory'
    BY <1>1, <2>1 DEF Inventory
  <2>3. QED
    BY <1>1, <2>1, <2>2 DEF Around
<1>2. ASSUME NEW CONSTANT r, NEW CONSTANT p, NEW CONSTANT t, NEW CONSTANT vs, NEW CONSTANT dest,
             Edited(r, p, t, vs, dest)
      PROVE  Around
    BY <1>1, <1>2, EditWrites
<1>3. ASSUME NEW r \in Requests, Commit(r) \/ Refuse(r) PROVE Around
    BY <1>1, <1>3 DEF Commit, Refuse
<1>4. ASSUME NEW p \in Plans, MarkSucceeded(p) PROVE Around
    BY <1>1, <1>4 DEF MarkSucceeded
<1>5. ASSUME NEW v \in rows, DeleteVM(v) PROVE Around
    BY <1>1, <1>5 DEF DeleteVM
<1>6. ASSUME NEW v \in rows, EditVM(v) PROVE Around
  <2>1. changed' /\ rows' = rows
    BY <1>6 DEF EditVM
  <2>2. QED
    BY <1>6, <2>1, PatchedNames DEF Around
<1>7. ASSUME EditMappings PROVE Around
    BY <1>1, <1>7 DEF EditMappings
<1>8. ASSUME UNCHANGED vars PROVE Around
    BY <1>1, <1>8 DEF vars
<1>9. QED
    BY StepsOfNext, <1>2, <1>3, <1>4, <1>5, <1>6, <1>7, <1>8

\* The rows a plan can have do not change.
LEMMA PlanRowsKept ==
    ASSUME DOMAIN vm' = DOMAIN vm
    PROVE  PlanRows' = PlanRows /\ Edits' = Edits
<1>1. Violations' = Violations
    BY ViolationsKept
<1>2. Docs' = Docs
    BY <1>1 DEF Docs
<1>3. Documents' = Documents
    BY <1>2 DEF Documents, NoDoc
<1>4. PlanRows' = PlanRows
    BY <1>1, <1>3 DEF PlanRows, Pairs
<1>5. SomeStates' = SomeStates /\ SomeRows' = SomeRows
    BY <1>4 DEF SomeStates, SomeRows, Lifecycles
<1>6. Edits' = Edits
    BY <1>5 DEF Edits, NoPlan
<1>7. QED
    BY <1>4, <1>6

\* An edit's rows are of plans.
LEMMA EditRows ==
    ASSUME Typed, NEW r \in Requests
    PROVE  /\ req[r] \in Edits /\ req[r].vs \in SUBSET DOMAIN vm
           /\ DOMAIN req[r].rows \in SUBSET Plans
           /\ \A q \in DOMAIN req[r].rows : req[r].rows[q] \in PlanRows
<1>1. PICK e \in Edits : e = req[r]
    BY DEF Typed
<1>2. e.rows \in SomeRows /\ e.vs \in SUBSET DOMAIN vm
    BY DEF Edits
<1>3. PICK S \in SUBSET Plans : e.rows \in [S -> PlanRows]
    BY <1>2 DEF SomeRows
<1>4. QED
    BY <1>1, <1>2, <1>3

LEMMA NoEditType ==
    /\ NoEdit \in Edits /\ DOMAIN NoEdit.rows = {}
    /\ ~NoEdit.stale
<1>1. PICK f : f = [v \in {} |-> "planned"]
    OBVIOUS
<1>2. PICK g : g = [q \in {} |-> NoDoc]
    OBVIOUS
<1>3. f \in [{} -> Lifecycles]
    BY <1>1
<1>4. g \in [{} -> PlanRows]
    BY <1>2
<1>5. f \in SomeStates
    BY <1>3 DEF SomeStates
<1>6. g \in SomeRows
    BY <1>4 DEF SomeRows
<1>7. NoEdit = [from |-> NoPlan, to |-> NoPlan, vs |-> {}, seen |-> f, rows |-> g, stale |-> FALSE]
    BY <1>1, <1>2 DEF NoEdit
<1>8. NoEdit \in Edits
    BY <1>5, <1>6, <1>7 DEF Edits
<1>9. QED
    BY <1>4, <1>7, <1>8

\* What the steps leave of the edits' requests.
LEMMA OutdatedEdits ==
    ASSUME Typed, Outdate
    PROVE  /\ req' \in [Requests -> Edits]
           /\ \A s \in Requests :
                 /\ req'[s].rows = req[s].rows
                 /\ DOMAIN req'[s].rows = {} \/ req'[s].stale
                 /\ req[s] # NoEdit => req'[s] # NoEdit
<1>1. ASSUME NEW s \in Requests
      PROVE  /\ req'[s] \in Edits /\ req'[s].rows = req[s].rows
             /\ DOMAIN req'[s].rows = {} \/ req'[s].stale
             /\ req[s] # NoEdit => req'[s] # NoEdit
  <2>1. CASE req[s] = NoEdit
    BY <2>1, NoEditType DEF Outdate
  <2>2. CASE req[s] # NoEdit
    <3>1. PICK e \in Edits : e = req[s]
      BY DEF Typed
    <3>2. req'[s] = [e EXCEPT !.stale = TRUE]
      BY <2>2, <3>1 DEF Outdate
    <3>3. [e EXCEPT !.stale = TRUE] \in Edits /\ [e EXCEPT !.stale = TRUE].rows = e.rows
          /\ [e EXCEPT !.stale = TRUE].stale
      BY DEF Edits
    <3>4. QED
      BY <3>1, <3>2, <3>3, NoEditType
  <2>3. QED
    BY <2>1, <2>2
<1>2. req' = [s \in Requests |-> req'[s]]
    BY DEF Outdate
<1>3. QED
    BY <1>1, <1>2

LEMMA DoneEdits ==
    ASSUME Typed, NEW r \in Requests, Done(r)
    PROVE  /\ req' \in [Requests -> Edits]
           /\ DOMAIN req'[r].rows = {}
           /\ \A s \in Requests \ {r} : req'[s] = req[s]
BY NoEditType DEF Done, Typed

\* The requests after an evaluation.
LEMMA EditedEdits ==
    ASSUME Typed, NEW CONSTANT r, NEW CONSTANT p, NEW CONSTANT t, NEW CONSTANT vs, NEW CONSTANT dest,
           Edited(r, p, t, vs, dest)
    PROVE  /\ req' \in [Requests -> Edits]
           /\ DOMAIN req'[r].rows = Plans \cap {p, t} /\ ~req'[r].stale /\ req'[r] # NoEdit
           /\ \A q \in Plans \cap {p, t} : req'[r].rows[q] = Changed(q, p, t, vs, dest)
           /\ \A s \in Requests \ {r} : req'[s] = req[s]
<1>0. r \in Requests /\ p \in Plans \cup {NoPlan} /\ t \in Plans \cup {NoPlan} /\ vs \in SUBSET DOMAIN vm
    BY DEF Edited, Typed, Inventory
<1>1. PICK f : f = [v \in vs |-> lifecycle[v]]
    OBVIOUS
<1>2. PICK sides : sides = {p, t} \ {NoPlan}
    OBVIOUS
<1>21. PICK g : g = [q \in sides |-> Changed(q, p, t, vs, dest)]
    OBVIOUS
<1>3. PICK e : e = [from |-> p, to |-> t, vs |-> vs, seen |-> f, rows |-> g, stale |-> FALSE]
    OBVIOUS
<1>31. sides = Plans \cap {p, t}
    BY <1>2, SidesAreFree
<1>4. req' = [req EXCEPT ![r] = e]
    BY <1>1, <1>2, <1>21, <1>3, Zenon DEF Edited, Prepare
<1>5. f \in SomeStates
  <2>1. f \in [vs -> Lifecycles]
    BY <1>0, <1>1 DEF Typed
  <2>2. QED
    BY <1>0, <2>1 DEF SomeStates
<1>6. g \in SomeRows
  <2>1. \A q \in Plans \cap {p, t} : Changed(q, p, t, vs, dest) \in PlanRows
    BY ChangedRow
  <2>2. g \in [Plans \cap {p, t} -> PlanRows]
    BY <1>21, <1>31, <2>1
  <2>3. QED
    BY <2>2 DEF SomeRows
<1>7. e \in Edits
    BY <1>0, <1>3, <1>5, <1>6 DEF Edits
<1>8. req'[r] = e /\ req' \in [Requests -> Edits] /\ \A s \in Requests \ {r} : req'[s] = req[s]
    BY <1>0, <1>4, <1>7 DEF Typed
<1>9. DOMAIN e.rows = Plans \cap {p, t} /\ ~e.stale
      /\ \A q \in Plans \cap {p, t} : e.rows[q] = Changed(q, p, t, vs, dest)
    BY <1>21, <1>3, <1>31
<1>10. e # NoEdit
    BY <1>9, SidesAreFree, NoEditType
<1>11. QED
    BY <1>8, <1>9, <1>10

\* Every step keeps the types of the variables.
LEMMA NextTyped == Typed /\ [Next]_vars => Typed'
<1> SUFFICES ASSUME Typed, [Next]_vars PROVE Typed'
    OBVIOUS
<1>1. Inventory' /\ DOMAIN vm' = DOMAIN vm /\ PlanRows' = PlanRows /\ Edits' = Edits
  <2>1. Inventory' /\ DOMAIN vm' = DOMAIN vm
    BY StepsAround DEF Typed, Around
  <2>2. QED
    BY <2>1, PlanRowsKept
<1> DEFINE Apart2 == \A r, s \in Requests : r # s => DOMAIN req'[r].rows \cap DOMAIN req'[s].rows = {}
           Rest == /\ lifecycle' \in [DOMAIN vm -> Lifecycles] /\ maps' \in Mappings
                   /\ plan' \in [Plans -> PlanRows]
                   /\ changed' \in BOOLEAN /\ renamed' \in BOOLEAN /\ events' \in 0..MaxEvents
           Goal == Rest /\ req' \in [Requests -> Edits] /\ Apart2
<1>2. SUFFICES Goal
    BY <1>1 DEF Typed, Lifecycles
<1>3. Event => events' \in 0..MaxEvents
    BY BoundsAssumption DEF Typed, Event
<1>4. ASSUME NEW vs, NEW state \in Lifecycles PROVE Moved(vs, state) \in [DOMAIN vm -> Lifecycles]
    BY DEF Moved, Typed
<1>5. ASSUME Outdate PROVE req' \in [Requests -> Edits] /\ Apart2
    BY <1>5, OutdatedEdits DEF Typed
<1>6. ASSUME NEW r \in Requests, Done(r) PROVE req' \in [Requests -> Edits] /\ Apart2
    BY <1>6, DoneEdits DEF Typed
<1>7. ASSUME NEW CONSTANT r, NEW CONSTANT p, NEW CONSTANT t, NEW CONSTANT vs, NEW CONSTANT dest,
             Edited(r, p, t, vs, dest)
      PROVE  Goal
  <2>1. Rest
    BY <1>3, <1>7, EditWrites DEF Typed
  <2>2. /\ req' \in [Requests -> Edits] /\ DOMAIN req'[r].rows = Plans \cap {p, t}
        /\ \A s \in Requests \ {r} : req'[s] = req[s]
    BY <1>7, EditedEdits
  <2>3. \A s \in Requests : \A q \in DOMAIN req[s].rows : q \notin Plans \cap {p, t}
    BY <1>7, SidesAreFree DEF Locked
  <2>4. Apart2
    BY <2>2, <2>3 DEF Typed
  <2>5. QED
    BY <2>1, <2>2, <2>4
<1>8. ASSUME NEW r \in Requests, Commit(r) PROVE Goal
  <2>1. Done(r) /\ UNCHANGED <<vm, rows, maps, changed, renamed, events>>
        /\ plan' = [q \in Plans |-> IF q \in DOMAIN req[r].rows THEN req[r].rows[q] ELSE plan[q]]
    BY <1>8 DEF Commit
  <2>2. plan' \in [Plans -> PlanRows]
    BY <2>1, EditRows DEF Typed
  <2>3. lifecycle' = lifecycle \/ \E vs : \E state \in Lifecycles : lifecycle' = Moved(vs, state)
    <3>1. "planned" \in Lifecycles /\ "available" \in Lifecycles
      BY DEF Lifecycles
    <3>2. QED
      BY <1>8, <3>1, Zenon DEF Commit
  <2>4. QED
    BY <1>4, <1>6, <2>1, <2>2, <2>3 DEF Typed
<1>9. ASSUME NEW r \in Requests, Refuse(r) PROVE Goal
    BY <1>6, <1>9 DEF Refuse, Typed
<1>10. ASSUME NEW p \in Plans, MarkSucceeded(p) PROVE Goal
  <2>1. plan[p] \in PlanRows /\ plan' = [plan EXCEPT ![p].status = "migrated"]
    BY <1>10 DEF MarkSucceeded, Typed
  <2>2. [plan[p] EXCEPT !.status = "migrated"] \in PlanRows
    BY <2>1 DEF PlanRows
  <2>3. plan' = [plan EXCEPT ![p] = [plan[p] EXCEPT !.status = "migrated"]]
    BY <2>1 DEF Typed
  <2>4. lifecycle' \in [DOMAIN vm -> Lifecycles]
    BY <1>4, <1>10 DEF MarkSucceeded, Lifecycles
  <2>5. QED
    BY <1>3, <1>10, <2>2, <2>3, <2>4 DEF MarkSucceeded, Typed
<1>11. ASSUME NEW v \in rows, DeleteVM(v) PROVE Goal
    BY <1>3, <1>5, <1>11 DEF DeleteVM, Typed
<1>12. ASSUME NEW v \in rows, EditVM(v) PROVE Goal
  <2>1. renamed' \in BOOLEAN /\ changed' \in BOOLEAN
    BY <1>12 DEF EditVM, Typed
  <2>2. QED
    BY <1>3, <1>5, <1>12, <2>1 DEF EditVM, Typed
<1>13. ASSUME EditMappings PROVE Goal
    BY <1>3, <1>5, <1>13 DEF EditMappings, Typed
<1>14. ASSUME UNCHANGED vars PROVE Goal
    BY <1>14 DEF vars, Typed
<1>15. QED
    BY StepsOfNext, <1>7, <1>8, <1>9, <1>10, <1>11, <1>12, <1>13, <1>14

-----------------------------------------------------------------------------
(* What is said of one row *)

\* No VM is in two waves of a plan.
Apart(d) == \A m, n \in Numbers : m # n => Layout(d)[m] \cap Layout(d)[n] = {}

\* The record of a plan has nothing that it does not break, and all that it
\* breaks that is worse than generated.
OnRecord(d) == \A n \in Numbers : d.waves[n].overrides \subseteq CheckWaves(Layout(d))

Accounted(d) ==
    \A v \in CheckWaves(Layout(d)) :
       \/ v \in d.waves[v.wave].overrides
       \/ \E w \in d.generated : SameRule(v, w) /\ w.count >= v.count

Recorded(d) == ~d.dropped => OnRecord(d) /\ Accounted(d)

\* All VMs of a plan, those that are gone included, go to one target, are
\* covered, and are in waves that are rendered.
Goes(d, t) ==
    /\ t # Unresolved /\ OfItsPartition(d, t)
    /\ \A v \in Members(Layout(d)) : Target(vm[v], maps) = t

Placed(d) ==
    /\ \E t : Goes(d, t)
    /\ \A v \in Members(Layout(d)) : Covered(vm[v], PlanMappings(d))
    /\ \A n \in Numbers : Layout(d)[n] # {} => d.waves[n].yaml

\* Waves of a plan that conflict have different colours.  The layout is a bound
\* variable so that a primed Proper speaks of a layout and not of its expression.
Proper(d) ==
    \A L : L = Layout(d) =>
       \A m, n \in Numbers :
          m # n /\ L[m] # {} /\ L[n] # {} /\ Conflict(ShellWave(L[m]), ShellWave(L[n]))
          => d.waves[m].colour # d.waves[n].colour

Good(d) ==
    /\ Apart(d)
    /\ ~renamed => Recorded(d)
    /\ ~changed => Placed(d) /\ Proper(d)

\* The rows that plans have, and that evaluated edits will give them.
InPlay(d) ==
    \/ \E q \in Plans : d = plan[q]
    \/ \E r \in Requests : \E q \in DOMAIN req[r].rows : d = req[r].rows[q]

AllGood == \A d : InPlay(d) => Good(d)

-----------------------------------------------------------------------------
(* A row stays as good as it is *)

LEMMA QuietApart ==
    ASSUME NEW CONSTANT d, Apart(d)
    PROVE  Apart(d)'
BY DEF Apart, Layout

\* A step that renames no VM leaves the rules a row breaks alone.
LEMMA QuietRules ==
    ASSUME Inventory, NamesKept, NEW CONSTANT d, d \in PlanRows, Recorded(d)
    PROVE  Recorded(d)'
<1>1. PICK L \in LayoutsOf(DOMAIN vm) : L = Layout(d)
    BY RowType
<1>2. Layout(d)' = L
    BY <1>1 DEF Layout
<1>3. CheckWaves(Layout(d))' = CheckWaves(Layout(d))
    BY <1>1, <1>2, RulesFollowLayout
<1>4. OnRecord(d) => OnRecord(d)'
    BY <1>3 DEF OnRecord
<1>5. Accounted(d) => Accounted(d)'
    BY <1>3 DEF Accounted, SameRule
<1>6. QED
    BY <1>4, <1>5 DEF Recorded

\* A step that retargets nothing leaves a row in its partition.
LEMMA QuietPlaced ==
    ASSUME NEW CONSTANT d, vm' = vm, maps' = maps, Placed(d)
    PROVE  Placed(d)'
<1>1. Layout(d)' = Layout(d) /\ PlanMappings(d)' = PlanMappings(d)
    BY DEF Layout, PlanMappings
<1>2. PICK M : M = Members(Layout(d))
    OBVIOUS
<1>3. Members(Layout(d))' = M
    BY <1>1, <1>2 DEF Members
<1>4. PICK g : Goes(d, g)
    BY DEF Placed
<1>5. Goes(d, g)'
    BY <1>2, <1>3, <1>4 DEF Goes, OfItsPartition
<1>6. \A v \in M : Covered(vm[v], PlanMappings(d))'
    BY <1>1, <1>2 DEF Placed
<1>7. QED
    BY <1>1, <1>3, <1>5, <1>6 DEF Placed

\* The source of a wave whose VMs are all of one vCenter.
LEMMA SourceOfShell ==
    ASSUME Inventory, NEW A \in SUBSET DOMAIN vm, NEW c, \A v \in A : vm[v].vc = c
    PROVE  SourcesOf(ShellWave(A)) = IF c # NoSource /\ A \cap rows # {} THEN {c} ELSE {}
<1> DEFINE known == {v \in A \cap rows : vm[v].vc # NoSource}
           source == IF known = {} THEN NoSource ELSE vm[Least(known)].vc
<1>1. SourcesOf(ShellWave(A)) = {source} \ {NoSource}
    BY DEF SourcesOf, ShellWave
<1>2. CASE c # NoSource /\ A \cap rows # {}
  <2>1. known = A \cap rows /\ known # {} /\ known \in SUBSET Nat
    BY <1>2 DEF Inventory
  <2>2. Least(known) \in known
    <3> HIDE DEF known
    <3>1. QED
      BY <2>1, HasLowest
  <2>3. vm[Least(known)].vc = c
    BY <2>1, <2>2
  <2>4. source = c
    BY <2>1, <2>3
  <2>5. QED
    BY <1>1, <1>2, <2>4
<1>3. CASE ~(c # NoSource /\ A \cap rows # {})
  <2>1. known = {}
    BY <1>3
  <2>2. QED
    BY <1>1, <1>3, <2>1
<1>4. QED
    BY <1>2, <1>3

\* When two waves of one vCenter conflict.
ShellsMeet ==
    \A A, B \in SUBSET DOMAIN vm : \A c :
       (\A v \in A \cup B : vm[v].vc = c) =>
          (Conflict(ShellWave(A), ShellWave(B)) <=>
              \/ c # NoSource /\ A \cap rows # {} /\ B \cap rows # {}
              \/ \E v \in A, w \in B : Family(v) = Family(w))

LEMMA ShellsMeetSo == Inventory => ShellsMeet
<1> SUFFICES ASSUME Inventory, NEW A \in SUBSET DOMAIN vm, NEW B \in SUBSET DOMAIN vm, NEW c,
                    \A v \in A \cup B : vm[v].vc = c
             PROVE  Conflict(ShellWave(A), ShellWave(B)) <=>
                        \/ c # NoSource /\ A \cap rows # {} /\ B \cap rows # {}
                        \/ \E v \in A, w \in B : Family(v) = Family(w)
    BY DEF ShellsMeet
<1>1. /\ SourcesOf(ShellWave(A)) = IF c # NoSource /\ A \cap rows # {} THEN {c} ELSE {}
      /\ SourcesOf(ShellWave(B)) = IF c # NoSource /\ B \cap rows # {} THEN {c} ELSE {}
    BY SourceOfShell
<1>2. SourcesOf(ShellWave(A)) \cap SourcesOf(ShellWave(B)) # {}
         <=> c # NoSource /\ A \cap rows # {} /\ B \cap rows # {}
    BY <1>1
<1>3. VMsOf(ShellWave(A)) = A /\ VMsOf(ShellWave(B)) = B
    BY DEF VMsOf, ShellWave
<1>4. FamiliesOf(ShellWave(A)) \cap FamiliesOf(ShellWave(B)) # {}
         <=> \E v \in A, w \in B : Family(v) = Family(w)
    BY <1>3 DEF FamiliesOf
<1>5. QED
    BY <1>2, <1>4 DEF Conflict

\* Waves of one vCenter that conflict after a deletion did so before.
LEMMA ConflictsShrink ==
    ASSUME Inventory, Inventory', vm' = vm, rows' \subseteq rows,
           NEW CONSTANT A, A \in SUBSET DOMAIN vm, NEW CONSTANT B, B \in SUBSET DOMAIN vm,
           NEW CONSTANT c, \A v \in A \cup B : vm[v].vc = c,
           Conflict(ShellWave(A), ShellWave(B))'
    PROVE  Conflict(ShellWave(A), ShellWave(B))
<1>1. ShellsMeet /\ ShellsMeet'
  <2>1. ShellsMeet
    BY ShellsMeetSo
  <2>2. ShellsMeet'
    BY ShellsMeetSo, PTL
  <2>3. QED
    BY <2>1, <2>2
<1>2. \A v \in A \cup B : vm'[v].vc = c
    OBVIOUS
<1>3. \/ c # NoSource /\ A \cap rows' # {} /\ B \cap rows' # {}
      \/ \E v \in A, w \in B : Family(v)' = Family(w)'
  <2>1. A \in SUBSET DOMAIN vm' /\ B \in SUBSET DOMAIN vm'
    OBVIOUS
  <2>2. Conflict(ShellWave(A), ShellWave(B))' <=>
           \/ c # NoSource /\ A \cap rows' # {} /\ B \cap rows' # {}
           \/ \E v \in A, w \in B : Family(v)' = Family(w)'
    BY <1>1, <1>2, <2>1, SMTT(30) DEF ShellsMeet
  <2>3. QED
    BY <2>2
<1>4. \A v \in A \cup B : Family(v)' = Family(v)
    BY DEF Family
<1>5. \/ c # NoSource /\ A \cap rows # {} /\ B \cap rows # {}
      \/ \E v \in A, w \in B : Family(v) = Family(w)
    BY <1>3, <1>4
<1>6. QED
    BY <1>1, <1>5 DEF ShellsMeet

\* The VMs of a plan with one target are of one vCenter.
LEMMA OneSource ==
    ASSUME NEW d, NEW t, Goes(d, t)
    PROVE  \A v \in Members(Layout(d)) : vm[v].vc = t.vc
<1>1. \A a : Target(a, maps) # Unresolved => Target(a, maps).vc = a.vc
    BY DEF Target
<1>2. QED
    BY <1>1 DEF Goes

\* Colours that are proper stay so when no more than deletions happen.
LEMMA QuietProper ==
    ASSUME Inventory, Inventory', vm' = vm, maps' = maps, rows' \subseteq rows,
           NEW CONSTANT d, d \in PlanRows, Placed(d), Proper(d)
    PROVE  Proper(d)'
<1>1. PICK L \in LayoutsOf(DOMAIN vm) : L = Layout(d)
    BY RowType
<1>2. Layout(d)' = L
    BY <1>1 DEF Layout
<1>3. PICK t : Goes(d, t)
    BY DEF Placed
<1>4. SUFFICES ASSUME NEW CONSTANT m \in Numbers, NEW CONSTANT n \in Numbers,
                      m # n, L[m] # {}, L[n] # {}, Conflict(ShellWave(L[m]), ShellWave(L[n]))'
               PROVE  d.waves[m].colour # d.waves[n].colour
    BY <1>2 DEF Proper
<1>5. \A v \in Members(L) : vm[v].vc = t.vc
    BY <1>1, <1>3, OneSource
<1>6. PICK A, B : A = L[m] /\ B = L[n]
    OBVIOUS
<1>7. A \in SUBSET DOMAIN vm /\ B \in SUBSET DOMAIN vm /\ \A v \in A \cup B : v \in Members(L)
    BY <1>6 DEF LayoutsOf, Members
<1>8. Conflict(ShellWave(A), ShellWave(B))'
    BY <1>4, <1>6
<1>9. Conflict(ShellWave(A), ShellWave(B))
    BY <1>5, <1>7, <1>8, ConflictsShrink
<1>10. QED
    BY <1>1, <1>4, <1>6, <1>9 DEF Proper

\* A good row is good after every step.
LEMMA KeptGood ==
    ASSUME Inventory, Around, NEW CONSTANT d, d \in PlanRows, Good(d)
    PROVE  Good(d)'
<1>1. Apart(d)'
    BY QuietApart DEF Good
<1>2. ASSUME ~renamed' PROVE Recorded(d)'
  <2>1. NamesKept /\ Recorded(d)
    BY <1>2 DEF Around, Good
  <2>2. QED
    BY <2>1, QuietRules
<1>3. ASSUME ~changed' PROVE Placed(d)' /\ Proper(d)'
  <2>1. /\ Inventory' /\ vm' = vm /\ maps' = maps /\ rows' \subseteq rows
        /\ Placed(d) /\ Proper(d)
    BY <1>3 DEF Around, Good
  <2>2. QED
    BY <2>1, QuietPlaced, QuietProper
<1>4. QED
    BY <1>1, <1>2, <1>3 DEF Good

-----------------------------------------------------------------------------
(* What an edit makes of a good plan is good *)

\* A violation has a number of VMs.
LEMMA CountsAreNumbers ==
    ASSUME NEW x \in Violations
    PROVE  x.count \in Int
BY DEF Violations

\* The violations that an edit leaves in one of its plans are on its record.
LEMMA EditedRules ==
    ASSUME Typed, NEW a \in Plans, NEW after, after \in LayoutsOf(DOMAIN vm),
           Left(a, after) = after, OnRecord(plan[a]), Accounted(plan[a]),
           NEW docs, RebuiltAs(a, after, docs)
    PROVE  /\ \A n \in Numbers : docs[n].overrides \subseteq CheckWaves(after)
           /\ \A v \in CheckWaves(after) :
                 \/ v \in docs[v.wave].overrides
                 \/ \E w \in plan[a].generated : SameRule(v, w) /\ w.count >= v.count
<1>1. ASSUME NEW n \in Numbers PROVE docs[n].overrides \subseteq CheckWaves(after)
  <2>1. CASE after[n] # {}
    BY <2>1, OverridesType DEF RebuiltAs
  <2>2. CASE after[n] = {}
    <3>1. docs[n].vms = {} /\ docs \in Documents
      BY <2>2 DEF RebuiltAs
    <3>2. docs[n] = NoDoc
      BY <3>1 DEF Documents
    <3>3. QED
      BY <3>2 DEF NoDoc
  <2>3. QED
    BY <2>1, <2>2
<1>2. ASSUME NEW v \in CheckWaves(after)
      PROVE  \/ v \in docs[v.wave].overrides
             \/ \E w \in plan[a].generated : SameRule(v, w) /\ w.count >= v.count
  <2>1. v \in Violations /\ after[v.wave] # {}
    BY RulesFindViolations DEF Typed
  <2>2. v.wave \in Numbers
    BY <2>1 DEF Violations
  <2>3. docs[v.wave].overrides = Overrides(a, after)[v.wave]
    BY <2>1, <2>2 DEF RebuiltAs
  <2> DEFINE acknowledged == UNION {plan[a].waves[n].overrides : n \in Numbers}
  <2>4. v \in NewlyBroken(a, after) \/ (\E o \in acknowledged : SameRule(o, v))
           => v \in Overrides(a, after)[v.wave]
    BY <2>2 DEF Overrides
  <2>5. CASE v \in NewlyBroken(a, after)
    BY <2>3, <2>4, <2>5
  <2>6. CASE v \notin NewlyBroken(a, after)
    <3>1. PICK w \in CheckWaves(Layout(plan[a])) : SameRule(v, w) /\ ~(v.count > w.count)
      BY <2>6 DEF NewlyBroken, Introduced
    <3>2. w \in Violations
      BY LayoutType, RulesFindViolations DEF Typed
    <3>3. w.wave \in Numbers
      BY <3>2 DEF Violations
    <3>4. CASE w \in plan[a].waves[w.wave].overrides
      <4>1. w \in acknowledged /\ SameRule(w, v)
        BY <3>1, <3>3, <3>4 DEF SameRule
      <4>2. QED
        BY <4>1, <2>3, <2>4
    <3>5. CASE \E g \in plan[a].generated : SameRule(w, g) /\ g.count >= w.count
      <4>1. PICK g \in plan[a].generated : SameRule(w, g) /\ g.count >= w.count
        BY <3>5
      <4>2. g \in Violations
        BY LayoutType DEF PlanRows
      <4>3. g.count \in Int /\ w.count \in Int /\ v.count \in Int
        BY <2>1, <3>2, <4>2, CountsAreNumbers
      <4>4. g.count >= v.count
        BY <3>1, <4>1, <4>3
      <4>5. SameRule(v, g)
        BY <3>1, <4>1 DEF SameRule
      <4>6. QED
        BY <4>4, <4>5
    <3>6. QED
      BY <3>4, <3>5 DEF Accounted
  <2>7. QED
    BY <2>5, <2>6
<1>3. QED
    BY <1>1, <1>2

\* A plan resolves to the target of one of its VMs that are in the inventory.
LEMMA TargetOfAMember ==
    ASSUME Typed, NEW p \in Plans, TargetOf(p) # Unresolved
    PROVE  \E v \in Members(Layout(plan[p])) \cap rows : TargetOf(p) = Target(vm[v], maps)
<1>1. PICK layout \in LayoutsOf(DOMAIN vm) : layout = Layout(plan[p])
    BY LayoutType
<1>2. PICK left : left = Candidates(layout) \cap rows
    OBVIOUS
<1> DEFINE First == CHOOSE v \in left : \A w \in left \ {v} : Precedes(layout, v, w)
<1>3. TargetOf(p) = IF left = {} THEN Unresolved ELSE Target(vm[First], maps)
  <2> DEFINE own == Candidates(Layout(plan[p])) \cap rows
             ownFirst == CHOOSE v \in own : \A w \in own \ {v} : Precedes(Layout(plan[p]), v, w)
  <2>1. TargetOf(p) = IF own = {} THEN Unresolved ELSE Target(vm[ownFirst], maps)
    BY DEF TargetOf
  <2>2. own = left
    BY <1>1, <1>2
  <2>3. ownFirst = First
    BY <1>1, <2>2
  <2>4. QED
    BY <2>1, <2>2, <2>3
<1>4. left # {} /\ left \subseteq Members(layout) \cap rows
  <2>1. Candidates(layout) \subseteq Members(layout)
    BY DEF Candidates
  <2>2. QED
    BY <1>3, <1>2, <2>1
<1>5. Members(layout) \in SUBSET Nat
    BY DEF Members, LayoutsOf, Typed, Inventory
<1>6. \A v \in Members(layout) : WaveOf(layout, v) \in Numbers
    BY DEF Members, WaveOf
<1> DEFINE T == {WaveOf(layout, v) : v \in left}
<1>7. T \in SUBSET Nat /\ T # {}
    BY <1>4, <1>6 DEF Numbers
<1>8. Least(T) \in T /\ \A n \in T : Least(T) <= n
  <2> HIDE DEF T
  <2>1. QED
    BY <1>7, HasLowest
<1>9. PICK k \in T : \A n \in T : k <= n
    BY <1>8
<1> DEFINE U == {v \in left : WaveOf(layout, v) = k}
<1>10. U \in SUBSET Nat /\ U # {}
    BY <1>4, <1>5, <1>9
<1>11. Least(U) \in U /\ \A v \in U : Least(U) <= v
  <2> HIDE DEF U
  <2>1. QED
    BY <1>10, HasLowest
<1>12. PICK f \in U : \A v \in U : f <= v
    BY <1>11
<1>13. ASSUME NEW w \in left \ {f} PROVE Precedes(layout, f, w)
  <2>1. WaveOf(layout, w) \in T /\ WaveOf(layout, f) = k
    BY <1>12, <1>13
  <2>2. WaveOf(layout, w) \in Nat /\ k \in Nat /\ k <= WaveOf(layout, w)
    BY <2>1, <1>7, <1>9
  <2>3. CASE WaveOf(layout, w) = k
    <3>1. w \in U /\ w \in Nat /\ f \in Nat /\ f <= w /\ f # w
      BY <1>10, <1>12, <1>13, <2>3
    <3>2. f < w
      BY <3>1
    <3>3. QED
      BY <2>1, <2>3, <3>2 DEF Precedes
  <2>4. CASE WaveOf(layout, w) # k
    <3>1. k < WaveOf(layout, w)
      BY <2>2, <2>4
    <3>2. QED
      BY <2>1, <3>1 DEF Precedes
  <2>5. QED
    BY <2>3, <2>4
<1>14. First \in left
    BY <1>12, <1>13
<1>15. QED
    BY <1>3, <1>1, <1>4, <1>14

\* A plan of one target resolves to it, if it resolves at all.
LEMMA ResolvesWhereItGoes ==
    ASSUME Typed, NEW p \in Plans, NEW t, Goes(plan[p], t), TargetOf(p) # Unresolved
    PROVE  TargetOf(p) = t
BY TargetOfAMember DEF Goes

\* What is admitted to a plan goes where it resolves to, and is covered there.
LEMMA AdmittedFit ==
    ASSUME NEW r, NEW p, NEW t, NEW vs, NEW dest, Edited(r, p, t, vs, dest), t # NoPlan, p # t
    PROVE  /\ TargetOf(t) # Unresolved
           /\ \A v \in vs : /\ Target(vm[v], maps) = TargetOf(t)
                            /\ Covered(vm[v], PlanMappings(plan[t]))
<1>1. Admits(p, t, vs)
    BY SidesAreFree DEF Entering
<1>2. QED
    BY <1>1 DEF Admits, SameTarget, SamePartition

\* The VMs an edit moves end up in one wave.
LEMMA MovedToOneWave ==
    ASSUME NEW r, NEW p, NEW t, NEW vs, NEW dest, Edited(r, p, t, vs, dest),
           NEW q \in Plans \cap {p, t}, NEW n \in Numbers, NEW x \in vs,
           x \in After(q, p, t, vs, dest)[n]
    PROVE  q = t /\ n = dest
<1>1. q # NoPlan
    BY PlansAssumption DEF NoPlan
<1>2. CASE q = p
    BY <1>2 DEF After
<1>3. CASE q # p
  <2>1. q = t /\ Entering(p, t)
    BY <1>1, <1>3 DEF Entering
  <2>2. x \notin Layout(plan[t])[n]
    BY <2>1, SidesAreFree DEF Members
  <2>3. QED
    BY <2>1, <2>2 DEF After
<1>4. QED
    BY <1>2, <1>3

\* Whom a plan has after an edit: its own VMs, and those that enter.
LEMMA MembersAfter ==
    ASSUME Typed, NEW r, NEW p, NEW t, NEW vs, NEW dest, Edited(r, p, t, vs, dest),
           NEW q \in Plans \cap {p, t}, NEW n \in Numbers, NEW v,
           v \in Left(q, After(q, p, t, vs, dest))[n]
    PROVE  \/ v \in Members(Layout(plan[q]))
           \/ v \in vs /\ q = t /\ t # NoPlan /\ p # t
<1>1. v \in After(q, p, t, vs, dest)[n]
    BY LeftLayout, AfterLayouts DEF Edited
<1>2. v \in Layout(plan[q])[n] \/ (v \in vs /\ q = t)
    BY <1>1 DEF After
<1>3. q # NoPlan
    BY PlansAssumption DEF NoPlan
<1>4. p = t /\ q = t => vs \subseteq Members(Layout(plan[q]))
    BY <1>3 DEF Edited
<1>5. QED
    BY <1>2, <1>3, <1>4 DEF Members

\* No wave of it loses its YAML, or is new without.
LEMMA EditedYaml ==
    ASSUME Typed, NEW r, NEW p, NEW t, NEW vs, NEW dest, Edited(r, p, t, vs, dest),
           NEW q \in Plans \cap {p, t}, NEW d, d = Changed(q, p, t, vs, dest), Placed(plan[q]),
           NEW n \in Numbers, Layout(d)[n] # {}
    PROVE  d.waves[n].yaml
<1>1. PICK after : after = After(q, p, t, vs, dest)
    OBVIOUS
<1>2. /\ after \in LayoutsOf(DOMAIN vm) /\ Layout(d) = Left(q, after)
      /\ RebuiltAs(q, after, d.waves)
    BY <1>1, ChangedRow
<1>3. d.waves[n].yaml = IF n \in Touched(q, after) THEN Yaml(plan[q], after[n] \cap rows)
                        ELSE plan[q].waves[n].yaml
    BY <1>2 DEF RebuiltAs
<1>4. CASE n \notin Touched(q, after)
  <2>1. Left(q, after)[n] = Layout(plan[q])[n]
    BY <1>4 DEF Left
  <2>2. QED
    BY <1>2, <1>3, <1>4, <2>1 DEF Placed
<1>5. CASE n \in Touched(q, after)
  <2>1. after[n] \cap rows # {}
    BY <1>2, <1>5 DEF Left
  <2>2. n \in Keys(Layout(plan[q])) => plan[q].waves[n].yaml
    BY DEF Keys, Placed
  <2>3. ~YamlLost(q, after)
    BY <1>1, SidesAreFree DEF Blocked
  <2>4. Yaml(plan[q], after[n] \cap rows)
    BY <1>5, <2>1, <2>2, <2>3 DEF YamlLost
  <2>5. QED
    BY <1>3, <1>5, <2>4
<1>6. QED
    BY <1>4, <1>5

\* An edit keeps its plans within their partition, covered and rendered.
LEMMA EditedPlaced ==
    ASSUME Typed, NEW r, NEW p, NEW t, NEW vs, NEW dest, Edited(r, p, t, vs, dest),
           NEW q \in Plans \cap {p, t}, NEW d, d = Changed(q, p, t, vs, dest), Placed(plan[q])
    PROVE  Placed(d)
<1>1. d.pair = plan[q].pair /\ Layout(d) = Left(q, After(q, p, t, vs, dest))
    BY ChangedRow
<1>2. PlanMappings(d) = PlanMappings(plan[q])
    BY <1>1 DEF PlanMappings
<1>3. PICK g : Goes(plan[q], g)
    BY DEF Placed
<1>4. ASSUME NEW v \in Members(Layout(d))
      PROVE  Target(vm[v], maps) = g /\ Covered(vm[v], PlanMappings(d))
  <2>1. PICK n \in Numbers : v \in Left(q, After(q, p, t, vs, dest))[n]
    BY <1>1, <1>4 DEF Members
  <2>2. CASE v \in Members(Layout(plan[q]))
    BY <1>2, <1>3, <2>2 DEF Goes, Placed
  <2>3. CASE v \in vs /\ q = t /\ t # NoPlan /\ p # t
    <3>1. /\ TargetOf(q) # Unresolved /\ Target(vm[v], maps) = TargetOf(q)
          /\ Covered(vm[v], PlanMappings(plan[q]))
      BY <2>3, AdmittedFit
    <3>2. QED
      BY <1>2, <1>3, <3>1, ResolvesWhereItGoes
  <2>4. QED
    BY <2>1, <2>2, <2>3, MembersAfter
<1>5. Goes(d, g)
    BY <1>1, <1>3, <1>4 DEF Goes, OfItsPartition
<1>6. QED
    BY <1>4, <1>5, EditedYaml DEF Placed

\* What an edit will make of a plan that is good is good.
LEMMA EditedGood ==
    ASSUME Typed, NEW r, NEW p, NEW t, NEW vs, NEW dest, Edited(r, p, t, vs, dest),
           NEW q \in Plans \cap {p, t}, NEW d, d = Changed(q, p, t, vs, dest), Good(plan[q])
    PROVE  Good(d)
<1>1. PICK after : after = After(q, p, t, vs, dest)
    OBVIOUS
<1>2. /\ after \in LayoutsOf(DOMAIN vm) /\ Layout(d) = Left(q, after)
      /\ RebuiltAs(q, after, d.waves) /\ d.generated = plan[q].generated
      /\ ~d.dropped => ~plan[q].dropped /\ Left(q, after) = after
    BY <1>1, ChangedRow
<1>3. Apart(d)
  <2> SUFFICES ASSUME NEW m \in Numbers, NEW n \in Numbers, m # n,
                      NEW x, x \in Layout(d)[m], x \in Layout(d)[n]
               PROVE  FALSE
    BY DEF Apart
  <2>1. x \in after[m] /\ x \in after[n]
    BY <1>2, LeftLayout
  <2>2. CASE x \in vs
    BY <1>1, <2>1, <2>2, MovedToOneWave
  <2>3. CASE x \notin vs
    <3>1. x \in Layout(plan[q])[m] /\ x \in Layout(plan[q])[n]
      BY <1>1, <2>1, <2>3 DEF After
    <3>2. QED
      BY <3>1 DEF Good, Apart
  <2>4. QED
    BY <2>2, <2>3
<1>4. ASSUME ~renamed PROVE Recorded(d)
  <2> SUFFICES ASSUME ~d.dropped PROVE OnRecord(d) /\ Accounted(d)
    BY DEF Recorded
  <2>1. OnRecord(plan[q]) /\ Accounted(plan[q]) /\ Left(q, after) = after /\ Layout(d) = after
    BY <1>2, <1>4 DEF Good, Recorded
  <2>2. /\ \A n \in Numbers : d.waves[n].overrides \subseteq CheckWaves(after)
        /\ \A v \in CheckWaves(after) :
              \/ v \in d.waves[v.wave].overrides
              \/ \E w \in plan[q].generated : SameRule(v, w) /\ w.count >= v.count
    BY <1>2, <2>1, EditedRules
  <2>3. QED
    BY <1>2, <2>1, <2>2 DEF OnRecord, Accounted
<1>5. ASSUME ~changed PROVE Placed(d) /\ Proper(d)
  <2>1. Placed(d)
    BY <1>5, EditedPlaced DEF Good
  <2>2. Proper(d)
    BY <1>2 DEF Proper, RebuiltAs
  <2>3. QED
    BY <2>1, <2>2
<1>6. QED
    BY <1>3, <1>4, <1>5 DEF Good

\* A status of its own changes nothing of that.
LEMMA StatusGood ==
    ASSUME NEW c \in PlanRows, NEW d, d = [c EXCEPT !.status = "migrated"], Good(c)
    PROVE  d \in PlanRows /\ Good(d)
<1>1. /\ d \in PlanRows /\ d.waves = c.waves /\ d.pair = c.pair
      /\ d.generated = c.generated /\ d.dropped = c.dropped
    BY DEF PlanRows
<1>2. Layout(d) = Layout(c) /\ PlanMappings(d) = PlanMappings(c)
    BY <1>1 DEF Layout, PlanMappings
<1>3. Apart(d)
    BY <1>2 DEF Good, Apart
<1>4. ~renamed => Recorded(d)
    BY <1>1, <1>2 DEF Good, Recorded, OnRecord, Accounted
<1>5. ASSUME ~changed PROVE Placed(d) /\ Proper(d)
  <2>1. Placed(c) /\ Proper(c)
    BY <1>5 DEF Good
  <2>2. PICK g : Goes(c, g)
    BY <2>1 DEF Placed
  <2>3. Goes(d, g)
    BY <1>1, <1>2, <2>2 DEF Goes, OfItsPartition
  <2>4. Placed(d)
    BY <1>1, <1>2, <2>1, <2>3 DEF Placed
  <2>5. Proper(d)
    BY <1>1, <1>2, <2>1 DEF Proper
  <2>6. QED
    BY <2>4, <2>5
<1>6. QED
    BY <1>1, <1>3, <1>4, <1>5 DEF Good


-----------------------------------------------------------------------------
(* Every row in play is good *)

LEMMA InPlayType ==
    ASSUME Typed, NEW d, InPlay(d)
    PROVE  d \in PlanRows
BY LayoutType, EditRows DEF InPlay

\* A row that is in play after a step was so before, or comes of an evaluation, or
\* has another status.
LEMMA RowsAfter ==
    ASSUME Typed, [Next]_vars, NEW CONSTANT d, InPlay(d)'
    PROVE  \/ InPlay(d)
           \/ \E c : InPlay(c) /\ d = [c EXCEPT !.status = "migrated"]
           \/ \E r, p, t, vs, dest : \E q \in Plans \cap {p, t} :
                 Edited(r, p, t, vs, dest) /\ d = Changed(q, p, t, vs, dest)
<1>1. \/ \E q \in Plans : d = plan'[q]
      \/ \E r \in Requests : \E q \in DOMAIN req'[r].rows : d = req'[r].rows[q]
    BY DEF InPlay
<1>2. ASSUME plan' = plan, \A s \in Requests : req'[s].rows = req[s].rows
      PROVE  InPlay(d)
    BY <1>1, <1>2 DEF InPlay
<1>3. ASSUME NEW CONSTANT r, NEW CONSTANT p, NEW CONSTANT t, NEW CONSTANT vs, NEW CONSTANT dest,
             Edited(r, p, t, vs, dest)
      PROVE  InPlay(d) \/ \E q \in Plans \cap {p, t} : d = Changed(q, p, t, vs, dest)
  <2>1. /\ DOMAIN req'[r].rows = Plans \cap {p, t}
        /\ \A q \in Plans \cap {p, t} : req'[r].rows[q] = Changed(q, p, t, vs, dest)
        /\ \A s \in Requests \ {r} : req'[s] = req[s]
        /\ plan' = plan
    BY <1>3, EditedEdits, EditWrites
  <2>2. QED
    BY <1>1, <2>1 DEF InPlay
<1>4. ASSUME NEW r \in Requests, Done(r),
             \A q \in Plans : plan'[q] = plan[q] \/ (q \in DOMAIN req[r].rows /\ plan'[q] = req[r].rows[q])
      PROVE  InPlay(d)
  <2>1. /\ DOMAIN req'[r].rows = {}
        /\ \A s \in Requests \ {r} : req'[s] = req[s]
    BY <1>4, DoneEdits
  <2>2. QED
    BY <1>1, <1>4, <2>1 DEF InPlay
<1>5. ASSUME NEW r \in Requests, Commit(r) PROVE InPlay(d)
  <2>1. Done(r) /\ plan' = [q \in Plans |-> IF q \in DOMAIN req[r].rows THEN req[r].rows[q] ELSE plan[q]]
    BY <1>5 DEF Commit
  <2>2. QED
    BY <1>4, <2>1
<1>6. ASSUME NEW r \in Requests, Refuse(r) PROVE InPlay(d)
    BY <1>4, <1>6 DEF Refuse
<1>7. ASSUME NEW p \in Plans, MarkSucceeded(p)
      PROVE  InPlay(d) \/ \E c : InPlay(c) /\ d = [c EXCEPT !.status = "migrated"]
  <2>1. req' = req /\ plan' = [plan EXCEPT ![p].status = "migrated"]
    BY <1>7 DEF MarkSucceeded
  <2>2. \A q \in Plans : plan'[q] = plan[q] \/ plan'[q] = [plan[q] EXCEPT !.status = "migrated"]
    BY <2>1 DEF Typed
  <2>3. QED
    BY <1>1, <2>1, <2>2 DEF InPlay
<1>8. ASSUME NEW v \in rows, DeleteVM(v) PROVE InPlay(d)
    BY <1>2, <1>8, OutdatedEdits DEF DeleteVM
<1>9. ASSUME NEW v \in rows, EditVM(v) PROVE InPlay(d)
    BY <1>2, <1>9, OutdatedEdits DEF EditVM
<1>10. ASSUME EditMappings PROVE InPlay(d)
    BY <1>2, <1>10, OutdatedEdits DEF EditMappings
<1>11. ASSUME UNCHANGED vars PROVE InPlay(d)
    BY <1>2, <1>11 DEF vars
<1>12. QED
    BY StepsOfNext, <1>3, <1>5, <1>6, <1>7, <1>8, <1>9, <1>10, <1>11

LEMMA NextGood == Typed /\ AllGood /\ [Next]_vars => AllGood'
<1> SUFFICES ASSUME Typed, AllGood, [Next]_vars, NEW CONSTANT d, InPlay(d)'
             PROVE  Good(d)'
    BY DEF AllGood
<1>1. Inventory /\ Around
    BY StepsAround DEF Typed
<1>2. CASE InPlay(d)
  <2>1. d \in PlanRows /\ Good(d)
    BY <1>2, InPlayType DEF AllGood
  <2>2. QED
    BY <1>1, <2>1, KeptGood
<1>3. ASSUME NEW c, InPlay(c), d = [c EXCEPT !.status = "migrated"] PROVE Good(d)'
  <2>1. c \in PlanRows /\ Good(c)
    BY <1>3, InPlayType DEF AllGood
  <2>2. d \in PlanRows /\ Good(d)
    BY <1>3, <2>1, StatusGood
  <2>3. QED
    BY <1>1, <2>2, KeptGood
<1>4. ASSUME NEW r, NEW p, NEW t, NEW vs, NEW dest, NEW q \in Plans \cap {p, t},
             Edited(r, p, t, vs, dest), d = Changed(q, p, t, vs, dest)
      PROVE  Good(d)'
  <2>1. InPlay(plan[q])
    BY DEF InPlay
  <2>2. Good(plan[q])
    BY <2>1 DEF AllGood
  <2>3. d \in PlanRows /\ Good(d)
    BY <1>4, <2>2, ChangedRow, EditedGood
  <2>4. QED
    BY <1>1, <2>3, KeptGood
<1>5. QED
    BY RowsAfter, <1>2, <1>3, <1>4

-----------------------------------------------------------------------------
(* Edits that nothing has overtaken *)

\* The edit that makes c into d leaves it in its partition.
Stays(c, d) == Uniform(c) /\ Members(Layout(d)) \cap rows # {} => Uniform(d)

FreshEdits ==
    \A r \in Requests : ~req[r].stale =>
       \A q \in DOMAIN req[r].rows : \A c, d : c = plan[q] /\ d = req[r].rows[q] => Stays(c, d)

\* An evaluation keeps plans within their partitions, whatever was retargeted.
LEMMA EditedStays ==
    ASSUME Typed, NEW r, NEW p, NEW t, NEW vs, NEW dest, Edited(r, p, t, vs, dest),
           NEW q \in Plans \cap {p, t}, NEW d, d = Changed(q, p, t, vs, dest)
    PROVE  Stays(plan[q], d)
<1> SUFFICES ASSUME Uniform(plan[q]), NEW u \in Members(Layout(d)) \cap rows PROVE Uniform(d)
    BY DEF Stays
<1>1. PICK g : /\ g # Unresolved
               /\ \A v \in Members(Layout(plan[q])) \cap rows : Target(vm[v], maps) = g
    BY DEF Uniform
<1>2. Layout(d) = Left(q, After(q, p, t, vs, dest))
    BY ChangedRow
<1>3. ASSUME NEW v \in Members(Layout(d)) \cap rows PROVE Target(vm[v], maps) = g
  <2>1. PICK n \in Numbers : v \in Left(q, After(q, p, t, vs, dest))[n]
    BY <1>2 DEF Members
  <2>2. CASE v \in Members(Layout(plan[q]))
    BY <1>1, <2>2
  <2>3. CASE v \in vs /\ q = t /\ t # NoPlan /\ p # t
    <3>1. TargetOf(q) # Unresolved /\ Target(vm[v], maps) = TargetOf(q)
      BY <2>3, AdmittedFit
    <3>2. PICK w \in Members(Layout(plan[q])) \cap rows : TargetOf(q) = Target(vm[w], maps)
      BY <3>1, TargetOfAMember
    <3>3. QED
      BY <1>1, <3>1, <3>2
  <2>4. QED
    BY <2>1, <2>2, <2>3, MembersAfter
<1>4. QED
  <2>1. Target(vm[u], maps) = g
    BY <1>3
  <2>2. QED
    BY <1>1, <1>3, <2>1 DEF Uniform

\* A step that changes neither VMs nor mappings.
LEMMA UniformKept ==
    ASSUME UNCHANGED <<vm, rows, maps>>, NEW CONSTANT d
    PROVE  (Uniform(d)' <=> Uniform(d)) /\ Members(Layout(d))' = Members(Layout(d))
<1>1. Layout(d)' = Layout(d)
    BY DEF Layout
<1>2. Members(Layout(d))' = Members(Layout(d))
    BY <1>1 DEF Members
<1>3. Uniform(d)' <=> Uniform(d)
  <2>1. PICK M : M = Members(Layout(d))
    OBVIOUS
  <2>2. Members(Layout(d))' = M
    BY <1>2, <2>1
  <2>3. QED
    BY <2>1, <2>2 DEF Uniform
<1>4. QED
    BY <1>2, <1>3

LEMMA StaysKept ==
    ASSUME UNCHANGED <<vm, rows, maps>>, NEW CONSTANT c, NEW CONSTANT d, Stays(c, d)
    PROVE  Stays(c, d)'
BY UniformKept DEF Stays

LEMMA NextFresh == Typed /\ FreshEdits /\ [Next]_vars => FreshEdits'
<1> SUFFICES ASSUME Typed, FreshEdits, [Next]_vars,
                    NEW CONSTANT s \in Requests, ~req'[s].stale,
                    NEW CONSTANT q, q \in DOMAIN req'[s].rows,
                    NEW CONSTANT c, NEW CONSTANT d, c = plan'[q], d = req'[s].rows[q]
             PROVE  Stays(c, d)'
    BY DEF FreshEdits
<1>1. ASSUME req'[s] = req[s], plan'[q] = plan[q], UNCHANGED <<vm, rows, maps>>
      PROVE  Stays(c, d)'
  <2>1. Stays(c, d)
    BY <1>1 DEF FreshEdits
  <2>2. QED
    BY <1>1, <2>1, StaysKept
<1>2. ASSUME Outdate PROVE FALSE
    BY <1>2, OutdatedEdits
<1>3. ASSUME NEW CONSTANT r, NEW CONSTANT p, NEW CONSTANT t, NEW CONSTANT vs, NEW CONSTANT dest,
             Edited(r, p, t, vs, dest)
      PROVE  Stays(c, d)'
  <2>1. /\ UNCHANGED <<vm, rows, maps>> /\ plan' = plan
        /\ DOMAIN req'[r].rows = Plans \cap {p, t}
        /\ \A a \in Plans \cap {p, t} : req'[r].rows[a] = Changed(a, p, t, vs, dest)
        /\ \A a \in Requests \ {r} : req'[a] = req[a]
    BY <1>3, EditedEdits, EditWrites
  <2>2. CASE s # r
    BY <1>1, <2>1, <2>2
  <2>3. CASE s = r
    <3>1. q \in Plans \cap {p, t} /\ c = plan[q] /\ d = Changed(q, p, t, vs, dest)
      BY <2>1, <2>3
    <3>2. Stays(c, d)
      BY <1>3, <3>1, EditedStays
    <3>3. QED
      BY <2>1, <3>2, StaysKept
  <2>4. QED
    BY <2>2, <2>3
<1>4. ASSUME NEW r \in Requests, Commit(r) \/ Refuse(r) PROVE Stays(c, d)'
  <2>1. Done(r) /\ UNCHANGED <<vm, rows, maps>>
    BY <1>4 DEF Commit, Refuse
  <2>2. s # r /\ req'[s] = req[s]
    BY <2>1, DoneEdits
  <2>3. q \in Plans /\ q \notin DOMAIN req[r].rows
    BY <2>2, EditRows DEF Typed
  <2>4. plan'[q] = plan[q]
    BY <1>4, <2>3 DEF Commit, Refuse
  <2>5. QED
    BY <1>1, <2>1, <2>2, <2>4
<1>5. ASSUME NEW p \in Plans, MarkSucceeded(p) PROVE Stays(c, d)'
  <2>1. req' = req /\ UNCHANGED <<vm, rows, maps>> /\ plan' = [plan EXCEPT ![p].status = "migrated"]
    BY <1>5 DEF MarkSucceeded
  <2>2. q # p
    BY <1>5, <2>1 DEF MarkSucceeded, Locked
  <2>3. plan'[q] = plan[q]
    BY <2>1, <2>2, EditRows DEF Typed
  <2>4. QED
    BY <1>1, <2>1, <2>3
<1>6. ASSUME NEW v \in rows, DeleteVM(v) \/ EditVM(v) PROVE FALSE
    BY <1>2, <1>6 DEF DeleteVM, EditVM
<1>7. ASSUME EditMappings PROVE FALSE
    BY <1>2, <1>7 DEF EditMappings
<1>8. ASSUME UNCHANGED vars PROVE Stays(c, d)'
    BY <1>1, <1>8 DEF vars
<1>9. QED
    BY StepsOfNext, <1>3, <1>4, <1>5, <1>6, <1>7, <1>8

\* Only a commit and a refusal end an edit.
LEMMA DoneSteps ==
    ASSUME Typed, [Next]_vars, NEW r \in Requests, Done(r)
    PROVE  Commit(r) \/ Refuse(r)
<1>1. req[r] # NoEdit /\ req'[r] = NoEdit /\ \A s \in Requests \ {r} : req'[s] = req[s]
    BY DEF Done, Typed
<1>2. ASSUME Outdate PROVE FALSE
    BY <1>1, <1>2, OutdatedEdits
<1>3. ASSUME NEW CONSTANT s, NEW CONSTANT p, NEW CONSTANT t, NEW CONSTANT vs, NEW CONSTANT dest,
             Edited(s, p, t, vs, dest)
      PROVE  FALSE
  <2>1. s \in Requests /\ req'[s] # NoEdit /\ req[s] = NoEdit
    BY <1>3, EditedEdits, EditWrites DEF Edited
  <2>2. QED
    BY <1>1, <2>1
<1>4. ASSUME NEW s \in Requests, s # r, Commit(s) \/ Refuse(s) PROVE FALSE
  <2>1. Done(s)
    BY <1>4 DEF Commit, Refuse
  <2>2. req[s] # NoEdit /\ req'[s] = NoEdit
    BY <2>1 DEF Done, Typed
  <2>3. QED
    BY <1>1, <1>4, <2>2
<1>5. ASSUME req' = req PROVE FALSE
    BY <1>1, <1>5
<1>6. QED
    BY StepsOfNext, <1>2, <1>3, <1>4, <1>5 DEF MarkSucceeded, DeleteVM, EditVM, EditMappings, vars

-----------------------------------------------------------------------------
(* What generation leaves *)

LEMMA GeneratedPlan ==
    ASSUME Init, NEW a \in Plans
    PROVE  /\ Inventory /\ rows = DOMAIN vm
           /\ plan[a] \in PlanRows
           /\ plan[a].generated = CheckWaves(Layout(plan[a]))
           /\ \A n \in Numbers : /\ plan[a].waves[n].overrides = {}
                                 /\ Layout(plan[a])[n] # {} => plan[a].waves[n].yaml
           /\ Apart(plan[a]) /\ Proper(plan[a])
<1>1. PICK l \in Layouts : vm = l.vm /\ rows = DOMAIN vm /\ plan = Generated(l.plans)
    BY DEF Init
<1>2. Inventory
  <2>1. \A v \in DOMAIN vm : NameOf(vm[v]) \in Families
    BY <1>1, SMTT(60) DEF Families
  <2>2. QED
    BY <1>1, <2>1, LayoutsAssumption, SMTT(30) DEF Inventory
<1>3. PICK w : w = [n \in Numbers |-> [NoDoc EXCEPT !.vms = l.plans[a].waves[n],
                                                     !.yaml = l.plans[a].waves[n] # {}]]
    OBVIOUS
<1>4. PICK c : c = Coloured(w)
    OBVIOUS
<1>5. PICK layout : layout = [n \in Numbers |-> l.plans[a].waves[n]]
    OBVIOUS
<1>6. PICK rules : rules = CheckWaves(layout)
    OBVIOUS
<1>7. plan[a] = [type |-> l.plans[a].type, status |-> "complete", pair |-> l.plans[a].pair,
                 seq |-> 0, waves |-> c, generated |-> rules, dropped |-> FALSE]
    BY <1>1, <1>3, <1>4, <1>5, <1>6, Zenon DEF Generated
<1>8. ASSUME NEW n \in Numbers
      PROVE  /\ w[n] \in Docs /\ w[n].vms = layout[n] /\ w[n].overrides = {}
             /\ w[n].vms # {} => w[n].yaml
  <2>1. l.plans[a].waves[n] \in SUBSET DOMAIN vm
    BY <1>1, LayoutsAssumption DEF Numbers
  <2>2. PICK b \in BOOLEAN : b = (l.plans[a].waves[n] # {})
    OBVIOUS
  <2>3. PICK vms \in SUBSET DOMAIN vm : vms = l.plans[a].waves[n]
    BY <2>1
  <2>4. w[n] = [vms |-> vms, overrides |-> {}, yaml |-> b, colour |-> 0]
    BY <1>3, <2>2, <2>3 DEF NoDoc
  <2>5. w[n] \in Docs
    BY <2>4 DEF Docs
  <2>6. w[n].vms = vms /\ w[n].overrides = {} /\ w[n].yaml = b
    BY <2>4
  <2>7. ASSUME vms # {} PROVE b
    BY <2>2, <2>3, <2>7
  <2>8. QED
    <3>1. w[n].vms = layout[n]
      BY <1>5, <2>3, <2>6
    <3>2. w[n].vms # {} => w[n].yaml
      BY <2>6, <2>7, Zenon
    <3>3. QED
      BY <2>5, <2>6, <3>1, <3>2, Zenon
<1>9. w \in [Numbers -> Docs]
  <2>1. \A n \in Numbers : w[n] \in Docs
    BY <1>8
  <2>2. w = [n \in Numbers |-> w[n]]
    BY <1>3
  <2>3. QED
    BY <2>1, <2>2
<1>10. /\ c \in Documents
       /\ \A n \in Numbers : c[n].vms = w[n].vms
       /\ \A n \in Numbers : w[n].vms # {} => c[n].overrides = w[n].overrides /\ c[n].yaml = w[n].yaml
       /\ \A m, n \in Numbers :
             m # n /\ w[m].vms # {} /\ w[n].vms # {} /\ Conflict(ShellWave(w[m].vms), ShellWave(w[n].vms))
             => c[m].colour # c[n].colour
    BY <1>4, <1>9, ColouredDocs
<1>11. plan[a].waves = c /\ plan[a].generated = rules
    BY <1>7
<1>12. layout \in LayoutsOf(DOMAIN vm)
  <2>1. \A n \in Numbers : layout[n] \in SUBSET DOMAIN vm
    BY <1>8 DEF Docs
  <2>2. QED
    BY <1>5, <2>1 DEF LayoutsOf
<1>13. Layout(plan[a]) = layout
  <2>1. \A n \in Numbers : c[n].vms = layout[n]
    BY <1>8, <1>10
  <2>2. QED
    BY <1>5, <1>11, <2>1 DEF Layout
<1>14. plan[a] \in PlanRows
  <2>1. l.plans[a].type \in {"cold", "warm"} /\ l.plans[a].pair \in Pairs
    BY LayoutsAssumption DEF Pairs
  <2>2. \A x \in rules : x \in Violations
    BY <1>2, <1>6, <1>12, RulesFindViolations
  <2>3. QED
    BY <1>7, <1>10, <2>1, <2>2 DEF PlanRows
<1>15. ASSUME NEW n \in Numbers PROVE c[n].overrides = {} /\ (layout[n] # {} => c[n].yaml)
  <2>1. CASE w[n].vms = {}
    <3>1. c[n] = NoDoc
      BY <1>10, <2>1 DEF Documents
    <3>2. QED
      BY <1>8, <2>1, <3>1 DEF NoDoc
  <2>2. CASE w[n].vms # {}
    BY <1>8, <1>10, <2>2
  <2>3. QED
    BY <2>1, <2>2
<1>16. Apart(plan[a])
  <2>1. \A m, n \in Numbers : m # n => layout[m] \cap layout[n] = {}
    BY <1>5, LayoutsAssumption DEF Numbers
  <2>2. QED
    BY <1>13, <2>1 DEF Apart
<1>17. Proper(plan[a])
  <2>1. \A n \in Numbers : w[n].vms = layout[n]
    BY <1>8
  <2>2. QED
    BY <1>10, <1>11, <1>13, <2>1 DEF Proper
<1>18. QED
    BY <1>1, <1>2, <1>6, <1>11, <1>13, <1>14, <1>15, <1>16, <1>17

EInv == Typed /\ AllGood /\ FreshEdits

\* The invariant holds initially.
LEMMA InitEInv == Init => EInv
<1> SUFFICES ASSUME Init PROVE EInv
    OBVIOUS
<1>1. PICK l \in Layouts : vm = l.vm /\ rows = DOMAIN vm /\ maps \in Mappings /\ plan = Generated(l.plans)
    BY DEF Init
<1>2. Inventory
  <2>1. \A v \in DOMAIN vm : NameOf(vm[v]) \in Families
    BY <1>1 DEF Families
  <2>2. QED
    BY <1>1, <2>1, LayoutsAssumption, SMTT(30) DEF Inventory
<1>3. plan \in [Plans -> PlanRows]
  <2>1. \A a \in Plans : plan[a] \in PlanRows
    BY GeneratedPlan, SMTT(60)
  <2>2. plan = [a \in Plans |-> plan[a]]
    BY <1>1 DEF Generated
  <2>3. QED
    BY <2>1, <2>2
<1>4. req \in [Requests -> Edits] /\ \A r \in Requests : DOMAIN req[r].rows = {}
    BY NoEditType DEF Init
<1>5. lifecycle \in [DOMAIN vm -> Lifecycles]
    BY DEF Init, Lifecycles
<1>6. Typed
  <2>1. changed \in BOOLEAN /\ renamed \in BOOLEAN /\ events = 0
    BY DEF Init
  <2>2. events \in 0..MaxEvents
    BY <2>1, BoundsAssumption
  <2>3. \A r, s \in Requests : r # s => DOMAIN req[r].rows \cap DOMAIN req[s].rows = {}
    BY <1>4
  <2>4. QED
    BY <1>1, <1>2, <1>3, <1>4, <1>5, <2>1, <2>2, <2>3, Zenon DEF Typed
<1>7. FreshEdits
    BY <1>4 DEF FreshEdits
<1>8. ASSUME NEW a \in Plans PROVE Good(plan[a])
  <2>1. Recorded(plan[a])
    <3>1. OnRecord(plan[a])
      BY GeneratedPlan DEF OnRecord
    <3>2. \A v \in CheckWaves(Layout(plan[a])) : v \in plan[a].generated /\ v \in Violations
      BY <1>2, GeneratedPlan, LayoutType, <1>6, RulesFindViolations
    <3>3. \A v \in CheckWaves(Layout(plan[a])) :
             v \in plan[a].generated /\ SameRule(v, v) /\ v.count >= v.count
      BY <3>2, CountsAreNumbers DEF SameRule
    <3>4. Accounted(plan[a])
      BY <3>3 DEF Accounted
    <3>5. QED
      BY <3>1, <3>4 DEF Recorded
  <2>2. PICK d : d = plan[a]
    OBVIOUS
  <2>3. Sound(d)
    BY <2>2 DEF Init
  <2>4. Members(Layout(d)) \cap rows = Members(Layout(d))
    BY <1>1, <1>6, <2>2, LayoutType DEF Members, LayoutsOf
  <2>5. PICK t : /\ t # Unresolved
                 /\ \A v \in Members(Layout(d)) : Target(vm[v], maps) = t
                 /\ \E u \in Members(Layout(d)) : t = Target(vm[u], maps)
    BY <2>3, <2>4 DEF Sound, Uniform
  <2>6. OfItsPartition(d, t)
    <3>1. PICK u \in Members(Layout(d)) : t = Target(vm[u], maps)
      BY <2>5
    <3>2. OfItsPartition(d, Target(vm[u], maps))
      BY <2>3, Zenon DEF Sound
    <3>3. QED
      BY <3>1, <3>2
  <2>7. \A n \in Numbers : Layout(d)[n] # {} => d.waves[n].yaml
    BY <2>2, GeneratedPlan
  <2>8. Goes(d, t)
    BY <2>5, <2>6 DEF Goes
  <2>9. \A v \in Members(Layout(d)) : Covered(vm[v], PlanMappings(d))
    BY <2>3, Zenon DEF Sound
  <2>10. Placed(d)
    BY <2>7, <2>8, <2>9, Zenon DEF Placed
  <2>11. QED
    BY <2>1, <2>2, <2>10, GeneratedPlan DEF Good
<1>9. AllGood
    BY <1>4, <1>8 DEF AllGood, InPlay
<1>10. QED
    BY <1>6, <1>7, <1>9 DEF EInv

LEMMA NextEInv == EInv /\ [Next]_vars => EInv'
<1> SUFFICES ASSUME EInv, [Next]_vars PROVE EInv'
    OBVIOUS
<1>1. Typed /\ AllGood /\ FreshEdits
    BY DEF EInv
<1>2. Typed' /\ AllGood' /\ FreshEdits'
    BY <1>1, NextTyped, NextGood, NextFresh
<1>3. QED
    BY <1>2 DEF EInv

-----------------------------------------------------------------------------
(* What follows from the invariant *)

LEMMA PlansAreGood ==
    ASSUME EInv, NEW p \in Plans
    PROVE  Typed /\ plan[p] \in PlanRows /\ Good(plan[p])
BY LayoutType DEF EInv, AllGood, InPlay

LEMMA WellFormedRow ==
    ASSUME NEW d \in PlanRows, Apart(d)
    PROVE  WellFormed(d)
<1>1. /\ d.type \in {"cold", "warm"} /\ d.status \in {"complete", "migrated"}
      /\ d.seq \in Numbers \cup {0} /\ d.dropped \in BOOLEAN /\ d.generated \subseteq Violations
    BY DEF PlanRows
<1>2. ASSUME NEW n \in Numbers
      PROVE  LET doc == d.waves[n] IN
                /\ doc.vms \subseteq DOMAIN vm /\ doc.overrides \subseteq Violations
                /\ doc.yaml \in BOOLEAN /\ doc.colour \in Nat
                /\ doc.vms = {} => doc = NoDoc
  <2>1. PICK doc \in Docs : doc = d.waves[n]
    BY RowType
  <2>2. doc.vms = {} => doc = NoDoc
    <3> HIDE DEF NoDoc
    <3>1. QED
      BY <2>1, RowType DEF Documents
  <2>3. doc.vms \subseteq DOMAIN vm /\ doc.overrides \subseteq Violations
        /\ doc.yaml \in BOOLEAN /\ doc.colour \in Nat
    BY DEF Docs
  <2>4. QED
    BY <2>1, <2>2, <2>3, Zenon
<1>3. \A m, n \in Numbers : m # n => Layout(d)[m] \cap Layout(d)[n] = {}
    BY DEF Apart
<1>4. QED
    BY <1>1, <1>2, <1>3, Zenon DEF WellFormed

LEMMA TypesOfInvariant == EInv => TypeOK
<1> SUFFICES ASSUME EInv PROVE TypeOK
    OBVIOUS
<1>1. Typed /\ AllGood
    BY DEF EInv
<1>2. /\ rows \subseteq DOMAIN vm /\ maps \in Mappings
      /\ lifecycle \in [DOMAIN vm -> {"available", "planned", "migrated"}]
      /\ changed \in BOOLEAN /\ renamed \in BOOLEAN /\ events \in 0..MaxEvents
    BY <1>1 DEF Typed, Inventory, Lifecycles
<1>3. \A p \in Plans : WellFormed(plan[p])
    BY PlansAreGood, WellFormedRow DEF Good
<1>4. ASSUME NEW r \in Requests, NEW q \in DOMAIN req[r].rows
      PROVE  /\ q \in Plans /\ WellFormed(req[r].rows[q])
             /\ \A s \in Requests \ {r} : q \notin DOMAIN req[s].rows
  <2>1. q \in Plans /\ req[r].rows[q] \in PlanRows
    BY <1>1, EditRows
  <2>2. InPlay(req[r].rows[q])
    BY DEF InPlay
  <2>3. WellFormed(req[r].rows[q])
    BY <1>1, <2>1, <2>2, WellFormedRow DEF AllGood, Good
  <2>4. \A s \in Requests \ {r} : q \notin DOMAIN req[s].rows
    BY <1>1 DEF Typed
  <2>5. QED
    BY <2>1, <2>3, <2>4
<1>5. QED
    BY <1>2, <1>3, <1>4, Zenon DEF TypeOK

LEMMA RulesOfInvariant == EInv => RulesAreConfirmed
<1> SUFFICES ASSUME EInv, ~renamed, NEW p \in Plans, ~plan[p].dropped
             PROVE  OnRecord(plan[p]) /\ Accounted(plan[p])
    BY DEF RulesAreConfirmed, OnRecord, Accounted
<1>1. QED
    BY PlansAreGood DEF Good, Recorded

\* As long as nothing was retargeted, every plan that is offered admits the VMs.
LEMMA OffersOfInvariant == EInv => OfferedTargetsAdmit
<1> SUFFICES ASSUME EInv, ~changed, NEW p \in Plans, NEW t \in EditTargets(p),
                    NEW v \in Members(Layout(plan[p])) \cap rows, plan[p].type = plan[t].type
             PROVE  Admits(p, t, {v})
    BY DEF OfferedTargetsAdmit
<1>1. /\ t \in Plans /\ TargetOf(p) # Unresolved /\ TargetOf(t) # Unresolved
      /\ TargetOf(p) = TargetOf(t)
    BY DEF EditTargets, SamePartition
<1>2. Typed /\ Placed(plan[p]) /\ Placed(plan[t])
    BY <1>1, PlansAreGood DEF Good
<1>3. PICK g : Goes(plan[p], g)
    BY <1>2 DEF Placed
<1>4. PICK h : Goes(plan[t], h)
    BY <1>2 DEF Placed
<1>5. TargetOf(p) = g /\ TargetOf(t) = g /\ g = h
    BY <1>1, <1>2, <1>3, <1>4, ResolvesWhereItGoes
<1>6. plan[p].pair = plan[t].pair
    BY <1>3, <1>4, <1>5 DEF Goes, OfItsPartition
<1>7. PlanMappings(plan[p]) = PlanMappings(plan[t])
    BY <1>6 DEF PlanMappings
<1>8. Target(vm[v], maps) = TargetOf(t)
    BY <1>3, <1>5 DEF Goes
<1>9. Covered(vm[v], PlanMappings(plan[p]))
    BY <1>2 DEF Placed
<1>10. p # NoPlan
    BY PlansAssumption DEF NoPlan
<1>11. \A u \in {v} : SameTarget(u, t) /\ Covered(vm[u], PlanMappings(plan[t]))
    BY <1>7, <1>8, <1>9 DEF SameTarget, SamePartition
<1>12. QED
    BY <1>1, <1>10, <1>11 DEF Admits

\* The two halves of EditsKeepPartitions.
WavesAreMTVPlans ==
    ~changed => \A p \in Plans, n \in Numbers :
       LET layout == Layout(plan[p])
       IN  layout[n] # {} =>
              /\ plan[p].waves[n].yaml
              /\ Cardinality({Target(vm[v], maps) : v \in layout[n]}) = 1
              /\ \A m \in Keys(layout) \ {n} :
                    plan[p].waves[m].colour = plan[p].waves[n].colour =>
                       ~Conflict(ShellWave(layout[m]), ShellWave(layout[n]))

CommitsKeepPartitions ==
    \A r \in Requests : Done(r) /\ ~req[r].stale => \A q \in DOMAIN req[r].rows :
       Uniform(plan[q]) /\ Members(Layout(plan[q]))' \cap rows # {} => Uniform(plan[q])'

LEMMA WavesOfInvariant == EInv => WavesAreMTVPlans
<1> SUFFICES ASSUME EInv, ~changed, NEW p \in Plans, NEW n \in Numbers,
                    NEW layout, layout = Layout(plan[p]), layout[n] # {}
             PROVE  /\ plan[p].waves[n].yaml
                    /\ Cardinality({Target(vm[v], maps) : v \in layout[n]}) = 1
                    /\ \A m \in Keys(layout) \ {n} :
                          plan[p].waves[m].colour = plan[p].waves[n].colour =>
                             ~Conflict(ShellWave(layout[m]), ShellWave(layout[n]))
    BY Zenon DEF WavesAreMTVPlans
<1>1. Placed(plan[p]) /\ Proper(plan[p])
    BY PlansAreGood DEF Good
<1>2. plan[p].waves[n].yaml
    BY <1>1 DEF Placed
<1>3. Cardinality({Target(vm[v], maps) : v \in layout[n]}) = 1
  <2>1. PICK g : Goes(plan[p], g)
    BY <1>1 DEF Placed
  <2>2. \A v \in layout[n] : Target(vm[v], maps) = g
    BY <2>1 DEF Goes, Members
  <2>3. {Target(vm[v], maps) : v \in layout[n]} = {g}
    BY <2>2
  <2>4. QED
    BY <2>3, FS_Singleton
<1>4. ASSUME NEW m \in Keys(layout) \ {n}, plan[p].waves[m].colour = plan[p].waves[n].colour
      PROVE  ~Conflict(ShellWave(layout[m]), ShellWave(layout[n]))
  <2>1. m \in Numbers /\ m # n /\ layout[m] # {} /\ layout[n] # {}
    BY DEF Keys
  <2>2. QED
    BY <1>1, <1>4, <2>1, Zenon DEF Proper
<1>5. QED
    BY <1>2, <1>3, <1>4

\* Whatever was retargeted before, no commit of an edit that is not overtaken takes
\* a plan out of its partition.
LEMMA CommitsOfInvariant == EInv /\ [Next]_vars => CommitsKeepPartitions
<1> SUFFICES ASSUME EInv, [Next]_vars, NEW CONSTANT r \in Requests, Done(r), ~req[r].stale,
                    NEW CONSTANT q, q \in DOMAIN req[r].rows,
                    Uniform(plan[q]), Members(Layout(plan[q]))' \cap rows # {}
             PROVE  Uniform(plan[q])'
    BY DEF CommitsKeepPartitions
<1>1. Typed /\ FreshEdits /\ q \in Plans
    BY EditRows DEF EInv
<1>2. UNCHANGED <<vm, rows, maps>> /\ (plan'[q] = plan[q] \/ plan'[q] = req[r].rows[q])
    BY <1>1, DoneSteps DEF Commit, Refuse
<1>3. PICK c, d : c = plan[q] /\ d = plan'[q]
    OBVIOUS
<1>4. Members(Layout(plan[q]))' = Members(Layout(d))' /\ (Uniform(plan[q])' <=> Uniform(d)')
    BY <1>3 DEF Members, Layout, Uniform
<1>5. Members(Layout(d)) \cap rows # {} /\ Uniform(c)
    BY <1>2, <1>3, <1>4, UniformKept
<1>6. Uniform(d)
    BY <1>1, <1>2, <1>3, <1>5 DEF FreshEdits, Stays
<1>7. QED
    BY <1>2, <1>4, <1>6, UniformKept

-----------------------------------------------------------------------------
(* What the edits keep, for all plans, layouts, mappings, patches, overlapping *)
(* requests and bounds.                                                        *)

\* Every row that a plan has, or that an evaluated edit will give it, is well
\* formed; while no VM is renamed its record explains the rules it breaks, while
\* nothing is retargeted it is within its partition and properly coloured; and an
\* edit that nothing has overtaken keeps its plans within their partitions.
THEOREM InvariantHolds == Spec => []EInv
BY InitEInv, NextEInv, PTL DEF Spec

\* The type invariant: a wave without VMs is no wave, no VM is in two waves of a
\* plan, in what it is and in what an edit will make of it, and edits that are
\* evaluated share no plan.
THEOREM TypeCorrect == Spec => []TypeOK
BY InvariantHolds, TypesOfInvariant, PTL

\* Every rule a wave breaks is on its record as it is broken now, or was broken as
\* much by the generation (core/plan_edit.py: diff_violations, _override_entries),
\* unless a rebuild left out a deleted VM or an import renamed one.
THEOREM RulesConfirmed == Spec => []RulesAreConfirmed
BY InvariantHolds, RulesOfInvariant, PTL

\* A plan that edit-targets offers admits the VMs (api/plan_edits.py).
THEOREM OffersAdmitted == Spec => []OfferedTargetsAdmit
BY InvariantHolds, OffersOfInvariant, PTL

\* An edit that no change of a VM or a mapping overtook between its evaluation and
\* its commit takes no plan out of its partition; as long as nothing was retargeted
\* every wave is one rendered MTV plan, and concurrent waves share neither a
\* vCenter nor a name family (core/plan_membership.py, core/plan_edit.py).
THEOREM PartitionsKept == Spec => EditsKeepPartitions
<1>1. EInv /\ [Next]_vars => [CommitsKeepPartitions]_vars
    BY CommitsOfInvariant
<1>2. Spec => []WavesAreMTVPlans /\ [][CommitsKeepPartitions]_vars
    BY <1>1, InvariantHolds, WavesOfInvariant, PTL DEF Spec
<1>3. QED
    BY <1>2, PTL DEF EditsKeepPartitions, WavesAreMTVPlans, CommitsKeepPartitions

=============================================================================
