-------------------------- MODULE PlanPipelineProof --------------------------
(***************************************************************************)
(* Theorems about PlanPipeline, for any inventories and mappings, any      *)
(* limits of waves and plans and any changes by other requests.            *)
(***************************************************************************)
EXTENDS PlanPipeline, FiniteSetTheorems, WellFoundedInduction, TLAPS

-----------------------------------------------------------------------------
(* Least and greatest numbers *)

Less == {xy \in Nat \X Nat : xy[1] < xy[2]}

\* A non-empty set of naturals has a least element, and Min is it.
LEMMA HasLowest ==
    ASSUME NEW S \in SUBSET Nat, S # {}
    PROVE  Min(S) \in S /\ \A y \in S : Min(S) <= y
<1>1. IsWellFoundedOn(Less, Nat)
    BY NatLessThanWellFounded, Zenon DEF OpToRel, Less
<1>2. PICK x \in S : \A y \in S : ~(<<y, x>> \in Less)
    BY <1>1, WFMin, Zenon
<1>3. \A y \in S : x <= y
  <2> SUFFICES ASSUME NEW y \in S, y < x PROVE FALSE
    OBVIOUS
  <2>1. <<y, x>> \in Nat \X Nat /\ <<y, x>>[1] < <<y, x>>[2]
    OBVIOUS
  <2>2. QED
    BY <2>1, <1>2 DEF Less
<1>4. QED
    BY <1>3 DEF Min

\* A bounded, non-empty set of naturals has a greatest element, and Max is it.
LEMMA HasHighest ==
    ASSUME NEW m \in Nat, NEW S \in SUBSET (0..m), S # {}
    PROVE  Max(S) \in S /\ \A y \in S : y <= Max(S)
<1> DEFINE T == {n \in Nat : m - n \in S}
<1>1. T \in SUBSET Nat /\ T # {}
  <2>1. PICK x \in S : x \in 0..m
    OBVIOUS
  <2>2. m - x \in Nat /\ m - (m - x) = x
    BY <2>1
  <2>3. QED
    BY <2>1, <2>2
<1>2. PICK t \in T : \A y \in T : t <= y
  <2> HIDE DEF T
  <2>1. QED
    BY <1>1, HasLowest
<1>3. \A y \in S : y <= m - t
  <2> SUFFICES ASSUME NEW y \in S PROVE y <= m - t
    OBVIOUS
  <2>1. y \in 0..m
    OBVIOUS
  <2>2. m - y \in T
    BY <2>1
  <2>3. QED
    BY <2>1, <2>2, <1>1, <1>2
<1>4. m - t \in S
    OBVIOUS
<1>5. QED
    BY <1>3, <1>4 DEF Max

-----------------------------------------------------------------------------
(* Functions defined by recursion along a strict order *)

\* R[x] is what is below x.
StrictOrder(R, S) ==
    \A x \in S : x \notin R[x] /\ \A y, z \in S : x \in R[y] /\ y \in R[z] => x \in R[z]

BelowIn(S) == [x \in S |-> {y \in S : y < x}]

\* The order of numbers is one.
LEMMA NumbersAreOrdered ==
    ASSUME NEW S \in SUBSET Nat
    PROVE  StrictOrder(BelowIn(S), S) /\ \A x, y \in S : y \in BelowIn(S)[x] <=> y < x
    BY DEF StrictOrder, BelowIn

\* What is left of a finite, ordered set has an element with nothing of it below.
LEMMA HasMinimal ==
    ASSUME NEW S, IsFiniteSet(S), NEW R, StrictOrder(R, S), NEW T \in SUBSET S, T # {}
    PROVE  \E x \in T : \A y \in T : y \notin R[x]
<1> DEFINE below(x) == {y \in S : y \in R[x]}
           N == {Cardinality(below(x)) : x \in T}
<1>1. \A x \in S : IsFiniteSet(below(x)) /\ Cardinality(below(x)) \in Nat
  <2> SUFFICES ASSUME NEW x \in S PROVE IsFiniteSet(below(x)) /\ Cardinality(below(x)) \in Nat
    OBVIOUS
  <2>1. below(x) \in SUBSET S
    OBVIOUS
  <2> HIDE DEF below
  <2>2. QED
    BY <2>1, FS_Subset, FS_CardinalityType
<1>2. N \in SUBSET Nat /\ N # {}
    BY <1>1
<1>3. PICK n \in N : \A k \in N : n <= k
  <2> HIDE DEF N
  <2>1. QED
    BY <1>2, HasLowest
<1>4. PICK x \in T : n = Cardinality(below(x))
    OBVIOUS
<1>5. ASSUME NEW y \in T, y \in R[x] PROVE FALSE
  <2>1. below(y) \in SUBSET below(x) /\ y \in below(x) /\ y \notin below(y)
    BY <1>5 DEF StrictOrder
  <2>2. x \in S /\ y \in S
    OBVIOUS
  <2>3. Cardinality(below(x)) <= Cardinality(below(y))
    BY <1>3, <1>4
  <2> HIDE DEF below
  <2>4. IsFiniteSet(below(x)) /\ Cardinality(below(x)) \in Nat /\ Cardinality(below(y)) \in Nat
    BY <1>1, <2>2
  <2>5. Cardinality(below(y)) <= Cardinality(below(x))
        /\ (Cardinality(below(x)) = Cardinality(below(y)) => below(x) = below(y))
    BY <2>1, <2>4, FS_Subset
  <2>6. QED
    BY <2>1, <2>3, <2>4, <2>5
<1>6. QED
    BY <1>5

\* ... and one with nothing of it above.
LEMMA HasMaximal ==
    ASSUME NEW S, IsFiniteSet(S), NEW R, StrictOrder(R, S), NEW T \in SUBSET S, T # {}
    PROVE  \E x \in T : \A y \in T : x \notin R[y]
<1> DEFINE Q == [x \in S |-> {y \in S : x \in R[y]}]
<1>1. \A x, y \in S : x \in Q[y] <=> y \in R[x]
    OBVIOUS
<1> HIDE DEF Q
<1>2. StrictOrder(Q, S)
    BY <1>1 DEF StrictOrder
<1>3. PICK x \in T : \A y \in T : y \notin Q[x]
    BY <1>2, HasMinimal
<1>4. QED
    BY <1>1, <1>3

\* A finite, non-empty set of naturals has a greatest element.
LEMMA FiniteHasHighest ==
    ASSUME NEW S \in SUBSET Nat, IsFiniteSet(S), S # {}
    PROVE  Max(S) \in S /\ \A y \in S : y <= Max(S)
<1>1. PICK x \in S : \A y \in S : x \notin BelowIn(S)[y]
    BY NumbersAreOrdered, HasMaximal
<1>2. \A y \in S : y <= x
    BY <1>1, NumbersAreOrdered
<1>3. QED
    BY <1>2 DEF Max

\* What G gives x depends on what is below x only.
FromBelow(G, S, V, R) ==
    \A x \in S : \A f, h \in [S -> V] :
       (\A y \in S : y \in R[x] => f[y] = h[y]) => G[x][f] = G[x][h]

Solvable(G, S, V) == \E f \in [S -> V] : \A x \in S : f[x] = G[x][f]

\* An equation that gives each element from those below it has a solution.
LEMMA Recursion ==
    ASSUME NEW S, IsFiniteSet(S), NEW R, StrictOrder(R, S), NEW V, V # {},
           NEW G \in [S -> [[S -> V] -> V]], FromBelow(G, S, V, R)
    PROVE  Solvable(G, S, V)
<1> DEFINE Solved(T, f) ==
              /\ \A x \in T, y \in S : y \in R[x] => y \in T
              /\ \A x \in T : f[x] = G[x][f]
           N == {n \in 0..Cardinality(S) :
                    \E T \in SUBSET S : Cardinality(T) = n /\ \E f \in [S -> V] : Solved(T, f)}
<1>1. Cardinality(S) \in Nat
    BY FS_CardinalityType
<1>2. N \in SUBSET (0..Cardinality(S)) /\ 0 \in N
  <2>1. PICK v \in V : TRUE
    OBVIOUS
  <2>2. [x \in S |-> v] \in [S -> V]
    OBVIOUS
  <2>3. Cardinality({}) = 0 /\ {} \in SUBSET S
    BY FS_EmptySet
  <2>4. Solved({}, [x \in S |-> v])
    OBVIOUS
  <2> HIDE DEF Solved
  <2>5. QED
    BY <1>1, <2>2, <2>3, <2>4
<1>3. PICK n \in N : \A k \in N : k <= n
  <2> HIDE DEF N
  <2>1. QED
    BY <1>1, <1>2, HasHighest
<1>4. PICK T \in SUBSET S : Cardinality(T) = n /\ \E f \in [S -> V] : Solved(T, f)
    OBVIOUS
<1>5. PICK f \in [S -> V] : Solved(T, f)
    BY <1>4
<1>6. ASSUME T # S PROVE FALSE
  <2>1. PICK rest \in SUBSET S : rest = S \ T /\ rest # {}
    <3>1. S \ T # {} /\ S \ T \in SUBSET S
      BY <1>6
    <3>2. QED
      BY <3>1
  <2>2. PICK x \in rest : \A y \in rest : y \notin R[x]
    <3>1. rest # {}
      BY <2>1
    <3>2. QED
      BY <3>1, HasMinimal
  <2> DEFINE h == [f EXCEPT ![x] = G[x][f]]
             U == T \union {x}
  <2>3. h \in [S -> V] /\ U \in SUBSET S
    BY <2>1
  <2>4. h[x] = G[x][f] /\ \A y \in T : h[y] = f[y]
    BY <2>1
  <2>5. \A y \in S : y \in R[x] => y \in T
    BY <2>1, <2>2
  <2> HIDE DEF h
  <2>6. \A z \in U, y \in S : y \in R[z] => y \in T
    BY <1>5, <2>5
  <2>7. \A z \in U : G[z][h] = G[z][f]
  <3> SUFFICES ASSUME NEW z \in U PROVE G[z][h] = G[z][f]
    OBVIOUS
  <3>1. z \in S /\ \A y \in S : y \in R[z] => h[y] = f[y]
    BY <2>3, <2>4, <2>6
  <3>2. QED
    BY <2>3, <3>1 DEF FromBelow
  <2>8. Solved(U, h)
    BY <1>5, <2>4, <2>6, <2>7
  <2>9. IsFiniteSet(T) /\ IsFiniteSet(U) /\ Cardinality(U) = n + 1 /\ Cardinality(U) <= Cardinality(S)
    BY <1>4, <2>1, <2>3, FS_Subset, FS_AddElement
  <2> HIDE DEF Solved, U
  <2>10. n + 1 \in N
    BY <1>1, <2>3, <2>8, <2>9
  <2>11. QED
    BY <1>3, <2>10
<1>7. QED
    BY <1>5, <1>6 DEF Solvable

-----------------------------------------------------------------------------
(* Counting *)

\* A proper part of a finite set has fewer elements.
LEMMA ProperPart ==
    ASSUME NEW S, IsFiniteSet(S), NEW T \in SUBSET S, T # S
    PROVE  IsFiniteSet(T) /\ Cardinality(T) \in Nat /\ Cardinality(S) \in Nat /\ Cardinality(T) < Cardinality(S)
<1>1. IsFiniteSet(T) /\ Cardinality(T) <= Cardinality(S) /\ Cardinality(S) # Cardinality(T)
    BY FS_Subset
<1>2. Cardinality(T) \in Nat /\ Cardinality(S) \in Nat
    BY <1>1, FS_CardinalityType
<1>3. QED
    BY <1>1, <1>2

\* What a function takes a finite set to is finite.
LEMMA ImageIsFinite ==
    ASSUME NEW S, IsFiniteSet(S), NEW f
    PROVE  IsFiniteSet({f[x] : x \in S})
<1>1. [x \in S |-> f[x]] \in Surjection(S, {f[x] : x \in S})
    BY DEF Surjection
<1>2. QED
    BY <1>1, FS_Surjection

\* Numbers counted from the least are 1, 2, ..., in their order.
LEMMA Ranks ==
    ASSUME NEW U \in SUBSET Nat, IsFiniteSet(U),
           NEW rank, \A w \in U : rank[w] = Cardinality({u \in U : u <= w})
    PROVE  /\ \A w \in U : rank[w] \in 1..Cardinality(U)
           /\ \A v, w \in U : v < w => rank[v] < rank[w]
           /\ \A i \in 1..Cardinality(U) : \E w \in U : rank[w] = i
<1> DEFINE upto(w) == {u \in U : u <= w}
<1>1. \A w \in U : /\ rank[w] = Cardinality(upto(w)) /\ upto(w) \in SUBSET U /\ w \in upto(w)
                   /\ rank[w] \in 1..Cardinality(U)
  <2> SUFFICES ASSUME NEW w \in U
               PROVE /\ rank[w] = Cardinality(upto(w)) /\ upto(w) \in SUBSET U /\ w \in upto(w)
                     /\ rank[w] \in 1..Cardinality(U)
    OBVIOUS
  <2>1. rank[w] = Cardinality(upto(w)) /\ upto(w) \in SUBSET U /\ w \in upto(w)
    OBVIOUS
  <2> HIDE DEF upto
  <2>2. IsFiniteSet(upto(w)) /\ Cardinality(upto(w)) <= Cardinality(U) /\ upto(w) # {}
    BY <2>1, FS_Subset
  <2>3. Cardinality(upto(w)) \in Nat /\ Cardinality(U) \in Nat /\ Cardinality(upto(w)) # 0
    BY <2>2, FS_CardinalityType, FS_EmptySet
  <2>4. QED
    BY <2>1, <2>2, <2>3
<1>2. ASSUME NEW v \in U, NEW w \in U, v < w
      PROVE  rank[v] < rank[w]
  <2>1. v \in Nat /\ w \in Nat /\ (\A u \in U : u \in Nat /\ (u <= v => u <= w)) /\ ~(w <= v)
    BY <1>2
  <2>2. upto(v) \in SUBSET upto(w) /\ w \notin upto(v)
    BY <2>1
  <2> HIDE DEF upto
  <2>3. IsFiniteSet(upto(w)) /\ upto(v) # upto(w)
    BY <1>1, <2>2, FS_Subset
  <2>4. QED
    BY <1>1, <2>2, <2>3, ProperPart
<1>3. \A v, w \in U : v # w => rank[v] # rank[w]
  <2> SUFFICES ASSUME NEW v \in U, NEW w \in U, v # w PROVE rank[v] # rank[w]
    OBVIOUS
  <2>1. v \in Nat /\ w \in Nat /\ (v < w \/ w < v)
    OBVIOUS
  <2>2. rank[v] \in 1..Cardinality(U) /\ rank[w] \in 1..Cardinality(U)
    BY <1>1
  <2>3. QED
    BY <2>1, <2>2, <1>2
<1>4. \A i \in 1..Cardinality(U) : \E w \in U : rank[w] = i
  <2> DEFINE f == [w \in U |-> rank[w]]
  <2>1. f \in Injection(U, 1..Cardinality(U))
    BY <1>1, <1>3 DEF Injection, IsInjective
  <2>2. Cardinality(U) \in Nat
    BY FS_CardinalityType
  <2>3. IsFiniteSet(1..Cardinality(U)) /\ Cardinality(1..Cardinality(U)) = Cardinality(U)
    BY <2>2, FS_Interval
  <2> HIDE DEF f
  <2>4. f \in Surjection(U, 1..Cardinality(U))
    BY <2>1, <2>3, FS_Injection
  <2>5. QED
    BY <2>4 DEF Surjection, f
<1>5. QED
    BY <1>1, <1>2, <1>4

\* Cut into slices of m in their order, numbers come m at a time.
LEMMA Slices ==
    ASSUME NEW S \in SUBSET Nat, IsFiniteSet(S), NEW m \in Nat \ {0}, NEW b \in Nat
    PROVE  LET slice == {v \in S : Cardinality({w \in S : w < v}) \div m = b}
           IN  IsFiniteSet(slice) /\ Cardinality(slice) <= m
<1> DEFINE below(v) == {w \in S : w < v}
           slice == {v \in S : Cardinality(below(v)) \div m = b}
           f == [v \in slice |-> Cardinality(below(v)) - b * m]
<1>1. \A v \in S : IsFiniteSet(below(v)) /\ Cardinality(below(v)) \in Nat
  <2> SUFFICES ASSUME NEW v \in S PROVE IsFiniteSet(below(v)) /\ Cardinality(below(v)) \in Nat
    OBVIOUS
  <2>1. below(v) \in SUBSET S
    OBVIOUS
  <2> HIDE DEF below
  <2>2. QED
    BY <2>1, FS_Subset, FS_CardinalityType
<1>2. ASSUME NEW v \in S, NEW w \in S, v < w
      PROVE  Cardinality(below(v)) < Cardinality(below(w))
  <2>1. v \in Nat /\ w \in Nat /\ (\A u \in S : u \in Nat /\ (u < v => u < w)) /\ ~(v < v)
    BY <1>2
  <2>2. below(v) \in SUBSET below(w) /\ v \in below(w) /\ v \notin below(v)
    BY <1>2, <2>1
  <2> HIDE DEF below
  <2>3. QED
    BY <1>1, <2>2, ProperPart
<1>3. \A v \in slice : Cardinality(below(v)) - b * m \in 0..(m - 1)
  <2> SUFFICES ASSUME NEW v \in slice PROVE Cardinality(below(v)) - b * m \in 0..(m - 1)
    OBVIOUS
  <2>1. PICK n \in Nat : n = Cardinality(below(v))
    BY <1>1
  <2>2. n \div m = b
    BY <2>1
  <2>3. b * m <= n /\ n < b * m + m /\ b * m \in Nat
    BY <2>2
  <2>4. QED
    BY <2>1, <2>3
<1>4. \A v, w \in slice : v # w => Cardinality(below(v)) # Cardinality(below(w))
  <2> SUFFICES ASSUME NEW v \in slice, NEW w \in slice, v # w
               PROVE Cardinality(below(v)) # Cardinality(below(w))
    OBVIOUS
  <2>1. v \in S /\ w \in S /\ (v < w \/ w < v)
    OBVIOUS
  <2> HIDE DEF below
  <2>2. QED
    BY <1>1, <1>2, <2>1
<1>5. slice \in SUBSET S
    OBVIOUS
<1>6. f \in Injection(slice, 0..(m - 1))
  <2>1. \A v \in slice : Cardinality(below(v)) \in Nat
    BY <1>1
  <2>2. b * m \in Nat
    OBVIOUS
  <2> HIDE DEF below, slice
  <2>3. f \in [slice -> 0..(m - 1)]
    BY <1>3
  <2>4. \A v, w \in slice : f[v] = f[w] => v = w
    BY <1>4, <2>1, <2>2
  <2> HIDE DEF f
  <2>5. QED
    BY <2>3, <2>4 DEF Injection, IsInjective
<1>7. IsFiniteSet(0..(m - 1)) /\ Cardinality(0..(m - 1)) = m
    BY FS_Interval
<1>8. IsFiniteSet(slice) /\ Cardinality(slice) <= m
  <2> HIDE DEF f, slice
  <2>1. QED
    BY <1>6, <1>7, FS_Injection
<1>9. QED
    BY <1>8

-----------------------------------------------------------------------------
(* Stage 5: waves of one concurrency group do not conflict. *)

\* Each wave has the least number that no wave before it, in conflict with it, has.
LEMMA ColoursAreProper ==
    ASSUME NEW W, NEW n \in Nat, DOMAIN W = 1..n
    PROVE  /\ DOMAIN ConcurrencyGroups(W) = DOMAIN W
           /\ \A i, j \in DOMAIN W :
                 i # j /\ Conflict(W[i], W[j]) => ConcurrencyGroups(W)[i] # ConcurrencyGroups(W)[j]
<1> DEFINE S == 1..n
           taken(f, i) == {f[k] : k \in {k \in S : k < i /\ Conflict(W[k], W[i])}}
           free(f, i)  == 0..i \ taken(f, i)
           G == [i \in S |-> [f \in [S -> Nat] |-> IF free(f, i) = {} THEN 0 ELSE Least(free(f, i))]]
<1>1. IsFiniteSet(S) /\ StrictOrder(BelowIn(S), S) /\ \A x, y \in S : y \in BelowIn(S)[x] <=> y < x
  <2>1. S \in SUBSET Nat
    OBVIOUS
  <2>2. IsFiniteSet(S)
    BY FS_Interval
  <2> HIDE DEF S
  <2>3. QED
    BY <2>1, <2>2, NumbersAreOrdered
<1>2. \A i \in S : \A f : free(f, i) # {} => Least(free(f, i)) \in free(f, i)
  <2> SUFFICES ASSUME NEW i \in S, NEW f, free(f, i) # {} PROVE Least(free(f, i)) \in free(f, i)
    OBVIOUS
  <2>1. free(f, i) \in SUBSET Nat
    OBVIOUS
  <2> HIDE DEF free
  <2>2. QED
    BY <2>1, HasLowest DEF Least
<1>3. G \in [S -> [[S -> Nat] -> Nat]]
  <2>1. \A i \in S : \A f : free(f, i) \in SUBSET Nat
    OBVIOUS
  <2> HIDE DEF free
  <2>2. \A i \in S : \A f : (IF free(f, i) = {} THEN 0 ELSE Least(free(f, i))) \in Nat
    BY <1>2, <2>1
  <2>3. QED
    BY <2>2
<1>4. FromBelow(G, S, Nat, BelowIn(S))
  <2> SUFFICES ASSUME NEW i \in S, NEW f \in [S -> Nat], NEW h \in [S -> Nat],
                      \A k \in S : k \in BelowIn(S)[i] => f[k] = h[k]
               PROVE  G[i][f] = G[i][h]
    BY DEF FromBelow
  <2>1. \A k \in S : k < i => f[k] = h[k]
    BY <1>1
  <2>2. free(f, i) = free(h, i)
    BY <2>1
  <2> HIDE DEF free
  <2>3. QED
    BY <2>2
<1>5. PICK c \in [S -> Nat] : \A i \in S : c[i] = G[i][c]
  <2> HIDE DEF G, S
  <2>1. Nat # {}
    OBVIOUS
  <2>2. Solvable(G, S, Nat)
    BY <1>1, <1>3, <1>4, <2>1, Recursion
  <2>3. QED
    BY <2>2 DEF Solvable
\* Any colouring that takes the least free number wherever one is free always finds one.
<1>6. ASSUME NEW f, \A i \in S : free(f, i) # {} => f[i] = Least(free(f, i))
      PROVE  \A i \in S : free(f, i) # {} /\ f[i] \in free(f, i)
  <2> DEFINE Bad == {i \in S : f[i] \notin free(f, i)}
  <2>1. ASSUME NEW i \in S, \A k \in S : k < i => f[k] \in free(f, k)
        PROVE  i \notin Bad
    <3>1. i \in 0..i /\ \A k \in S : k < i => f[k] \in 0..k /\ f[k] # i
      BY <2>1
    <3>2. i \in free(f, i)
      BY <3>1
    <3> HIDE DEF free
    <3>3. QED
      BY <3>2, <1>2, <1>6
  <2>2. Bad = {}
    <3> SUFFICES ASSUME Bad # {} PROVE FALSE
      OBVIOUS
    <3>1. Bad \in SUBSET Nat
      OBVIOUS
    <3>2. PICK i \in Bad : \A k \in Bad : i <= k
      <4> HIDE DEF Bad
      <4>1. QED
        BY <3>1, HasLowest
    <3>3. \A k \in S : k < i => k \notin Bad
      BY <3>2
    <3> HIDE DEF free
    <3>4. QED
      BY <3>2, <3>3, <2>1
  <2> HIDE DEF free
  <2>3. QED
    BY <2>2
<1>7. \A i \in S : free(c, i) # {} => c[i] = Least(free(c, i))
  <2> HIDE DEF free
  <2>1. QED
    BY <1>5
<1>8. c = [i \in S |-> Least(free(c, i))]
  <2>1. \A i \in S : c[i] = Least(free(c, i))
    <3> HIDE DEF free
    <3>1. QED
      BY <1>6, <1>7
  <2> HIDE DEF free
  <2>2. QED
    BY <2>1
<1>9. PICK d : d = ConcurrencyGroups(W)
    OBVIOUS
<1>10. d = [i \in S |-> Least(free(d, i))]
  <2>1. S = DOMAIN W
    OBVIOUS
  <2>2. c = [i \in DOMAIN W |->
               Least(0..i \ {c[k] : k \in {k \in DOMAIN W : k < i /\ Conflict(W[k], W[i])}})]
    BY <1>8, <2>1, Zenon
  <2>3. ConcurrencyGroups(W) = [i \in DOMAIN W |->
               Least(0..i \ {ConcurrencyGroups(W)[k] : k \in {k \in DOMAIN W : k < i /\ Conflict(W[k], W[i])}})]
    BY <2>2, Zenon DEF ConcurrencyGroups
  <2>4. QED
    BY <2>1, <2>3, <1>9, Zenon
<1>11. DOMAIN d = S /\ \A i \in S : d[i] \in free(d, i)
  <2>1. DOMAIN d = S /\ \A i \in S : d[i] = Least(free(d, i))
    <3> HIDE DEF free
    <3>1. QED
      BY <1>10
  <2> HIDE DEF free
  <2>2. QED
    BY <2>1, <1>6
<1>12. ASSUME NEW i \in S, NEW j \in S, j < i, Conflict(W[j], W[i])
       PROVE  d[j] # d[i]
    BY <1>11, <1>12
<1>13. \A a, b : Conflict(a, b) => Conflict(b, a)
    BY DEF Conflict
<1>14. ASSUME NEW i \in S, NEW j \in S, i # j, Conflict(W[i], W[j])
       PROVE  d[i] # d[j]
  <2>1. i < j \/ j < i
    BY <1>14
  <2>2. QED
    BY <2>1, <1>12, <1>13, <1>14
<1>15. QED
    BY <1>9, <1>11, <1>14

-----------------------------------------------------------------------------
(* Groups *)

Disjoint(G) == \A g, h \in G : g # h => g.vms \intersect h.vms = {}

\* What the stages make of groups: some of the VMs, a role and a risk that order
\* them, and hints at groups of roles that theirs depends on.
IsGroup(g, vms) ==
    /\ {"key", "vms", "members", "risk", "hints"} \subseteq DOMAIN g
    /\ {"primary", "role", "state", "cut"} \subseteq DOMAIN g.key /\ "ns" \in DOMAIN g.key.primary
    /\ g.key.state \in States
    /\ g.key.cut \in [family : Nat, batch : Nat]
    /\ g.key.role \in Roles /\ g.risk \in Risks
    /\ g.vms # {} /\ g.vms \subseteq vms
    /\ DOMAIN g.members \subseteq vms
    /\ \A id \in g.hints : id.role \in DependsOn(g.key.role)

\* Groups that hold every one of the VMs, and each once.
GroupSet(G, vms) ==
    /\ \A g \in G : IsGroup(g, vms)
    /\ Disjoint(G)
    /\ VMsOf(G) = vms

Unbatched(G) == \A g \in G : g.key.cut.batch = 0

\* Two sets of groups make one, of the VMs of both.
LEMMA GroupsTogether ==
    ASSUME NEW V, NEW W, NEW G, NEW H, V \intersect W = {}, GroupSet(G, V), GroupSet(H, W)
    PROVE  GroupSet(G \union H, V \union W)
<1>1. \A g \in G \union H : IsGroup(g, V \union W)
    BY DEF GroupSet, IsGroup
<1>2. Disjoint(G \union H)
  <2>1. \A g \in G : g.vms \subseteq V
    BY DEF GroupSet, IsGroup
  <2>2. \A g \in H : g.vms \subseteq W
    BY DEF GroupSet, IsGroup
  <2>3. QED
    BY <2>1, <2>2 DEF GroupSet, Disjoint
<1>3. VMsOf(G \union H) = VMsOf(G) \union VMsOf(H)
    BY DEF VMsOf
<1>4. QED
    BY <1>1, <1>2, <1>3 DEF GroupSet

\* Groups that others are cut out of, none of their VMs left out.
LEMMA CutUp ==
    ASSUME NEW V, NEW G, NEW H, GroupSet(G, V),
           \A h \in H : IsGroup(h, V) /\ \E g \in G : h.vms \subseteq g.vms,
           \A g \in G : \A h, k \in H :
              h # k /\ h.vms \subseteq g.vms /\ k.vms \subseteq g.vms => h.vms \intersect k.vms = {},
           \A g \in G : \A v \in g.vms : \E h \in H : v \in h.vms
    PROVE  GroupSet(H, V)
<1>1. Disjoint(H)
  <2> SUFFICES ASSUME NEW h \in H, NEW k \in H, h # k PROVE h.vms \intersect k.vms = {}
    BY DEF Disjoint
  <2>1. PICK g \in G : h.vms \subseteq g.vms
    OBVIOUS
  <2>2. PICK f \in G : k.vms \subseteq f.vms
    OBVIOUS
  <2>3. CASE g = f
    BY <2>1, <2>2, <2>3
  <2>4. CASE g # f
    BY <2>1, <2>2, <2>4 DEF GroupSet, Disjoint
  <2>5. QED
    BY <2>3, <2>4
<1>2. VMsOf(H) = V
  <2>1. VMsOf(H) \subseteq V
    BY DEF VMsOf, IsGroup
  <2>2. V \subseteq VMsOf(H)
    BY DEF VMsOf, GroupSet
  <2>3. QED
    BY <2>1, <2>2
<1>3. QED
    BY <1>1, <1>2 DEF GroupSet

-----------------------------------------------------------------------------
(* Stages 1 and 2: VMs are grouped. *)

\* The heaviest of some roles is one of them.
LEMMA HeaviestIsOne ==
    ASSUME NEW R \in SUBSET Roles, R # {}
    PROVE  Heaviest(R) \in R
<1> DEFINE T == {Weight[r] : r \in R}
<1>1. \A r \in Roles : Weight[r] \in 0..5
    BY DEF Roles, Weight
<1>2. T \in SUBSET (0..5) /\ T # {}
    BY <1>1
<1>3. PICK m \in T : \A t \in T : t <= m
  <2> HIDE DEF T
  <2>1. QED
    BY <1>2, HasHighest
<1>4. PICK r \in R : m = Weight[r]
    OBVIOUS
<1>5. \A s \in R : Weight[s] <= Weight[r]
    BY <1>3, <1>4
<1>6. QED
    BY <1>4, <1>5 DEF Heaviest

\* The vote elects a role.
LEMMA MajorityIsARole ==
    ASSUME NEW V, IsFiniteSet(V)
    PROVE  MajorityRole(V) \in Roles
<1> DEFINE votes == [r \in Roles |-> Cardinality({v \in V : DetectRole(v) = r})]
           T == {votes[r] : r \in Roles}
           best == {r \in Roles : \A s \in Roles : votes[s] <= votes[r]}
<1>1. Cardinality(V) \in Nat
    BY FS_CardinalityType
<1>2. \A r \in Roles : votes[r] \in 0..Cardinality(V)
  <2> SUFFICES ASSUME NEW r \in Roles PROVE votes[r] \in 0..Cardinality(V)
    OBVIOUS
  <2> DEFINE for == {v \in V : DetectRole(v) = r}
  <2>1. votes[r] = Cardinality(for) /\ for \in SUBSET V
    OBVIOUS
  <2> HIDE DEF for, votes
  <2>2. IsFiniteSet(for) /\ Cardinality(for) <= Cardinality(V)
    BY <2>1, FS_Subset
  <2>3. QED
    BY <1>1, <2>1, <2>2, FS_CardinalityType
<1>3. T \in SUBSET (0..Cardinality(V)) /\ T # {}
  <2> HIDE DEF votes
  <2>1. QED
    BY <1>2 DEF Roles
<1>4. PICK m \in T : \A t \in T : t <= m
  <2> HIDE DEF T
  <2>1. QED
    BY <1>1, <1>3, HasHighest
<1>5. best \in SUBSET Roles /\ best # {}
  <2> HIDE DEF votes
  <2>1. PICK r \in Roles : m = votes[r]
    OBVIOUS
  <2>2. QED
    BY <1>4, <2>1
<1>6. Heaviest(best) \in Roles
  <2> HIDE DEF best
  <2>1. QED
    BY <1>5, HeaviestIsOne
<1>7. QED
    BY <1>6 DEF MajorityRole

\* What the heuristic says of the risk.
LEMMA RiskIsARisk ==
    ASSUME NEW role, NEW state, NEW count
    PROVE  DetectRisk(role, state, count) \in Risks
    BY DEF DetectRisk, Risks

\* ... and of its state.
LEMMA StateIsAState ==
    ASSUME NEW X, NEW role \in Roles
    PROVE  GroupState(X, role) \in States
    BY DEF GroupState, DetectState, Roles, States

\* A group built of some VMs is one, and not split yet.
LEMMA BuiltIsAGroup ==
    ASSUME NEW V, IsFiniteSet(V), NEW X \in SUBSET V, X # {}, NEW p, "ns" \in DOMAIN p, NEW d
    PROVE  /\ IsGroup(BuildGroup(p, X, d), V)
           /\ BuildGroup(p, X, d).vms = X
           /\ BuildGroup(p, X, d).key.cut.batch = 0
<1> DEFINE g == BuildGroup(p, X, d)
           role == MajorityRole(X)
<1>1. role \in Roles
  <2>1. IsFiniteSet(X)
    BY FS_Subset
  <2>2. QED
    BY <2>1, MajorityIsARole
<1>2. PICK state, app, risk :
         /\ risk \in Risks /\ state \in States
         /\ g = [key |-> [primary |-> p, role |-> role, state |-> state, disc |-> d, cut |-> NoCut],
                 vms |-> X, members |-> HAMembers(X), risk |-> risk, app |-> app, hints |-> {}]
  <2> DEFINE state == GroupState(X, role)
             app == IF vm[Least(X)].hint = "" THEN "unknown" ELSE vm[Least(X)].hint
             risk == DetectRisk(role, state, Cardinality(X))
  <2>1. g = Group(p, role, state, d, X, HAMembers(X), risk, app)
    BY DEF BuildGroup
  <2>2. risk \in Risks /\ state \in States
    BY <1>1, RiskIsARisk, StateIsAState
  <2> HIDE DEF g, role, state, app, risk
  <2>3. QED
    BY <2>1, <2>2 DEF Group
<1>3. DOMAIN HAMembers(X) = X
    BY DEF HAMembers
<1> HIDE DEF g, role
<1>4. g.key.cut = NoCut /\ g.key.role = role /\ g.vms = X /\ g.members = HAMembers(X)
      /\ g.risk \in Risks /\ g.hints = {} /\ g.key.primary = p /\ g.key.state \in States
    BY <1>2
<1>5. /\ {"key", "vms", "members", "risk", "hints"} \subseteq DOMAIN g
      /\ {"primary", "role", "state", "cut"} \subseteq DOMAIN g.key
    BY <1>2
<1>6. IsGroup(g, V) /\ g.vms = X /\ g.key.cut.batch = 0
    BY <1>1, <1>3, <1>4, <1>5 DEF IsGroup, NoCut
<1>7. QED
    BY <1>6 DEF g

\* Groups built of parts of some VMs, each VM in one part.
LEMMA BuiltOfParts ==
    ASSUME NEW V, IsFiniteSet(V), NEW G,
           \A g \in G : \E X \in SUBSET V : X # {} /\ \E p, d : "ns" \in DOMAIN p /\ g = BuildGroup(p, X, d),
           Disjoint(G),
           \A v \in V : \E g \in G : v \in g.vms
    PROVE  GroupSet(G, V) /\ Unbatched(G)
<1>1. ASSUME NEW g \in G PROVE IsGroup(g, V) /\ g.key.cut.batch = 0
  <2>1. PICK X \in SUBSET V : X # {} /\ \E p, d : "ns" \in DOMAIN p /\ g = BuildGroup(p, X, d)
    OBVIOUS
  <2>2. PICK p, d : "ns" \in DOMAIN p /\ g = BuildGroup(p, X, d)
    BY <2>1
  <2>3. QED
    BY <2>1, <2>2, BuiltIsAGroup
<1>2. VMsOf(G) \subseteq V
  <2>1. \A g \in G : g.vms \subseteq V
    BY <1>1 DEF IsGroup
  <2>2. QED
    BY <2>1 DEF VMsOf
<1>3. V \subseteq VMsOf(G)
    BY DEF VMsOf
<1>4. QED
    BY <1>1, <1>2, <1>3 DEF GroupSet, Unbatched

\* Pass 2: what v seeds, when f is what the VMs before it do.
Taken(f, v, V)  == UNION {f[u] : u \in {u \in V : u < v}}
Seeded(f, v, V) == IF v \in Taken(f, v, V) THEN {} ELSE {v} \union {w \in V \ Taken(f, v, V) : Overlap(v, w)}
ClusterOf(V)    == CHOOSE f : f = [v \in V |-> Seeded(f, v, V)]

\* The clusters have no VM in common.
LEMMA ClustersAreDisjoint ==
    ASSUME NEW V \in SUBSET Nat, IsFiniteSet(V)
    PROVE  /\ \A c \in Clusters(V) : c # {} /\ c \subseteq V
           /\ \A c, d \in Clusters(V) : c # d => c \intersect d = {}
<1> DEFINE G == [v \in V |-> [f \in [V -> SUBSET V] |-> Seeded(f, v, V)]]
           cluster == ClusterOf(V)
<1>1. StrictOrder(BelowIn(V), V) /\ \A x, y \in V : y \in BelowIn(V)[x] <=> y < x
    BY NumbersAreOrdered
<1>2. G \in [V -> [[V -> SUBSET V] -> SUBSET V]]
  <2>1. \A v \in V : \A f : Seeded(f, v, V) \in SUBSET V
    BY DEF Seeded
  <2>2. QED
    BY <2>1
<1>3. FromBelow(G, V, SUBSET V, BelowIn(V))
  <2> SUFFICES ASSUME NEW v \in V, NEW f \in [V -> SUBSET V], NEW h \in [V -> SUBSET V],
                      \A u \in V : u \in BelowIn(V)[v] => f[u] = h[u]
               PROVE  G[v][f] = G[v][h]
    BY DEF FromBelow
  <2>1. \A u \in V : u < v => f[u] = h[u]
    BY <1>1
  <2>2. {f[u] : u \in {u \in V : u < v}} = {h[u] : u \in {u \in V : u < v}}
    BY <2>1
  <2>3. Taken(f, v, V) = Taken(h, v, V)
    BY <2>2 DEF Taken
  <2>4. Seeded(f, v, V) = Seeded(h, v, V)
    BY <2>3 DEF Seeded
  <2>5. QED
    BY <2>4
<1>4. PICK c \in [V -> SUBSET V] : \A v \in V : c[v] = G[v][c]
  <2> HIDE DEF G
  <2>1. SUBSET V # {}
    OBVIOUS
  <2>2. Solvable(G, V, SUBSET V)
    BY <1>1, <1>2, <1>3, <2>1, Recursion
  <2>3. QED
    BY <2>2 DEF Solvable
<1>5. c = [v \in V |-> Seeded(c, v, V)]
    BY <1>4
<1>6. cluster = [v \in V |-> Seeded(cluster, v, V)]
    BY <1>5, Zenon DEF ClusterOf
<1>7. Clusters(V) = {x \in {cluster[v] : v \in V} : Cardinality(x) > 1}
    BY Zenon DEF Clusters, ClusterOf, Seeded, Taken
<1> HIDE DEF cluster
<1>8. \A v \in V : cluster[v] \subseteq V
    BY <1>6 DEF Seeded
<1>9. ASSUME NEW u \in V, NEW v \in V, u < v
      PROVE  cluster[u] \intersect cluster[v] = {}
  <2>1. cluster[u] \subseteq Taken(cluster, v, V)
    BY <1>9 DEF Taken
  <2>2. \/ cluster[v] = {}
        \/ v \notin Taken(cluster, v, V) /\ cluster[v] \subseteq {v} \union (V \ Taken(cluster, v, V))
    BY <1>6 DEF Seeded
  <2>3. QED
    BY <2>1, <2>2
<1>10. ASSUME NEW x \in Clusters(V), NEW y \in Clusters(V), x # y
       PROVE  x \intersect y = {}
  <2>1. PICK u \in V : x = cluster[u]
    BY <1>7
  <2>2. PICK v \in V : y = cluster[v]
    BY <1>7
  <2>3. u \in Nat /\ v \in Nat /\ u # v
    BY <1>10, <2>1, <2>2
  <2>4. CASE u < v
    BY <1>9, <2>1, <2>2, <2>4
  <2>5. CASE v < u
    BY <1>9, <2>1, <2>2, <2>5
  <2>6. QED
    BY <2>3, <2>4, <2>5
<1>11. ASSUME NEW x \in Clusters(V) PROVE x # {} /\ x \subseteq V
  <2>1. Cardinality(x) > 1 /\ x \in {cluster[v] : v \in V}
    BY <1>7
  <2>2. Cardinality({}) = 0
    BY FS_EmptySet
  <2>3. x # {}
    BY <2>1, <2>2
  <2>4. QED
    BY <1>8, <2>1, <2>3
<1>12. QED
    BY <1>10, <1>11

\* Within one primary, the passes group every VM once.
LEMMA ClassifiedWithin ==
    ASSUME NEW B \in SUBSET Nat, IsFiniteSet(B), NEW p, "ns" \in DOMAIN p
    PROVE  GroupSet(ClassifyWithinPrimary(p, B), B) /\ Unbatched(ClassifyWithinPrimary(p, B))
<1> DEFINE hinted   == {v \in B : vm[v].hint # ""}
           rest     == {v \in B : vm[v].hint = ""}
           clusters == Clusters(rest)
           left     == rest \ UNION clusters
           H == HintGroups(p, B)
           C == {BuildGroup(p, c, ClusterDisc(c)) : c \in clusters}
           P == PrefixGroups(p, left)
<1>1. hinted \in SUBSET B /\ rest \in SUBSET B /\ left \in SUBSET B
    OBVIOUS
<1>2. IsFiniteSet(hinted) /\ IsFiniteSet(rest) /\ IsFiniteSet(left) /\ rest \in SUBSET Nat
  <2> HIDE DEF hinted, rest, left
  <2>1. QED
    BY <1>1, FS_Subset
<1>3. GroupSet(H, hinted) /\ Unbatched(H)
  <2> DEFINE kind(v) == <<"hint", vm[v].hint, DetectRole(v)>>
             Kinds == {kind(v) : v \in hinted}
             Of(k) == {v \in hinted : kind(v) = k}
  <2>1. H = {BuildGroup(p, Of(k), k) : k \in Kinds}
    BY Zenon DEF HintGroups
  <2>2. \A k \in Kinds : Of(k) \in SUBSET hinted /\ Of(k) # {}
    OBVIOUS
  <2>3. \A j, k : j # k => Of(j) \intersect Of(k) = {}
    OBVIOUS
  <2>4. \A v \in hinted : kind(v) \in Kinds /\ v \in Of(kind(v))
    OBVIOUS
  <2> HIDE DEF kind, Kinds, Of, hinted, H
  <2>5. \A k \in Kinds : BuildGroup(p, Of(k), k).vms = Of(k)
    BY <1>2, <2>2, BuiltIsAGroup, ZenonT(60)
  <2>6. \A g \in H : \E X \in SUBSET hinted : X # {} /\ \E q, d : "ns" \in DOMAIN q /\ g = BuildGroup(q, X, d)
    BY <2>1, <2>2
  <2>7. Disjoint(H)
    <3> SUFFICES ASSUME NEW g \in H, NEW h \in H, g # h PROVE g.vms \intersect h.vms = {}
      BY DEF Disjoint
    <3>1. PICK j \in Kinds : g = BuildGroup(p, Of(j), j)
      BY <2>1
    <3>2. PICK k \in Kinds : h = BuildGroup(p, Of(k), k)
      BY <2>1
    <3>3. j # k
      BY <3>1, <3>2
    <3>4. QED
      BY <2>3, <2>5, <3>1, <3>2, <3>3
  <2>8. \A v \in hinted : \E g \in H : v \in g.vms
    BY <2>1, <2>4, <2>5
  <2>9. QED
    BY <1>2, <2>6, <2>7, <2>8, BuiltOfParts
<1>4. /\ \A c \in clusters : c # {} /\ c \subseteq rest
      /\ \A c, d \in clusters : c # d => c \intersect d = {}
  <2> HIDE DEF rest
  <2>1. QED
    BY <1>2, ClustersAreDisjoint
<1>5. GroupSet(C, UNION clusters) /\ Unbatched(C) /\ UNION clusters \in SUBSET rest
  <2> DEFINE V == UNION clusters
  <2> HIDE DEF clusters, rest
  <2>1. V \in SUBSET rest /\ \A c \in clusters : c \in SUBSET V
    BY <1>4
  <2>2. IsFiniteSet(V)
    <3> HIDE DEF V
    <3>1. QED
      BY <1>2, <2>1, FS_Subset
  <2>3. \A c \in clusters : BuildGroup(p, c, ClusterDisc(c)).vms = c
    <3> HIDE DEF V
    <3>1. QED
      BY <1>4, <2>1, <2>2, BuiltIsAGroup
  <2>4. \A g \in C : \E X \in SUBSET V : X # {} /\ \E q, d : "ns" \in DOMAIN q /\ g = BuildGroup(q, X, d)
    BY <1>4, <2>1
  <2>5. Disjoint(C)
    BY <1>4, <2>3 DEF Disjoint
  <2>6. \A v \in V : \E g \in C : v \in g.vms
    BY <2>3
  <2> HIDE DEF V, C
  <2>7. GroupSet(C, V) /\ Unbatched(C)
    BY <2>2, <2>4, <2>5, <2>6, BuiltOfParts
  <2>8. QED
    BY <2>1, <2>7 DEF V
<1>6. GroupSet(P, left) /\ Unbatched(P)
  <2> DEFINE kind(v) == Prefix(v)
             Kinds == {kind(v) : v \in left}
             Of(k) == {v \in left : kind(v) = k}
  <2>1. P = {BuildGroup(p, Of(k), <<"prefix", k>>) : k \in Kinds}
    BY Zenon DEF PrefixGroups
  <2>2. \A k \in Kinds : Of(k) \in SUBSET left /\ Of(k) # {}
    OBVIOUS
  <2>3. \A j, k : j # k => Of(j) \intersect Of(k) = {}
    OBVIOUS
  <2>4. \A v \in left : kind(v) \in Kinds /\ v \in Of(kind(v))
    OBVIOUS
  <2> HIDE DEF kind, Kinds, Of, left, P
  <2>5. \A k \in Kinds : BuildGroup(p, Of(k), <<"prefix", k>>).vms = Of(k)
    BY <1>2, <2>2, BuiltIsAGroup, ZenonT(60)
  <2>6. \A g \in P : \E X \in SUBSET left : X # {} /\ \E q, d : "ns" \in DOMAIN q /\ g = BuildGroup(q, X, d)
    BY <2>1, <2>2
  <2>7. Disjoint(P)
    <3> SUFFICES ASSUME NEW g \in P, NEW h \in P, g # h PROVE g.vms \intersect h.vms = {}
      BY DEF Disjoint
    <3>1. PICK j \in Kinds : g = BuildGroup(p, Of(j), <<"prefix", j>>)
      BY <2>1
    <3>2. PICK k \in Kinds : h = BuildGroup(p, Of(k), <<"prefix", k>>)
      BY <2>1
    <3>3. j # k
      BY <3>1, <3>2
    <3>4. QED
      BY <2>3, <2>5, <3>1, <3>2, <3>3
  <2>8. \A v \in left : \E g \in P : v \in g.vms
    BY <2>1, <2>4, <2>5
  <2>9. QED
    BY <1>2, <2>6, <2>7, <2>8, BuiltOfParts
<1>7. ClassifyWithinPrimary(p, B) = H \union C \union P
    BY Zenon DEF ClassifyWithinPrimary
<1>8. (hinted \union UNION clusters) \union left = B
      /\ hinted \intersect UNION clusters = {} /\ (hinted \union UNION clusters) \intersect left = {}
  <2>1. hinted \union rest = B /\ hinted \intersect rest = {}
    OBVIOUS
  <2> HIDE DEF hinted, rest, clusters
  <2>2. QED
    BY <1>5, <2>1
<1>9. GroupSet(H \union C \union P, B)
  <2> HIDE DEF hinted, clusters, left, H, C, P
  <2>1. GroupSet(H \union C, hinted \union UNION clusters)
    BY <1>3, <1>5, <1>8, GroupsTogether
  <2>2. GroupSet((H \union C) \union P, (hinted \union UNION clusters) \union left)
    BY <1>6, <1>8, <2>1, GroupsTogether
  <2>3. QED
    BY <1>8, <2>2
<1>10. Unbatched(H \union C \union P)
  <2> HIDE DEF H, C, P
  <2>1. QED
    BY <1>3, <1>5, <1>6 DEF Unbatched
<1>11. QED
  <2> HIDE DEF H, C, P
  <2>1. QED
    BY <1>7, <1>9, <1>10

\* A small partition is merged into one group; either way every VM is in one group.
LEMMA CollapsedGroups ==
    ASSUME NEW B \in SUBSET Nat, IsFiniteSet(B), NEW p, "ns" \in DOMAIN p
    PROVE  GroupSet(Collapsed(p, B), B) /\ Unbatched(Collapsed(p, B))
<1> DEFINE G == ClassifyWithinPrimary(p, B)
           m == Merged(p, G)
           R == {g.key.role : g \in G}
<1>1. GroupSet(G, B) /\ Unbatched(G)
    BY ClassifiedWithin
<1>2. CASE Cardinality(G) > 1
  <2> HIDE DEF G
  <2>1. PICK g0 \in G : TRUE
    BY <1>2, FS_EmptySet
  <2>2. R \in SUBSET Roles /\ R # {}
    BY <1>1, <2>1 DEF GroupSet, IsGroup
  <2>3. Heaviest(R) \in Roles
    <3> HIDE DEF R
    <3>1. QED
      BY <2>2, HeaviestIsOne
  <2>4. B # {} /\ VMsOf(G) = B
    BY <1>1, <2>1 DEF GroupSet, IsGroup
  <2>5. m.vms = B /\ m.key.role = Heaviest(R) /\ m.risk \in Risks /\ m.hints = {} /\ m.members = <<>>
        /\ m.key.cut = NoCut /\ m.key.primary = p
        /\ {"key", "vms", "members", "risk", "hints"} \subseteq DOMAIN m
        /\ {"primary", "role", "state", "cut"} \subseteq DOMAIN m.key
        /\ m.key.state \in States
    BY <2>4 DEF Merged, Group, VMsOf, Risks, States
  <2>6. DOMAIN <<>> = {}
    OBVIOUS
  <2> HIDE DEF m
  <2>7. IsGroup(m, B)
    BY <2>3, <2>4, <2>5, <2>6 DEF IsGroup, NoCut
  <2>8. GroupSet({m}, B) /\ Unbatched({m})
    BY <2>5, <2>7 DEF GroupSet, Disjoint, VMsOf, Unbatched, NoCut
  <2>9. QED
    BY <1>1, <2>8 DEF Collapsed, m, G
<1>3. CASE ~(Cardinality(G) > 1)
    BY <1>1, <1>3 DEF Collapsed
<1>4. QED
    BY <1>2, <1>3

\* Stages 1 and 2 group every VM once.
LEMMA Classified ==
    ASSUME DOMAIN vm \subseteq Nat, IsFiniteSet(DOMAIN vm)
    PROVE  GroupSet(Classify, DOMAIN vm) /\ Unbatched(Classify)
<1> DEFINE V == DOMAIN vm
           primaries == {Primary(v) : v \in V}
           bucket(p) == {v \in V : Primary(v) = p}
           G == UNION {Collapsed(p, bucket(p)) : p \in primaries}
<1>1. \A p \in primaries : /\ bucket(p) \in SUBSET V /\ bucket(p) \in SUBSET Nat /\ IsFiniteSet(bucket(p))
                           /\ "ns" \in DOMAIN p
  <2> TAKE p \in primaries
  <2>1. bucket(p) \in SUBSET V /\ bucket(p) \in SUBSET Nat
    OBVIOUS
  <2>2. "ns" \in DOMAIN p
    BY DEF Primary
  <2> HIDE DEF bucket, primaries
  <2>3. QED
    BY <2>1, <2>2, FS_Subset
<1>2. \A p, q : p # q => bucket(p) \intersect bucket(q) = {}
    OBVIOUS
<1>3. \A v \in V : Primary(v) \in primaries /\ v \in bucket(Primary(v))
    OBVIOUS
<1> HIDE DEF primaries, bucket
<1>4. \A p \in primaries : GroupSet(Collapsed(p, bucket(p)), bucket(p)) /\ Unbatched(Collapsed(p, bucket(p)))
    BY <1>1, CollapsedGroups
<1>5. GroupSet(G, V) /\ Unbatched(G)
  <2>1. \A g \in G : IsGroup(g, V) /\ g.key.cut.batch = 0
    <3> SUFFICES ASSUME NEW g \in G PROVE IsGroup(g, V) /\ g.key.cut.batch = 0
      OBVIOUS
    <3>1. PICK p \in primaries : g \in Collapsed(p, bucket(p))
      OBVIOUS
    <3>2. IsGroup(g, bucket(p)) /\ g.key.cut.batch = 0
      BY <1>4, <3>1 DEF GroupSet, Unbatched
    <3>3. QED
      BY <1>1, <3>2 DEF IsGroup
  <2>2. Disjoint(G)
    <3> SUFFICES ASSUME NEW g \in G, NEW h \in G, g # h PROVE g.vms \intersect h.vms = {}
      BY DEF Disjoint
    <3>1. PICK p \in primaries : g \in Collapsed(p, bucket(p))
      OBVIOUS
    <3>2. PICK q \in primaries : h \in Collapsed(q, bucket(q))
      OBVIOUS
    <3>3. CASE p = q
      BY <1>4, <3>1, <3>2, <3>3 DEF GroupSet, Disjoint
    <3>4. CASE p # q
      <4>1. g.vms \subseteq bucket(p) /\ h.vms \subseteq bucket(q)
        BY <1>4, <3>1, <3>2 DEF GroupSet, IsGroup
      <4>2. QED
        BY <1>2, <3>4, <4>1
    <3>5. QED
      BY <3>3, <3>4
  <2>3. \A v \in V : \E g \in G : v \in g.vms
    <3> TAKE v \in V
    <3>1. v \in VMsOf(Collapsed(Primary(v), bucket(Primary(v))))
      BY <1>3, <1>4 DEF GroupSet
    <3>2. PICK g \in Collapsed(Primary(v), bucket(Primary(v))) : v \in g.vms
      BY <3>1 DEF VMsOf
    <3>3. QED
      BY <1>3, <3>2
  <2> HIDE DEF G
  <2>4. VMsOf(G) = V
    <3>1. VMsOf(G) \subseteq V
      BY <2>1 DEF VMsOf, IsGroup
    <3>2. V \subseteq VMsOf(G)
      BY <2>3 DEF VMsOf
    <3>3. QED
      BY <3>1, <3>2
  <2>5. QED
    BY <2>1, <2>2, <2>4 DEF GroupSet, Unbatched
<1>6. Classify = WithHints(G)
    BY Zenon DEF Classify, primaries, bucket
<1> DEFINE named(g) == {Id(f) : f \in {f \in G : f.key.role \in DependsOn(g.key.role)}} \ {Id(g)}
           hinting(g) == [g EXCEPT !.hints = named(g)]
           H == {hinting(g) : g \in G}
<1>7. Classify = H
    BY <1>6, Zenon DEF WithHints
<1> HIDE DEF G
<1>8. ASSUME NEW g \in G
      PROVE  hinting(g).vms = g.vms /\ IsGroup(hinting(g), V) /\ hinting(g).key.cut.batch = 0
  <2>1. \A f \in G : Id(f).role = f.key.role
    BY <1>5 DEF Id, GroupSet, IsGroup
  <2>2. \A id \in named(g) : id.role \in DependsOn(g.key.role)
    BY <2>1
  <2> HIDE DEF named
  <2>3. IsGroup(g, V) /\ g.key.cut.batch = 0
    BY <1>5 DEF GroupSet, Unbatched
  <2>4. "hints" \in DOMAIN g
    BY <2>3 DEF IsGroup
  <2>5. hinting(g).hints = named(g) /\ hinting(g).vms = g.vms /\ hinting(g).key = g.key
        /\ hinting(g).members = g.members /\ hinting(g).risk = g.risk /\ DOMAIN hinting(g) = DOMAIN g
    BY <2>4
  <2> HIDE DEF hinting
  <2>6. QED
    BY <2>2, <2>3, <2>5 DEF IsGroup
<1> HIDE DEF named, hinting
<1>9. GroupSet(H, V)
  <2>1. \A h \in H : IsGroup(h, V) /\ \E g \in G : h.vms \subseteq g.vms
    BY <1>8
  <2>2. \A g \in G : \A h, k \in H :
           h # k /\ h.vms \subseteq g.vms /\ k.vms \subseteq g.vms => h.vms \intersect k.vms = {}
    <3> SUFFICES ASSUME NEW g \in G, NEW h \in H, NEW k \in H, h # k,
                        h.vms \subseteq g.vms, k.vms \subseteq g.vms
                 PROVE  FALSE
      OBVIOUS
    <3>1. PICK e \in G : h = hinting(e)
      OBVIOUS
    <3>2. PICK f \in G : k = hinting(f)
      OBVIOUS
    <3>3. e = g /\ f = g
      BY <1>5, <1>8, <3>1, <3>2 DEF GroupSet, Disjoint, IsGroup
    <3>4. QED
      BY <3>1, <3>2, <3>3
  <2>3. \A g \in G : \A v \in g.vms : \E h \in H : v \in h.vms
    BY <1>8
  <2> HIDE DEF H, V
  <2>4. QED
    BY <1>5, <2>1, <2>2, <2>3, CutUp
<1>10. Unbatched(H)
    BY <1>8 DEF Unbatched
<1>11. QED
  <2> HIDE DEF H
  <2>1. QED
    BY <1>7, <1>9, <1>10

-----------------------------------------------------------------------------
(* Stage 3, and the first half of Stage 4: groups are split. *)

\* Groups without a VM in common are finitely many.
LEMMA FinitelyManyGroups ==
    ASSUME NEW V, IsFiniteSet(V), NEW G, \A g \in G : IsGroup(g, V), Disjoint(G)
    PROVE  IsFiniteSet(G)
<1> DEFINE f == [g \in G |-> g.vms]
<1>1. f \in Injection(G, SUBSET V)
  <2>1. f \in [G -> SUBSET V]
    BY DEF IsGroup
  <2>2. \A g, h \in G : f[g] = f[h] => g = h
    BY DEF IsGroup, Disjoint
  <2>3. QED
    BY <2>1, <2>2 DEF Injection, IsInjective
<1>2. IsFiniteSet(SUBSET V)
    BY FS_SUBSET
<1> HIDE DEF f
<1>3. QED
    BY <1>1, <1>2, FS_Injection

\* H: the groups of K, and the others in pieces by the slots of their VMs.
InPieces(G, H, K, slot, piece, V) ==
    /\ \A h \in H : h \in K \/ \E g \in G \ K : \E v \in g.vms : h = piece[g][slot[g][v]]
    /\ \A g \in K : g \in H
    /\ \A g \in G \ K : \A v \in g.vms :
          /\ piece[g][slot[g][v]] \in H
          /\ IsGroup(piece[g][slot[g][v]], V)
          /\ piece[g][slot[g][v]].vms = {w \in g.vms : slot[g][w] = slot[g][v]}

\* No VM is lost then, and none is in two groups.
LEMMA CutIntoPieces ==
    ASSUME NEW V, NEW G, GroupSet(G, V), NEW H, NEW K \in SUBSET G, NEW slot, NEW piece,
           InPieces(G, H, K, slot, piece, V)
    PROVE  GroupSet(H, V)
<1> USE DEF InPieces
<1>1. ASSUME NEW h \in H PROVE IsGroup(h, V) /\ \E g \in G : h.vms \subseteq g.vms
  <2>1. CASE h \in K
    BY <2>1 DEF GroupSet
  <2>2. CASE h \notin K
    <3>1. PICK g \in G \ K : \E v \in g.vms : h = piece[g][slot[g][v]]
      BY <2>2
    <3>2. PICK v \in g.vms : h = piece[g][slot[g][v]]
      BY <3>1
    <3>3. QED
      BY <3>2
  <2>3. QED
    BY <2>1, <2>2
<1>2. ASSUME NEW g \in G, NEW h \in H, NEW k \in H, h # k, h.vms \subseteq g.vms, k.vms \subseteq g.vms
      PROVE  h.vms \intersect k.vms = {}
  <2>1. ASSUME NEW x \in H, x.vms \subseteq g.vms
        PROVE  \/ x \in K /\ x = g
               \/ g \notin K /\ \E v \in g.vms : /\ x = piece[g][slot[g][v]]
                                                 /\ x.vms = {w \in g.vms : slot[g][w] = slot[g][v]}
    <3>1. IsGroup(x, V)
      BY <1>1
    <3>2. CASE x \in K
      BY <2>1, <3>1, <3>2 DEF GroupSet, Disjoint, IsGroup
    <3>3. CASE x \notin K
      <4>1. PICK e \in G \ K : \E v \in e.vms : x = piece[e][slot[e][v]]
        BY <3>3
      <4>2. PICK v \in e.vms : x = piece[e][slot[e][v]]
        BY <4>1
      <4>3. x.vms = {w \in e.vms : slot[e][w] = slot[e][v]}
        BY <4>2
      <4>4. e = g
        BY <2>1, <3>1, <4>3 DEF GroupSet, Disjoint, IsGroup
      <4>5. QED
        BY <4>1, <4>2, <4>3, <4>4
    <3>4. QED
      BY <3>2, <3>3
  <2>2. CASE g \in K
    BY <1>2, <2>1, <2>2
  <2>3. CASE g \notin K
    <3>1. PICK v \in g.vms : h = piece[g][slot[g][v]] /\ h.vms = {w \in g.vms : slot[g][w] = slot[g][v]}
      BY <1>2, <2>1, <2>3
    <3>2. PICK u \in g.vms : k = piece[g][slot[g][u]] /\ k.vms = {w \in g.vms : slot[g][w] = slot[g][u]}
      BY <1>2, <2>1, <2>3
    <3>3. slot[g][u] # slot[g][v]
      BY <1>2, <3>1, <3>2
    <3>4. QED
      BY <3>1, <3>2, <3>3
  <2>4. QED
    BY <2>2, <2>3
<1>3. ASSUME NEW g \in G, NEW v \in g.vms PROVE \E h \in H : v \in h.vms
  <2>1. CASE g \in K
    BY <2>1
  <2>2. CASE g \notin K
    <3>1. v \in piece[g][slot[g][v]].vms /\ piece[g][slot[g][v]] \in H
      BY <2>2
    <3>2. QED
      BY <3>1
  <2>3. QED
    BY <2>1, <2>2
<1>4. QED
    BY <1>1, <1>2, <1>3, CutUp, ZenonT(60)

\* What is left of a group when it keeps some of its VMs.
LEMMA RestrictedGroup ==
    ASSUME NEW V, NEW g, IsGroup(g, V), NEW X \in SUBSET g.vms, X # {}
    PROVE  /\ IsGroup(Restricted(g, X), V)
           /\ Restricted(g, X).vms = X /\ Restricted(g, X).key = g.key
<1>1. /\ Restricted(g, X).vms = X /\ Restricted(g, X).key = g.key /\ Restricted(g, X).hints = g.hints
      /\ Restricted(g, X).risk = g.risk /\ DOMAIN Restricted(g, X) = DOMAIN g
      /\ DOMAIN Restricted(g, X).members = DOMAIN g.members \intersect X
    BY DEF Restricted, IsGroup
<1>2. QED
    BY <1>1 DEF IsGroup

\* A part of a group: only its VMs, and an id that says which part it is.
Renamed(g, field, n) == [g EXCEPT !.key.cut[field] = n]

PartOf(g, X, field, n) == Renamed(Restricted(g, X), field, n)

IsPart(h, g, X, field, n, V) ==
    /\ IsGroup(h, V) /\ h.vms = X
    /\ h.key = [g.key EXCEPT !.cut = h.key.cut]
    /\ h.key.cut = [g.key.cut EXCEPT ![field] = n]

\* Renaming changes nothing but the id.
LEMMA RenamedGroup ==
    ASSUME NEW V, NEW g, IsGroup(g, V), NEW field \in {"family", "batch"}, NEW n \in Nat
    PROVE  IsPart(Renamed(g, field, n), g, g.vms, field, n, V)
<1> DEFINE h == Renamed(g, field, n)
<1>1. /\ h.vms = g.vms /\ h.key = [g.key EXCEPT !.cut = [g.key.cut EXCEPT ![field] = n]]
      /\ h.hints = g.hints /\ h.risk = g.risk /\ h.members = g.members /\ DOMAIN h = DOMAIN g
    BY DEF IsGroup, Renamed
<1> HIDE DEF h
<1>2. /\ h.key.cut = [g.key.cut EXCEPT ![field] = n] /\ h.key.role = g.key.role
      /\ h.key.primary = g.key.primary /\ DOMAIN h.key = DOMAIN g.key
  <2>1. {"primary", "role", "cut"} \subseteq DOMAIN g.key
    BY DEF IsGroup
  <2>2. PICK c : c = [g.key.cut EXCEPT ![field] = n] /\ h.key = [g.key EXCEPT !.cut = c]
    BY <1>1
  <2>3. QED
    BY <2>1, <2>2
<1>3. h.key.cut \in [family : Nat, batch : Nat]
    BY <1>2 DEF IsGroup
<1>4. IsGroup(h, V)
    BY <1>1, <1>2, <1>3 DEF IsGroup
<1>5. QED
    BY <1>1, <1>2, <1>4 DEF h, IsPart

\* A part is a group.
LEMMA PartOfGroup ==
    ASSUME NEW V, NEW g, IsGroup(g, V), NEW X \in SUBSET g.vms, X # {},
           NEW field \in {"family", "batch"}, NEW n \in Nat
    PROVE  IsPart(PartOf(g, X, field, n), g, X, field, n, V)
<1> DEFINE r == Restricted(g, X)
<1>1. IsGroup(r, V) /\ r.vms = X /\ r.key = g.key
    BY RestrictedGroup
<1> HIDE DEF r
<1>2. IsPart(Renamed(r, field, n), r, r.vms, field, n, V)
    BY <1>1, RenamedGroup
<1>3. IsPart(Renamed(r, field, n), g, X, field, n, V)
    BY <1>1, <1>2 DEF IsPart
<1>4. QED
    BY <1>3 DEF PartOf, r

\* The cap of a family is no less than one: parts are numbered.
LEMMA PartsAreNumbered ==
    ASSUME IsFiniteSet(DOMAIN vm), NEW X \in SUBSET DOMAIN vm, NEW v \in X
    PROVE  Part(v, X) \in Nat
<1> DEFINE F == FamilyIn(v, DOMAIN vm)
           B == {w \in FamilyIn(v, X) : w < v}
<1>1. F \in SUBSET DOMAIN vm /\ B \in SUBSET DOMAIN vm /\ v \in F
    BY DEF FamilyIn
<1> HIDE DEF F, B
<1>2. IsFiniteSet(F) /\ IsFiniteSet(B) /\ F # {}
    BY <1>1, FS_Subset
<1>3. Cardinality(F) \in Nat /\ Cardinality(B) \in Nat /\ Cardinality(F) # 0
    BY <1>2, FS_CardinalityType, FS_EmptySet
<1>4. (Cardinality(F) + 1) \div 2 \in Nat \ {0}
    BY <1>3
<1>5. \A n \in Nat, c \in Nat \ {0} : n \div c \in Nat
    OBVIOUS
<1>6. Cardinality(B) \div ((Cardinality(F) + 1) \div 2) \in Nat
    BY <1>3, <1>4, <1>5
<1>7. QED
    BY <1>6 DEF Part, CapOf, FamilyCap, F, B

\* No group has more of a name family than half of it.
Capped(G) == \A g \in G : \A v \in g.vms : Cardinality(FamilyIn(v, g.vms)) <= CapOf(v)

\* Fewer VMs of a group are within the cap as well.
LEMMA FewerAreWithinCap ==
    ASSUME NEW X, IsFiniteSet(X), NEW Y \in SUBSET X, NEW v, Cardinality(FamilyIn(v, X)) <= CapOf(v),
           CapOf(v) \in Nat
    PROVE  Cardinality(FamilyIn(v, Y)) <= CapOf(v)
<1>1. FamilyIn(v, X) \in SUBSET X /\ FamilyIn(v, Y) \in SUBSET FamilyIn(v, X)
  BY DEF FamilyIn
<1>2. IsFiniteSet(FamilyIn(v, X)) /\ IsFiniteSet(FamilyIn(v, Y))
      /\ Cardinality(FamilyIn(v, Y)) <= Cardinality(FamilyIn(v, X))
  BY <1>1, FS_Subset
<1>3. QED
  BY <1>2, FS_CardinalityType

\* Every family has a cap.
LEMMA CapIsPositive ==
    ASSUME IsFiniteSet(DOMAIN vm), NEW v \in DOMAIN vm
    PROVE  CapOf(v) \in Nat \ {0}
<1> DEFINE F == FamilyIn(v, DOMAIN vm)
<1>1. F \in SUBSET DOMAIN vm /\ v \in F
  BY DEF FamilyIn
<1> HIDE DEF F
<1>2. IsFiniteSet(F) /\ F # {}
  BY <1>1, FS_Subset
<1>3. Cardinality(F) \in Nat /\ Cardinality(F) # 0
  BY <1>2, FS_CardinalityType, FS_EmptySet
<1>4. (Cardinality(F) + 1) \div 2 \in Nat \ {0}
  BY <1>3
<1>5. QED
  BY <1>4 DEF CapOf, FamilyCap, F

\* A part has no more of a family than its cap.
LEMMA PartIsWithinCap ==
    ASSUME DOMAIN vm \in SUBSET Nat, IsFiniteSet(DOMAIN vm), NEW X \in SUBSET DOMAIN vm, NEW n \in Nat,
           NEW v \in {w \in X : Part(w, X) = n}
    PROVE  Cardinality(FamilyIn(v, {w \in X : Part(w, X) = n})) <= CapOf(v)
<1> DEFINE S == FamilyIn(v, X)
           m == CapOf(v)
           slice == {w \in S : Cardinality({u \in S : u < w}) \div m = n}
<1>1. S \in SUBSET X /\ S \in SUBSET Nat /\ IsFiniteSet(S)
  <2>1. S \in SUBSET X
    BY DEF FamilyIn
  <2>2. QED
    BY <2>1, FS_Subset
<1>2. m \in Nat \ {0}
  BY CapIsPositive
<1>3. \A w \in S : Family(w) = Family(v)
  BY DEF FamilyIn
<1>4. \A w \in S : FamilyIn(w, X) = S /\ CapOf(w) = m
  BY <1>3 DEF FamilyIn, CapOf
<1>5. \A w \in S : Part(w, X) = Cardinality({u \in S : u < w}) \div m
  BY <1>4 DEF Part
<1>6. FamilyIn(v, {w \in X : Part(w, X) = n}) = {w \in S : Part(w, X) = n}
  BY DEF FamilyIn
<1> HIDE DEF S, m
<1>7. FamilyIn(v, {w \in X : Part(w, X) = n}) = slice
  BY <1>5, <1>6
<1>8. Cardinality(slice) <= m
  BY <1>1, <1>2, Slices
<1>9. QED
  BY <1>7, <1>8 DEF m

\* Stage 3 keeps every VM in one group, and no group has too much of a family.
LEMMA FamiliesSplit ==
    ASSUME DOMAIN vm \in SUBSET Nat, IsFiniteSet(DOMAIN vm), NEW G, GroupSet(G, DOMAIN vm), Unbatched(G)
    PROVE  /\ GroupSet(SplitFamilies(G), DOMAIN vm) /\ Unbatched(SplitFamilies(G))
           /\ Capped(SplitFamilies(G))
<1> DEFINE V == DOMAIN vm
           parts(g) == {Part(v, g.vms) : v \in g.vms}
           In_(g, p) == {v \in g.vms : Part(v, g.vms) = p}
           part(g, p) == [Restricted(g, In_(g, p)) EXCEPT !.key.cut.family = p + 1]
           K == {g \in G : parts(g) = {0}}
           H == SplitFamilies(G)
           slot == [g \in G |-> [v \in g.vms |-> Part(v, g.vms)]]
           piece == [g \in G |-> [p \in parts(g) |-> part(g, p)]]
<1>1. H = UNION {IF parts(g) = {0} THEN {g} ELSE {part(g, p) : p \in parts(g)} : g \in G}
    BY Zenon DEF SplitFamilies
<1>2. ASSUME NEW g \in G, NEW p \in parts(g)
      PROVE  IsGroup(part(g, p), V) /\ part(g, p).vms = In_(g, p) /\ part(g, p).key.cut.batch = 0
  <2>1. IsGroup(g, V) /\ g.key.cut.batch = 0
    BY DEF GroupSet, Unbatched
  <2>2. p \in Nat /\ In_(g, p) \in SUBSET g.vms /\ In_(g, p) # {}
    BY <2>1, PartsAreNumbered DEF IsGroup
  <2>3. part(g, p) = PartOf(g, In_(g, p), "family", p + 1) /\ p + 1 \in Nat /\ "family" \in {"family", "batch"}
    BY <2>2 DEF PartOf, Renamed
  <2> HIDE DEF In_, part, V
  <2>4. IsPart(part(g, p), g, In_(g, p), "family", p + 1, V)
    BY <2>1, <2>2, <2>3, PartOfGroup
  <2>5. IsGroup(part(g, p), V) /\ part(g, p).vms = In_(g, p)
        /\ part(g, p).key.cut = [g.key.cut EXCEPT !["family"] = p + 1]
    BY <2>4 DEF IsPart
  <2>6. QED
    BY <2>1, <2>5 DEF IsGroup
<1>3. \A g \in G : \A v \in g.vms : /\ slot[g][v] = Part(v, g.vms) /\ slot[g][v] \in parts(g)
                                    /\ piece[g][slot[g][v]] = part(g, slot[g][v])
                                    /\ In_(g, slot[g][v]) = {w \in g.vms : slot[g][w] = slot[g][v]}
  <2> HIDE DEF part
  <2>1. QED
    OBVIOUS
<1>4. \A g \in G : \A p \in parts(g) : \E v \in g.vms : p = slot[g][v]
  <2> HIDE DEF part, piece
  <2>1. QED
    OBVIOUS
<1>14. ASSUME NEW g \in G, NEW p \in parts(g)
       PROVE  p \in Nat /\ \A v \in In_(g, p) : Cardinality(FamilyIn(v, In_(g, p))) <= CapOf(v)
  <2>1. g.vms \in SUBSET DOMAIN vm
    BY DEF GroupSet, IsGroup
  <2>2. p \in Nat
    BY <2>1, PartsAreNumbered
  <2>3. QED
    BY <2>1, <2>2, PartIsWithinCap
<1>15. \A g \in K : 0 \in parts(g) /\ g.vms = In_(g, 0)
  <2> SUFFICES ASSUME NEW g \in G, parts(g) = {0} PROVE 0 \in parts(g) /\ g.vms = In_(g, 0)
    BY DEF K
  <2>1. \A v \in g.vms : Part(v, g.vms) \in parts(g)
    OBVIOUS
  <2> HIDE DEF parts
  <2>2. QED
    BY <2>1
<1> HIDE DEF parts, In_, part, H, slot, piece
<1>5. \A h \in H : h \in K \/ \E g \in G \ K : \E p \in parts(g) : h = part(g, p)
    BY <1>1
<1>6. \A h \in H : h \in K \/ \E g \in G \ K : \E v \in g.vms : h = piece[g][slot[g][v]]
    BY <1>3, <1>4, <1>5
<1>7. \A g \in K : g \in H
    BY <1>1
<1>8. \A g \in G \ K : \A p \in parts(g) : part(g, p) \in H
    BY <1>1
<1>9. \A g \in G \ K : \A v \in g.vms :
         /\ piece[g][slot[g][v]] \in H
         /\ IsGroup(piece[g][slot[g][v]], V)
         /\ piece[g][slot[g][v]].vms = {w \in g.vms : slot[g][w] = slot[g][v]}
    BY <1>2, <1>3, <1>8
<1>10. K \in SUBSET G /\ GroupSet(G, V)
    OBVIOUS
<1>11. Unbatched(H)
    BY <1>2, <1>5 DEF Unbatched
<1>12. GroupSet(H, V)
  <2>1. InPieces(G, H, K, slot, piece, V)
    BY <1>6, <1>7, <1>9 DEF InPieces
  <2> HIDE DEF K, V
  <2>2. QED
    BY <1>10, <2>1, CutIntoPieces
<1>16. Capped(H)
  <2> SUFFICES ASSUME NEW h \in H PROVE \A v \in h.vms : Cardinality(FamilyIn(v, h.vms)) <= CapOf(v)
    BY DEF Capped
  <2>1. CASE h \in K
    <3>1. 0 \in parts(h) /\ h.vms = In_(h, 0)
      BY <1>15, <2>1
    <3>2. QED
      BY <1>14, <2>1, <3>1
  <2>2. CASE h \notin K
    <3>1. PICK g \in G \ K : \E p \in parts(g) : h = part(g, p)
      BY <1>5, <2>2
    <3>2. PICK p \in parts(g) : h = part(g, p)
      BY <3>1
    <3>3. h.vms = In_(g, p)
      BY <1>2, <3>2
    <3>4. QED
      BY <1>14, <3>3
  <2>3. QED
    BY <2>1, <2>2
<1>13. QED
    BY <1>11, <1>12, <1>16 DEF H, V

\* The id of a part is that of the group but for the cut.
LEMMA IdOfPart ==
    ASSUME NEW V, NEW g, IsGroup(g, V), NEW h, h.key = [g.key EXCEPT !.cut = h.key.cut]
    PROVE  Id(h).cut = h.key.cut /\ Id(g) = [Id(h) EXCEPT !.cut = g.key.cut]
<1> DEFINE c == h.key.cut
           ns == IF g.key.primary.ns = "" THEN "default" ELSE g.key.primary.ns
           p == [g.key.primary EXCEPT !.ns = ns]
<1>1. {"primary", "role", "cut"} \subseteq DOMAIN g.key /\ h.key = [g.key EXCEPT !.cut = c]
    BY DEF IsGroup
<1> HIDE DEF c
<1>2. Id(g) = [g.key EXCEPT !.primary = p]
    BY <1>1 DEF Id
<1>3. h.key.primary = g.key.primary /\ {"primary", "role", "cut"} \subseteq DOMAIN h.key /\ h.key.cut = c
    BY <1>1
<1>4. Id(h) = [h.key EXCEPT !.primary = p]
    BY <1>3 DEF Id
<1> HIDE DEF p
<1>5. DOMAIN Id(g) = DOMAIN g.key /\ DOMAIN Id(h) = DOMAIN g.key
      /\ \A f \in DOMAIN g.key : f # "cut" => Id(h)[f] = Id(g)[f]
    BY <1>2, <1>4
<1>6. Id(h)["cut"] = c /\ Id(g)["cut"] = g.key["cut"]
    BY <1>1, <1>2, <1>3, <1>4
<1>7. Id(g) = [f \in DOMAIN g.key |-> Id(g)[f]]
    BY <1>2
<1> DEFINE e == [Id(h) EXCEPT !.cut = g.key.cut]
<1>8. e = [f \in DOMAIN g.key |-> e[f]] /\ \A f \in DOMAIN g.key : e[f] = Id(g)[f]
    BY <1>1, <1>5, <1>6
<1> HIDE DEF e
<1>9. Id(g) = e
    BY <1>7, <1>8
<1>10. QED
    BY <1>6, <1>9 DEF e, c

NoClash(G) == \A g, h \in G : Id(g) = Id(h) => g = h

\* The first half of Stage 4: every group fits a wave, and ids stay apart.
LEMMA OversizedSplit ==
    ASSUME NEW V \in SUBSET Nat, IsFiniteSet(V), NEW G, GroupSet(G, V), Unbatched(G)
    PROVE  /\ GroupSet(SplitOversized(G), V)
           /\ \A h \in SplitOversized(G) : Cardinality(h.vms) <= MaxVMsPerWave
           /\ \A h \in SplitOversized(G) : \E g \in G : h.vms \subseteq g.vms
           /\ NoClash(G) => NoClash(SplitOversized(G))
<1> DEFINE batch(v, g) == Cardinality({w \in g.vms : w < v}) \div MaxVMsPerWave
           In_(g, b) == {v \in g.vms : batch(v, g) = b}
           part(g, b) == [Restricted(g, In_(g, b)) EXCEPT !.key.cut.batch = b + 1]
           batches(g) == {batch(v, g) : v \in g.vms}
           K == {g \in G : Cardinality(g.vms) <= MaxVMsPerWave}
           H == SplitOversized(G)
           slot == [g \in G |-> [v \in g.vms |-> batch(v, g)]]
           piece == [g \in G |-> [b \in batches(g) |-> part(g, b)]]
<1>1. H = UNION {IF Cardinality(g.vms) <= MaxVMsPerWave THEN {g} ELSE {part(g, b) : b \in batches(g)} : g \in G}
    BY Zenon DEF SplitOversized
<1>2. MaxVMsPerWave \in Nat \ {0}
    BY LimitsAssumption
<1>3. \A g \in G : IsGroup(g, V) /\ g.vms \in SUBSET Nat /\ IsFiniteSet(g.vms) /\ g.key.cut.batch = 0
  <2> TAKE g \in G
  <2>1. IsGroup(g, V) /\ g.vms \in SUBSET V
    BY DEF GroupSet, IsGroup
  <2>2. QED
    BY <2>1, FS_Subset DEF Unbatched
<1>4. \A g \in G : \A v \in g.vms : batch(v, g) \in Nat
  <2> TAKE g \in G
  <2> TAKE v \in g.vms
  <2> DEFINE below == {w \in g.vms : w < v}
  <2>1. below \in SUBSET g.vms
    OBVIOUS
  <2> HIDE DEF below
  <2>2. Cardinality(below) \in Nat
    BY <1>3, <2>1, FS_Subset, FS_CardinalityType
  <2>3. \A n \in Nat, c \in Nat \ {0} : n \div c \in Nat
    OBVIOUS
  <2>4. QED
    BY <1>2, <2>2, <2>3 DEF below
<1>5. \A g \in G : \A b \in Nat : Cardinality(In_(g, b)) <= MaxVMsPerWave
    BY <1>2, <1>3, Slices
<1>6. ASSUME NEW g \in G, NEW b \in batches(g)
      PROVE  /\ b \in Nat
             /\ IsGroup(part(g, b), V) /\ part(g, b).vms = In_(g, b)
             /\ part(g, b).key = [g.key EXCEPT !.cut = part(g, b).key.cut]
             /\ part(g, b).key.cut = [g.key.cut EXCEPT !.batch = b + 1]
  <2>1. b \in Nat /\ In_(g, b) \in SUBSET g.vms /\ In_(g, b) # {}
    BY <1>4
  <2> HIDE DEF In_, batch, batches
  <2>2. part(g, b) = PartOf(g, In_(g, b), "batch", b + 1) /\ b + 1 \in Nat /\ "batch" \in {"family", "batch"}
    BY <2>1 DEF PartOf, Renamed
  <2> HIDE DEF part
  <2>3. IsPart(part(g, b), g, In_(g, b), "batch", b + 1, V)
    BY <1>3, <2>1, <2>2, PartOfGroup
  <2>4. /\ IsGroup(part(g, b), V) /\ part(g, b).vms = In_(g, b)
        /\ part(g, b).key = [g.key EXCEPT !.cut = part(g, b).key.cut]
        /\ part(g, b).key.cut = [g.key.cut EXCEPT !["batch"] = b + 1]
    BY <2>3, Zenon DEF IsPart
  <2>5. [g.key.cut EXCEPT !["batch"] = b + 1] = [g.key.cut EXCEPT !.batch = b + 1]
    OBVIOUS
  <2>6. QED
    BY <2>1, <2>4, <2>5, Zenon
<1>7. \A g \in G : \A v \in g.vms : /\ slot[g][v] \in batches(g)
                                    /\ piece[g][slot[g][v]] = part(g, slot[g][v])
                                    /\ In_(g, slot[g][v]) = {w \in g.vms : slot[g][w] = slot[g][v]}
  <2> HIDE DEF part, batch
  <2>1. QED
    OBVIOUS
<1>8. \A g \in G : \A b \in batches(g) : \E v \in g.vms : b = slot[g][v]
  <2> HIDE DEF part, piece, batch
  <2>1. QED
    OBVIOUS
<1>17. \A g \in G : \A b \in batches(g) : In_(g, b) \subseteq g.vms
  OBVIOUS
<1> HIDE DEF batch, In_, part, batches, H, slot, piece
<1>9. \A h \in H : h \in K \/ \E g \in G \ K : \E b \in batches(g) : h = part(g, b)
    BY <1>1
<1>10. \A g \in K : g \in H
    BY <1>1
<1>11. \A g \in G \ K : \A b \in batches(g) : part(g, b) \in H
    BY <1>1
<1>12. GroupSet(H, V)
  <2>0. \A g \in G : \A b \in batches(g) : IsGroup(part(g, b), V) /\ part(g, b).vms = In_(g, b)
    BY <1>6
  <2>1. \A h \in H : h \in K \/ \E g \in G \ K : \E v \in g.vms : h = piece[g][slot[g][v]]
    BY <1>7, <1>8, <1>9
  <2>2. \A g \in G \ K : \A v \in g.vms :
           /\ piece[g][slot[g][v]] \in H
           /\ IsGroup(piece[g][slot[g][v]], V)
           /\ piece[g][slot[g][v]].vms = {w \in g.vms : slot[g][w] = slot[g][v]}
    <3> TAKE g \in G \ K
    <3> TAKE v \in g.vms
    <3>1. slot[g][v] \in batches(g) /\ piece[g][slot[g][v]] = part(g, slot[g][v])
          /\ In_(g, slot[g][v]) = {w \in g.vms : slot[g][w] = slot[g][v]}
      BY <1>7
    <3>2. QED
      BY <1>11, <2>0, <3>1
  <2>3. InPieces(G, H, K, slot, piece, V) /\ K \in SUBSET G
    BY <2>1, <2>2, <1>10 DEF InPieces
  <2> HIDE DEF K
  <2>4. QED
    BY <2>3, CutIntoPieces
<1>13. \A h \in H : Cardinality(h.vms) <= MaxVMsPerWave
  <2> TAKE h \in H
  <2>1. CASE h \notin K
    <3>1. PICK g \in G : \E b \in batches(g) : h = part(g, b)
      BY <1>9, <2>1
    <3>2. PICK b \in batches(g) : h = part(g, b)
      BY <3>1
    <3>3. b \in Nat /\ h.vms = In_(g, b)
      BY <1>6, <3>2
    <3>4. QED
      BY <1>5, <3>3
  <2>2. QED
    BY <2>1
<1>14. ASSUME NoClash(G), NEW h \in H, NEW k \in H, Id(h) = Id(k)
       PROVE  h = k
  <2>1. ASSUME NEW x \in H
        PROVE  \/ x \in G /\ Id(x).cut.batch = 0
               \/ \E g \in G : \E b \in batches(g) :
                     /\ x = part(g, b) /\ b \in Nat
                     /\ Id(x).cut = [g.key.cut EXCEPT !.batch = b + 1]
                     /\ Id(g) = [Id(x) EXCEPT !.cut = g.key.cut]
    <3>1. CASE x \in K
      <4>1. {"primary", "role", "cut"} \subseteq DOMAIN x.key /\ x.key.cut.batch = 0
        BY <1>3, <3>1 DEF IsGroup
      <4>2. Id(x).cut = x.key.cut
        BY <4>1 DEF Id
      <4>3. QED
        BY <3>1, <4>1, <4>2
    <3>2. CASE x \notin K
      <4>1. PICK g \in G : \E b \in batches(g) : x = part(g, b)
        BY <1>9, <3>2
      <4>2. PICK b \in batches(g) : x = part(g, b)
        BY <4>1
      <4>3. IsGroup(g, V) /\ b \in Nat /\ x.key = [g.key EXCEPT !.cut = x.key.cut]
            /\ x.key.cut = [g.key.cut EXCEPT !.batch = b + 1]
        BY <1>3, <1>6, <4>2
      <4>4. Id(x).cut = [g.key.cut EXCEPT !.batch = b + 1] /\ Id(g) = [Id(x) EXCEPT !.cut = g.key.cut]
        BY <4>3, IdOfPart
      <4>5. QED
        BY <4>2, <4>3, <4>4
    <3>3. QED
      BY <3>1, <3>2
  <2>2. \A g \in G : g.key.cut \in [family : Nat, batch : {0}]
    BY <1>3 DEF IsGroup
  <2>3. \A g \in G : \A b \in Nat : [g.key.cut EXCEPT !.batch = b + 1].batch = b + 1 /\ b + 1 # 0
    BY <2>2
  <2>4. CASE Id(h).cut.batch = 0
    <3>1. ASSUME NEW x \in H, Id(x).cut.batch = 0 PROVE x \in G
      <4>1. ASSUME NEW g \in G, NEW b \in batches(g), b \in Nat,
                   Id(x).cut = [g.key.cut EXCEPT !.batch = b + 1]
            PROVE  FALSE
        BY <2>3, <3>1, <4>1
      <4>2. QED
        BY <2>1, <4>1
    <3>2. h \in G /\ k \in G
      BY <1>14, <2>4, <3>1
    <3>3. QED
      BY <1>14, <3>2 DEF NoClash
  <2>5. CASE Id(h).cut.batch # 0
    <3>1. PICK g \in G : \E b \in batches(g) :
                     /\ h = part(g, b) /\ b \in Nat
                     /\ Id(h).cut = [g.key.cut EXCEPT !.batch = b + 1]
                     /\ Id(g) = [Id(h) EXCEPT !.cut = g.key.cut]
      BY <2>1, <2>5
    <3>2. PICK b \in batches(g) :
                     /\ h = part(g, b) /\ b \in Nat
                     /\ Id(h).cut = [g.key.cut EXCEPT !.batch = b + 1]
                     /\ Id(g) = [Id(h) EXCEPT !.cut = g.key.cut]
      BY <3>1
    <3>3. PICK e \in G : \E c \in batches(e) :
                     /\ k = part(e, c) /\ c \in Nat
                     /\ Id(k).cut = [e.key.cut EXCEPT !.batch = c + 1]
                     /\ Id(e) = [Id(k) EXCEPT !.cut = e.key.cut]
      BY <1>14, <2>1, <2>5
    <3>4. PICK c \in batches(e) :
                     /\ k = part(e, c) /\ c \in Nat
                     /\ Id(k).cut = [e.key.cut EXCEPT !.batch = c + 1]
                     /\ Id(e) = [Id(k) EXCEPT !.cut = e.key.cut]
      BY <3>3
    <3>5. [g.key.cut EXCEPT !.batch = b + 1] = [e.key.cut EXCEPT !.batch = c + 1]
      BY <1>14, <3>2, <3>4
    <3>6. b = c /\ g.key.cut = e.key.cut
      BY <2>2, <3>2, <3>4, <3>5
    <3>7. Id(g) = Id(e)
      BY <1>14, <3>2, <3>4, <3>6
    <3>8. g = e
      BY <1>14, <3>7 DEF NoClash
    <3>9. QED
      BY <3>2, <3>4, <3>6, <3>8
  <2>6. QED
    BY <2>4, <2>5
<1>15. NoClash(G) => NoClash(H)
    BY <1>14 DEF NoClash
<1>18. \A h \in H : \E g \in G : h.vms \subseteq g.vms
  <2> SUFFICES ASSUME NEW h \in H PROVE \E g \in G : h.vms \subseteq g.vms
    OBVIOUS
  <2>1. CASE h \in K
    BY <2>1
  <2>2. CASE h \notin K
    <3>1. PICK g \in G : \E b \in batches(g) : h = part(g, b)
      BY <1>9, <2>2
    <3>2. PICK b \in batches(g) : h = part(g, b)
      BY <3>1
    <3>3. h.vms = In_(g, b) /\ In_(g, b) \subseteq g.vms
      BY <1>6, <1>17, <3>2
    <3>4. QED
      BY <3>3
  <2>3. QED
    BY <2>1, <2>2
<1>16. QED
    BY <1>12, <1>13, <1>15, <1>18 DEF H

\* Batches are within the caps that their groups were within.
LEMMA StaysCapped ==
    ASSUME NEW V, IsFiniteSet(V), V = DOMAIN vm, NEW G, GroupSet(G, V), Capped(G), NEW H,
           \A h \in H : \E g \in G : h.vms \subseteq g.vms
    PROVE  Capped(H)
<1> SUFFICES ASSUME NEW h \in H, NEW v \in h.vms PROVE Cardinality(FamilyIn(v, h.vms)) <= CapOf(v)
  BY DEF Capped
<1>1. PICK g \in G : h.vms \subseteq g.vms
  OBVIOUS
<1>2. g.vms \in SUBSET V /\ IsFiniteSet(g.vms) /\ v \in g.vms
  <2>1. g.vms \in SUBSET V /\ v \in g.vms
    BY <1>1 DEF GroupSet, IsGroup
  <2>2. QED
    BY <2>1, FS_Subset
<1>3. CapOf(v) \in Nat \ {0}
  BY <1>2, CapIsPositive
<1>4. Cardinality(FamilyIn(v, g.vms)) <= CapOf(v)
  BY <1>2 DEF Capped
<1>5. QED
  BY <1>1, <1>2, <1>3, <1>4, FewerAreWithinCap

-----------------------------------------------------------------------------
(* Stage 4: groups are packed. *)

\* What the packer is given: groups small enough for a wave, each VM in one.
PackerInput(all, V) ==
    /\ V \in SUBSET Nat /\ IsFiniteSet(V) /\ IsFiniteSet(all)
    /\ \A g \in all : IsGroup(g, V) /\ Cardinality(g.vms) <= MaxVMsPerWave
    /\ Disjoint(all)

\* What is placed before a group.
PlacedBefore(all) == [g \in all |-> {h \in all : Before(h, g)}]

\* The packer takes the groups in an order: no two have the same priorities and the same least VM.
LEMMA PackerHasAnOrder ==
    ASSUME NEW V, NEW all, PackerInput(all, V)
    PROVE  /\ StrictOrder(PlacedBefore(all), all)
           /\ \A g, h \in all : g # h => g \in PlacedBefore(all)[h] \/ h \in PlacedBefore(all)[g]
<1> DEFINE p == [g \in all |-> RolePriority[g.key.role]]
           r == [g \in all |-> RiskPriority[g.risk]]
           l == [g \in all |-> Least(g.vms)]
           less(g, h) == p[g] < p[h] \/ (p[g] = p[h] /\ (r[g] < r[h] \/ (r[g] = r[h] /\ l[g] < l[h])))
<1>1. ASSUME NEW g \in all PROVE p[g] \in Nat /\ r[g] \in Nat /\ l[g] \in Nat /\ l[g] \in g.vms
  <2>1. IsGroup(g, V) /\ V \in SUBSET Nat
    BY DEF PackerInput
  <2>2. g.key.role \in Roles /\ g.risk \in Risks /\ g.vms \in SUBSET Nat /\ g.vms # {}
    BY <2>1 DEF IsGroup
  <2>3. RolePriority[g.key.role] \in Nat
    BY <2>2 DEF Roles, RolePriority
  <2>4. RiskPriority[g.risk] \in Nat
    BY <2>2 DEF Risks, RiskPriority
  <2>5. Least(g.vms) \in g.vms
    BY <2>2, HasLowest DEF Least
  <2>6. QED
    BY <2>2, <2>3, <2>4, <2>5
<1>2. ASSUME NEW g \in all, NEW h \in all, l[g] = l[h] PROVE g = h
  <2>1. l[g] \in g.vms \intersect h.vms
    BY <1>1, <1>2
  <2>2. QED
    BY <2>1 DEF PackerInput, Disjoint
<1>3. \A g, h \in all : g \in PlacedBefore(all)[h] <=> less(g, h)
  BY DEF PlacedBefore, Before
<1> HIDE DEF p, r, l
<1>4. StrictOrder(PlacedBefore(all), all)
  <2> SUFFICES ASSUME NEW x \in all, NEW y \in all, NEW z \in all
               PROVE  ~less(x, x) /\ (less(x, y) /\ less(y, z) => less(x, z))
    <3> HIDE DEF less
    <3>1. QED
      BY <1>3 DEF StrictOrder
  <2>1. QED
    BY <1>1
<1>5. ASSUME NEW g \in all, NEW h \in all, g # h PROVE less(g, h) \/ less(h, g)
  BY <1>1, <1>2, <1>5
<1> HIDE DEF less
<1>6. QED
  BY <1>3, <1>4, <1>5

\* The waves a group may be placed in, given those of the groups before it.
Placeable(g, placed, f) == MinWave(g, placed, f)..(TopWave(placed, f) + 1)

FreeIn(g, placed, f, all) == {w \in Placeable(g, placed, f) : Fits(g, In(placed, f, w), all)}

\* A group fits an empty wave.
LEMMA FitsAlone ==
    ASSUME NEW V, NEW all, PackerInput(all, V), NEW g \in all
    PROVE  Fits(g, {}, all)
<1>1. IsGroup(g, V) /\ IsFiniteSet(V) /\ Cardinality(g.vms) <= MaxVMsPerWave
  BY DEF PackerInput
<1>2. IsFiniteSet(g.vms) /\ Cardinality(g.vms) \in Nat /\ Cardinality({}) = 0
  BY <1>1, FS_Subset, FS_CardinalityType, FS_EmptySet DEF IsGroup
<1>3. VMsOf({}) = {}
  BY DEF VMsOf
<1>4. Cardinality(Peers(g)) \in Nat
  <2>1. Peers(g) \in SUBSET V
    BY <1>1 DEF IsGroup, Peers
  <2>2. QED
    BY <1>1, <2>1, FS_Subset, FS_CardinalityType
<1>5. PeersIn(g, {}) = 0
  <2>1. \A f : {h \in {} : HAFamily(h) = HAFamily(g)} = {} /\ UNION {Peers(h) : h \in {}} = {}
    OBVIOUS
  <2>2. QED
    BY <2>1, <1>2 DEF PeersIn
<1>6. FitsFamily(g, {}, all)
  BY <1>4, <1>5, LimitsAssumption DEF FitsFamily, TooLarge, PeerCap
<1>7. QED
  BY <1>1, <1>2, <1>3, <1>6 DEF Fits

\* A number more.
LEMMA OneMore ==
    ASSUME NEW S \in SUBSET Nat, IsFiniteSet(S), NEW n \in Nat
    PROVE  IsFiniteSet({n} \union S) /\ {n} \union S \in SUBSET Nat /\ {n} \union S # {}
<1>1. IsFiniteSet(S \union {n}) /\ S \union {n} = {n} \union S
  BY FS_AddElement
<1>2. QED
  BY <1>1

\* Behind all others there is always a wave for it.
LEMMA SomeWaveIsFree ==
    ASSUME NEW V, NEW all, PackerInput(all, V), NEW g \in all, NEW placed \in SUBSET all,
           NEW f, \A h \in placed : f[h] \in Nat \ {0}
    PROVE  /\ FreeIn(g, placed, f, all) # {} /\ FreeIn(g, placed, f, all) \in SUBSET (Nat \ {0})
           /\ \A w \in FreeIn(g, placed, f, all) : \A h \in placed : Id(h) \in g.hints => f[h] < w
<1> DEFINE hinted == {h \in placed : Id(h) \in g.hints}
           low == {1} \union {f[h] + 1 : h \in hinted}
           high == {0} \union {f[h] : h \in placed}
           m == MinWave(g, placed, f)
           t == TopWave(placed, f)
<1>1. IsFiniteSet(placed) /\ IsFiniteSet(hinted) /\ hinted \in SUBSET placed
  BY FS_Subset DEF PackerInput
<1>2. IsFiniteSet(high) /\ high \in SUBSET Nat /\ high # {}
  <2>1. IsFiniteSet({f[h] : h \in placed}) /\ {f[h] : h \in placed} \in SUBSET Nat
    BY <1>1, ImageIsFinite
  <2>2. QED
    BY <2>1, OneMore
<1>3. IsFiniteSet(low) /\ low \in SUBSET Nat /\ low # {}
  <2> DEFINE s == [h \in hinted |-> f[h] + 1]
  <2>1. \A h \in hinted : s[h] = f[h] + 1 /\ s[h] \in Nat
    OBVIOUS
  <2> HIDE DEF s, hinted
  <2>2. IsFiniteSet({s[h] : h \in hinted})
    BY <1>1, ImageIsFinite
  <2>3. {s[h] : h \in hinted} = {f[h] + 1 : h \in hinted}
    BY <2>1
  <2>4. {s[h] : h \in hinted} \in SUBSET Nat
    BY <2>1
  <2>5. QED
    BY <2>2, <2>3, <2>4, OneMore
<1>4. t \in high /\ \A y \in high : y <= t
  <2>1. t = Max(high)
    BY DEF TopWave
  <2> HIDE DEF high
  <2>2. QED
    BY <2>1, <1>2, FiniteHasHighest
<1>5. m \in low /\ \A y \in low : y <= m
  <2>1. m = Max(low)
    BY DEF MinWave
  <2> HIDE DEF low
  <2>2. QED
    BY <2>1, <1>3, FiniteHasHighest
<1>6. t \in Nat /\ m \in Nat /\ 1 <= m /\ m <= t + 1 /\ \A h \in placed : f[h] <= t
  <2>1. t \in Nat /\ m \in Nat /\ 1 <= m /\ \A h \in placed : f[h] <= t
    BY <1>2, <1>3, <1>4, <1>5
  <2>2. CASE m = 1
    BY <2>1, <2>2
  <2>3. CASE m # 1
    <3>1. PICK h \in hinted : m = f[h] + 1
      BY <1>5, <2>3
    <3>2. QED
      BY <2>1, <3>1
  <2>4. QED
    BY <2>1, <2>2, <2>3
<1>7. \A h \in placed : Id(h) \in g.hints => f[h] + 1 <= m
  BY <1>5
<1> HIDE DEF m, t, low, high, hinted
<1>8. In(placed, f, t + 1) = {}
  BY <1>6 DEF In
<1>9. t + 1 \in FreeIn(g, placed, f, all)
  BY <1>6, <1>8, FitsAlone DEF FreeIn, Placeable, m, t
<1>10. \A w \in FreeIn(g, placed, f, all) : w \in Nat /\ m <= w
  BY <1>6 DEF FreeIn, Placeable, m, t
<1>11. ASSUME NEW w \in FreeIn(g, placed, f, all), NEW h \in placed, Id(h) \in g.hints PROVE f[h] < w
  BY <1>6, <1>7, <1>10, <1>11
<1>12. \A w \in FreeIn(g, placed, f, all) : w \in Nat \ {0}
  BY <1>6, <1>10
<1>13. QED
  BY <1>9, <1>11, <1>12

\* Where a group may be placed depends on the waves of what is placed before it only.
LEMMA FreeFromBelow ==
    ASSUME NEW g, NEW placed, NEW all, NEW f, NEW h, \A k \in placed : f[k] = h[k]
    PROVE  FreeIn(g, placed, f, all) = FreeIn(g, placed, h, all)
<1>1. {f[k] + 1 : k \in {k \in placed : Id(k) \in g.hints}}
         = {h[k] + 1 : k \in {k \in placed : Id(k) \in g.hints}}
  OBVIOUS
<1>2. {f[k] : k \in placed} = {h[k] : k \in placed}
  OBVIOUS
<1>3. MinWave(g, placed, f) = MinWave(g, placed, h)
  BY <1>1, Zenon DEF MinWave
<1>4. TopWave(placed, f) = TopWave(placed, h)
  BY <1>2, Zenon DEF TopWave
<1>5. \A w : In(placed, f, w) = In(placed, h, w)
  BY DEF In
<1>6. QED
  BY <1>3, <1>4, <1>5 DEF FreeIn, Placeable

\* Each group is placed in a wave that was free for it.
LEMMA PackingPlaces ==
    ASSUME NEW V, NEW all, PackerInput(all, V)
    PROVE  /\ DOMAIN Packing(all) = all
           /\ \A g \in all : /\ Packing(all)[g] \in Nat \ {0}
                             /\ Packing(all)[g] \in FreeIn(g, PlacedBefore(all)[g], Packing(all), all)
<1> DEFINE E == PlacedBefore(all)
           N == Nat \ {0}
           free(g, f) == FreeIn(g, E[g], f, all)
           G == [g \in all |-> [f \in [all -> N] |-> Least(free(g, f))]]
<1>1. IsFiniteSet(all) /\ StrictOrder(E, all) /\ \A g \in all : E[g] \in SUBSET all
  BY PackerHasAnOrder DEF PackerInput, PlacedBefore
<1>2. ASSUME NEW g \in all, NEW f, \A h \in E[g] : f[h] \in N
      PROVE  Least(free(g, f)) \in N /\ Least(free(g, f)) \in free(g, f)
  <2>1. E[g] \in SUBSET all /\ \A h \in E[g] : f[h] \in Nat \ {0}
    BY <1>1, <1>2
  <2> HIDE DEF E, N
  <2>2. free(g, f) # {} /\ free(g, f) \in SUBSET (Nat \ {0})
    BY <2>1, SomeWaveIsFree
  <2> HIDE DEF free
  <2>3. Least(free(g, f)) \in free(g, f)
    BY <2>2, HasLowest DEF Least
  <2>4. QED
    BY <2>2, <2>3 DEF N
<1> HIDE DEF N
<1>3. G \in [all -> [[all -> N] -> N]]
  <2>1. \A g \in all, f \in [all -> N] : Least(free(g, f)) \in N
    BY <1>1, <1>2
  <2> HIDE DEF free
  <2>2. QED
    BY <2>1
<1>4. FromBelow(G, all, N, E)
  <2> SUFFICES ASSUME NEW g \in all, NEW f \in [all -> N], NEW h \in [all -> N],
                      \A k \in all : k \in E[g] => f[k] = h[k]
               PROVE  G[g][f] = G[g][h]
    BY DEF FromBelow
  <2>1. \A k \in E[g] : f[k] = h[k]
    BY <1>1
  <2>2. free(g, f) = free(g, h)
    BY <2>1, FreeFromBelow
  <2> HIDE DEF free
  <2>3. QED
    BY <2>2
<1>5. PICK c \in [all -> N] : \A g \in all : c[g] = G[g][c]
  <2> HIDE DEF G
  <2>1. N # {}
    BY DEF N
  <2> HIDE DEF E
  <2>2. Solvable(G, all, N)
    BY <1>1, <1>3, <1>4, <2>1, Recursion
  <2>3. QED
    BY <2>2 DEF Solvable
<1>6. c = [g \in all |-> Least(free(g, c))]
  <2> HIDE DEF free
  <2>1. QED
    BY <1>5
<1>7. PICK d : d = Packing(all)
  OBVIOUS
<1>8. d = [g \in all |-> Least(free(g, d))]
  <2>1. \A g \in all : E[g] = {h \in all : Before(h, g)}
    BY DEF PlacedBefore
  <2> HIDE DEF E
  <2>2. \A f : [g \in all |-> Least(free(g, f))] =
               [g \in all |-> Least({w \in MinWave(g, {h \in all : Before(h, g)}, f)..
                                           (TopWave({h \in all : Before(h, g)}, f) + 1) :
                                        Fits(g, In({h \in all : Before(h, g)}, f, w), all)})]
    BY <2>1, Zenon DEF FreeIn, Placeable
  <2>3. c = [g \in all |-> Least({w \in MinWave(g, {h \in all : Before(h, g)}, c)..
                                           (TopWave({h \in all : Before(h, g)}, c) + 1) :
                                        Fits(g, In({h \in all : Before(h, g)}, c, w), all)})]
    BY <1>6, <2>2, Zenon
  <2>4. Packing(all) = [g \in all |-> Least({w \in MinWave(g, {h \in all : Before(h, g)}, Packing(all))..
                                           (TopWave({h \in all : Before(h, g)}, Packing(all)) + 1) :
                                        Fits(g, In({h \in all : Before(h, g)}, Packing(all), w), all)})]
    BY <2>3, Zenon DEF Packing
  <2>5. QED
    BY <1>7, <2>2, <2>4, Zenon
\* By the order: the waves before it being free ones, so is its own.
<1>9. DOMAIN d = all /\ \A g \in all : d[g] = Least(free(g, d))
  <2> HIDE DEF free
  <2>1. QED
    BY <1>8
<1>10. \A g \in all : d[g] \in N
  <2> DEFINE Bad == {g \in all : d[g] \notin N}
  <2> SUFFICES ASSUME Bad # {} PROVE FALSE
    OBVIOUS
  <2>1. Bad \in SUBSET all
    OBVIOUS
  <2>2. PICK g \in Bad : \A h \in Bad : h \notin E[g]
    <3> HIDE DEF Bad, E
    <3>1. QED
      BY <1>1, <2>1, HasMinimal
  <2>3. \A h \in E[g] : d[h] \in N
    BY <1>1, <2>2
  <2>4. d[g] \in N
    <3> HIDE DEF free
    <3>1. QED
      BY <1>2, <1>9, <2>3
  <2>5. QED
    BY <2>4
<1>11. ASSUME NEW g \in all PROVE d[g] \in N /\ d[g] \in free(g, d)
  <2>1. \A h \in E[g] : d[h] \in N
    BY <1>1, <1>10
  <2> HIDE DEF free
  <2>2. QED
    BY <1>2, <1>9, <1>10, <2>1
<1>12. QED
  BY <1>7, <1>9, <1>11 DEF N

\* The groups of one number of the packer, by the order they were placed in.
LEMMA EachFits ==
    ASSUME NEW V, NEW all, PackerInput(all, V), NEW g \in all
    PROVE  LET wave == Packing(all)
               w    == wave[g]
           IN  /\ w \in Nat \ {0}
               /\ Fits(g, {h \in all : Before(h, g) /\ wave[h] = w}, all)
               /\ \A h \in all : Before(h, g) /\ Id(h) \in g.hints => wave[h] < w
<1> DEFINE wave == Packing(all)
           E == PlacedBefore(all)[g]
<1>1. /\ \A h \in all : wave[h] \in Nat \ {0}
      /\ wave[g] \in FreeIn(g, E, wave, all)
  BY PackingPlaces
<1>2. E = {h \in all : Before(h, g)}
  BY DEF PlacedBefore
<1> HIDE DEF wave, E
<1>3. Fits(g, In(E, wave, wave[g]), all)
  BY <1>1 DEF FreeIn
<1>4. In(E, wave, wave[g]) = {h \in all : Before(h, g) /\ wave[h] = wave[g]}
  BY <1>2 DEF In
<1>5. E \in SUBSET all /\ \A h \in E : wave[h] \in Nat \ {0}
  BY <1>1, <1>2
<1>6. \A w \in FreeIn(g, E, wave, all) : \A h \in E : Id(h) \in g.hints => wave[h] < w
  BY <1>5, SomeWaveIsFree
<1>7. QED
  BY <1>1, <1>2, <1>3, <1>4, <1>6 DEF wave

\* What a wave is to be.
SmallEnough(wave) == Cardinality(VMsOf(wave)) <= MaxVMsPerWave

SamePartition(wave) == \A g, h \in wave : Partition(g) = Partition(h)

\* The groups of a family that can be kept apart, and what they may add up to.
Sparable(wave, g) == {h \in wave : HAFamily(h) = HAFamily(g) /\ ~TooLarge(h)}

Allowance(groups_) == IF \E h \in groups_ : HasPrimary(h) THEN 1 ELSE MaxPeers

PeersOf(groups_) == UNION {Peers(h) : h \in groups_}

PeersSpread(wave) ==
    \A g \in wave : Peers(g) # {} =>
       Cardinality(PeersOf(Sparable(wave, g))) <= Allowance(Sparable(wave, g))

\* The groups with one number of the packer.
Together(all, w) == {g \in all : Packing(all)[g] = w}

\* They fit together.
LEMMA FitTogether ==
    ASSUME NEW V, NEW all, PackerInput(all, V), NEW w, Together(all, w) # {}
    PROVE  SmallEnough(Together(all, w)) /\ SamePartition(Together(all, w))
<1> DEFINE T == Together(all, w)
<1>0. T = {g \in all : Packing(all)[g] = w} /\ T # {}
  BY DEF Together
<1> HIDE DEF T
<1>1. T \in SUBSET all /\ IsFiniteSet(all) /\ IsFiniteSet(T)
  <2>1. T \in SUBSET all
    BY <1>0
  <2>2. QED
    BY <2>1, FS_Subset DEF PackerInput
<1>2. PICK g \in T : \A h \in T : g \notin PlacedBefore(all)[h]
  BY <1>0, <1>1, PackerHasAnOrder, HasMaximal
<1>3. \A h \in T : h # g => Before(h, g)
  BY <1>1, <1>2, PackerHasAnOrder DEF PlacedBefore
<1>4. ~Before(g, g)
  BY <1>1, <1>2 DEF PlacedBefore
<1>5. {h \in all : Before(h, g) /\ Packing(all)[h] = Packing(all)[g]} = T \ {g}
  BY <1>0, <1>1, <1>3, <1>4
<1>6. Fits(g, T \ {g}, all)
  <2>1. g \in all
    BY <1>1
  <2>2. QED
    BY <2>1, <1>5, EachFits
<1>7. SamePartition(T)
  BY <1>6 DEF Fits, SamePartition
<1>8. SmallEnough(T)
  <2> DEFINE A == VMsOf(T \ {g})
             B == g.vms
  <2>1. VMsOf(T) = A \union B
    BY DEF VMsOf
  <2>2. A \in SUBSET V /\ B \in SUBSET V /\ IsFiniteSet(V)
    BY <1>1 DEF VMsOf, PackerInput, IsGroup
  <2>3. Cardinality(A) + Cardinality(B) <= MaxVMsPerWave
    BY <1>6 DEF Fits
  <2> HIDE DEF A, B
  <2>4. IsFiniteSet(A) /\ IsFiniteSet(B) /\ IsFiniteSet(A \intersect B)
    BY <2>2, FS_Subset
  <2>5. Cardinality(A) \in Nat /\ Cardinality(B) \in Nat /\ Cardinality(A \intersect B) \in Nat
    BY <2>4, FS_CardinalityType
  <2>6. Cardinality(A \union B) = Cardinality(A) + Cardinality(B) - Cardinality(A \intersect B)
    BY <2>4, FS_Union
  <2>7. Cardinality(A \union B) <= MaxVMsPerWave
    BY <2>3, <2>5, <2>6, LimitsAssumption
  <2>8. QED
    BY <2>1, <2>7, Zenon DEF SmallEnough
<1>9. QED
  BY <1>7, <1>8 DEF T

\* The peers of a wave stay within their allowance, but for groups that alone exceed it.
LEMMA PeersAreSpread ==
    ASSUME NEW V, NEW all, PackerInput(all, V), NEW w
    PROVE  PeersSpread(Together(all, w))
<1> DEFINE T == Together(all, w)
<1> SUFFICES ASSUME NEW g \in T, Peers(g) # {}
             PROVE  Cardinality(PeersOf(Sparable(T, g))) <= Allowance(Sparable(T, g))
  BY DEF PeersSpread
<1> DEFINE S == Sparable(T, g)
<1>1. MaxPeers \in Nat \ {0}
  BY LimitsAssumption
<1>2. S \in SUBSET all /\ IsFiniteSet(S)
  <2>1. S \in SUBSET all
    BY DEF Sparable, Together
  <2>2. QED
    BY <2>1, FS_Subset DEF PackerInput
<1>3. \A k \in all : Peers(k) \in SUBSET V /\ IsFiniteSet(Peers(k)) /\ Cardinality(Peers(k)) \in Nat
                     /\ (Peers(k) # {} => Cardinality(Peers(k)) # 0)
  <2> TAKE k \in all
  <2>1. Peers(k) \in SUBSET V /\ IsFiniteSet(V)
    BY DEF PackerInput, IsGroup, Peers
  <2>2. QED
    BY <2>1, FS_Subset, FS_CardinalityType, FS_EmptySet
<1>4. \A K \in SUBSET all : IsFiniteSet(PeersOf(K)) /\ Cardinality(PeersOf(K)) \in Nat
  <2> TAKE K \in SUBSET all
  <2>1. PeersOf(K) \in SUBSET V /\ IsFiniteSet(V)
    BY <1>3 DEF PackerInput, PeersOf
  <2>2. QED
    BY <2>1, FS_Subset, FS_CardinalityType
<1>5. CASE S = {}
  <2>1. PeersOf(S) = {}
    BY <1>5 DEF PeersOf
  <2>2. Cardinality(PeersOf(S)) = 0 /\ Allowance(S) \in Nat
    BY <1>1, <2>1, FS_EmptySet DEF Allowance
  <2>3. QED
    BY <2>2
<1>6. CASE S # {}
  <2>1. PICK l \in S : \A h \in S : l \notin PlacedBefore(all)[h]
    <3> HIDE DEF S
    <3> DEFINE R == PlacedBefore(all)
    <3>1. StrictOrder(R, all) /\ IsFiniteSet(all)
      BY PackerHasAnOrder DEF PackerInput
    <3> HIDE DEF R
    <3>2. \E l \in S : \A h \in S : l \notin R[h]
      BY <1>2, <1>6, <3>1, HasMaximal
    <3>3. QED
      BY <3>2 DEF R
  <2>2. l \in all /\ l \in T /\ ~TooLarge(l) /\ HAFamily(l) = HAFamily(g) /\ Packing(all)[l] = w
    BY DEF Sparable, Together
  <2>3. \A h \in S : h # l => Before(h, l)
    BY <1>2, <2>1, PackerHasAnOrder DEF PlacedBefore
  <2>4. Cardinality(Peers(l)) \in Nat /\ Cardinality(Peers(l)) <= PeerCap(l)
        /\ PeerCap(l) \in Nat /\ PeerCap(l) <= MaxPeers /\ (HasPrimary(l) => PeerCap(l) = 1)
    BY <1>1, <1>3, <2>2 DEF TooLarge, PeerCap
  <2>5. CASE S = {l}
    <3>1. PeersOf(S) = Peers(l)
      BY <2>5 DEF PeersOf
    <3>2. Allowance(S) = PeerCap(l)
      BY <2>5 DEF Allowance, PeerCap
    <3>3. QED
      BY <2>4, <3>1, <3>2
  <2>6. CASE S # {l}
    <3> DEFINE there == {k \in all : Before(k, l) /\ Packing(all)[k] = Packing(all)[l]}
               family == {k \in there : HAFamily(k) = HAFamily(l)}
               R == S \ {l}
    <3>1. PICK h \in S : h # l
      BY <1>6, <2>6
    <3>2. \A k \in S : HAFamily(k) = HAFamily(l) /\ Packing(all)[k] = Packing(all)[l]
      BY <2>2 DEF Sparable, Together
    <3>3. R \in SUBSET family /\ family \in SUBSET all /\ h \in R /\ h \in all
      BY <1>2, <2>3, <3>1, <3>2
    <3>4. Peers(l) # {} /\ Peers(h) # {}
      <4>1. \A k \in S : HAFamily(k) = HAFamily(g)
        BY DEF Sparable
      <4>2. HAFamily(g) # <<>>
        BY DEF HAFamily
      <4>3. \A k \in S : Peers(k) # {}
        BY <4>1, <4>2 DEF HAFamily
      <4>4. QED
        BY <3>1, <4>3
    <3>5. FitsFamily(l, there, all)
      BY <2>2, EachFits DEF Fits
    <3> HIDE DEF there
    <3>6. HAFamily(h) = HAFamily(l) /\ h # l
      BY <3>1, <3>2
    <3>7. PeersIn(l, there) + Cardinality(Peers(l)) <= PeerCap(l)
      BY <2>2, <3>3, <3>4, <3>5, <3>6 DEF FitsFamily
    <3>8. PeersIn(l, there) = IF \E k \in family : HasPrimary(k) THEN MaxPeers ELSE Cardinality(PeersOf(family))
      BY DEF PeersIn, PeersOf
    <3> HIDE DEF family
    <3>9. Cardinality(Peers(l)) # 0
      BY <1>3, <2>2, <3>4
    <3>10. ~\E k \in family : HasPrimary(k)
      BY <1>1, <2>4, <3>7, <3>8, <3>9
    <3>11. PeersOf(R) \in SUBSET PeersOf(family) /\ PeersOf(R) # {}
           /\ PeersOf(S) = PeersOf(R) \union Peers(l)
      BY <3>3, <3>4 DEF PeersOf
    <3>12. IsFiniteSet(PeersOf(R)) /\ Cardinality(PeersOf(R)) \in Nat /\ Cardinality(PeersOf(R)) # 0
           /\ Cardinality(PeersOf(R)) <= Cardinality(PeersOf(family)) /\ Cardinality(PeersOf(family)) \in Nat
      BY <1>2, <1>4, <3>3, <3>11, FS_Subset, FS_EmptySet
    <3>13. Cardinality(PeersOf(R)) + Cardinality(Peers(l)) <= PeerCap(l)
      BY <2>4, <3>7, <3>8, <3>10, <3>12
    <3>14. ~\E k \in S : HasPrimary(k)
      <4>1. ~HasPrimary(l)
        BY <2>4, <3>9, <3>12, <3>13
      <4>2. QED
        BY <3>3, <3>10, <4>1
    <3>15. Cardinality(PeersOf(S)) <= Cardinality(PeersOf(R)) + Cardinality(Peers(l))
      <4> DEFINE A == PeersOf(R)
                 B == Peers(l)
      <4>1. IsFiniteSet(A) /\ IsFiniteSet(B) /\ IsFiniteSet(A \intersect B)
        BY <1>3, <2>2, <3>12, FS_Subset
      <4> HIDE DEF A, B
      <4>2. Cardinality(A) \in Nat /\ Cardinality(B) \in Nat /\ Cardinality(A \intersect B) \in Nat
        BY <4>1, FS_CardinalityType
      <4>3. Cardinality(A \union B) = Cardinality(A) + Cardinality(B) - Cardinality(A \intersect B)
        BY <4>1, FS_Union
      <4>4. Cardinality(A \union B) <= Cardinality(A) + Cardinality(B)
        BY <4>2, <4>3
      <4>5. QED
        BY <3>11, <4>4 DEF A, B
    <3>16. Allowance(S) = MaxPeers /\ Cardinality(PeersOf(S)) \in Nat
      BY <1>2, <1>4, <3>14 DEF Allowance
    <3>17. QED
      BY <1>1, <2>4, <3>12, <3>13, <3>15, <3>16
  <2>7. QED
    BY <2>5, <2>6
<1>7. QED
  BY <1>5, <1>6

\* A group goes behind every group its hints name.
LEMMA HintsComeBefore ==
    ASSUME NEW V, NEW g, IsGroup(g, V), NEW h, IsGroup(h, V), Id(h) \in g.hints
    PROVE  Before(h, g)
<1>1. Id(h).role = h.key.role
  BY DEF Id, IsGroup
<1>2. h.key.role \in DependsOn(g.key.role) /\ g.key.role \in Roles
  BY <1>1 DEF IsGroup
<1>3. RolePriority[h.key.role] < RolePriority[g.key.role]
  BY <1>2 DEF DependsOn, Roles, RolePriority
<1>4. QED
  BY <1>3 DEF Before

\* What the waves of a plan are to be.
Respecting(W) ==
    \A i \in DOMAIN W :
       /\ VMsOf(W[i]) # {} /\ SmallEnough(W[i]) /\ SamePartition(W[i]) /\ PeersSpread(W[i]) /\ Capped(W[i])
       /\ \A g \in W[i] : \A u \in DOMAIN W : \A h \in W[u] : Id(h) \in g.hints => u < i

Apart(W) == \A i, u \in DOMAIN W : i # u => VMsOf(W[i]) \intersect VMsOf(W[u]) = {}

All(W) == UNION {VMsOf(W[i]) : i \in DOMAIN W}

\* Waves 1 to n hold the groups in the order of the packer's numbers.
Numbered(W, n, all, wave) ==
    /\ n \in Nat /\ DOMAIN W = 1..n
    /\ \A i \in 1..n : \E g \in all : W[i] = Together(all, wave[g])
    /\ \A g \in all : \E i \in 1..n : g \in W[i]
    /\ \A i, u \in 1..n : \A g \in W[i], h \in W[u] :
          /\ g \in all /\ h \in all
          /\ wave[h] < wave[g] => u < i
          /\ wave[h] = wave[g] => u = i

\* Numbers of the packer become 1, 2, ..., and each stands for the groups placed there.
LEMMA WavesAreNumbered ==
    ASSUME NEW V, NEW all, PackerInput(all, V), NEW n, NEW W,
           n = Cardinality({Packing(all)[g] : g \in all}),
           W = [i \in 1..n |-> {g \in all :
                   Cardinality({u \in {Packing(all)[h] : h \in all} : u <= Packing(all)[g]}) = i}]
    PROVE  Numbered(W, n, all, Packing(all))
<1> DEFINE wave == Packing(all)
           used == {wave[g] : g \in all}
           rank == [w \in used |-> Cardinality({u \in used : u <= w})]
<1>1. \A g \in all : wave[g] \in Nat
  BY PackingPlaces
<1>2. used \in SUBSET Nat /\ IsFiniteSet(used) /\ n = Cardinality(used)
  <2>1. IsFiniteSet(all)
    BY DEF PackerInput
  <2> HIDE DEF wave
  <2>2. IsFiniteSet({wave[g] : g \in all})
    BY <2>1, ImageIsFinite
  <2>3. QED
    BY <1>1, <2>2 DEF wave
<1>3. W = [i \in 1..n |-> {g \in all : rank[wave[g]] = i}]
  <2>1. \A g \in all : rank[wave[g]] = Cardinality({u \in used : u <= wave[g]})
    OBVIOUS
  <2>2. \A i : {g \in all : rank[wave[g]] = i} = {g \in all : Cardinality({u \in used : u <= wave[g]}) = i}
    <3> HIDE DEF rank
    <3>1. QED
      BY <2>1
  <2> HIDE DEF rank
  <2>3. QED
    BY <2>2, Zenon
<1>4. \A w \in used : rank[w] = Cardinality({u \in used : u <= w})
  OBVIOUS
<1>5. \A g \in all : wave[g] \in used /\ Together(all, wave[g]) = {h \in all : wave[h] = wave[g]}
  BY DEF Together
<1>6. \A w \in used : \E g \in all : w = wave[g]
  OBVIOUS
<1> HIDE DEF rank, used, wave
<1>7. /\ \A w \in used : rank[w] \in 1..n
      /\ \A v, w \in used : v < w => rank[v] < rank[w]
      /\ \A i \in 1..n : \E w \in used : rank[w] = i
  BY <1>2, <1>4, Ranks, ZenonT(60)
<1>8. n \in Nat /\ DOMAIN W = 1..n
  BY <1>2, <1>3, FS_CardinalityType
<1>9. \A v, w \in used : rank[v] = rank[w] => v = w
  <2> SUFFICES ASSUME NEW v \in used, NEW w \in used, v # w PROVE rank[v] # rank[w]
    OBVIOUS
  <2>0. v \in Nat /\ w \in Nat
    BY <1>2
  <2>1. (v < w \/ w < v) /\ rank[v] \in 1..n /\ rank[w] \in 1..n
    BY <1>7, <2>0
  <2>2. rank[v] < rank[w] \/ rank[w] < rank[v]
    BY <1>7, <2>1
  <2>3. QED
    BY <2>1, <2>2
<1>10. ASSUME NEW i \in 1..n PROVE \E g \in all : W[i] = Together(all, wave[g])
  <2>1. PICK w \in used : rank[w] = i
    BY <1>7
  <2>2. PICK g \in all : w = wave[g]
    BY <1>6
  <2>3. W[i] = {h \in all : rank[wave[h]] = i}
    BY <1>3
  <2>4. \A h \in all : rank[wave[h]] = i <=> wave[h] = wave[g]
    BY <1>5, <1>9, <2>1, <2>2
  <2>5. W[i] = {h \in all : wave[h] = wave[g]}
    BY <2>3, <2>4
  <2>6. QED
    BY <1>5, <2>5
<1>11. ASSUME NEW g \in all PROVE \E i \in 1..n : g \in W[i]
  BY <1>3, <1>5, <1>7
<1>12. ASSUME NEW i \in 1..n, NEW u \in 1..n, NEW g \in W[i], NEW h \in W[u]
       PROVE  g \in all /\ h \in all /\ (wave[h] < wave[g] => u < i) /\ (wave[h] = wave[g] => u = i)
  <2>1. g \in all /\ h \in all /\ rank[wave[g]] = i /\ rank[wave[h]] = u
    BY <1>3
  <2>2. wave[g] \in used /\ wave[h] \in used
    BY <1>5, <2>1
  <2>3. QED
    BY <1>7, <2>1, <2>2
<1>13. QED
  <2>1. \A i \in 1..n : \E g \in all : W[i] = Together(all, wave[g])
    BY <1>10
  <2>2. \A g \in all : \E i \in 1..n : g \in W[i]
    BY <1>11
  <2>3. \A i, u \in 1..n : \A g \in W[i], h \in W[u] :
          /\ g \in all /\ h \in all
          /\ wave[h] < wave[g] => u < i
          /\ wave[h] = wave[g] => u = i
    BY <1>12
  <2>4. Numbered(W, n, all, wave)
    BY <1>8, <2>1, <2>2, <2>3 DEF Numbered
  <2>5. QED
    BY <2>4 DEF wave

\* Stages 3 and 4 in one: waves that respect the rules, and that hold every VM once
\* unless two groups have one id.
LEMMA WavesAreAssigned ==
    ASSUME NEW V \in SUBSET Nat, IsFiniteSet(V), V = DOMAIN vm,
           NEW G, GroupSet(G, V), Unbatched(G), Capped(G), NEW W, W = AssignWaves(G)
    PROVE  /\ \E n \in Nat : DOMAIN W = 1..n
           /\ Respecting(W) /\ Apart(W) /\ All(W) \subseteq V
           /\ NoClash(G) => All(W) = V
<1> DEFINE H == SplitOversized(G)
           all == Packable(H)
           wave == Packing(all)
           n == Cardinality({wave[g] : g \in all})
<1>1. GroupSet(H, V) /\ (\A h \in H : Cardinality(h.vms) <= MaxVMsPerWave) /\ (NoClash(G) => NoClash(H))
      /\ \A h \in H : \E g \in G : h.vms \subseteq g.vms
  BY OversizedSplit
<1> HIDE DEF H
<1>2. all \in SUBSET H /\ (NoClash(H) => all = H)
  BY DEF Packable, NoClash
<1>3. W = [i \in 1..n |-> {g \in all : Cardinality({u \in {wave[h] : h \in all} : u <= wave[g]}) = i}]
  BY Zenon DEF AssignWaves, H
<1> HIDE DEF all
<1>4. PackerInput(all, V)
  <2>1. (\A g \in all : IsGroup(g, V)) /\ Disjoint(all)
    BY <1>1, <1>2 DEF GroupSet, Disjoint
  <2>2. IsFiniteSet(all)
    BY <2>1, FinitelyManyGroups
  <2>3. QED
    BY <1>1, <1>2, <2>1, <2>2 DEF PackerInput
<1>15. Capped(all)
  <2>1. Capped(H)
    BY <1>1, StaysCapped
  <2>2. QED
    BY <1>2, <2>1 DEF Capped
<1>5. Numbered(W, n, all, wave)
  BY <1>3, <1>4, WavesAreNumbered
<1> HIDE DEF n
<1>6. ASSUME NEW i \in 1..n
      PROVE  VMsOf(W[i]) # {} /\ SmallEnough(W[i]) /\ SamePartition(W[i]) /\ PeersSpread(W[i]) /\ Capped(W[i])
  <2>1. PICK g \in all : W[i] = Together(all, wave[g])
    BY <1>5 DEF Numbered
  <2>2. g \in W[i] /\ g.vms # {}
    BY <1>4, <2>1 DEF Together, PackerInput, IsGroup
  <2>3. VMsOf(W[i]) # {}
    BY <2>2 DEF VMsOf
  <2> HIDE DEF wave
  <2>4. QED
    <3>1. SmallEnough(W[i]) /\ SamePartition(W[i]) /\ PeersSpread(W[i])
      BY <1>4, <2>1, <2>2, FitTogether, PeersAreSpread
    <3>2. W[i] \in SUBSET all
      BY <2>1 DEF Together
    <3>3. Capped(W[i])
      BY <1>15, <3>2 DEF Capped
    <3>4. QED
      BY <2>3, <3>1, <3>3
<1>7. ASSUME NEW i \in 1..n, NEW u \in 1..n, NEW g \in W[i], NEW h \in W[u], Id(h) \in g.hints PROVE u < i
  <2>1. g \in all /\ h \in all
    BY <1>5 DEF Numbered
  <2>2. IsGroup(g, V) /\ IsGroup(h, V)
    BY <1>4, <2>1 DEF PackerInput
  <2>3. Before(h, g)
    BY <1>7, <2>2, HintsComeBefore
  <2>4. wave[h] < wave[g]
    BY <1>4, <1>7, <2>1, <2>3, EachFits
  <2>5. QED
    BY <1>5, <2>4 DEF Numbered
<1>8. Respecting(W)
  <2> HIDE DEF wave
  <2>1. QED
    BY <1>5, <1>6, <1>7 DEF Respecting, Numbered
<1>9. ASSUME NEW i \in 1..n, NEW u \in 1..n, i # u PROVE VMsOf(W[i]) \intersect VMsOf(W[u]) = {}
  <2> SUFFICES ASSUME NEW v \in VMsOf(W[i]), v \in VMsOf(W[u]) PROVE FALSE
    OBVIOUS
  <2>1. PICK g \in W[i] : v \in g.vms
    BY DEF VMsOf
  <2>2. PICK h \in W[u] : v \in h.vms
    BY DEF VMsOf
  <2>3. g \in all /\ h \in all /\ (wave[h] = wave[g] => u = i)
    BY <1>5 DEF Numbered
  <2>4. g # h
    BY <1>9, <2>3
  <2>5. QED
    BY <1>4, <2>1, <2>2, <2>3, <2>4 DEF PackerInput, Disjoint
<1>10. All(W) = VMsOf(all)
  <2>1. \A i \in 1..n : W[i] \in SUBSET all
    BY <1>5 DEF Numbered, Together
  <2>2. \A g \in all : \E i \in 1..n : g \in W[i]
    BY <1>5 DEF Numbered
  <2>3. DOMAIN W = 1..n
    BY <1>5 DEF Numbered
  <2> HIDE DEF wave
  <2>4. QED
    BY <2>1, <2>2, <2>3 DEF All, VMsOf
<1>11. VMsOf(all) \subseteq V
  BY <1>4 DEF VMsOf, PackerInput, IsGroup
<1>12. NoClash(G) => VMsOf(all) = V
  BY <1>1, <1>2 DEF GroupSet
<1>13. Apart(W)
  <2> HIDE DEF wave
  <2>1. QED
    BY <1>5, <1>9 DEF Apart, Numbered
<1>14. QED
  BY <1>5, <1>8, <1>10, <1>11, <1>12, <1>13 DEF Numbered

-----------------------------------------------------------------------------
(* The inductive invariant *)

\* What other requests preserve as well.
RowsInv ==
    /\ DOMAIN inventory \subseteq Nat /\ IsFiniteSet(DOMAIN inventory)
    /\ \A m \in maps : IsMapping(m) /\ \A n \in maps : n.vc = m.vc /\ n.cluster = m.cluster => n = m

Loaded == Packed \/ stage \in {"validating", "partitioning", "splitting", "packing"}

PlanInv ==
    /\ {"vms", "partition", "pairs", "changed"} \subseteq DOMAIN plan
    /\ stage \in Stages /\ DOMAIN vm \subseteq plan.vms
    /\ Loaded => DOMAIN vm = plan.vms
    /\ DOMAIN vm \subseteq Nat /\ IsFiniteSet(DOMAIN vm)
    /\ stage \in {"idle", "pending", "refused"} => vm = <<>>

\* The mapping that the VMs of a plan were partitioned by takes each of them to the
\* plan's partition, and covers it.
TakesAll(m) ==
    /\ Referred = {m} /\ plan.partition.ns # ""
    /\ \A v \in plan.vms :
          /\ v \in DOMAIN inventory
          /\ inventory[v].vc = m.vc
          /\ PairMapping(inventory[v].vc, ResolvedCluster(inventory[v], maps), maps) = m
          /\ ResolvedNamespace(inventory[v], maps) = plan.partition.ns
          /\ Covers(MappedNets(m), MappedStores(m), inventory[v])

\* As long as nothing has changed, a plan is what it was created as, and what the
\* task has loaded is what there is.
UnchangedInv ==
    ~plan.changed /\ stage \notin {"idle", "refused"} =>
       /\ \E m \in maps : TakesAll(m)
       /\ Loaded => rows = Referred /\ \A v \in plan.vms : vm[v] = inventory[v]

GroupsInv ==
    IF Packed \/ stage \in {"splitting", "packing"}
    THEN /\ GroupSet(groups, DOMAIN vm) /\ Unbatched(groups)
         /\ stage # "splitting" => Capped(groups)
    ELSE groups = {}

WavesInv ==
    IF Packed
    THEN /\ \E n \in Nat : DOMAIN waves = 1..n
         /\ Respecting(waves) /\ Apart(waves) /\ All(waves) \subseteq DOMAIN vm
         /\ NoClash(groups) => All(waves) = DOMAIN vm
    ELSE waves = <<>>

ColoursInv ==
    IF Packed /\ stage # "analyzing_concurrency"
    THEN /\ DOMAIN colour = DOMAIN waves
         /\ \A i, j \in DOMAIN waves : i # j /\ Conflict(waves[i], waves[j]) => colour[i] # colour[j]
    ELSE colour = <<>>

\* Every request that is not answered for good has an attempt left.
CallsInv ==
    IF stage = "annotating"
    THEN /\ DOMAIN call = DOMAIN waves /\ DOMAIN attempt = DOMAIN waves
         /\ \A w \in DOMAIN waves :
               /\ call[w] \in Calls /\ attempt[w] \in 0..MaxAttempts
               /\ call[w] \in {"queued", "asking"} => attempt[w] < MaxAttempts
    ELSE call = <<>> /\ attempt = <<>>

EmitsWave(w) == Emits(AttributesOf(w), WaveMapping(AttributesOf(w), rows))

\* A wave is downloaded into one namespace, and only when all have been rendered.
ServedInv ==
    /\ stage = "complete" => \A w \in DOMAIN waves : EmitsWave(w)
    /\ stage = "unrendered" => \E w \in DOMAIN waves : ~EmitsWave(w)
    /\ stage # "complete" => served.parts = {}
    /\ served.status \in {"none", "refused", "served"} /\ served.route \in Routes
    /\ \A part \in served.parts : part.wave \in DOMAIN waves /\ part.vms # {}
    /\ banner \in BOOLEAN /\ events \in 0..MaxEvents

IInv ==
    RowsInv /\ PlanInv /\ UnchangedInv /\ GroupsInv /\ WavesInv /\ ColoursInv /\ CallsInv /\ ServedInv

-----------------------------------------------------------------------------
(* What other requests and downloads do *)

\* A request that changes the inventory or the mappings changes nothing else of a
\* plan than to mark it, and keeps the rows as the database has them.
LEMMA Changing ==
    ASSUME RowsInv, Change
    PROVE  /\ stage \in {"pending", "complete"} /\ events \in {e \in {events} : e < MaxEvents}
           /\ events' = events + 1
           /\ plan' = [plan EXCEPT !.changed = TRUE]
           /\ UNCHANGED <<vm, stage, rows, pvars, banner, served>>
           /\ RowsInv'
<1>1. /\ stage \in {"pending", "complete"} /\ events \in {e \in {events} : e < MaxEvents}
      /\ events' = events + 1
      /\ plan' = [plan EXCEPT !.changed = TRUE]
      /\ UNCHANGED <<vm, stage, rows, pvars, banner, served>>
  BY DEF Change, EditVM, DeleteVM, EditMappings, DeleteVCenter, DeleteTarget, Event
<1>2. DOMAIN inventory' \subseteq DOMAIN inventory
  <2>1. ASSUME NEW v, EditVM(v) PROVE DOMAIN inventory' = DOMAIN inventory
    BY <2>1 DEF EditVM
  <2>2. ASSUME NEW v, DeleteVM(v) PROVE DOMAIN inventory' \subseteq DOMAIN inventory
    BY <2>2 DEF DeleteVM, Restrict
  <2>3. ASSUME NEW m, DeleteVCenter(m.vc) PROVE DOMAIN inventory' = DOMAIN inventory
    BY <2>3 DEF DeleteVCenter
  <2>4. ASSUME NEW m, DeleteTarget(m.cluster) PROVE DOMAIN inventory' = DOMAIN inventory
    BY <2>4 DEF DeleteTarget
  <2>5. ASSUME EditMappings PROVE DOMAIN inventory' = DOMAIN inventory
    BY <2>5 DEF EditMappings
  <2>6. QED
    BY <2>1, <2>2, <2>3, <2>4, <2>5 DEF Change
<1>3. maps' \in Mappings \/ maps' \subseteq maps
  <2>1. ASSUME NEW v, EditVM(v) \/ DeleteVM(v) PROVE maps' = maps
    BY <2>1 DEF EditVM, DeleteVM
  <2>2. ASSUME NEW m, DeleteVCenter(m.vc) \/ DeleteTarget(m.cluster) PROVE maps' \subseteq maps
    BY <2>2 DEF DeleteVCenter, DeleteTarget
  <2>3. ASSUME EditMappings PROVE maps' \in Mappings
    BY <2>3 DEF EditMappings
  <2>4. QED
    BY <2>1, <2>2, <2>3 DEF Change
<1>4. DOMAIN inventory' \subseteq Nat /\ IsFiniteSet(DOMAIN inventory')
  BY <1>2, FS_Subset DEF RowsInv
<1>5. \A m \in maps' : IsMapping(m) /\ \A n \in maps' : n.vc = m.vc /\ n.cluster = m.cluster => n = m
  BY <1>3, MappingsAssumption DEF RowsInv
<1>6. QED
  BY <1>1, <1>4, <1>5 DEF RowsInv

\* A download changes nothing but what was served.
LEMMA Downloading ==
    ASSUME Download
    PROVE  /\ stage = "complete"
           /\ UNCHANGED <<vm, inventory, maps, stage, plan, rows, pvars, banner, events>>
BY DEF Download, DownloadBundle, DownloadWave, Respond

\* Asking changes only the calls.
LEMMA AsksOnly ==
    ASSUME NEW w \in DOMAIN call, Ask(w) \/ Answer(w)
    PROVE  /\ stage = "annotating"
           /\ UNCHANGED <<vm, inventory, maps, stage, plan, rows, groups, waves, colour, served, events>>
BY DEF Ask, Answer

Asks == \E w \in DOMAIN call : Ask(w) \/ Answer(w)

\* Every step is one of these.
LEMMA Steps ==
    ASSUME [Next]_vars
    PROVE  \/ Create \/ Load \/ Validate \/ PartitionVMs \/ Split \/ Pack \/ Analyze
           \/ Asks \/ Annotated \/ Emit \/ Change \/ Download \/ UNCHANGED vars
BY DEF Next, Pipeline, Finished, Asks

-----------------------------------------------------------------------------
(* The rows of the database, and the plan's *)

\* Every step keeps the rows as the database has them.
LEMMA RowsStep ==
    ASSUME RowsInv, [Next]_vars
    PROVE  RowsInv'
<1>1. CASE Change
  BY <1>1, Changing
<1>2. CASE ~Change
  <2>1. UNCHANGED <<inventory, maps>>
    BY <1>2, Steps, Downloading, AsksOnly
       DEF Create, Load, Validate, PartitionVMs, Split, Pack, Analyze, Annotated, Emit, Asks, vars
  <2>2. QED
    BY <2>1 DEF RowsInv
<1>3. QED
  BY <1>1, <1>2

\* A VM that is accepted has the mapping of the pair its partition names, and no
\* other serves it.
LEMMA OneMappingTakesIt ==
    ASSUME RowsInv, NEW a, NEW optOut, Target(a, maps) # Unresolved,
           Covered(a, RowsFor(Target(a, maps), optOut))
    PROVE  \E m \in maps :
              /\ RowsFor(Target(a, maps), optOut) = {m}
              /\ a.vc = m.vc /\ PairMapping(a.vc, ResolvedCluster(a, maps), maps) = m
              /\ ResolvedNamespace(a, maps) = Target(a, maps).ns /\ Target(a, maps).ns # ""
              /\ Covers(MappedNets(m), MappedStores(m), a)
<1> DEFINE t == Target(a, maps)
           R == RowsFor(t, optOut)
<1>1. t.vc = a.vc /\ t.cluster = ResolvedCluster(a, maps) /\ t.ns = ResolvedNamespace(a, maps) /\ t.ns # ""
  BY DEF Target
<1> HIDE DEF t
<1>2. \A m \in R : m \in maps /\ m.vc = t.vc /\ m.cluster = t.cluster /\ ~optOut
  BY DEF RowsFor
<1>3. a.vc # 0
  <2> SUFFICES ASSUME a.vc = 0 PROVE FALSE
    OBVIOUS
  <2>1. a.stores # {} /\ a.stores \subseteq UNION {MappedStores(m) : m \in R}
    BY DEF Covered, Covers, t
  <2>2. PICK m \in R : TRUE
    BY <2>1
  <2>3. m.vc # 0 /\ m.vc = 0
    BY <1>1, <1>2, <2>2 DEF RowsInv, IsMapping
  <2>4. QED
    BY <2>3
<1>4. PICK m \in R : Covers(MappedNets(m), MappedStores(m), a)
  BY <1>3 DEF Covered, t
<1>5. /\ m \in maps /\ m.vc = t.vc /\ m.cluster = t.cluster
      /\ \A n \in maps : n.vc = t.vc /\ n.cluster = t.cluster => n = m
  BY <1>2 DEF RowsInv
<1>6. R = {m}
  BY <1>2, <1>5
<1>7. PairMapping(t.vc, t.cluster, maps) = m
  BY <1>5 DEF PairMapping
<1>8. QED
  BY <1>1, <1>4, <1>5, <1>6, <1>7 DEF t

\* What is accepted of a selection.
LEMMA AcceptedIsGood ==
    ASSUME NEW selected, NEW optOut, NEW skip, NEW v \in Accepted(selected, optOut, skip)
    PROVE  /\ v \in selected /\ Target(inventory[v], maps) # Unresolved
           /\ Covered(inventory[v], RowsFor(Target(inventory[v], maps), optOut))
<1> DEFINE target(w) == Target(inventory[w], maps)
           good(w) == target(w) # Unresolved /\ Covered(inventory[w], RowsFor(target(w), optOut))
<1>1. Accepted(selected, optOut, skip) =
         IF skip THEN {w \in selected : good(w)}
         ELSE IF \A w \in selected : good(w) THEN selected ELSE {}
  BY Zenon DEF Accepted
<1> HIDE DEF good
<1>2. v \in selected /\ good(v)
  BY <1>1
<1>3. QED
  BY <1>2 DEF good

\* POST /api/plans: nothing, or a plan that one mapping takes.
LEMMA Creating ==
    ASSUME RowsInv, Create
    PROVE  /\ stage = "idle" /\ UNCHANGED <<vm, inventory, maps, rows, pvars, banner, served, events>>
           /\ \/ stage' = "refused" /\ plan' = plan
              \/ /\ stage' = "pending"
                 /\ {"vms", "partition", "pairs", "changed"} \subseteq DOMAIN plan'
                 /\ \E m \in maps' : TakesAll(m)'
<1>1. stage = "idle" /\ UNCHANGED <<vm, inventory, maps, rows, pvars, banner, served, events>>
  BY DEF Create
<1> DEFINE unfit(type, override) == IF override THEN {} ELSE Unfit(type)
           accepted(type, optOut, skip, override) ==
              IF unfit(type, override) # {} /\ ~skip THEN {}
              ELSE Accepted(DOMAIN inventory \ unfit(type, override), optOut, skip)
           target(v) == Target(inventory[v], maps)
           made(t, batch, optOut) ==
              [vms |-> batch, partition |-> t, changed |-> FALSE,
               pairs |-> {<<m.vc, m.cluster>> : m \in RowsFor(t, optOut)}]
<1>2. \E type \in {"cold", "warm"}, optOut, skip, override \in BOOLEAN :
         \/ /\ accepted(type, optOut, skip, override) = {}
            /\ stage' = "refused"
            /\ UNCHANGED plan
         \/ \E t \in {target(v) : v \in accepted(type, optOut, skip, override)} :
            \E batch \in Chunks({v \in accepted(type, optOut, skip, override) : target(v) = t}) :
               /\ stage' = "pending"
               /\ plan' = made(t, batch, optOut)
  BY Zenon DEF Create
<1>3. \A type, optOut, skip, override : \A v \in accepted(type, optOut, skip, override) :
         v \in DOMAIN inventory /\ target(v) # Unresolved /\ Covered(inventory[v], RowsFor(target(v), optOut))
  BY AcceptedIsGood
<1> HIDE DEF accepted
<1>4. CASE ~(stage' = "refused" /\ plan' = plan)
  <2>1. PICK type, optOut, skip, override :
           \E t \in {target(v) : v \in accepted(type, optOut, skip, override)} :
            \E batch \in Chunks({v \in accepted(type, optOut, skip, override) : target(v) = t}) :
               stage' = "pending" /\ plan' = made(t, batch, optOut)
    BY <1>2, <1>4
  <2> DEFINE some == accepted(type, optOut, skip, override)
  <2>2. PICK t, batch : /\ t \in {target(v) : v \in some}
                        /\ batch \in Chunks({v \in some : target(v) = t})
                        /\ stage' = "pending" /\ plan' = made(t, batch, optOut)
    BY <2>1
  <2>3. \A v \in some : v \in DOMAIN inventory /\ target(v) # Unresolved
                          /\ Covered(inventory[v], RowsFor(target(v), optOut))
    BY <1>3
  <2> HIDE DEF some
  <2>4. batch \subseteq {v \in some : target(v) = t}
    BY <2>2 DEF Chunks
  <2>5. PICK u \in some : t = target(u)
    BY <2>2
  <2>6. PICK m \in maps : RowsFor(t, optOut) = {m}
    BY <2>3, <2>5, OneMappingTakesIt, ZenonT(60)
  <2>7. ASSUME NEW v \in batch
        PROVE  /\ v \in DOMAIN inventory
               /\ inventory[v].vc = m.vc /\ PairMapping(inventory[v].vc, ResolvedCluster(inventory[v], maps), maps) = m
               /\ ResolvedNamespace(inventory[v], maps) = t.ns /\ t.ns # ""
               /\ Covers(MappedNets(m), MappedStores(m), inventory[v])
    <3>1. v \in some /\ target(v) = t
      BY <2>4
    <3>2. PICK n \in maps :
              /\ RowsFor(target(v), optOut) = {n}
              /\ inventory[v].vc = n.vc /\ PairMapping(inventory[v].vc, ResolvedCluster(inventory[v], maps), maps) = n
              /\ ResolvedNamespace(inventory[v], maps) = target(v).ns /\ target(v).ns # ""
              /\ Covers(MappedNets(n), MappedStores(n), inventory[v])
      BY <2>3, <3>1, OneMappingTakesIt
    <3>3. n = m
      BY <2>6, <3>1, <3>2
    <3>4. QED
      BY <2>3, <3>1, <3>2, <3>3
  <2>8. t.ns # ""
    BY <2>3, <2>5, OneMappingTakesIt
  <2> HIDE DEF target
  <2>9. /\ plan'.vms = batch /\ plan'.partition = t /\ plan'.changed = FALSE
        /\ plan'.pairs = {<<n.vc, n.cluster>> : n \in {m}}
        /\ {"vms", "partition", "pairs", "changed"} \subseteq DOMAIN plan'
    BY <2>2, <2>6
  <2>10. Referred' = {m}
    <3>1. \A n \in maps : <<n.vc, n.cluster>> \in plan'.pairs <=> n = m
      BY <2>9 DEF RowsInv
    <3>2. QED
      BY <1>1, <2>6, <3>1 DEF Referred
  <2>11. TakesAll(m)'
    BY <1>1, <2>7, <2>8, <2>9, <2>10 DEF TakesAll
  <2>12. QED
    BY <1>1, <2>2, <2>6, <2>9, <2>11
<1>5. QED
  BY <1>1, <1>4

\* The task's VMs are those of its plan.
LEMMA PlanStep ==
    ASSUME RowsInv, PlanInv, [Next]_vars
    PROVE  PlanInv'
<1> USE DEF PlanInv, Loaded, Packed, Stages, Ended
<1>1. CASE Create
  BY <1>1, Creating
<1>2. CASE Load
  <2>1. CASE plan.vms \subseteq DOMAIN inventory
    <3>1. DOMAIN vm' = plan.vms /\ stage' = "validating" /\ plan' = plan
      BY <1>2, <2>1 DEF Load
    <3>2. IsFiniteSet(plan.vms) /\ plan.vms \subseteq Nat
      BY <2>1, FS_Subset DEF RowsInv
    <3>3. QED
      BY <3>1, <3>2
  <2>2. CASE ~(plan.vms \subseteq DOMAIN inventory)
    BY <1>2, <2>2 DEF Load
  <2>3. QED
    BY <2>1, <2>2
<1>3. CASE Validate \/ PartitionVMs \/ Split \/ Pack \/ Analyze \/ Annotated \/ Emit
  <2>1. plan' = plan /\ vm' = vm /\ stage' \in Stages \ {"idle", "pending", "refused", "validating"} /\ Loaded
    BY <1>3 DEF Validate, PartitionVMs, Split, Pack, Analyze, Annotated, Emit
  <2>2. QED
    BY <2>1
<1>4. CASE Asks
  BY <1>4, AsksOnly DEF Asks
<1>5. CASE Change
  BY <1>5, Changing
<1>6. CASE Download
  BY <1>6, Downloading
<1>7. CASE UNCHANGED vars
  BY <1>7 DEF vars
<1>8. QED
  BY <1>1, <1>2, <1>3, <1>4, <1>5, <1>6, <1>7, Steps

\* An undisturbed plan stays what it was.
LEMMA StaysTaken ==
    ASSUME NEW m, TakesAll(m), UNCHANGED <<inventory, maps>>, plan' = plan
    PROVE  TakesAll(m)'
BY DEF TakesAll, Referred

\* A plan stays what it was created as until another request changes something.
LEMMA UnchangedStep ==
    ASSUME RowsInv, PlanInv, UnchangedInv, [Next]_vars
    PROVE  UnchangedInv'
<1> USE DEF Loaded, Packed
<1> SUFFICES ASSUME ~plan'.changed, stage' \notin {"idle", "refused"}
             PROVE  /\ (\E m \in maps : TakesAll(m))'
                    /\ Loaded' => rows' = Referred' /\ \A v \in plan'.vms : vm'[v] = inventory'[v]
  BY DEF UnchangedInv
<1>1. CASE Create
  BY <1>1, Creating
<1>2. CASE Load
  <2>1. UNCHANGED <<inventory, maps, plan>> /\ stage = "pending"
    BY <1>2 DEF Load
  <2>2. (\E m \in maps : TakesAll(m))'
    BY <2>1, StaysTaken DEF UnchangedInv
  <2>3. CASE plan.vms \subseteq DOMAIN inventory
    BY <1>2, <2>1, <2>2, <2>3 DEF Load, Referred
  <2>4. CASE ~(plan.vms \subseteq DOMAIN inventory)
    BY <1>2, <2>2, <2>4 DEF Load
  <2>5. QED
    BY <2>3, <2>4
<1>3. CASE Validate \/ PartitionVMs \/ Split \/ Pack \/ Analyze \/ Asks \/ Annotated \/ Emit \/ Download \/ UNCHANGED vars
  <2>1. UNCHANGED <<inventory, maps, plan, vm, rows>> /\ (Loaded' => Loaded)
        /\ (stage \in {"idle", "refused"} => stage' = stage)
    BY <1>3, AsksOnly, Downloading
       DEF Validate, PartitionVMs, Split, Pack, Analyze, Asks, Annotated, Emit, vars
  <2>2. (\E m \in maps : TakesAll(m))'
    BY <2>1, StaysTaken DEF UnchangedInv
  <2>3. QED
    BY <2>1, <2>2 DEF UnchangedInv, Referred
<1>4. CASE Change
  <2>1. plan' = [plan EXCEPT !.changed = TRUE] /\ "changed" \in DOMAIN plan
    BY <1>4, Changing DEF PlanInv
  <2>2. QED
    BY <2>1
<1>5. QED
  BY <1>1, <1>2, <1>3, <1>4, Steps

-----------------------------------------------------------------------------
(* What the stages make *)

\* Between the stages that make groups, waves and concurrency groups they stay.
LEMMA PipelineStays ==
    ASSUME RowsInv, Create \/ Load \/ Validate \/ Annotated \/ Emit \/ Asks \/ Change \/ Download \/ UNCHANGED vars
    PROVE  /\ UNCHANGED <<groups, waves, colour>>
           /\ Packed' <=> Packed
           /\ Packed' /\ stage' # "analyzing_concurrency" <=> Packed /\ stage # "analyzing_concurrency"
           /\ stage' \in {"splitting", "packing"} <=> stage \in {"splitting", "packing"}
           /\ stage' = "splitting" <=> stage = "splitting"
           /\ Packed \/ stage \in {"splitting", "packing"} => vm' = vm
BY Creating, Changing, Downloading, AsksOnly
   DEF Load, Validate, Annotated, Emit, Asks, vars, pvars, Packed

\* Caps are read off the VMs that were loaded.
LEMMA CapsAreRead ==
    ASSUME vm' = vm
    PROVE  \A G : Capped(G)' <=> Capped(G)
<1>1. \A v : CapOf(v)' = CapOf(v)
  BY DEF CapOf, FamilyIn, Family
<1>2. \A v, X : FamilyIn(v, X)' = FamilyIn(v, X)
  BY DEF FamilyIn, Family
<1>3. QED
  BY <1>1, <1>2 DEF Capped

\* Stages 2 and 3 keep the groups a partition of the VMs.
LEMMA GroupsStep ==
    ASSUME RowsInv, PlanInv, GroupsInv, [Next]_vars
    PROVE  GroupsInv'
<1>1. CASE PartitionVMs
  <2>1. GroupSet(Classify, DOMAIN vm) /\ Unbatched(Classify)
    BY Classified DEF PlanInv
  <2>2. groups' = Classify /\ vm' = vm /\ stage' = "splitting"
    BY <1>1 DEF PartitionVMs
  <2>3. QED
    BY <2>1, <2>2 DEF GroupsInv
<1>2. CASE Split
  <2>1. GroupSet(groups, DOMAIN vm) /\ Unbatched(groups)
    BY <1>2 DEF Split, GroupsInv
  <2>2. /\ GroupSet(SplitFamilies(groups), DOMAIN vm) /\ Unbatched(SplitFamilies(groups))
        /\ Capped(SplitFamilies(groups))
    BY <2>1, FamiliesSplit DEF PlanInv
  <2>3. groups' = SplitFamilies(groups) /\ vm' = vm /\ stage' = "packing"
    BY <1>2 DEF Split
  <2>4. Capped(groups)'
    BY <2>2, <2>3, CapsAreRead
  <2>5. QED
    BY <2>2, <2>3, <2>4 DEF GroupsInv
<1>3. CASE Pack \/ Analyze
  <2>1. vm' = vm /\ groups' = groups /\ stage' # "splitting" /\ stage # "splitting"
        /\ (Packed \/ stage = "packing") /\ Packed'
    BY <1>3 DEF Pack, Analyze, Packed
  <2>2. Capped(groups) => Capped(groups)'
    BY <2>1, CapsAreRead
  <2>3. QED
    BY <2>1, <2>2 DEF GroupsInv
<1>4. CASE Create \/ Load \/ Validate \/ Annotated \/ Emit \/ Asks \/ Change \/ Download \/ UNCHANGED vars
  <2>1. /\ groups' = groups /\ (Packed' <=> Packed)
        /\ stage' \in {"splitting", "packing"} <=> stage \in {"splitting", "packing"}
        /\ stage' = "splitting" <=> stage = "splitting"
        /\ Packed \/ stage \in {"splitting", "packing"} => vm' = vm
    BY <1>4, PipelineStays
  <2>2. vm' = vm => (Capped(groups) => Capped(groups)')
    BY <2>1, CapsAreRead
  <2>3. QED
    BY <2>1, <2>2 DEF GroupsInv
<1>5. QED
  BY <1>1, <1>2, <1>3, <1>4, Steps

\* The rules read the attributes of the VMs that were loaded.
LEMMA StaysRespecting ==
    ASSUME NEW W, Respecting(W), vm' = vm
    PROVE  Respecting(W)'
<1>1. \A G : PeersSpread(G)' <=> PeersSpread(G)
  BY DEF PeersSpread, Sparable, PeersOf, Allowance, HAFamily, Prefix
<1>2. \A G : Capped(G)' <=> Capped(G)
  BY CapsAreRead
<1>3. QED
  BY <1>1, <1>2 DEF Respecting, SmallEnough, SamePartition

\* The waves of Stage 4 are not touched any more.
LEMMA WavesStep ==
    ASSUME RowsInv, PlanInv, GroupsInv, WavesInv, [Next]_vars
    PROVE  WavesInv'
<1>1. CASE Pack
  <2>1. GroupSet(groups, DOMAIN vm) /\ Unbatched(groups) /\ Capped(groups)
        /\ DOMAIN vm \in SUBSET Nat /\ IsFiniteSet(DOMAIN vm)
    BY <1>1 DEF Pack, GroupsInv, PlanInv
  <2>2. waves' = AssignWaves(groups) /\ UNCHANGED <<vm, groups>> /\ Packed'
    BY <1>1 DEF Pack, Packed
  <2>3. /\ \E n \in Nat : DOMAIN waves' = 1..n
        /\ Respecting(waves') /\ Apart(waves') /\ All(waves') \subseteq DOMAIN vm
        /\ NoClash(groups) => All(waves') = DOMAIN vm
    BY <2>1, <2>2, WavesAreAssigned
  <2>4. Respecting(waves)'
    BY <2>2, <2>3, StaysRespecting
  <2>5. QED
    BY <2>2, <2>3, <2>4 DEF WavesInv, Apart, All, NoClash
<1>2. CASE PartitionVMs \/ Split
  BY <1>2 DEF PartitionVMs, Split, WavesInv, Packed
<1>3. CASE Analyze
  <2>1. UNCHANGED <<vm, groups, waves>> /\ Packed /\ Packed'
    BY <1>3 DEF Analyze, Packed
  <2>2. Respecting(waves)'
    BY <2>1, StaysRespecting DEF WavesInv
  <2>3. QED
    BY <2>1, <2>2 DEF WavesInv, Apart, All, NoClash
<1>4. CASE Create \/ Load \/ Validate \/ Annotated \/ Emit \/ Asks \/ Change \/ Download \/ UNCHANGED vars
  <2>1. UNCHANGED <<groups, waves>> /\ (Packed' <=> Packed) /\ (Packed => vm' = vm)
    BY <1>4, PipelineStays
  <2>2. CASE Packed
    <3>1. Respecting(waves)'
      BY <2>1, <2>2, StaysRespecting DEF WavesInv
    <3>2. QED
      BY <2>1, <2>2, <3>1 DEF WavesInv, Apart, All, NoClash
  <2>3. CASE ~Packed
    BY <2>1, <2>3 DEF WavesInv
  <2>4. QED
    BY <2>2, <2>3
<1>5. QED
  BY <1>1, <1>2, <1>3, <1>4, Steps

\* Neither are the concurrency groups of Stage 5.
LEMMA ColoursStep ==
    ASSUME RowsInv, WavesInv, ColoursInv, [Next]_vars
    PROVE  ColoursInv'
<1>1. CASE Analyze
  <2>1. /\ colour' = ConcurrencyGroups(waves) /\ UNCHANGED <<vm, waves>>
        /\ Packed /\ Packed' /\ stage' = "annotating"
    BY <1>1 DEF Analyze, Packed
  <2>2. PICK n \in Nat : DOMAIN waves = 1..n
    BY <2>1 DEF WavesInv
  <2>3. /\ DOMAIN ConcurrencyGroups(waves) = DOMAIN waves
        /\ \A i, j \in DOMAIN waves :
              i # j /\ Conflict(waves[i], waves[j]) => ConcurrencyGroups(waves)[i] # ConcurrencyGroups(waves)[j]
    BY <2>2, ColoursAreProper
  <2>4. \A i, j \in DOMAIN waves : Conflict(waves[i], waves[j])' <=> Conflict(waves[i], waves[j])
    BY <2>1 DEF Conflict, FamiliesOf, Family
  <2>5. QED
    BY <2>1, <2>3, <2>4 DEF ColoursInv
<1>2. CASE PartitionVMs \/ Split \/ Pack
  BY <1>2 DEF PartitionVMs, Split, Pack, ColoursInv, Packed
<1>3. CASE Create \/ Load \/ Validate \/ Annotated \/ Emit \/ Asks \/ Change \/ Download \/ UNCHANGED vars
  <2>1. /\ UNCHANGED <<waves, colour>>
        /\ Packed' /\ stage' # "analyzing_concurrency" <=> Packed /\ stage # "analyzing_concurrency"
        /\ Packed => vm' = vm
    BY <1>3, PipelineStays
  <2>2. CASE Packed
    <3>1. \A i, j \in DOMAIN waves : Conflict(waves[i], waves[j])' <=> Conflict(waves[i], waves[j])
      BY <2>1, <2>2 DEF Conflict, FamiliesOf, Family
    <3>2. QED
      BY <2>1, <2>2, <3>1 DEF ColoursInv
  <2>3. CASE ~Packed
    BY <2>1, <2>3 DEF ColoursInv
  <2>4. QED
    BY <2>2, <2>3
<1>4. QED
  BY <1>1, <1>2, <1>3, Steps

\* A request that is not answered for good has an attempt left, after every answer.
LEMMA CallsStep ==
    ASSUME RowsInv, CallsInv, [Next]_vars
    PROVE  CallsInv'
<1>1. CASE Analyze
  <2>1. PICK backend \in BOOLEAN : call' = [w \in DOMAIN waves |-> IF backend THEN "queued" ELSE "fallback"]
    BY <1>1 DEF Analyze
  <2>2. attempt' = [w \in DOMAIN waves |-> 0] /\ waves' = waves /\ stage' = "annotating"
    BY <1>1 DEF Analyze
  <2>3. QED
    BY <2>1, <2>2, BoundsAssumption DEF CallsInv, Calls
<1>2. ASSUME NEW w \in DOMAIN call, Ask(w) PROVE CallsInv'
  BY <1>2 DEF Ask, CallsInv, Calls
<1>3. ASSUME NEW w \in DOMAIN call, Answer(w) PROVE CallsInv'
  <2>1. /\ stage = "annotating" /\ UNCHANGED <<stage, waves>> /\ call[w] = "asking"
        /\ attempt' = [attempt EXCEPT ![w] = attempt[w] + 1]
    BY <1>3 DEF Answer
  <2>2. /\ DOMAIN call = DOMAIN waves /\ DOMAIN attempt = DOMAIN waves
        /\ \A u \in DOMAIN waves :
               /\ call[u] \in Calls /\ attempt[u] \in 0..MaxAttempts
               /\ call[u] \in {"queued", "asking"} => attempt[u] < MaxAttempts
    BY <2>1 DEF CallsInv
  <2>3. PICK c \in Calls : call' = [call EXCEPT ![w] = c] /\ (c = "queued" => attempt[w] + 1 < MaxAttempts)
                           /\ c # "asking"
    BY <1>3 DEF Answer, Usable, Invalid, Retry, Flagged, Unreachable, Calls
  <2>4. attempt[w] + 1 \in 0..MaxAttempts
    BY <2>1, <2>2, BoundsAssumption
  <2>5. QED
    BY <2>1, <2>2, <2>3, <2>4 DEF CallsInv
<1>4. CASE ~Analyze /\ ~Asks
  <2>1. CASE stage' = "annotating"
    <3>1. UNCHANGED <<stage, waves, call, attempt>>
      BY <1>4, <2>1, Steps, Creating, Changing, Downloading
         DEF Load, Validate, PartitionVMs, Split, Pack, Annotated, Emit, vars, pvars
    <3>2. QED
      BY <3>1 DEF CallsInv
  <2>2. CASE stage' # "annotating"
    <3>1. (call' = <<>> /\ attempt' = <<>>) \/ (UNCHANGED <<stage, call, attempt>>)
          \/ (UNCHANGED <<call, attempt>> /\ stage # "annotating")
      BY <1>4, <2>2, Steps, Creating, Changing, Downloading
         DEF Load, Validate, PartitionVMs, Split, Pack, Annotated, Emit, vars, pvars
    <3>2. QED
      BY <2>2, <3>1 DEF CallsInv
  <2>3. QED
    BY <2>1, <2>2
<1>5. QED
  BY <1>1, <1>2, <1>3, <1>4 DEF Asks

\* Each part of a download is a wave with VMs, which has been rendered.
LEMMA Parts ==
    ASSUME Download, NEW part \in served'.parts
    PROVE  \E w \in DOMAIN waves : part = YAML(w) /\ Renders(w) /\ (served'.route = "wave" => Whole(w))
<1>1. ASSUME NEW w \in DOMAIN waves, DownloadWave(w)
      PROVE  part = YAML(w) /\ Renders(w) /\ Whole(w)
  BY <1>1 DEF DownloadWave, Respond
<1>2. CASE DownloadBundle
  <2>1. served'.route = "bundle" /\ \E w \in DOMAIN waves : part = YAML(w) /\ Renders(w)
    BY <1>2 DEF DownloadBundle, Respond
  <2>2. QED
    BY <2>1
<1>3. QED
  BY <1>1, <1>2 DEF Download

\* What was rendered was rendered whole, and what was served is of the plan's waves.
LEMMA ServedStep ==
    ASSUME RowsInv, ServedInv, [Next]_vars
    PROVE  ServedInv'
<1>1. CASE Emit
  <2>1. /\ stage' = IF \A w \in DOMAIN waves : EmitsWave(w) THEN "complete" ELSE "unrendered"
        /\ UNCHANGED <<vm, rows, waves, served, banner, events>> /\ stage = "emitting_yaml"
    BY <1>1 DEF Emit, EmitsWave, pvars
  <2>2. \A w : EmitsWave(w)' <=> EmitsWave(w)
    BY <2>1 DEF EmitsWave, AttributesOf
  <2>3. QED
    BY <2>1, <2>2 DEF ServedInv
<1>2. CASE Download
  <2>1. stage = "complete" /\ UNCHANGED <<stage, vm, rows, waves, banner, events>>
    BY <1>2, Downloading DEF pvars
  <2>2. \A w : EmitsWave(w)' <=> EmitsWave(w)
    BY <2>1 DEF EmitsWave, AttributesOf
  <2>3. ASSUME NEW part \in served'.parts PROVE part.wave \in DOMAIN waves /\ part.vms # {}
    <3>1. PICK w \in DOMAIN waves : part = YAML(w) /\ Renders(w)
      BY <1>2, Parts
    <3>2. Now(w) # {}
      BY <3>1 DEF Renders, Emits
    <3>3. part.wave = w /\ part.vms = Left(w)
      BY <3>1 DEF YAML
    <3>4. QED
      BY <3>2, <3>3 DEF Now
  <2>4. served'.status \in {"none", "refused", "served"} /\ served'.route \in Routes
    BY <1>2 DEF Download, DownloadBundle, DownloadWave, Respond, Routes
  <2>5. QED
    BY <2>1, <2>2, <2>3, <2>4 DEF ServedInv
<1>3. CASE Change
  <2>1. /\ UNCHANGED <<stage, vm, rows, waves, served, banner>>
        /\ events' = events + 1 /\ events < MaxEvents
    BY <1>3, Changing DEF pvars
  <2>2. \A w : EmitsWave(w)' <=> EmitsWave(w)
    BY <2>1 DEF EmitsWave, AttributesOf
  <2>3. events' \in 0..MaxEvents
    BY <2>1, BoundsAssumption DEF ServedInv
  <2>4. QED
    BY <2>1, <2>2, <2>3 DEF ServedInv
<1>4. CASE UNCHANGED vars
  <2>1. UNCHANGED <<stage, vm, rows, waves, served, banner, events>>
    BY <1>4 DEF vars, pvars
  <2>2. \A w : EmitsWave(w)' <=> EmitsWave(w)
    BY <2>1 DEF EmitsWave, AttributesOf
  <2>3. QED
    BY <2>1, <2>2 DEF ServedInv
<1>5. CASE ~(Emit \/ Download \/ Change \/ UNCHANGED vars)
  <2>1. /\ stage' \notin {"complete", "unrendered"} /\ stage # "complete"
        /\ UNCHANGED <<served, events>> /\ banner' \in {banner, TRUE, FALSE}
    BY <1>5, Steps, Creating
       DEF Load, Validate, PartitionVMs, Split, Pack, Analyze, Asks, Ask, Answer, Usable, Invalid, Flagged,
           Unreachable, Annotated
  <2>2. QED
    BY <2>1 DEF ServedInv
<1>6. QED
  BY <1>1, <1>2, <1>3, <1>4, <1>5

\* What is left of the invariant holds before a plan is asked for.
LEMMA Initially ==
    ASSUME Init
    PROVE  IInv
<1> USE DEF Init, NoPlan
<1>1. RowsInv
  BY FleetsAssumption, MappingsAssumption DEF RowsInv
<1>2. PlanInv
  BY FS_EmptySet DEF PlanInv, Stages, Loaded, Packed, Ended
<1>3. UnchangedInv /\ GroupsInv /\ WavesInv /\ ColoursInv /\ CallsInv
  BY DEF UnchangedInv, GroupsInv, WavesInv, ColoursInv, CallsInv, Packed
<1>4. ServedInv
  <2>1. served.parts = {} /\ served.status = "none" /\ served.route = "wave" /\ stage = "idle"
    OBVIOUS
  <2>2. banner \in BOOLEAN
    BY Zenon
  <2>3. events = 0 /\ MaxEvents \in Nat
    BY BoundsAssumption
  <2>4. events \in 0..MaxEvents
    BY <2>3
  <2>5. QED
    BY <2>1, <2>2, <2>4 DEF ServedInv, Routes
<1>5. QED
  BY <1>1, <1>2, <1>3, <1>4 DEF IInv

\* The invariant is inductive.
THEOREM Inductive == Spec => []IInv
<1>1. IInv /\ [Next]_vars => IInv'
  <2> SUFFICES ASSUME IInv, [Next]_vars PROVE IInv'
    OBVIOUS
  <2>1. RowsInv' /\ PlanInv' /\ UnchangedInv'
    BY RowsStep, PlanStep, UnchangedStep DEF IInv
  <2>2. GroupsInv' /\ WavesInv' /\ ColoursInv'
    BY GroupsStep, WavesStep, ColoursStep DEF IInv
  <2>3. CallsInv' /\ ServedInv'
    BY CallsStep, ServedStep DEF IInv
  <2>4. QED
    BY <2>1, <2>2, <2>3 DEF IInv
<1>2. QED
  BY <1>1, Initially, PTL DEF Spec

-----------------------------------------------------------------------------
(* Theorems *)

\* The invariant has what the types need.
LEMMA InvariantImpliesTypes == IInv => TypeOK
<1> SUFFICES ASSUME IInv PROVE TypeOK
  OBVIOUS
<1>1. stage \in Stages /\ DOMAIN vm \subseteq plan.vms
  BY DEF IInv, PlanInv
<1>2. \A g \in groups : g.vms # {} /\ g.key.role \in Roles /\ g.key.state \in States /\ g.risk \in Risks
  BY DEF IInv, GroupsInv, GroupSet, IsGroup
<1>3. DOMAIN colour \subseteq DOMAIN waves
  BY DEF IInv, ColoursInv, WavesInv
<1>4. /\ DOMAIN call \subseteq DOMAIN waves
      /\ \A w \in DOMAIN call : call[w] \in Calls
      /\ \A w \in DOMAIN attempt : attempt[w] \in 0..MaxAttempts
  BY DEF IInv, CallsInv
<1>5. /\ banner \in BOOLEAN
      /\ served.status \in {"none", "refused", "served"} /\ served.route \in Routes
      /\ \A part \in served.parts : part.wave \in DOMAIN waves /\ part.vms # {}
      /\ events \in 0..MaxEvents
  BY DEF IInv, ServedInv
<1>6. QED
  BY <1>1, <1>2, <1>3, <1>4, <1>5 DEF TypeOK

\* Types: whatever a plan goes through, its groups have VMs, a role, a state and a
\* risk, no request is made more often than max_llm_attempts allows, and a
\* download has VMs of the plan's waves.
THEOREM TypeCorrect == Spec => []TypeOK
BY Inductive, InvariantImpliesTypes, PTL

\* No wave shares a VM with another, and all are in one when no two ids clash.
LEMMA InvariantPlaces == IInv => VMsArePlaced
<1> SUFFICES ASSUME IInv, Packed PROVE
      /\ \A w, u \in DOMAIN waves : w # u => VMsOf(waves[w]) \intersect VMsOf(waves[u]) = {}
      /\ ~Clash => Placed = plan.vms
  BY DEF VMsArePlaced
<1>1. Apart(waves) /\ (NoClash(groups) => All(waves) = DOMAIN vm)
  BY DEF IInv, WavesInv
<1>2. DOMAIN vm = plan.vms
  BY DEF IInv, PlanInv, Loaded
<1>3. ~Clash => NoClash(groups)
  BY DEF Clash, NoClash
<1>4. QED
  BY <1>1, <1>2, <1>3 DEF Apart, All, Placed

\* Partitioning, splitting and packing place no VM twice and, unless two groups
\* render to the same id, leave none out: for plans, families and waves of any size.
THEOREM EveryVMIsPlaced == Spec => []VMsArePlaced
BY Inductive, InvariantPlaces, PTL

\* The waves of the invariant respect the rules, and its colours are proper.
LEMMA InvariantRespects == IInv => WavesRespectTheRules
<1> SUFFICES ASSUME IInv, Packed, NEW w \in DOMAIN waves
             PROVE  /\ WithinSize(w) /\ OnePartition(w) /\ PeersApart(w) /\ GroupsWithinCap(w) /\ DependenciesFirst(w)
                    /\ w \in DOMAIN colour => Independent(w)
  BY DEF WavesRespectTheRules
<1>1. Respecting(waves)
  BY DEF IInv, WavesInv
<1>2. WithinSize(w) /\ OnePartition(w)
  BY <1>1 DEF Respecting, SmallEnough, SamePartition, WithinSize, OnePartition
<1>3. PeersApart(w) /\ GroupsWithinCap(w)
  BY <1>1, Zenon DEF Respecting, PeersSpread, Sparable, PeersOf, Allowance, Capped, PeersApart, GroupsWithinCap
<1>4. DependenciesFirst(w)
  BY <1>1 DEF Respecting, DependenciesFirst
<1>5. ASSUME w \in DOMAIN colour PROVE Independent(w)
  <2>1. /\ DOMAIN colour = DOMAIN waves
        /\ \A i, j \in DOMAIN waves : i # j /\ Conflict(waves[i], waves[j]) => colour[i] # colour[j]
    BY <1>5 DEF IInv, ColoursInv
  <2>2. QED
    BY <2>1 DEF Independent, Conflict
<1>6. QED
  BY <1>2, <1>3, <1>4, <1>5

\* Every wave is small enough and of one partition, the HA peers that could be kept
\* apart are, no group of it holds more than half of a name family, it comes after
\* what it depends on, and waves of one concurrency group share neither a vCenter
\* nor a family, whatever the limits are.
THEOREM WavesFollowTheRules == Spec => []WavesRespectTheRules
BY Inductive, InvariantRespects, PTL

-----------------------------------------------------------------------------
(* What Stage 0 lets through is rendered *)

Unrepeated(x) == \A i, j \in DOMAIN x : i # j => x[i].source # x[j].source

\* Where no source is repeated, the first and the last row of one are the same.
LEMMA TheRow ==
    ASSUME NEW x, IsList(x), Unrepeated(x), NEW r \in ToSet(x)
    PROVE  Indices(x, r.source) # {} /\ FirstRow(x, r.source) = r /\ LastRow(x, r.source) = r
<1>1. PICK i \in DOMAIN x : r = x[i]
  BY DEF ToSet
<1>2. i \in Nat
  BY <1>1 DEF IsList
<1>3. Indices(x, r.source) = {i}
  BY <1>1 DEF Indices, Unrepeated
<1>4. Min({i}) = i /\ Max({i}) = i
  BY <1>2 DEF Min, Max
<1>5. QED
  BY <1>1, <1>3, <1>4 DEF FirstRow, LastRow

\* What is covered is rendered, where no source is repeated.
LEMMA CoveredIsEmitted ==
    ASSUME NEW m, IsMapping(m), Unrepeated(m.nets), Unrepeated(m.stores),
           NEW a, Covers(MappedNets(m), MappedStores(m), a)
    PROVE  /\ \A s \in a.nets : /\ EmitsNet(m, s) /\ FirstRow(m.nets, s) = LastRow(m.nets, s)
                                /\ Indices(m.nets, s) # {}
           /\ \A s \in a.stores : /\ EmitsStore(m, s) /\ FirstRow(m.stores, s) = LastRow(m.stores, s)
                                  /\ Indices(m.stores, s) # {}
           /\ a.stores # {}
<1>1. ASSUME NEW s \in a.nets
      PROVE  EmitsNet(m, s) /\ FirstRow(m.nets, s) = LastRow(m.nets, s) /\ Indices(m.nets, s) # {}
  <2>1. PICK r \in ToSet(m.nets) : r.source = s /\ (r.target # "" \/ r.ignored)
    BY DEF Covers, MappedNets
  <2>2. Indices(m.nets, s) # {} /\ FirstRow(m.nets, s) = r /\ LastRow(m.nets, s) = r
    BY <2>1, TheRow DEF IsMapping
  <2>3. QED
    BY <2>1, <2>2 DEF EmitsNet
<1>2. ASSUME NEW s \in a.stores
      PROVE  EmitsStore(m, s) /\ FirstRow(m.stores, s) = LastRow(m.stores, s) /\ Indices(m.stores, s) # {}
  <2>1. PICK r \in ToSet(m.stores) : r.source = s /\ r.class # ""
    BY DEF Covers, MappedStores
  <2>2. Indices(m.stores, s) # {} /\ FirstRow(m.stores, s) = r /\ LastRow(m.stores, s) = r
    BY <2>1, TheRow DEF IsMapping
  <2>3. QED
    BY <2>1, <2>2 DEF EmitsStore
<1>3. QED
  BY <1>1, <1>2 DEF Covers

\* A wave of VMs that one mapping takes is rendered with it, each into a namespace.
LEMMA TakenWave ==
    ASSUME NEW m \in maps, IsMapping(m), TakesAll(m), NEW A, A # {},
           \A a \in A : \E v \in plan.vms : a = inventory[v]
    PROVE  /\ WaveMapping(A, {m}) = m
           /\ \A a \in A : /\ a.vc = m.vc /\ Covers(MappedNets(m), MappedStores(m), a)
                           /\ EmittedNamespace(m, a) # ""
                           /\ a.ns = "" => EmittedNamespace(m, a) = plan.partition.ns
<1>1. ASSUME NEW a \in A
      PROVE  /\ a.vc = m.vc /\ Covers(MappedNets(m), MappedStores(m), a)
             /\ EmittedNamespace(m, a) # ""
             /\ a.ns = "" => EmittedNamespace(m, a) = plan.partition.ns
  <2>1. PICK v \in plan.vms : a = inventory[v]
    OBVIOUS
  <2>2. /\ a.vc = m.vc /\ PairMapping(a.vc, ResolvedCluster(a, maps), maps) = m
        /\ ResolvedNamespace(a, maps) = plan.partition.ns /\ plan.partition.ns # ""
        /\ Covers(MappedNets(m), MappedStores(m), a)
    BY <2>1 DEF TakesAll
  <2>3. (IF a.ns # "" THEN a.ns ELSE StrategyNamespace(m, a)) = plan.partition.ns
    BY <2>2 DEF ResolvedNamespace
  <2>4. QED
    BY <2>2, <2>3 DEF EmittedNamespace
<1>2. WaveMapping(A, {m}) = m
  <2>1. m.vc # 0 /\ m.vc \in {a.vc : a \in A} \ {0}
    BY <1>1 DEF IsMapping
  <2>2. QED
    BY <2>1 DEF WaveMapping
<1>3. QED
  BY <1>1, <1>2

\* A plan that nothing has disturbed: what was loaded is what there is, and one
\* mapping takes all of it.
LEMMA Undisturbed ==
    ASSUME IInv, ~plan.changed, Packed
    PROVE  \E m \in maps :
              /\ IsMapping(m) /\ TakesAll(m) /\ rows = {m} /\ Referred = {m}
              /\ \A v \in plan.vms : v \in DOMAIN vm /\ vm[v] = inventory[v]
              /\ \A w \in DOMAIN waves :
                    /\ VMsOf(waves[w]) \subseteq plan.vms /\ VMsOf(waves[w]) \subseteq DOMAIN inventory
                    /\ AttributesOf(w) # {} /\ Left(w) = VMsOf(waves[w]) /\ Now(w) = AttributesOf(w)
                    /\ \A a \in AttributesOf(w) : \E v \in plan.vms : a = inventory[v]
<1>1. PICK m \in maps : TakesAll(m)
  BY DEF IInv, UnchangedInv, Packed
<1>2. /\ IsMapping(m) /\ rows = Referred /\ Referred = {m}
      /\ \A v \in plan.vms : vm[v] = inventory[v] /\ v \in DOMAIN inventory /\ v \in DOMAIN vm
  BY <1>1 DEF IInv, UnchangedInv, RowsInv, PlanInv, TakesAll, Loaded, Packed
<1>3. ASSUME NEW w \in DOMAIN waves
      PROVE  /\ VMsOf(waves[w]) \subseteq plan.vms /\ VMsOf(waves[w]) \subseteq DOMAIN inventory
             /\ AttributesOf(w) # {} /\ Left(w) = VMsOf(waves[w]) /\ Now(w) = AttributesOf(w)
             /\ \A a \in AttributesOf(w) : \E v \in plan.vms : a = inventory[v]
  <2>1. VMsOf(waves[w]) \subseteq plan.vms
    BY DEF IInv, WavesInv, PlanInv, All
  <2>2. VMsOf(waves[w]) # {}
    BY DEF IInv, WavesInv, Respecting
  <2>3. VMsOf(waves[w]) \subseteq DOMAIN inventory
    BY <1>2, <2>1
  <2>4. Left(w) = VMsOf(waves[w])
    BY <2>3 DEF Left
  <2>5. Now(w) = AttributesOf(w)
    BY <1>2, <2>1, <2>4 DEF Now, AttributesOf
  <2>6. QED
    BY <1>2, <2>1, <2>2, <2>3, <2>4, <2>5 DEF AttributesOf
<1>4. QED
  BY <1>1, <1>2, <1>3

\* ... and if no VM overrides its namespace, all of a wave goes into the plan's.
LEMMA OneNamespace ==
    ASSUME IInv, ~plan.changed, Packed, ~Overridden, NEW w \in DOMAIN waves
    PROVE  EmittedInto(w) = {plan.partition.ns}
<1>1. PICK m \in maps :
         /\ IsMapping(m) /\ TakesAll(m) /\ rows = {m}
         /\ \A v \in plan.vms : v \in DOMAIN vm /\ vm[v] = inventory[v]
         /\ AttributesOf(w) # {} /\ \A a \in AttributesOf(w) : \E v \in plan.vms : a = inventory[v]
  BY Undisturbed
<1> DEFINE A == AttributesOf(w)
<1>2. A # {} /\ (\A a \in A : \E v \in plan.vms : a = inventory[v]) /\ m \in maps
  BY <1>1
<1>3. \A a \in A : a.ns = ""
  <2>1. TAKE a \in A
  <2>2. PICK v \in plan.vms : a = inventory[v]
    BY <1>2
  <2>3. v \in DOMAIN vm /\ vm[v] = a
    BY <1>1, <2>2
  <2>4. QED
    BY <2>3 DEF Overridden
<1> HIDE DEF A
<1>4. WaveMapping(A, {m}) = m /\ \A a \in A : a.ns = "" => EmittedNamespace(m, a) = plan.partition.ns
  BY <1>1, <1>2, TakenWave
<1>5. EmittedInto(w) = {EmittedNamespace(m, a) : a \in A}
  <2>1. EmittedInto(w) = {EmittedNamespace(WaveMapping(A, rows), a) : a \in A}
    BY DEF EmittedInto, A
  <2>2. WaveMapping(A, rows) = m
    BY <1>1, <1>4
  <2>3. QED
    BY <2>1, <2>2
<1>6. QED
  BY <1>2, <1>3, <1>4, <1>5

\* An undisturbed plan without repeated sources is rendered, into one namespace.
LEMMA InvariantSuffices == IInv => StageZeroSuffices
<1> SUFFICES ASSUME IInv, ~plan.changed, ~Overridden
             PROVE  /\ stage = "unrendered" => Repeated
                    /\ stage = "complete" => \A w \in DOMAIN waves : EmittedInto(w) = {plan.partition.ns}
  BY DEF StageZeroSuffices
<1>1. ASSUME stage = "unrendered", ~Repeated PROVE FALSE
  <2>1. Packed
    BY <1>1 DEF Packed
  <2>2. PICK w \in DOMAIN waves : ~EmitsWave(w)
    BY <1>1 DEF IInv, ServedInv
  <2> DEFINE A == AttributesOf(w)
  <2>3. PICK m \in maps :
           /\ IsMapping(m) /\ TakesAll(m) /\ rows = {m}
           /\ A # {} /\ \A a \in A : \E v \in plan.vms : a = inventory[v]
    BY <2>1, Undisturbed
  <2>4. Unrepeated(m.nets) /\ Unrepeated(m.stores)
    BY <1>1, <2>3 DEF Repeated, Unrepeated
  <2>5. EmittedInto(w) = {plan.partition.ns}
    BY <2>1, OneNamespace
  <2>6. /\ WaveMapping(A, {m}) = m
        /\ \A a \in A : Covers(MappedNets(m), MappedStores(m), a) /\ EmittedNamespace(m, a) # ""
    BY <2>3, TakenWave
  <2>7. {EmittedNamespace(m, a) : a \in A} = {plan.partition.ns}
    BY <2>3, <2>5, <2>6, ZenonT(60) DEF EmittedInto
  <2>8. Cardinality({EmittedNamespace(m, a) : a \in A}) = 1
    BY <2>7, FS_Singleton
  <2>9. \A a \in A : /\ \A s \in a.nets : EmitsNet(m, s)
                     /\ \A s \in a.stores : EmitsStore(m, s)
                     /\ a.stores # {}
    BY <2>3, <2>4, <2>6, CoveredIsEmitted
  <2>10. Emits(A, m)
    BY <2>3, <2>6, <2>8, <2>9 DEF Emits
  <2>11. QED
    BY <2>2, <2>3, <2>6, <2>10 DEF EmitsWave
<1>2. ASSUME stage = "complete" PROVE \A w \in DOMAIN waves : EmittedInto(w) = {plan.partition.ns}
  BY <1>2, OneNamespace DEF Packed
<1>3. QED
  BY <1>1, <1>2

\* A plan that passed Stage 0 is rendered into the namespace of its partition, but
\* for changes since, overridden namespaces and repeated sources.
THEOREM StageZeroIsEnough == Spec => []StageZeroSuffices
BY Inductive, InvariantSuffices, PTL

\* A download of a complete plan renders what its generation rendered when nothing
\* changed since, and otherwise it is refused or leaves out what is gone only.
LEMMA DownloadIsWhole ==
    ASSUME IInv, Download
    PROVE  /\ ~plan.changed => served'.status = "served"
           /\ \A part \in served'.parts :
                LET missing == VMsOf(waves[part.wave]) \ part.vms
                IN  /\ missing \intersect DOMAIN inventory = {}
                    /\ served'.route = "wave" => missing = {}
                    /\ ~plan.changed => part.ns = EmittedInto(part.wave)
<1>1. stage = "complete" /\ Packed
  BY Downloading DEF Packed
<1>2. ASSUME ~plan.changed, NEW w \in DOMAIN waves
      PROVE  Whole(w) /\ Renders(w) /\ YAML(w).ns = EmittedInto(w)
  <2>1. PICK m \in maps :
           /\ rows = {m} /\ Referred = {m}
           /\ VMsOf(waves[w]) \subseteq DOMAIN inventory /\ Now(w) = AttributesOf(w)
    BY <1>1, <1>2, Undisturbed
  <2>2. EmitsWave(w)
    BY <1>1 DEF IInv, ServedInv
  <2>3. Renders(w)
    BY <2>1, <2>2 DEF Renders, EmitsWave
  <2>4. YAML(w).ns = EmittedInto(w)
    BY <2>1 DEF YAML, EmittedInto
  <2>5. QED
    BY <2>1, <2>3, <2>4 DEF Whole
<1>3. ASSUME ~plan.changed PROVE served'.status = "served"
  BY <1>2, <1>3 DEF Download, DownloadBundle, DownloadWave, Respond
<1>4. ASSUME NEW part \in served'.parts
      PROVE  LET missing == VMsOf(waves[part.wave]) \ part.vms
             IN  /\ missing \intersect DOMAIN inventory = {}
                 /\ served'.route = "wave" => missing = {}
                 /\ ~plan.changed => part.ns = EmittedInto(part.wave)
  <2>1. PICK w \in DOMAIN waves : part = YAML(w) /\ (served'.route = "wave" => Whole(w))
    BY Parts
  <2>2. part.wave = w /\ part.vms = Left(w) /\ part.ns = YAML(w).ns
    BY <2>1 DEF YAML
  <2>3. /\ (VMsOf(waves[w]) \ Left(w)) \intersect DOMAIN inventory = {}
        /\ Whole(w) => VMsOf(waves[w]) \ Left(w) = {}
    BY DEF Left, Whole
  <2>4. QED
    BY <1>2, <2>1, <2>2, <2>3
<1>5. QED
  BY <1>3, <1>4

\* The same of every step.
THEOREM DownloadsStayWhole == Spec => DownloadsAreWhole
<1> DEFINE A == served' # served =>
          /\ ~plan.changed => served'.status = "served"
          /\ \A part \in served'.parts :
                LET missing == VMsOf(waves[part.wave]) \ part.vms
                IN  /\ missing \intersect DOMAIN inventory = {}
                    /\ served'.route = "wave" => missing = {}
                    /\ ~plan.changed => part.ns = EmittedInto(part.wave)
<1>1. IInv /\ [Next]_vars => [A]_vars
  <2> SUFFICES ASSUME IInv, [Next]_vars, served' # served PROVE A
    OBVIOUS
  <2>1. Download
    BY Steps, Creating, Changing, AsksOnly
       DEF IInv, Load, Validate, PartitionVMs, Split, Pack, Analyze, Asks, Annotated, Emit, vars
  <2>2. QED
    BY <2>1, DownloadIsWhole
<1> HIDE DEF A
<1>2. Spec => [][A]_vars
  BY <1>1, Inductive, PTL DEF Spec
<1>3. QED
  BY <1>2 DEF A, DownloadsAreWhole

-----------------------------------------------------------------------------
(* What is rendered is what the target resolution shows *)

\* The destination of each network is one, whichever VM of the wave it is taken from.
OneWay(nets) == \A d, e \in nets : d.source = e.source => d = e

\* A wave that is rendered goes into one namespace, so its networks go one way.
LEMMA RenderedOneWay ==
    ASSUME RowsInv, NEW w, Renders(w)
    PROVE  OneWay(YAML(w).nets)
<1> DEFINE m == WaveMapping(Now(w), Referred)
           ns(a) == EmittedNamespace(m, a)
           X == Now(w)
           cat == Catalogs[m.cluster]
<1>1. Cardinality({ns(a) : a \in X}) = 1
  BY DEF Renders, Emits
<1>2. IsFiniteSet({ns(a) : a \in X})
  <2>1. IsFiniteSet(Left(w))
    BY FS_Subset DEF RowsInv, Left
  <2> DEFINE f == [v \in Left(w) |-> ns(inventory[v])]
  <2>2. {ns(a) : a \in X} = {f[v] : v \in Left(w)}
    BY DEF Now
  <2> HIDE DEF f
  <2>3. IsFiniteSet({f[v] : v \in Left(w)})
    BY <2>1, ImageIsFinite
  <2>4. QED
    BY <2>2, <2>3
<1>3. YAML(w).nets = NetworkMap(X, m, cat)
  BY DEF YAML
<1> HIDE DEF m, X, cat
<1>4. PICK n : {ns(a) : a \in X} = {n}
  <2> HIDE DEF ns
  <2>1. QED
    BY <1>1, <1>2, FS_Singleton
<1>5. \A a \in X : EmittedNamespace(m, a) = n
  BY <1>4
<1>6. ASSUME NEW d \in NetworkMap(X, m, cat)
      PROVE  /\ d.to = NetworkDestination(FirstRow(m.nets, d.source), n, cat)
             /\ d = [source |-> d.source, to |-> d.to]
  <2>1. PICK a \in X : \E s \in a.nets :
           d = [source |-> s, to |-> NetworkDestination(FirstRow(m.nets, s), EmittedNamespace(m, a), cat)]
    BY DEF NetworkMap
  <2>2. QED
    BY <1>5, <2>1
<1>7. QED
  BY <1>3, <1>6 DEF OneWay

ShownAs(shown, to, row, cat) ==
    CASE to.type = "multus" ->
            /\ shown.name = to.name
            /\ shown.kind \in {"multus", "localnet"}
            /\ row.ns # "" /\ Declared(row, cat).type # "cudn" => shown.ns = to.ns
      [] to.type = "pod" -> shown.kind \in {"pod", "primary_udn"}
      [] to.type = "ignored" -> shown.kind = "ignored"

\* A network that a wave may be rendered with is shown where it goes.
LEMMA NetworkIsShown ==
    ASSUME NEW m, NEW s, NEW ns, NEW cat,
           Indices(m.nets, s) # {}, EmitsNet(m, s), FirstRow(m.nets, s) = LastRow(m.nets, s)
    PROVE  /\ ResolvedNetwork(m, s, cat).kind # ""
           /\ ShownAs(ResolvedNetwork(m, s, cat), NetworkDestination(FirstRow(m.nets, s), ns, cat),
                      LastRow(m.nets, s), cat)
<1> DEFINE row == LastRow(m.nets, s)
           kind == DestinationKind(Declared(row, cat))
<1>1. row.ignored \/ row.target # ""
  BY DEF EmitsNet
<1>2. kind \in {"pod", "primary_udn", "localnet", "multus"}
  BY DEF DestinationKind
<1>3. /\ row.ignored =>
            NetworkDestination(row, ns, cat) = [type |-> "ignored", name |-> "", ns |-> ""]
      /\ ~row.ignored /\ kind \in {"pod", "primary_udn"} =>
            NetworkDestination(row, ns, cat) = [type |-> "pod", name |-> "", ns |-> ""]
      /\ ~row.ignored /\ kind \notin {"pod", "primary_udn"} =>
            NetworkDestination(row, ns, cat) =
               [type |-> "multus", name |-> row.target,
                ns |-> IF Declared(row, cat).type = "cudn" \/ row.ns = "" THEN ns ELSE row.ns]
  BY Zenon DEF NetworkDestination, EmittedKind
<1>4. /\ row.ignored => ResolvedNetwork(m, s, cat) = [kind |-> "ignored", name |-> "", ns |-> ""]
      /\ ~row.ignored /\ row.target # "" =>
            ResolvedNetwork(m, s, cat) =
               [kind |-> kind, name |-> row.target,
                ns |-> IF kind \in {"pod", "primary_udn"} THEN ""
                       ELSE IF row.ns # "" THEN row.ns ELSE Declared(row, cat).ns]
  BY Zenon DEF ResolvedNetwork
<1>5. FirstRow(m.nets, s) = row
  OBVIOUS
<1> DEFINE shown == ResolvedNetwork(m, s, cat)
           to == NetworkDestination(row, ns, cat)
<1> HIDE DEF row, kind
<1>6. ASSUME row.ignored PROVE shown.kind # "" /\ ShownAs(shown, to, row, cat)
  <2>1. /\ shown = [kind |-> "ignored", name |-> "", ns |-> ""]
        /\ to = [type |-> "ignored", name |-> "", ns |-> ""]
    BY <1>3, <1>4, <1>6
  <2> HIDE DEF shown, to
  <2>2. QED
    BY <2>1 DEF ShownAs
<1>7. ASSUME ~row.ignored, kind \in {"pod", "primary_udn"} PROVE shown.kind # "" /\ ShownAs(shown, to, row, cat)
  <2>1. shown = [kind |-> kind, name |-> row.target, ns |-> ""] /\ to = [type |-> "pod", name |-> "", ns |-> ""]
    BY <1>1, <1>3, <1>4, <1>7
  <2> HIDE DEF shown, to
  <2>2. QED
    BY <1>7, <2>1 DEF ShownAs
<1>8. ASSUME ~row.ignored, kind \in {"localnet", "multus"} PROVE shown.kind # "" /\ ShownAs(shown, to, row, cat)
  <2>1. to = [type |-> "multus", name |-> row.target,
              ns |-> IF Declared(row, cat).type = "cudn" \/ row.ns = "" THEN ns ELSE row.ns]
    BY <1>3, <1>8
  <2>2. shown = [kind |-> kind, name |-> row.target,
                 ns |-> IF row.ns # "" THEN row.ns ELSE Declared(row, cat).ns]
    BY <1>1, <1>4, <1>8
  <2> HIDE DEF shown, to
  <2>3. QED
    BY <1>8, <2>1, <2>2 DEF ShownAs
<1>9. shown.kind # "" /\ ShownAs(shown, to, row, cat)
  BY <1>2, <1>6, <1>7, <1>8
<1>10. QED
  BY <1>5, <1>9 DEF row

\* And a datastore is shown with the class it goes to.
LEMMA StoreIsShown ==
    ASSUME NEW m, NEW s, NEW cat, NEW wave, NEW e \in StorageMap(wave, m, cat), e.source = s,
           Indices(m.stores, s) # {}, EmitsStore(m, s), FirstRow(m.stores, s) = LastRow(m.stores, s)
    PROVE  ResolvedStore(m, s, cat) = [class |-> e.class, access |-> e.access, volume |-> e.volume]
<1> DEFINE row == LastRow(m.stores, s)
           class == cat.classes[row.class]
<1>1. row.class # "" /\ FirstRow(m.stores, s) = row
  BY DEF EmitsStore
<1>2. e = IF row.class \in DOMAIN cat.classes
          THEN [source |-> s, class |-> row.class, access |-> Mode(row.access, class.access),
                volume |-> Mode(row.volume, class.volume), offload |-> Offload(class)]
          ELSE [source |-> s, class |-> row.class, access |-> row.access,
                volume |-> row.volume, offload |-> ""]
  <2>1. PICK x : e = LET r == FirstRow(m.stores, x)
                     IN  IF r.class \in DOMAIN cat.classes
                         THEN LET c == cat.classes[r.class]
                              IN  [source |-> x, class |-> r.class, access |-> Mode(r.access, c.access),
                                   volume |-> Mode(r.volume, c.volume), offload |-> Offload(c)]
                         ELSE [source |-> x, class |-> r.class, access |-> r.access,
                               volume |-> r.volume, offload |-> ""]
    BY Zenon DEF StorageMap
  <2>2. e.source = x
    BY <2>1
  <2>3. x = s /\ FirstRow(m.stores, s) = row
    BY <1>1, <2>2
  <2>4. QED
    BY <2>1, <2>3, Zenon
<1>3. ResolvedStore(m, s, cat) =
         IF row.class \in DOMAIN cat.classes
         THEN [class |-> row.class, access |-> Mode(row.access, class.access),
               volume |-> Mode(row.volume, class.volume)]
         ELSE [class |-> row.class, access |-> Mode(row.access, ""), volume |-> Mode(row.volume, "")]
  BY <1>1 DEF ResolvedStore
<1>4. \A own : Mode(own, "") = own
  BY DEF Mode
<1> HIDE DEF row, class
<1>5. \E access, volume, offload :
         /\ e = [source |-> s, class |-> row.class, access |-> access, volume |-> volume, offload |-> offload]
         /\ ResolvedStore(m, s, cat) = [class |-> row.class, access |-> access, volume |-> volume]
  <2>1. CASE row.class \in DOMAIN cat.classes
    BY <1>2, <1>3, <2>1
  <2>2. CASE row.class \notin DOMAIN cat.classes
    BY <1>2, <1>3, <1>4, <2>2
  <2>3. QED
    BY <2>1, <2>2
<1>6. QED
  BY <1>5

\* What is resolved for a VM that a mapping covers.
LEMMA ShownInFull ==
    ASSUME NEW m \in maps, IsMapping(m), TakesAll(m), NEW v \in plan.vms,
           Unrepeated(m.nets), Unrepeated(m.stores)
    PROVE  FullyResolved(inventory[v], maps, Catalogs[m.cluster])
<1> DEFINE a == inventory[v]
           cat == Catalogs[m.cluster]
<1>1. /\ PairMapping(a.vc, ResolvedCluster(a, maps), maps) = m
      /\ ResolvedNamespace(a, maps) # "" /\ Covers(MappedNets(m), MappedStores(m), a)
  BY DEF TakesAll
<1> HIDE DEF a, cat
<1>2. m # NoMapping
  BY DEF IsMapping, NoMapping
<1>3. ASSUME NEW s \in a.nets PROVE ResolvedNetwork(m, s, cat).kind # ""
  <2>1. Indices(m.nets, s) # {} /\ EmitsNet(m, s) /\ FirstRow(m.nets, s) = LastRow(m.nets, s)
    BY <1>1, CoveredIsEmitted
  <2>2. QED
    BY <2>1, NetworkIsShown
<1>4. ASSUME NEW s \in a.stores PROVE ResolvedStore(m, s, cat).class # ""
  <2>1. Indices(m.stores, s) # {} /\ EmitsStore(m, s) /\ FirstRow(m.stores, s) = LastRow(m.stores, s)
    BY <1>1, CoveredIsEmitted
  <2>2. LastRow(m.stores, s).class # ""
    BY <2>1 DEF EmitsStore
  <2>3. QED
    BY <2>1, <2>2 DEF ResolvedStore
<1>5. FullyResolved(a, maps, cat)
  BY <1>1, <1>2, <1>3, <1>4 DEF FullyResolved
<1>6. QED
  BY <1>5 DEF a, cat

\* What was served is still what a download would serve, as long as nothing changed.
PartsInv ==
    \A part \in served.parts :
       /\ OneWay(part.nets)
       /\ ~plan.changed => \E w \in DOMAIN waves : part = YAML(w)

\* A download serves waves as they are, and only a change makes them differ.
LEMMA PartsStep ==
    ASSUME RowsInv, PlanInv, ServedInv, PartsInv, [Next]_vars
    PROVE  PartsInv'
<1>1. CASE Download
  <2>1. UNCHANGED <<inventory, maps, plan, waves>>
    BY <1>1, Downloading DEF pvars
  <2>2. \A w : YAML(w)' = YAML(w)
    BY <2>1 DEF YAML, Left, Now, Referred
  <2>3. ASSUME NEW part \in served'.parts
        PROVE  OneWay(part.nets) /\ \E w \in DOMAIN waves : part = YAML(w)
    BY <1>1, Parts, RenderedOneWay
  <2>4. QED
    BY <2>1, <2>2, <2>3 DEF PartsInv
<1>2. CASE Change
  <2>1. plan' = [plan EXCEPT !.changed = TRUE] /\ UNCHANGED served
    BY <1>2, Changing
  <2>2. plan'.changed
    BY <2>1 DEF PlanInv
  <2>3. QED
    BY <2>1, <2>2 DEF PartsInv
<1>3. CASE UNCHANGED vars
  <2>1. UNCHANGED <<inventory, maps, plan, waves, served>>
    BY <1>3 DEF vars, pvars
  <2>2. \A w : YAML(w)' = YAML(w)
    BY <2>1 DEF YAML, Left, Now, Referred
  <2>3. QED
    BY <2>1, <2>2 DEF PartsInv
<1>4. CASE ~(Download \/ Change \/ UNCHANGED vars)
  <2>1. UNCHANGED served /\ stage # "complete"
    BY <1>4, Steps, Creating, AsksOnly
       DEF Load, Validate, PartitionVMs, Split, Pack, Analyze, Asks, Annotated, Emit
  <2>2. QED
    BY <2>1 DEF PartsInv, ServedInv
<1>5. QED
  BY <1>1, <1>2, <1>3, <1>4

\* The parts of an undisturbed plan are what the resolution shows of its VMs.
LEMMA InvariantShows == IInv /\ PartsInv => RenderedAsResolved
<1> SUFFICES ASSUME IInv, PartsInv, NEW part \in served.parts
             PROVE  /\ \A d, e \in part.nets : d.source = e.source => d = e
                    /\ ~plan.changed /\ ~Repeated => \A v \in part.vms : Shows(part, v)
  BY DEF RenderedAsResolved
<1>1. OneWay(part.nets)
  BY DEF PartsInv
<1>2. ASSUME ~plan.changed, ~Repeated, NEW v \in part.vms PROVE Shows(part, v)
  <2>1. Packed
    BY DEF IInv, ServedInv, Packed
  <2>2. PICK w \in DOMAIN waves : part = YAML(w)
    BY <1>2 DEF PartsInv
  <2>3. PICK m \in maps :
           /\ IsMapping(m) /\ TakesAll(m) /\ rows = {m} /\ Referred = {m}
           /\ VMsOf(waves[w]) \subseteq plan.vms /\ Left(w) = VMsOf(waves[w]) /\ Now(w) = AttributesOf(w)
           /\ AttributesOf(w) # {} /\ \A a \in AttributesOf(w) : \E u \in plan.vms : a = inventory[u]
    BY <1>2, <2>1, Undisturbed
  <2>4. Unrepeated(m.nets) /\ Unrepeated(m.stores)
    BY <1>2, <2>3 DEF Repeated, Unrepeated
  <2> DEFINE A == AttributesOf(w)
             cat == Catalogs[m.cluster]
             a == inventory[v]
  <2>5. WaveMapping(A, {m}) = m
    <3>1. A # {} /\ \A x \in A : \E u \in plan.vms : x = inventory[u]
      BY <2>3
    <3> HIDE DEF A
    <3>2. QED
      BY <2>3, <3>1, TakenWave
  <2>6. part.nets = NetworkMap(A, m, cat) /\ part.stores = StorageMap(A, m, cat) /\ part.vms = VMsOf(waves[w])
    BY <2>2, <2>3, <2>5 DEF YAML
  <2>7. v \in plan.vms
    BY <2>3, <2>6
  <2>8. PairMapping(a.vc, ResolvedCluster(a, maps), maps) = m /\ Covers(MappedNets(m), MappedStores(m), a)
    BY <2>3, <2>7 DEF TakesAll
  <2>9. FullyResolved(a, maps, cat)
    BY <2>3, <2>4, <2>7, ShownInFull
  <2> HIDE DEF A, cat, a
  <2>10. ASSUME NEW e \in part.nets, e.source \in a.nets
         PROVE  ShownAs(ResolvedNetwork(m, e.source, cat), e.to, LastRow(m.nets, e.source), cat)
    <3>1. PICK ns : e.to = NetworkDestination(FirstRow(m.nets, e.source), ns, cat)
      BY <2>6 DEF NetworkMap
    <3>2. /\ Indices(m.nets, e.source) # {} /\ EmitsNet(m, e.source)
          /\ FirstRow(m.nets, e.source) = LastRow(m.nets, e.source)
      BY <2>3, <2>4, <2>8, <2>10, CoveredIsEmitted
    <3>3. QED
      BY <3>1, <3>2, NetworkIsShown
  <2>11. ASSUME NEW e \in part.stores, e.source \in a.stores
         PROVE  ResolvedStore(m, e.source, cat) = [class |-> e.class, access |-> e.access, volume |-> e.volume]
    <3>1. /\ Indices(m.stores, e.source) # {} /\ EmitsStore(m, e.source)
          /\ FirstRow(m.stores, e.source) = LastRow(m.stores, e.source)
      BY <2>3, <2>4, <2>8, <2>11, CoveredIsEmitted
    <3>2. QED
      BY <2>6, <3>1, StoreIsShown
  <2>12. QED
    BY <2>8, <2>9, <2>10, <2>11 DEF Shows, ShownAs, a, cat
<1>3. QED
  BY <1>1, <1>2 DEF OneWay

\* No wave that is downloaded has VMs that disagree about a network, and what it is
\* rendered to is what the resolution shows of each of its VMs, for any inventory,
\* mappings and catalogs, as long as nothing changed and no source is repeated.
THEOREM DownloadsAreAsShown == Spec => []RenderedAsResolved
<1>1. Init => PartsInv
  BY DEF Init, PartsInv
<1>2. IInv /\ PartsInv /\ [Next]_vars => PartsInv'
  BY PartsStep DEF IInv
<1>3. QED
  BY <1>1, <1>2, Inductive, InvariantShows, PTL DEF Spec

-----------------------------------------------------------------------------
(* What a preflight finds and what the card of a wave finds *)

\* The rows that a wave uses are those of its sources, and the last of a source is
\* the last of all rows.
LEMMA RowsInUse ==
    ASSUME NEW x, IsList(x), NEW used, NEW s \in Sources(WaveRows(x, used))
    PROVE  s \in Sources(x) /\ LastRow(WaveRows(x, used), s) = LastRow(x, s)
<1> DEFINE y == WaveRows(x, used)
           I == Indices(x, s)
<1>1. DOMAIN y = {i \in DOMAIN x : x[i].source \in used} /\ \A i \in DOMAIN y : y[i] = x[i]
  BY DEF WaveRows, Restrict
<1>2. PICK i \in DOMAIN y : y[i].source = s
  BY DEF Sources, ToSet
<1>3. i \in I /\ s \in used /\ s \in Sources(x)
  BY <1>1, <1>2 DEF Indices, Sources, ToSet
<1>4. Indices(y, s) = I
  BY <1>1, <1>3 DEF Indices
<1>5. I \in SUBSET (0..Len(x)) /\ Len(x) \in Nat
  BY DEF Indices, IsList
<1> HIDE DEF y
<1>6. Max(I) \in I
  <2>1. I # {}
    BY <1>3
  <2> HIDE DEF I
  <2>2. QED
    BY <1>5, <2>1, HasHighest
<1>7. y[Max(I)] = x[Max(I)]
  BY <1>1, <1>3, <1>6 DEF Indices
<1>8. QED
  BY <1>3, <1>4, <1>7 DEF LastRow, y

\* So a wave uses no network and no class that the mapping does not use.
LEMMA UsedOfAll ==
    ASSUME NEW x, IsList(x), NEW used
    PROVE  /\ \A s \in Mapped(WaveRows(x, used)) :
                 s \in Mapped(x) /\ LastRow(WaveRows(x, used), s) = LastRow(x, s)
           /\ UsedNetworks(WaveRows(x, used)) \subseteq UsedNetworks(x)
           /\ UsedClasses(WaveRows(x, used)) \subseteq UsedClasses(x)
<1> DEFINE y == WaveRows(x, used)
<1>1. \A s \in Sources(y) : s \in Sources(x) /\ LastRow(y, s) = LastRow(x, s)
  BY RowsInUse
<1> HIDE DEF y
<1>2. \A s \in Mapped(y) : s \in Mapped(x) /\ LastRow(y, s) = LastRow(x, s)
  BY <1>1 DEF Mapped
<1>3. UsedNetworks(y) \subseteq UsedNetworks(x)
  BY <1>2 DEF UsedNetworks
<1>4. UsedClasses(y) \subseteq UsedClasses(x)
  BY <1>1 DEF UsedClasses
<1>5. QED
  BY <1>2, <1>3, <1>4 DEF y

\* An address of the vCenter adds findings.
LEMMA ProviderAdds ==
    ASSUME NEW name, NEW cat, NEW provider, NEW f \in NetworkFindings(name, cat, "")
    PROVE  f \in NetworkFindings(name, cat, provider)
<1>1. ASSUME NEW net, f \in PrimaryFindings(name, net, cat, "")
      PROVE  f \in PrimaryFindings(name, net, cat, provider)
  <2>1. When("" # "" /\ Inside("", net.subnets) = "inside",
             Finding("provider_ip_inside_subnet", "blocking", name)) = {}
    BY DEF When
  <2>2. QED
    BY <1>1, <2>1 DEF PrimaryFindings
<1>2. QED
  BY <1>1 DEF NetworkFindings

\* The findings of a VM do not depend on rows that its wave does not use.
LEMMA VMFindingsOfAll ==
    ASSUME NEW x, IsList(x), NEW used, NEW view, NEW cat, NEW f \in VMFindings(view, WaveRows(x, used), cat)
    PROVE  f \in VMFindings(view, x, cat)
<1> DEFINE y == WaveRows(x, used)
           Lands(z) == {t \in view.nets \cap Mapped(z) :
                          /\ LastRow(z, t).target \in DOMAIN cat.networks
                          /\ DestinationKind(cat.networks[LastRow(z, t).target]) = "primary_udn"}
           About(z, s, code) == [Finding(code, "blocking", LastRow(z, s).target) EXCEPT !.sources = {s}]
           Of(z, s) ==
              When(/\ view.ns \in DOMAIN cat.spaces /\ cat.spaces[view.ns] # LastRow(z, s).target,
                   About(z, s, "namespace_not_primary"))
              \cup When(\E ip \in view.ips[s] :
                           /\ cat.networks[LastRow(z, s).target].subnets # {}
                           /\ Inside(ip, cat.networks[LastRow(z, s).target].subnets) = "outside",
                        About(z, s, "static_ip_outside_subnet"))
<1>1. /\ VMFindings(view, y, cat) = UNION {Of(y, s) : s \in Lands(y)}
      /\ VMFindings(view, x, cat) = UNION {Of(x, s) : s \in Lands(x)}
  BY Zenon DEF VMFindings
<1>2. \A s \in Mapped(y) : s \in Mapped(x) /\ LastRow(y, s) = LastRow(x, s)
  BY UsedOfAll
<1> HIDE DEF y
<1>3. \A s \in Lands(y) : s \in Lands(x) /\ LastRow(y, s) = LastRow(x, s)
  BY <1>2
<1>4. \A s \in Lands(y) : Of(y, s) = Of(x, s)
  <2>1. SUFFICES ASSUME NEW s \in Lands(y) PROVE Of(y, s) = Of(x, s)
    OBVIOUS
  <2>2. LastRow(y, s) = LastRow(x, s)
    BY <1>3
  <2>3. QED
    BY <2>2, Zenon
<1> HIDE DEF Of, Lands
<1>5. QED
  BY <1>1, <1>3, <1>4 DEF y

\* What a cold wave's card finds of blocking, the preflight of the mapping finds too,
\* if it looks at all of the wave's VMs.
LEMMA PreflightFindsMore ==
    ASSUME NEW m, IsMapping(m), NEW scope, NEW A \in SUBSET scope, NEW cat, NEW provider,
           NEW f \in WaveFindings(A, m, cat, "cold")
    PROVE  f \in CheckMapping(m, cat, Views(scope, m), "cold", provider)
<1> DEFINE nets == UNION {a.nets : a \in A}
           stores == UNION {a.stores : a \in A}
           scoped == [m EXCEPT !.nets = WaveRows(@, nets), !.stores = WaveRows(@, stores)]
<1>1. f \in CheckMapping(scoped, cat, Views(A, m), "cold", "")
  BY Zenon DEF WaveFindings
<1>2. scoped.nets = WaveRows(m.nets, nets) /\ scoped.stores = WaveRows(m.stores, stores)
  BY DEF IsMapping
<1>3. IsList(m.nets) /\ IsList(m.stores)
  BY DEF IsMapping
<1> HIDE DEF nets, stores, scoped
<1>4. /\ UsedNetworks(scoped.nets) \subseteq UsedNetworks(m.nets)
      /\ UsedClasses(scoped.stores) \subseteq UsedClasses(m.stores)
  BY <1>2, <1>3, UsedOfAll
<1>5. \A view : \A e \in VMFindings(view, scoped.nets, cat) : e \in VMFindings(view, m.nets, cat)
  BY <1>2, <1>3, VMFindingsOfAll
<1>6. Views(A, m) \subseteq Views(scope, m)
  BY DEF Views
<1>7. \A n : \A e \in NetworkFindings(n, cat, "") : e \in NetworkFindings(n, cat, provider)
  BY ProviderAdds
<1> DEFINE ofNetworks(x, addr) == UNION {NetworkFindings(n, cat, addr) : n \in UsedNetworks(x)}
           ofVMs(x, vms) == UNION {VMFindings(view, x, cat) : view \in vms}
           ofClasses(x) == UNION {ClassFindings(n, cat, "cold") : n \in UsedClasses(x)}
           unknown == When(cat.ocp = NoVersion, Finding("version_unknown", "info", ""))
           many == When(Cardinality(UDNs(cat)) > UDNBatch, Finding("many_networks", "info", ""))
<1>8. /\ CheckMapping(scoped, cat, Views(A, m), "cold", "") =
            unknown \cup ofNetworks(scoped.nets, "") \cup ofVMs(scoped.nets, Views(A, m))
               \cup ofClasses(scoped.stores) \cup many
      /\ CheckMapping(m, cat, Views(scope, m), "cold", provider) =
            unknown \cup ofNetworks(m.nets, provider) \cup ofVMs(m.nets, Views(scope, m))
               \cup ofClasses(m.stores) \cup many
  BY DEF CheckMapping
<1>9. ofNetworks(scoped.nets, "") \subseteq ofNetworks(m.nets, provider)
  BY <1>4, <1>7
<1>10. ofVMs(scoped.nets, Views(A, m)) \subseteq ofVMs(m.nets, Views(scope, m))
  BY <1>5, <1>6
<1>11. ofClasses(scoped.stores) \subseteq ofClasses(m.stores)
  BY <1>4
<1> HIDE DEF ofNetworks, ofVMs, ofClasses, unknown, many
<1>12. QED
  BY <1>1, <1>8, <1>9, <1>10, <1>11

\* A ready mapping covers its VMs, and its waves have no finding it did not have.
LEMMA InvariantHolds == IInv => PreflightHolds
<1> SUFFICES ASSUME IInv, ~plan.changed, NEW m \in maps, Ready(m)
             PROVE  /\ \A a \in Scope(m) :
                          a.stores # {} /\ (a.ns # "" \/ StrategyNamespace(m, a) # "") => Covered(a, maps)
                    /\ Packed => \A w \in DOMAIN waves :
                          WaveMapping(AttributesOf(w), rows) = m =>
                             Blocking(WaveFindings(AttributesOf(w), m, Catalogs[m.cluster], "cold")) = {}
  BY DEF PreflightHolds
<1>1. /\ UnmappedNets(m, Scope(m)) = {} /\ UnmappedStores(m, Scope(m)) = {}
      /\ Blocking(CheckMapping(m, Catalogs[m.cluster], Views(Scope(m), m), "cold", Addresses[m.vc])) = {}
  BY DEF Ready, PreflightOk
<1>2. IsMapping(m)
  BY DEF IInv, RowsInv
<1>3. ASSUME NEW a \in Scope(m), a.stores # {}, a.ns # "" \/ StrategyNamespace(m, a) # ""
      PROVE  Covered(a, maps)
  <2>1. a.nets \subseteq UNION {b.nets : b \in Scope(m)} /\ a.stores \subseteq UNION {b.stores : b \in Scope(m)}
    OBVIOUS
  <2>2. a.nets \subseteq MappedNets(m) /\ a.stores \subseteq MappedStores(m)
    BY <1>1, <2>1 DEF UnmappedNets, UnmappedStores
  <2>3. m.vc = a.vc /\ a.vc # 0
    BY <1>2 DEF Scope, IsMapping
  <2>4. QED
    BY <1>3, <2>2, <2>3 DEF Covered, Covers
<1>4. ASSUME Packed, NEW w \in DOMAIN waves, WaveMapping(AttributesOf(w), rows) = m
      PROVE  Blocking(WaveFindings(AttributesOf(w), m, Catalogs[m.cluster], "cold")) = {}
  <2> DEFINE A == AttributesOf(w)
  <2>1. PICK n \in maps :
           /\ IsMapping(n) /\ TakesAll(n) /\ rows = {n}
           /\ A # {} /\ \A a \in A : \E v \in plan.vms : a = inventory[v]
    BY <1>4, Undisturbed
  <2>2. m = n
    <3>1. WaveMapping(A, rows) = m
      BY <1>4
    <3> HIDE DEF A
    <3>2. WaveMapping(A, {n}) = n
      BY <2>1, TakenWave
    <3>3. QED
      BY <2>1, <3>1, <3>2
  <2>3. A \in SUBSET Scope(m)
    <3>1. \A v \in plan.vms : v \in DOMAIN inventory /\ inventory[v].vc = m.vc
      BY <2>1, <2>2 DEF TakesAll
    <3>2. QED
      BY <2>1, <3>1 DEF Scope
  <2> HIDE DEF A
  <2>4. \A f \in WaveFindings(A, m, Catalogs[m.cluster], "cold") :
           f \in CheckMapping(m, Catalogs[m.cluster], Views(Scope(m), m), "cold", Addresses[m.vc])
    BY <1>2, <2>3, PreflightFindsMore
  <2>5. QED
    BY <1>1, <2>4 DEF Blocking, A
<1>5. QED
  BY <1>3, <1>4

\* A preflight that finds a mapping ready is right about it: every VM of the vCenter
\* that has a datastore and a namespace is covered, and no card of a cold wave shows
\* anything that blocks, whatever the catalogs and mappings are.
THEOREM PreflightIsRight == Spec => []PreflightHolds
BY Inductive, InvariantHolds, PTL
=============================================================================
