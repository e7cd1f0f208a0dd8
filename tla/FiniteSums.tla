------------------------------ MODULE FiniteSums ------------------------------
(***************************************************************************)
(* Facts about sums over a finite set of rows, for the conservation        *)
(* theorems of the ledgers: what the rows of a table hold together.  The   *)
(* sum is SumFunctionOnSet of the community module Functions.  Its         *)
(* recursion goes through the subsets of the set, so every fact is proved  *)
(* by induction over the subsets, stated here with a set of subsets in     *)
(* place of a predicate: the provers cannot instantiate an operator.       *)
(***************************************************************************)
EXTENDS Integers, Functions, FiniteSetTheorems, TLAPS

LEMMA LeastElement ==
    ASSUME NEW T, T \subseteq Nat, T # {}
    PROVE  \E n \in T : \A m \in T : n <= m
<1>1. PICK x \in T : \A y \in T : ~(<<y, x>> \in OpToRel(<, Nat))
  BY WFMin, NatLessThanWellFounded, Zenon
<1>2. \A y \in T : ~(y < x)
  BY <1>1 DEF OpToRel
<1> QED
  BY <1>2

LEMMA NatSetInduction ==
    ASSUME NEW P \in SUBSET Nat, 0 \in P, \A n \in P : n + 1 \in P
    PROVE  P = Nat
<1> DEFINE T == Nat \ P
<1> SUFFICES ASSUME T # {} PROVE FALSE
  OBVIOUS
<1>1. PICK n \in T : \A m \in T : n <= m
  BY LeastElement
<1>2. n - 1 \in P /\ n - 1 + 1 = n
  BY <1>1
<1> QED
  BY <1>2

(* An element the recursion takes out of a subset. *)
Pick(s) == CHOOSE x \in s : TRUE

LEMMA PickInSet == \A s : s # {} => Pick(s) \in s
  BY DEF Pick

LEMMA SmallerSubset ==
    ASSUME NEW S, IsFiniteSet(S), NEW s \in SUBSET S, s # {}
    PROVE  /\ s \ {Pick(s)} \in SUBSET S
           /\ Cardinality(s) \in Nat \ {0}
           /\ Cardinality(s \ {Pick(s)}) = Cardinality(s) - 1
<1>1. IsFiniteSet(s) /\ Pick(s) \in s
  BY FS_Subset, PickInSet
<1>2. Cardinality(s) \in Nat /\ Cardinality(s) # 0
  BY <1>1, FS_CardinalityType, FS_EmptySet
<1>3. Cardinality(s \ {Pick(s)}) = Cardinality(s) - 1
  BY <1>1, FS_RemoveElement
<1> QED
  BY <1>2, <1>3

LEMMA SubsetInduction ==
    ASSUME NEW S, IsFiniteSet(S), NEW P \in SUBSET SUBSET S, {} \in P,
           \A s \in SUBSET S : s # {} /\ s \ {Pick(s)} \in P => s \in P
    PROVE  P = SUBSET S
<1> DEFINE N == {n \in Nat : \A s \in SUBSET S : Cardinality(s) = n => s \in P}
<1>1. 0 \in N
  <2> SUFFICES ASSUME NEW s \in SUBSET S, Cardinality(s) = 0 PROVE s \in P
    OBVIOUS
  <2> QED
    BY FS_Subset, FS_EmptySet
<1>2. ASSUME NEW n \in N PROVE n + 1 \in N
  <2> SUFFICES ASSUME NEW s \in SUBSET S, Cardinality(s) = n + 1 PROVE s \in P
    OBVIOUS
  <2>1. s # {}
    BY FS_EmptySet
  <2>2. Cardinality(s \ {Pick(s)}) = n /\ s \ {Pick(s)} \in SUBSET S
    BY <2>1, SmallerSubset
  <2> QED
    BY <2>1, <2>2
<1> HIDE DEF N
<1>3. N \in SUBSET Nat
  BY DEF N
<1>4. N = Nat
  BY <1>1, <1>2, <1>3, NatSetInduction
<1>5. \A s \in SUBSET S : Cardinality(s) \in Nat
  BY FS_Subset, FS_CardinalityType
<1> QED
  BY <1>4, <1>5 DEF N

-----------------------------------------------------------------------------
(* The recursion of the sum, and the function it defines. *)
SumStep(f, g, s) == IF s = {} THEN 0 ELSE f[Pick(s)] + g[s \ {Pick(s)}]

SubsetSum(f, S) == CHOOSE g : g = [s \in SUBSET S |-> SumStep(f, g, s)]

LEMMA SumIsSubsetSum ==
    ASSUME NEW f, NEW S
    PROVE  SumFunctionOnSet(f, S) = SubsetSum(f, S)[S]
  BY DEF SumFunctionOnSet, FoldFunctionOnSet, MapThenFoldSet, SubsetSum, SumStep, Pick

LEMMA SubsetSumExists ==
    ASSUME NEW f, NEW S, IsFiniteSet(S)
    PROVE  \E g : g = [s \in SUBSET S |-> SumStep(f, g, s)]
<1> DEFINE Upto(n, g) == \A s \in SUBSET S : Cardinality(s) <= n => g[s] = SumStep(f, g, s)
           N == {n \in Nat : \E g : Upto(n, g)}
<1>card. \A s \in SUBSET S : Cardinality(s) \in Nat /\ Cardinality(s) <= Cardinality(S)
  BY FS_Subset, FS_CardinalityType
<1>1. 0 \in N
  <2> DEFINE z == [s \in SUBSET S |-> 0]
  <2>1. Upto(0, z)
    <3> SUFFICES ASSUME NEW s \in SUBSET S, Cardinality(s) <= 0 PROVE z[s] = SumStep(f, z, s)
      OBVIOUS
    <3>1. s = {}
      BY <1>card, FS_Subset, FS_EmptySet
    <3> QED
      BY <3>1 DEF SumStep
  <2> QED
    BY <2>1
<1>2. ASSUME NEW n \in N PROVE n + 1 \in N
  <2>1. PICK g : Upto(n, g)
    OBVIOUS
  <2> DEFINE h == [s \in SUBSET S |-> IF Cardinality(s) <= n THEN g[s] ELSE SumStep(f, g, s)]
  <2>2. ASSUME NEW s \in SUBSET S, Cardinality(s) <= n + 1 PROVE h[s] = SumStep(f, h, s)
    <3>1. h[s] = SumStep(f, g, s)
      BY <2>1
    <3>2. CASE s = {}
      BY <3>1, <3>2 DEF SumStep
    <3>3. CASE s # {}
      <4>1. s \ {Pick(s)} \in SUBSET S /\ Cardinality(s \ {Pick(s)}) <= n
        BY <3>3, <2>2, SmallerSubset
      <4>2. h[s \ {Pick(s)}] = g[s \ {Pick(s)}]
        BY <4>1
      <4> HIDE DEF h
      <4> QED
        BY <3>1, <3>3, <4>2 DEF SumStep
    <3> QED
      BY <3>2, <3>3
  <2>3. Upto(n + 1, h)
    BY <2>2
  <2> HIDE DEF h, Upto
  <2>4. \E k : Upto(n + 1, k)
    BY <2>3
  <2> QED
    BY <2>4
<1> HIDE DEF N
<1>3. N = Nat
  <2>1. N \in SUBSET Nat
    BY DEF N
  <2> QED
    BY <1>1, <1>2, <2>1, NatSetInduction
<1>4. Cardinality(S) \in N
  BY <1>3, FS_CardinalityType
<1>5. PICK g : Upto(Cardinality(S), g)
  BY <1>4 DEF N
<1>6. \A s \in SUBSET S : g[s] = SumStep(f, g, s)
  BY <1>5, <1>card
<1> DEFINE h == [s \in SUBSET S |-> g[s]]
<1>7. ASSUME NEW s \in SUBSET S PROVE h[s] = SumStep(f, h, s)
  <2>1. CASE s = {}
    BY <2>1, <1>6 DEF SumStep
  <2>2. CASE s # {}
    <3>1. s \ {Pick(s)} \in SUBSET S
      OBVIOUS
    <3>2. h[s \ {Pick(s)}] = g[s \ {Pick(s)}] /\ h[s] = g[s]
      BY <3>1
    <3> HIDE DEF h
    <3> QED
      BY <1>6, <2>2, <3>2 DEF SumStep
  <2> QED
    BY <2>1, <2>2
<1>8. h = [s \in SUBSET S |-> SumStep(f, h, s)]
  BY <1>7
<1> QED
  BY <1>8

LEMMA SubsetSumEquation ==
    ASSUME NEW f, NEW S, IsFiniteSet(S), NEW s \in SUBSET S
    PROVE  SubsetSum(f, S)[s] = SumStep(f, SubsetSum(f, S), s)
<1> DEFINE F == SubsetSum(f, S)
<1>1. F = [t \in SUBSET S |-> SumStep(f, F, t)]
  BY SubsetSumExists DEF SubsetSum
<1> HIDE DEF F
<1>2. F[s] = SumStep(f, F, s)
  BY <1>1
<1> QED
  BY <1>2 DEF F

LEMMA SubsetSumEmpty ==
    ASSUME NEW f, NEW S, IsFiniteSet(S)
    PROVE  SubsetSum(f, S)[{}] = 0
<1>1. {} \in SUBSET S
  OBVIOUS
<1>2. SubsetSum(f, S)[{}] = SumStep(f, SubsetSum(f, S), {})
  BY <1>1, SubsetSumEquation
<1> QED
  BY <1>2 DEF SumStep

-----------------------------------------------------------------------------
(* A sum of integers is an integer, and a sum of naturals a natural. *)
LEMMA SumType ==
    ASSUME NEW S, IsFiniteSet(S), NEW f \in [S -> Int]
    PROVE  SumFunctionOnSet(f, S) \in Int
<1> DEFINE F == SubsetSum(f, S)
           P == {s \in SUBSET S : F[s] \in Int}
<1> HIDE DEF F
<1>eq. \A s \in SUBSET S : F[s] = SumStep(f, F, s)
  BY SubsetSumEquation DEF F
<1>1. {} \in P
  <2>1. F[{}] = 0
    BY SubsetSumEmpty DEF F
  <2> QED
    BY <2>1
<1>2. ASSUME NEW s \in SUBSET S, s # {}, s \ {Pick(s)} \in P PROVE s \in P
  <2>1. F[s] = f[Pick(s)] + F[s \ {Pick(s)}]
    BY <1>2, <1>eq DEF SumStep
  <2>2. f[Pick(s)] \in Int
    BY <1>2, PickInSet
  <2> QED
    BY <1>2, <2>1, <2>2
<1> HIDE DEF P
<1>3. P = SUBSET S
  <2>1. P \in SUBSET SUBSET S
    BY DEF P
  <2> QED
    BY <1>1, <1>2, <2>1, SubsetInduction
<1>4. F[S] \in Int
  BY <1>3 DEF P
<1> QED
  BY <1>4, SumIsSubsetSum DEF F

LEMMA SumNat ==
    ASSUME NEW S, IsFiniteSet(S), NEW f \in [S -> Nat]
    PROVE  SumFunctionOnSet(f, S) \in Nat
<1> DEFINE F == SubsetSum(f, S)
           P == {s \in SUBSET S : F[s] \in Nat}
<1> HIDE DEF F
<1>eq. \A s \in SUBSET S : F[s] = SumStep(f, F, s)
  BY SubsetSumEquation DEF F
<1>1. {} \in P
  <2>1. F[{}] = 0
    BY SubsetSumEmpty DEF F
  <2> QED
    BY <2>1
<1>2. ASSUME NEW s \in SUBSET S, s # {}, s \ {Pick(s)} \in P PROVE s \in P
  <2>1. F[s] = f[Pick(s)] + F[s \ {Pick(s)}]
    BY <1>2, <1>eq DEF SumStep
  <2>2. f[Pick(s)] \in Nat
    BY <1>2, PickInSet
  <2> QED
    BY <1>2, <2>1, <2>2
<1> HIDE DEF P
<1>3. P = SUBSET S
  <2>1. P \in SUBSET SUBSET S
    BY DEF P
  <2> QED
    BY <1>1, <1>2, <2>1, SubsetInduction
<1>4. F[S] \in Nat
  BY <1>3 DEF P
<1> QED
  BY <1>4, SumIsSubsetSum DEF F

(* Rows that hold nothing add up to nothing. *)
LEMMA SumZero ==
    ASSUME NEW S, IsFiniteSet(S), NEW f, \A x \in S : f[x] = 0
    PROVE  SumFunctionOnSet(f, S) = 0
<1> DEFINE F == SubsetSum(f, S)
           P == {s \in SUBSET S : F[s] = 0}
<1> HIDE DEF F
<1>eq. \A s \in SUBSET S : F[s] = SumStep(f, F, s)
  BY SubsetSumEquation DEF F
<1>1. {} \in P
  <2>1. F[{}] = 0
    BY SubsetSumEmpty DEF F
  <2> QED
    BY <2>1
<1>2. ASSUME NEW s \in SUBSET S, s # {}, s \ {Pick(s)} \in P PROVE s \in P
  <2>1. F[s] = f[Pick(s)] + F[s \ {Pick(s)}]
    BY <1>2, <1>eq DEF SumStep
  <2>2. f[Pick(s)] = 0
    BY <1>2, PickInSet
  <2> QED
    BY <1>2, <2>1, <2>2
<1> HIDE DEF P
<1>3. P = SUBSET S
  <2>1. P \in SUBSET SUBSET S
    BY DEF P
  <2> QED
    BY <1>1, <1>2, <2>1, SubsetInduction
<1>4. F[S] = 0
  BY <1>3 DEF P
<1> QED
  BY <1>4, SumIsSubsetSum DEF F

(* When one row changes, the sum changes by what the row changes. *)
LEMMA SumUpdate ==
    ASSUME NEW S, IsFiniteSet(S), NEW f \in [S -> Int], NEW g \in [S -> Int],
           NEW r \in S, \A x \in S : x # r => g[x] = f[x]
    PROVE  SumFunctionOnSet(g, S) = SumFunctionOnSet(f, S) + g[r] - f[r]
<1> DEFINE F == SubsetSum(f, S)
           G == SubsetSum(g, S)
           P == {s \in SUBSET S : /\ F[s] \in Int /\ G[s] \in Int
                                  /\ G[s] = F[s] + IF r \in s THEN g[r] - f[r] ELSE 0}
<1> HIDE DEF F, G
<1>eq. \A s \in SUBSET S : F[s] = SumStep(f, F, s) /\ G[s] = SumStep(g, G, s)
  BY SubsetSumEquation DEF F, G
<1>1. {} \in P
  <2>1. F[{}] = 0 /\ G[{}] = 0
    BY SubsetSumEmpty DEF F, G
  <2> QED
    BY <2>1
<1>2. ASSUME NEW s \in SUBSET S, s # {}, s \ {Pick(s)} \in P PROVE s \in P
  <2>0. PICK x \in s : x = Pick(s)
    BY <1>2, PickInSet
  <2>1. F[s] = f[x] + F[s \ {x}] /\ G[s] = g[x] + G[s \ {x}]
    BY <1>2, <1>eq, <2>0 DEF SumStep
  <2>2. f[x] \in Int /\ g[x] \in Int /\ f[r] \in Int /\ g[r] \in Int
    OBVIOUS
  <2>3. /\ F[s \ {x}] \in Int /\ G[s \ {x}] \in Int
        /\ G[s \ {x}] = F[s \ {x}] + IF r \in s \ {x} THEN g[r] - f[r] ELSE 0
    BY <1>2, <2>0
  <2>4. CASE x = r
    BY <2>1, <2>2, <2>3, <2>4
  <2>5. CASE x # r
    <3>1. g[x] = f[x] /\ (r \in s \ {x} <=> r \in s)
      BY <2>5
    <3> QED
      BY <2>1, <2>2, <2>3, <3>1
  <2> QED
    BY <2>4, <2>5
<1> HIDE DEF P
<1>3. P = SUBSET S
  <2>1. P \in SUBSET SUBSET S
    BY DEF P
  <2> QED
    BY <1>1, <1>2, <2>1, SubsetInduction
<1>4. F[S] \in Int /\ G[S] \in Int /\ G[S] = F[S] + (g[r] - f[r])
  BY <1>3 DEF P
<1>5. SumFunctionOnSet(f, S) = F[S] /\ SumFunctionOnSet(g, S) = G[S]
  BY SumIsSubsetSum DEF F, G
<1> QED
  BY <1>4, <1>5

(* What an account lacks of its base is the sum of the rows, and one row   *)
(* changes by what leaves the account: so it stays.                        *)
LEMMA SumMoves ==
    ASSUME NEW S, IsFiniteSet(S), NEW f \in [S -> Int], NEW g \in [S -> Int],
           NEW r \in S, \A x \in S : x # r => g[x] = f[x],
           NEW base \in Int, NEW a \in Int, NEW b \in Int,
           base - a = SumFunctionOnSet(f, S), b = a - (g[r] - f[r])
    PROVE  base - b = SumFunctionOnSet(g, S)
<1>1. SumFunctionOnSet(g, S) = SumFunctionOnSet(f, S) + g[r] - f[r]
  BY SumUpdate
<1>2. PICK v \in Int, w \in Int : v = f[r] /\ w = g[r]
  OBVIOUS
<1>3. SumFunctionOnSet(g, S) = (base - a) + w - v /\ b = a - (w - v)
  BY <1>1, <1>2
<1> QED
  BY <1>3
===============================================================================
