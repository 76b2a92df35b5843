---------------------------- MODULE SharedProofs ----------------------------
(***************************************************************************)
(* What the proofs about several components rest on: induction, least and  *)
(* greatest numbers, sums over finite sets, loops, and the union-find of   *)
(* SingleLink, which computes the single linkage of any graph.  A forest   *)
(* is a parent function whose links go down; the loop over the pairs keeps *)
(* two facts about it: linked items that were tried have one root, and     *)
(* items with one root lie on the same side of every cut that no link      *)
(* crosses.                                                                *)
(***************************************************************************)
EXTENDS SingleLink, FiniteSetTheorems, WellFoundedInduction, TLAPS

-----------------------------------------------------------------------------
(* Numbers *)

(* A set that holds zero and the successor of each number it holds.        *)
LEMMA NatSetInduction ==
    ASSUME NEW S, 0 \in S, \A n \in Nat : n \in S => n + 1 \in S
    PROVE  Nat \subseteq S
<1> DEFINE Less == OpToRel(<, Nat)
           Missing == Nat \ S
<1>1. IsWellFoundedOn(Less, Nat)
  BY NatLessThanWellFounded
<1> SUFFICES ASSUME Missing # {} PROVE FALSE
  OBVIOUS
<1>2. PICK n \in Missing : \A m \in Missing : ~(<<m, n>> \in Less)
  <2>1. Missing \in SUBSET Nat
    OBVIOUS
  <2> HIDE DEF Less, Missing
  <2> QED
    BY <1>1, <2>1, WFMin
<1>3. n \in Nat /\ n # 0 /\ n - 1 \in Nat
  OBVIOUS
<1>4. n - 1 \notin Missing
  <2>1. ASSUME NEW m \in Missing PROVE ~(m < n)
    <3>1. m \in Nat /\ n \in Nat
      OBVIOUS
    <3> QED
      BY <1>2, <3>1 DEF OpToRel
  <2> HIDE DEF Missing
  <2> QED
    BY <1>3, <2>1
<1>5. n - 1 \in S /\ (n - 1) + 1 = n
  BY <1>3, <1>4
<1> QED
  BY <1>3, <1>5

(* A set of numbers has a least,                                           *)
LEMMA LeastExists ==
    ASSUME NEW S \in SUBSET Nat, S # {}
    PROVE  \E least \in S : \A k \in S : least <= k
<1> DEFINE Less == OpToRel(<, Nat)
<1>1. IsWellFoundedOn(Less, Nat)
  BY NatLessThanWellFounded
<1>2. PICK least \in S : \A k \in S : ~(<<k, least>> \in Less)
  BY <1>1, WFMin
<1>3. ASSUME NEW k \in S PROVE least <= k
  <2>1. k \in Nat /\ least \in Nat
    OBVIOUS
  <2>2. ~(k < least)
    BY <1>2, <2>1 DEF OpToRel
  <2> HIDE DEF Less
  <2> QED
    BY <2>1, <2>2
<1> QED
  BY <1>3

(* a bounded one has a greatest,                                           *)
LEMMA GreatestExists ==
    ASSUME NEW S \in SUBSET Nat, S # {}, NEW b \in Nat, \A x \in S : x <= b
    PROVE  \E x \in S : \A y \in S : y <= x
<1> DEFINE T == {n \in Nat : \E x \in S : n = b - x}
<1>1. T \in SUBSET Nat /\ T # {}
  <2>1. PICK x \in S : TRUE
    OBVIOUS
  <2>2. b - x \in Nat
    OBVIOUS
  <2> QED
    BY <2>2
<1>2. PICK n \in T : \A m \in T : n <= m
  <2> HIDE DEF T
  <2> QED
    BY <1>1, LeastExists
<1>3. PICK x \in S : n = b - x
  OBVIOUS
<1>4. ASSUME NEW y \in S PROVE y <= x
  <2>1. b - y \in T
    OBVIOUS
  <2>2. n <= b - y
    BY <1>2, <2>1
  <2> QED
    BY <1>3, <2>2
<1> QED
  BY <1>4

LEMMA MinFacts ==
    ASSUME NEW S \in SUBSET Nat, S # {}
    PROVE  Min(S) \in S /\ \A y \in S : Min(S) <= y
  BY LeastExists DEF Min

LEMMA MaxFacts ==
    ASSUME NEW S \in SUBSET Nat, S # {}, NEW b \in Nat, \A x \in S : x <= b
    PROVE  Max(S) \in S /\ \A y \in S : y <= Max(S)
<1>1. \E x \in S : \A y \in S : x >= y
  <2>1. PICK x \in S : \A y \in S : y <= x
    BY GreatestExists
  <2>2. \A y \in S : x >= y
    BY <2>1
  <2> QED
    BY <2>2
<1>2. Max(S) \in S /\ \A y \in S : Max(S) >= y
  BY <1>1 DEF Max
<1> QED
  BY <1>2

(* and a finite one is bounded.                                            *)
LEMMA FiniteIsBounded ==
    ASSUME NEW S \in SUBSET Nat, IsFiniteSet(S)
    PROVE  \E b \in Nat : \A x \in S : x <= b
<1> DEFINE bounded(s) == \E b \in Nat : \A x \in s : x <= b
           T == {n \in Nat : \A s \in SUBSET S : Cardinality(s) = n => bounded(s)}
<1>1. 0 \in T
  <2>1. ASSUME NEW s \in SUBSET S, Cardinality(s) = 0 PROVE s = {}
    BY <2>1, FS_Subset, FS_EmptySet
  <2> QED
    BY <2>1
<1>2. ASSUME NEW n \in Nat, n \in T PROVE n + 1 \in T
  <2>1. ASSUME NEW s \in SUBSET S, Cardinality(s) = n + 1 PROVE bounded(s)
    <3>0. IsFiniteSet(s)
      BY FS_Subset
    <3>1. IsFiniteSet(s) /\ s # {}
      BY <2>1, <3>0, FS_EmptySet
    <3>2. PICK y \in s : TRUE
      BY <3>1
    <3>3. Cardinality(s \ {y}) = n /\ s \ {y} \in SUBSET S
      <4>1. Cardinality(s \ {y}) = Cardinality(s) - 1
        BY <3>1, <3>2, FS_RemoveElement
      <4> QED
        BY <2>1, <4>1
    <3>4. PICK b \in Nat : \A x \in s \ {y} : x <= b
      BY <1>2, <3>3
    <3>5. y \in Nat
      OBVIOUS
    <3> DEFINE c == IF b <= y THEN y ELSE b
    <3>6. c \in Nat /\ \A x \in s : x <= c
      BY <3>4, <3>5
    <3> QED
      BY <3>6
  <2> HIDE DEF bounded
  <2> QED
    BY <2>1
<1> HIDE DEF T
<1>3. Cardinality(S) \in T
  BY <1>1, <1>2, NatSetInduction, FS_CardinalityType
<1> QED
  BY <1>3 DEF T

LEMMA FiniteImage ==
    ASSUME NEW S, IsFiniteSet(S), NEW f
    PROVE  IsFiniteSet({f[x] : x \in S})
<1> DEFINE T == {f[x] : x \in S}
           g == [x \in S |-> f[x]]
<1>1. g \in Surjection(S, T)
  BY DEF Surjection
<1> HIDE DEF g, T
<1>2. IsFiniteSet(T)
  BY <1>1, FS_Surjection
<1> QED
  BY <1>2 DEF T

(* The greatest and the least of finitely many numbers.                    *)
LEMMA MaxOfFinite ==
    ASSUME NEW S \in SUBSET Nat, IsFiniteSet(S), S # {}
    PROVE  Max(S) \in S /\ \A y \in S : y <= Max(S)
  BY FiniteIsBounded, MaxFacts

-----------------------------------------------------------------------------
(* Sums over finite sets *)

First(s) == CHOOSE x \in s : TRUE

(* What SumFunction computes for every part of a set, the first element of *)
(* which it takes away.                                                    *)
Sums(sum, f, parts) ==
    sum = [s \in parts |-> IF s = {} THEN 0 ELSE f[First(s)] + sum[s \ {First(s)}]]

(* Its values at the empty set and at any other.                           *)
AddsUp(sum, f, S) ==
    /\ sum[{}] = 0
    /\ \A s \in SUBSET S : s # {} => sum[s] = f[First(s)] + sum[s \ {First(s)}]

LEMMA SumsFacts ==
    ASSUME NEW f, NEW S, NEW sum, Sums(sum, f, SUBSET S)
    PROVE  AddsUp(sum, f, S)
<1>1. \A s \in SUBSET S : sum[s] = IF s = {} THEN 0 ELSE f[First(s)] + sum[s \ {First(s)}]
  BY DEF Sums
<1>2. {} \in SUBSET S
  OBVIOUS
<1>3. sum[{}] = 0
  BY <1>1, <1>2, Zenon
<1>4. ASSUME NEW s \in SUBSET S, s # {} PROVE sum[s] = f[First(s)] + sum[s \ {First(s)}]
  BY <1>1, <1>4, Zenon
<1> QED
  BY <1>3, <1>4 DEF AddsUp

LEMMA SumIsOfSums ==
    ASSUME NEW f
    PROVE  SumFunction(f) = (CHOOSE sum : Sums(sum, f, SUBSET DOMAIN f))[DOMAIN f]
BY DEF SumFunction, SumFunctionOnSet, FoldFunctionOnSet, MapThenFoldSet, Sums, First

SmallParts(S, n) == {s \in SUBSET S : Cardinality(s) <= n}

(* A part without its first element is smaller.                            *)
LEMMA PartsShrink ==
    ASSUME NEW S, IsFiniteSet(S), NEW s \in SUBSET S, s # {}
    PROVE  /\ IsFiniteSet(s) /\ Cardinality(s) \in Nat \ {0}
           /\ First(s) \in s /\ s \ {First(s)} \in SUBSET S
           /\ Cardinality(s \ {First(s)}) = Cardinality(s) - 1
<1>1. IsFiniteSet(s) /\ First(s) \in s
  BY FS_Subset DEF First
<1>2. /\ Cardinality(s) \in Nat /\ Cardinality(s) # 0
      /\ Cardinality(s \ {First(s)}) = Cardinality(s) - 1
  BY <1>1, FS_CardinalityType, FS_EmptySet, FS_RemoveElement
<1> QED
  BY <1>1, <1>2

LEMMA SumsExistSmall ==
    ASSUME NEW S, IsFiniteSet(S), NEW f, NEW n \in Nat
    PROVE  \E sum : Sums(sum, f, SmallParts(S, n))
<1> DEFINE T == {k \in Nat : \E sum : Sums(sum, f, SmallParts(S, k))}
<1>1. 0 \in T
  <2>1. ASSUME NEW s \in SmallParts(S, 0) PROVE s = {}
    <3>1. s \in SUBSET S /\ Cardinality(s) <= 0
      BY DEF SmallParts
    <3>2. s # {} => Cardinality(s) \in Nat \ {0}
      BY <3>1, PartsShrink
    <3> QED
      BY <3>1, <3>2
  <2> DEFINE zero == [s \in SmallParts(S, 0) |-> 0]
  <2>2. zero = [s \in SmallParts(S, 0) |->
                   IF s = {} THEN 0 ELSE f[First(s)] + zero[s \ {First(s)}]]
    BY <2>1
  <2>3. Sums(zero, f, SmallParts(S, 0))
    <3> HIDE DEF zero
    <3> QED
      BY <2>2 DEF Sums
  <2> QED
    BY <2>3
<1>2. ASSUME NEW k \in Nat, k \in T PROVE k + 1 \in T
  <2>1. PICK old : Sums(old, f, SmallParts(S, k))
    BY <1>2
  <2> DEFINE new == [s \in SmallParts(S, k + 1) |->
                        IF s = {} THEN 0 ELSE f[First(s)] + old[s \ {First(s)}]]
  <2>2. ASSUME NEW s \in SmallParts(S, k + 1), s # {}
        PROVE  s \ {First(s)} \in SmallParts(S, k)
    BY <2>2, PartsShrink DEF SmallParts
  <2>3. ASSUME NEW s \in SmallParts(S, k) PROVE new[s] = old[s]
    <3>1. s \in SmallParts(S, k + 1)
      <4>1. Cardinality(s) \in Nat
        BY FS_Subset, FS_CardinalityType DEF SmallParts
      <4> QED
        BY <4>1 DEF SmallParts
    <3>2. new[s] = IF s = {} THEN 0 ELSE f[First(s)] + old[s \ {First(s)}]
      BY <3>1
    <3>3. old[s] = IF s = {} THEN 0 ELSE f[First(s)] + old[s \ {First(s)}]
      BY <2>1 DEF Sums
    <3> QED
      BY <3>2, <3>3
  <2>4. new = [s \in SmallParts(S, k + 1) |->
                  IF s = {} THEN 0 ELSE f[First(s)] + new[s \ {First(s)}]]
    <3>1. ASSUME NEW s \in SmallParts(S, k + 1)
          PROVE  new[s] = IF s = {} THEN 0 ELSE f[First(s)] + new[s \ {First(s)}]
      <4>1. new[s] = IF s = {} THEN 0 ELSE f[First(s)] + old[s \ {First(s)}]
        OBVIOUS
      <4> HIDE DEF new
      <4> QED
        BY <4>1, <2>2, <2>3
    <3>2. new = [s \in SmallParts(S, k + 1) |-> new[s]]
      OBVIOUS
    <3> HIDE DEF new
    <3> QED
      BY <3>1, <3>2
  <2>5. Sums(new, f, SmallParts(S, k + 1))
    <3> HIDE DEF new
    <3> QED
      BY <2>4 DEF Sums
  <2> HIDE DEF new
  <2> QED
    BY <2>5
<1> HIDE DEF T
<1>3. n \in T
  BY <1>1, <1>2, NatSetInduction
<1> QED
  BY <1>3 DEF T

(* The sums there are of a function on a finite set.                       *)
LEMMA SumsExist ==
    ASSUME NEW f, IsFiniteSet(DOMAIN f)
    PROVE  \E sum : Sums(sum, f, SUBSET DOMAIN f) /\ SumFunction(f) = sum[DOMAIN f]
<1> DEFINE S == DOMAIN f
           n == Cardinality(S)
<1>1. n \in Nat
  BY FS_CardinalityType
<1>2. SmallParts(S, n) = SUBSET S
  <2>1. ASSUME NEW s \in SUBSET S PROVE Cardinality(s) <= n
    BY FS_Subset
  <2> QED
    BY <2>1 DEF SmallParts
<1>3. \E sum : Sums(sum, f, SUBSET S)
  <2>1. \E sum : Sums(sum, f, SmallParts(S, n))
    <3>1. IsFiniteSet(S)
      OBVIOUS
    <3> HIDE DEF n, S
    <3> QED
      BY <1>1, <3>1, SumsExistSmall, Zenon
  <2> QED
    BY <1>2, <2>1
<1>4. Sums(CHOOSE sum : Sums(sum, f, SUBSET S), f, SUBSET S)
  BY <1>3
<1> QED
  BY <1>4, SumIsOfSums

(* A sum of natural numbers is one.                                        *)
LEMMA SumIsNat ==
    ASSUME NEW f, IsFiniteSet(DOMAIN f), \A x \in DOMAIN f : f[x] \in Nat
    PROVE  SumFunction(f) \in Nat
<1>1. PICK sum : Sums(sum, f, SUBSET DOMAIN f) /\ SumFunction(f) = sum[DOMAIN f]
  BY SumsExist
<1>2. /\ sum[{}] = 0
      /\ \A s \in SUBSET DOMAIN f : s # {} => sum[s] = f[First(s)] + sum[s \ {First(s)}]
  BY <1>1, SumsFacts DEF AddsUp
<1> DEFINE T == {n \in Nat : \A s \in SUBSET DOMAIN f : Cardinality(s) = n => sum[s] \in Nat}
<1>3. 0 \in T
  <2>1. ASSUME NEW s \in SUBSET DOMAIN f, Cardinality(s) = 0 PROVE sum[s] \in Nat
    <3>1. s = {}
      BY <2>1, PartsShrink
    <3> QED
      BY <1>2, <3>1
  <2> QED
    BY <2>1
<1>4. ASSUME NEW n \in Nat, n \in T PROVE n + 1 \in T
  <2>1. ASSUME NEW s \in SUBSET DOMAIN f, Cardinality(s) = n + 1 PROVE sum[s] \in Nat
    <3>1. s # {}
      BY <2>1, FS_EmptySet
    <3>2. /\ First(s) \in DOMAIN f /\ s \ {First(s)} \in SUBSET DOMAIN f
          /\ Cardinality(s \ {First(s)}) = n
      BY <2>1, <3>1, PartsShrink
    <3>3. sum[s \ {First(s)}] \in Nat /\ f[First(s)] \in Nat
      BY <1>4, <3>2
    <3>4. sum[s] = f[First(s)] + sum[s \ {First(s)}]
      BY <1>2, <3>1
    <3> QED
      BY <3>3, <3>4
  <2> QED
    BY <2>1
<1> HIDE DEF T
<1>5. Cardinality(DOMAIN f) \in T
  BY <1>3, <1>4, NatSetInduction, FS_CardinalityType
<1> QED
  BY <1>1, <1>5 DEF T

(* Greater terms have a greater sum.                                       *)
LEMMA SumIsMonotonic ==
    ASSUME NEW S, NEW f, NEW g, DOMAIN f = S, DOMAIN g = S, IsFiniteSet(S),
           \A x \in S : f[x] \in Nat /\ g[x] \in Nat /\ f[x] <= g[x]
    PROVE  SumFunction(f) <= SumFunction(g)
<1>1. PICK low : Sums(low, f, SUBSET S) /\ SumFunction(f) = low[S]
  BY SumsExist
<1>2. PICK high : Sums(high, g, SUBSET S) /\ SumFunction(g) = high[S]
  BY SumsExist
<1>3. /\ low[{}] = 0 /\ high[{}] = 0
      /\ \A s \in SUBSET S : s # {} =>
            /\ low[s] = f[First(s)] + low[s \ {First(s)}]
            /\ high[s] = g[First(s)] + high[s \ {First(s)}]
  <2>1. AddsUp(low, f, S) /\ AddsUp(high, g, S)
    BY <1>1, <1>2, SumsFacts, Zenon
  <2> QED
    BY <2>1 DEF AddsUp
<1> DEFINE T == {n \in Nat : \A s \in SUBSET S : Cardinality(s) = n =>
                    low[s] \in Nat /\ high[s] \in Nat /\ low[s] <= high[s]}
<1>4. 0 \in T
  <2>1. ASSUME NEW s \in SUBSET S, Cardinality(s) = 0
        PROVE  low[s] \in Nat /\ high[s] \in Nat /\ low[s] <= high[s]
    <3>1. s = {}
      BY <2>1, PartsShrink
    <3> QED
      BY <1>3, <3>1
  <2> QED
    BY <2>1
<1>5. ASSUME NEW n \in Nat, n \in T PROVE n + 1 \in T
  <2>1. ASSUME NEW s \in SUBSET S, Cardinality(s) = n + 1
        PROVE  low[s] \in Nat /\ high[s] \in Nat /\ low[s] <= high[s]
    <3>1. s # {}
      BY <2>1, FS_EmptySet
    <3> DEFINE x == First(s)
               rest == s \ {x}
    <3>2. x \in S /\ rest \in SUBSET S /\ Cardinality(rest) = n
      BY <2>1, <3>1, PartsShrink
    <3>3. low[rest] \in Nat /\ high[rest] \in Nat /\ low[rest] <= high[rest]
      BY <1>5, <3>2
    <3>4. low[s] = f[x] + low[rest] /\ high[s] = g[x] + high[rest]
      BY <1>3, <3>1
    <3> HIDE DEF x, rest
    <3>5. f[x] \in Nat /\ g[x] \in Nat /\ f[x] <= g[x]
      BY <3>2
    <3> QED
      BY <3>3, <3>4, <3>5
  <2> QED
    BY <2>1
<1> HIDE DEF T
<1>6. Cardinality(S) \in T
  BY <1>4, <1>5, NatSetInduction, FS_CardinalityType
<1> QED
  BY <1>1, <1>2, <1>6 DEF T

(* Equal terms add up to their number times one of them.                   *)
LEMMA SumOfEqualTerms ==
    ASSUME NEW S, IsFiniteSet(S), NEW c \in Nat
    PROVE  SumFunction([x \in S |-> c]) = Cardinality(S) * c
<1> DEFINE f == [x \in S |-> c]
<1>1. DOMAIN f = S
  OBVIOUS
<1>2. PICK sum : Sums(sum, f, SUBSET S) /\ SumFunction(f) = sum[S]
  <2> HIDE DEF f
  <2> QED
    BY <1>1, SumsExist
<1>3. /\ sum[{}] = 0
      /\ \A s \in SUBSET S : s # {} => sum[s] = f[First(s)] + sum[s \ {First(s)}]
  BY <1>2, SumsFacts DEF AddsUp
<1> DEFINE T == {n \in Nat : \A s \in SUBSET S : Cardinality(s) = n => sum[s] = n * c}
<1>4. 0 \in T
  <2>1. ASSUME NEW s \in SUBSET S, Cardinality(s) = 0 PROVE sum[s] = 0 * c
    <3>1. s = {}
      BY <2>1, PartsShrink
    <3>2. 0 * c = 0
      OBVIOUS
    <3> QED
      BY <1>3, <3>1, <3>2
  <2> QED
    BY <2>1
<1>5. ASSUME NEW n \in Nat, n \in T PROVE n + 1 \in T
  <2>1. ASSUME NEW s \in SUBSET S, Cardinality(s) = n + 1 PROVE sum[s] = (n + 1) * c
    <3>1. s # {}
      BY <2>1, FS_EmptySet
    <3>2. /\ First(s) \in S /\ s \ {First(s)} \in SUBSET S
          /\ Cardinality(s \ {First(s)}) = n
      BY <2>1, <3>1, PartsShrink
    <3>3. sum[s \ {First(s)}] = n * c /\ f[First(s)] = c
      BY <1>5, <3>2
    <3>4. sum[s] = c + n * c
      BY <1>3, <3>1, <3>3
    <3>5. c + n * c = (n + 1) * c
      OBVIOUS
    <3> QED
      BY <3>4, <3>5
  <2> QED
    BY <2>1
<1> HIDE DEF T
<1>6. Cardinality(S) \in T
  BY <1>4, <1>5, NatSetInduction, FS_CardinalityType
<1> QED
  BY <1>2, <1>6 DEF T

(* A sum may start with any of its terms.                                  *)
TakesAny(sum, f, S) ==
    \A s \in SUBSET S : \A x \in s :
        sum[s] \in Nat /\ sum[s \ {x}] \in Nat /\ sum[s] = f[x] + sum[s \ {x}]

LEMMA SumTakesAny ==
    ASSUME NEW S, IsFiniteSet(S), NEW f, \A x \in S : f[x] \in Nat, NEW sum, AddsUp(sum, f, S)
    PROVE  TakesAny(sum, f, S)
<1> DEFINE any(s) == sum[s] \in Nat
                     /\ \A x \in s : sum[s \ {x}] \in Nat /\ sum[s] = f[x] + sum[s \ {x}]
           T == {n \in Nat : \A s \in SUBSET S : Cardinality(s) = n => any(s)}
<1>1. 0 \in T
  <2>1. ASSUME NEW s \in SUBSET S, Cardinality(s) = 0 PROVE any(s)
    <3>1. s = {}
      BY <2>1, PartsShrink
    <3> QED
      BY <3>1 DEF AddsUp
  <2> QED
    BY <2>1
<1>2. ASSUME NEW n \in Nat, n \in T PROVE n + 1 \in T
  <2>1. ASSUME NEW s \in SUBSET S, Cardinality(s) = n + 1 PROVE any(s)
    <3> DEFINE y == First(s)
    <3>0. IsFiniteSet(s)
      BY FS_Subset
    <3>1. IsFiniteSet(s) /\ s # {}
      BY <2>1, <3>0, FS_EmptySet
    <3>2. /\ y \in s /\ y \in S /\ s \ {y} \in SUBSET S /\ Cardinality(s \ {y}) = n
          /\ sum[s] = f[y] + sum[s \ {y}] /\ f[y] \in Nat
      <4>1. y \in s /\ s \ {y} \in SUBSET S /\ Cardinality(s \ {y}) = Cardinality(s) - 1
        BY <3>1, PartsShrink
      <4>2. sum[s] = f[y] + sum[s \ {y}]
        BY <3>1 DEF AddsUp
      <4> QED
        BY <2>1, <4>1, <4>2
    <3>3. any(s \ {y})
      BY <1>2, <3>2
    <3> HIDE DEF y
    <3>4. sum[s] \in Nat
      BY <3>2, <3>3
    <3>5. ASSUME NEW x \in s, x # y
          PROVE  sum[s \ {x}] \in Nat /\ sum[s] = f[x] + sum[s \ {x}]
      <4>1. s \ {x} \in SUBSET S /\ Cardinality(s \ {x}) = n /\ y \in s \ {x} /\ f[x] \in Nat
        BY <2>1, <3>1, <3>2, <3>5, FS_RemoveElement
      <4>2. any(s \ {x})
        BY <1>2, <4>1
      <4>3. sum[s \ {x}] = f[y] + sum[(s \ {x}) \ {y}] /\ sum[(s \ {x}) \ {y}] \in Nat
        BY <4>1, <4>2
      <4>4. x \in s \ {y}
        BY <3>5
      <4>5. sum[s \ {y}] = f[x] + sum[(s \ {y}) \ {x}]
        BY <3>3, <4>4
      <4>6. (s \ {x}) \ {y} = (s \ {y}) \ {x}
        OBVIOUS
      <4>7. sum[s \ {y}] = f[x] + sum[(s \ {x}) \ {y}]
        BY <4>5, <4>6
      <4> HIDE DEF any
      <4> QED
        BY <3>2, <4>1, <4>3, <4>7
    <3>6. sum[s \ {y}] \in Nat
      BY <3>3
    <3> QED
      BY <3>2, <3>4, <3>5, <3>6
  <2> HIDE DEF any
  <2> QED
    BY <2>1
<1> HIDE DEF T
<1>3. Nat \subseteq T
  BY <1>1, <1>2, NatSetInduction
<1>4. ASSUME NEW s \in SUBSET S PROVE any(s)
  <2>1. Cardinality(s) \in T
    BY <1>3, FS_Subset, FS_CardinalityType
  <2> HIDE DEF any
  <2> QED
    BY <2>1 DEF T
<1> QED
  BY <1>4 DEF TakesAny

(* A sum is at least any of its terms.                                     *)
LEMMA SumHolds ==
    ASSUME NEW f, IsFiniteSet(DOMAIN f), \A x \in DOMAIN f : f[x] \in Nat, NEW y \in DOMAIN f
    PROVE  f[y] <= SumFunction(f)
<1>1. PICK sum : Sums(sum, f, SUBSET DOMAIN f) /\ SumFunction(f) = sum[DOMAIN f]
  BY SumsExist
<1>2. AddsUp(sum, f, DOMAIN f)
  BY <1>1, SumsFacts, Zenon
<1>3. TakesAny(sum, f, DOMAIN f)
  BY <1>2, SumTakesAny, Zenon
<1>4. sum[DOMAIN f \ {y}] \in Nat /\ sum[DOMAIN f] = f[y] + sum[DOMAIN f \ {y}] /\ f[y] \in Nat
  BY <1>3 DEF TakesAny
<1> QED
  BY <1>1, <1>4

(* Terms that are matched one to one by greater terms have a smaller sum.  *)
LEMMA SumIsMatched ==
    ASSUME NEW f, IsFiniteSet(DOMAIN f), \A x \in DOMAIN f : f[x] \in Nat,
           NEW g, IsFiniteSet(DOMAIN g), \A y \in DOMAIN g : g[y] \in Nat,
           NEW h \in [DOMAIN f -> DOMAIN g],
           \A x, y \in DOMAIN f : h[x] = h[y] => x = y,
           \A x \in DOMAIN f : f[x] <= g[h[x]]
    PROVE  SumFunction(f) <= SumFunction(g)
<1> DEFINE S == DOMAIN f
           W == DOMAIN g
           image(s) == {h[x] : x \in s}
<1>1. PICK low : Sums(low, f, SUBSET S) /\ SumFunction(f) = low[S]
  BY SumsExist
<1>2. PICK high : Sums(high, g, SUBSET W) /\ SumFunction(g) = high[W]
  BY SumsExist
<1>3. AddsUp(low, f, S) /\ AddsUp(high, g, W)
  BY <1>1, <1>2, SumsFacts, Zenon
<1>4. TakesAny(low, f, S)
  BY <1>3, SumTakesAny, Zenon
<1>5. TakesAny(high, g, W)
  BY <1>3, SumTakesAny, Zenon
<1> DEFINE T == {n \in Nat : \A s \in SUBSET S : \A t \in SUBSET W :
                    Cardinality(s) = n /\ image(s) \subseteq t =>
                        low[s] \in Nat /\ high[t] \in Nat /\ low[s] <= high[t]}
<1>6. ASSUME NEW t \in SUBSET W PROVE high[t] \in Nat
  <2>1. CASE t = {}
    BY <1>3, <2>1 DEF AddsUp
  <2>2. CASE t # {}
    BY <1>5, <2>2 DEF TakesAny
  <2> QED
    BY <2>1, <2>2
<1>7. 0 \in T
  <2>1. ASSUME NEW s \in SUBSET S, Cardinality(s) = 0, NEW t \in SUBSET W
        PROVE  low[s] \in Nat /\ high[t] \in Nat /\ low[s] <= high[t]
    <3>1. s = {}
      BY <2>1, PartsShrink
    <3>2. low[s] = 0
      BY <1>3, <3>1 DEF AddsUp
    <3> QED
      BY <1>6, <3>2
  <2> QED
    BY <2>1
<1>8. ASSUME NEW n \in Nat, n \in T PROVE n + 1 \in T
  <2>1. ASSUME NEW s \in SUBSET S, Cardinality(s) = n + 1, NEW t \in SUBSET W, image(s) \subseteq t
        PROVE  low[s] \in Nat /\ high[t] \in Nat /\ low[s] <= high[t]
    <3>1. PICK x \in s : Cardinality(s \ {x}) = n
      <4>1. s # {}
        BY <2>1, FS_EmptySet
      <4> QED
        BY <2>1, <4>1, PartsShrink
    <3>2. h[x] \in t /\ x \in S
      BY <2>1
    <3>3. image(s \ {x}) \subseteq t \ {h[x]}
      BY <2>1
    <3>4. low[s \ {x}] <= high[t \ {h[x]}]
      <4>1. s \ {x} \in SUBSET S /\ t \ {h[x]} \in SUBSET W
        OBVIOUS
      <4> QED
        BY <1>8, <3>1, <3>3, <4>1
    <3>5. low[s] \in Nat /\ low[s \ {x}] \in Nat /\ low[s] = f[x] + low[s \ {x}]
      BY <1>4 DEF TakesAny
    <3>6. high[t] \in Nat /\ high[t \ {h[x]}] \in Nat /\ high[t] = g[h[x]] + high[t \ {h[x]}]
      BY <1>5, <3>2 DEF TakesAny
    <3>7. f[x] \in Nat /\ g[h[x]] \in Nat /\ f[x] <= g[h[x]]
      BY <3>2
    <3> QED
      BY <3>4, <3>5, <3>6, <3>7
  <2> QED
    BY <2>1
<1> HIDE DEF T
<1>9. Cardinality(S) \in T
  BY <1>7, <1>8, NatSetInduction, FS_CardinalityType
<1>10. image(S) \subseteq W
  OBVIOUS
<1>11. low[S] <= high[W]
  BY <1>9, <1>10 DEF T
<1> QED
  BY <1>1, <1>2, <1>11

-----------------------------------------------------------------------------
(* Loops *)

(* A loop over a .. b that starts from p and applies step at each number.  *)
IsLoop(f, P, a, b, p, step) ==
    /\ f \in [a .. b -> P]
    /\ \A k \in a .. b : f[k] = IF k = a THEN p ELSE step[<<f[k - 1], k>>]

LEMMA LoopExists ==
    ASSUME NEW P, NEW a \in Int, NEW b \in Int, a <= b, NEW p \in P,
           NEW Later, Later = a + 1 .. b, NEW step \in [P \X Later -> P]
    PROVE  \E f : IsLoop(f, P, a, b, p, step)
<1> DEFINE upTo(m) == \E f \in [a .. a + m -> P] :
                         \A k \in a .. a + m :
                            f[k] = IF k = a THEN p ELSE step[<<f[k - 1], k>>]
           S == {m \in Nat : m <= b - a => upTo(m)}
<1>1. 0 \in S
  <2> DEFINE f == [k \in a .. a + 0 |-> p]
  <2>1. f \in [a .. a + 0 -> P] /\ \A k \in a .. a + 0 : k = a /\ f[k] = p
    OBVIOUS
  <2> QED
    BY <2>1
<1>2. ASSUME NEW m \in Nat, m \in S PROVE m + 1 \in S
  <2> SUFFICES ASSUME m + 1 <= b - a PROVE upTo(m + 1)
    OBVIOUS
  <2>1. PICK f \in [a .. a + m -> P] :
           \A k \in a .. a + m : f[k] = IF k = a THEN p ELSE step[<<f[k - 1], k>>]
    BY <1>2
  <2> DEFINE top == a + (m + 1)
             next == step[<<f[top - 1], top>>]
             g == [k \in a .. top |-> IF k = top THEN next ELSE f[k]]
  <2>2. top \in a + 1 .. b /\ top - 1 \in a .. a + m /\ f[top - 1] \in P /\ top # a
    OBVIOUS
  <2>3. next \in P
    <3>1. <<f[top - 1], top>> \in P \X (a + 1 .. b)
      BY <2>2
    <3> HIDE DEF top
    <3> QED
      BY <3>1
  <2>4. \A k \in a .. top : k = top \/ k \in a .. a + m
    OBVIOUS
  <2> HIDE DEF next
  <2>5. g \in [a .. top -> P]
    BY <2>3, <2>4
  <2>6. ASSUME NEW k \in a .. top
        PROVE  g[k] = IF k = a THEN p ELSE step[<<g[k - 1], k>>]
    <3>1. CASE k = top
      <4>1. g[k] = next /\ g[k - 1] = f[top - 1] /\ k # a
        BY <3>1, <2>2
      <4> QED
        BY <4>1, <3>1 DEF next
    <3>2. CASE k # top
      <4>1. k \in a .. a + m /\ g[k] = f[k]
        BY <3>2, <2>4
      <4>2. k # a => k - 1 \in a .. a + m /\ k - 1 # top /\ k - 1 \in a .. top
        BY <4>1
      <4>3. k # a => g[k - 1] = f[k - 1]
        BY <4>2
      <4> QED
        BY <4>1, <4>3, <2>1
    <3> QED
      BY <3>1, <3>2
  <2> HIDE DEF g
  <2> QED
    BY <2>5, <2>6
<1>3. Nat \subseteq S
  <2> HIDE DEF S
  <2> QED
    BY <1>1, <1>2, NatSetInduction
<1>4. upTo(b - a) /\ a + (b - a) = b
  <2>1. b - a \in Nat /\ a + (b - a) = b
    OBVIOUS
  <2>2. b - a \in S
    BY <1>3, <2>1
  <2> QED
    BY <2>1, <2>2
<1> QED
  BY <1>4 DEF IsLoop

(* What holds at its start and is kept by each step holds at its end.      *)
LEMMA LoopInduction ==
    ASSUME NEW S, NEW a \in Int, NEW b \in Int, a <= b, a \in S,
           \A k \in a + 1 .. b : k - 1 \in S => k \in S
    PROVE  b \in S
<1> DEFINE T == {m \in Nat : m <= b - a => a + m \in S}
<1>1. 0 \in T
  OBVIOUS
<1>2. ASSUME NEW m \in Nat, m \in T PROVE m + 1 \in T
  <2> SUFFICES ASSUME m + 1 <= b - a PROVE a + (m + 1) \in S
    OBVIOUS
  <2>1. a + (m + 1) \in a + 1 .. b /\ a + (m + 1) - 1 = a + m
    OBVIOUS
  <2> QED
    BY <1>2, <2>1
<1>3. Nat \subseteq T
  <2> HIDE DEF T
  <2> QED
    BY <1>1, <1>2, NatSetInduction
<1> QED
  BY <1>3

-----------------------------------------------------------------------------
(* Forests *)

Forest(n, parent) ==
    /\ parent \in [1 .. n -> 1 .. n]
    /\ \A i \in 1 .. n : parent[i] <= i

RootsOf(parent, root) ==
    [i \in DOMAIN parent |-> IF parent[i] = i THEN i ELSE root[parent[i]]]

(* Following the parents of a forest ends.                                 *)
LEMMA RootsExist ==
    ASSUME NEW n \in Nat, NEW parent, Forest(n, parent)
    PROVE  \E root : root = RootsOf(parent, root)
<1> DEFINE upTo(m) == \E root \in [1 .. m -> 1 .. n] :
                         \A i \in 1 .. m : root[i] = IF parent[i] = i THEN i ELSE root[parent[i]]
           S == {m \in Nat : m <= n => upTo(m)}
<1>1. 0 \in S
  <2> DEFINE r == [i \in 1 .. 0 |-> i]
  <2>1. r \in [1 .. 0 -> 1 .. n]
    OBVIOUS
  <2>2. \A i \in 1 .. 0 : r[i] = IF parent[i] = i THEN i ELSE r[parent[i]]
    OBVIOUS
  <2> HIDE DEF r
  <2> QED
    BY <2>1, <2>2
<1>2. ASSUME NEW m \in Nat, m \in S PROVE m + 1 \in S
  <2> SUFFICES ASSUME m + 1 <= n PROVE upTo(m + 1)
    OBVIOUS
  <2>1. PICK root \in [1 .. m -> 1 .. n] :
           \A i \in 1 .. m : root[i] = IF parent[i] = i THEN i ELSE root[parent[i]]
    BY <1>2
  <2> DEFINE top == m + 1
             last == IF parent[top] = top THEN top ELSE root[parent[top]]
             r == [i \in 1 .. top |-> IF i = top THEN last ELSE root[i]]
  <2>2. top \in 1 .. n /\ parent[top] \in 1 .. n /\ parent[top] <= top
    BY DEF Forest
  <2>3. parent[top] # top => parent[top] \in 1 .. m
    BY <2>2
  <2>4. last \in 1 .. n
    BY <2>2, <2>3
  <2>5. \A i \in 1 .. top : i = top \/ i \in 1 .. m
    OBVIOUS
  <2> HIDE DEF last
  <2>6. r \in [1 .. top -> 1 .. n]
    BY <2>4, <2>5
  <2>7. ASSUME NEW i \in 1 .. top
        PROVE  r[i] = IF parent[i] = i THEN i ELSE r[parent[i]]
    <3>1. CASE i = top
      <4>1. parent[top] # top => r[parent[top]] = root[parent[top]]
        BY <2>3
      <4>2. r[top] = last
        BY <2>2
      <4> QED
        BY <3>1, <4>1, <4>2 DEF last
    <3>2. CASE i # top
      <4>1. i \in 1 .. m /\ i \in 1 .. n /\ r[i] = root[i]
        BY <3>2, <2>5
      <4>2. parent[i] \in 1 .. n /\ parent[i] <= i
        BY <4>1 DEF Forest
      <4>3. parent[i] \in 1 .. top /\ parent[i] # top
        BY <4>1, <4>2
      <4>4. r[parent[i]] = root[parent[i]]
        BY <4>3
      <4> QED
        BY <4>1, <4>4, <2>1
    <3> QED
      BY <3>1, <3>2
  <2> HIDE DEF r
  <2> QED
    BY <2>6, <2>7
<1>3. Nat \subseteq S
  <2> HIDE DEF S
  <2> QED
    BY <1>1, <1>2, NatSetInduction
<1>4. PICK root \in [1 .. n -> 1 .. n] :
         \A i \in 1 .. n : root[i] = IF parent[i] = i THEN i ELSE root[parent[i]]
  <2>1. n \in S
    BY <1>3
  <2> QED
    BY <2>1
<1>5. DOMAIN parent = 1 .. n
  BY DEF Forest
<1>6. root = RootsOf(parent, root)
  BY <1>4, <1>5 DEF RootsOf
<1> QED
  BY <1>6

(* find goes up to the parent, and from there on.                          *)
LEMMA FindUnfolds ==
    ASSUME NEW n \in Nat, NEW parent, Forest(n, parent), NEW i \in 1 .. n
    PROVE  Find(parent, i) = IF parent[i] = i THEN i ELSE Find(parent, parent[i])
<1> DEFINE root == CHOOSE root : root = RootsOf(parent, root)
<1>1. root = RootsOf(parent, root)
  <2>1. \E r : r = RootsOf(parent, r)
    BY RootsExist
  <2> QED
    BY <2>1
<1>2. \A j : Find(parent, j) = root[j]
  BY DEF Find, RootsOf
<1>3. i \in DOMAIN parent
  BY DEF Forest
<1> HIDE DEF root
<1>4. root[i] = IF parent[i] = i THEN i ELSE root[parent[i]]
  BY <1>1, <1>3 DEF RootsOf
<1> QED
  BY <1>2, <1>4

(* It ends at an item that is its own parent, never above its start.       *)
LEMMA FindFacts ==
    ASSUME NEW n \in Nat, NEW parent, Forest(n, parent), NEW i \in 1 .. n
    PROVE  /\ Find(parent, i) \in 1 .. n /\ Find(parent, i) <= i
           /\ parent[Find(parent, i)] = Find(parent, i)
           /\ Find(parent, Find(parent, i)) = Find(parent, i)
<1> DEFINE good(j) == /\ Find(parent, j) \in 1 .. n /\ Find(parent, j) <= j
                      /\ parent[Find(parent, j)] = Find(parent, j)
           S == {m \in Nat : \A j \in 1 .. n : j <= m => good(j)}
<1>1. 0 \in S
  OBVIOUS
<1>2. ASSUME NEW m \in Nat, m \in S PROVE m + 1 \in S
  <2> SUFFICES ASSUME NEW j \in 1 .. n, j <= m + 1 PROVE good(j)
    OBVIOUS
  <2>1. parent[j] \in 1 .. n /\ parent[j] <= j
    BY DEF Forest
  <2>2. Find(parent, j) = IF parent[j] = j THEN j ELSE Find(parent, parent[j])
    BY FindUnfolds
  <2>3. CASE parent[j] = j
    BY <2>2, <2>3
  <2>4. CASE parent[j] # j
    <3>1. parent[j] <= m
      BY <2>1, <2>4
    <3>2. good(parent[j])
      BY <3>1, <2>1, <1>2
    <3>3. Find(parent, j) = Find(parent, parent[j])
      BY <2>2, <2>4
    <3>4. Find(parent, j) \in 1 .. n /\ Find(parent, j) <= parent[j]
      BY <3>2, <3>3
    <3>5. parent[Find(parent, j)] = Find(parent, j)
      BY <3>2, <3>3
    <3> QED
      BY <3>4, <3>5, <2>1
  <2> QED
    BY <2>3, <2>4
<1>3. Nat \subseteq S
  <2> HIDE DEF S
  <2> QED
    BY <1>1, <1>2, NatSetInduction
<1>4. good(i)
  BY <1>3
<1>5. Find(parent, Find(parent, i)) = Find(parent, i)
  BY <1>4, FindUnfolds
<1> QED
  BY <1>4, <1>5

-----------------------------------------------------------------------------
(* Unions *)

(* A union keeps the forest and moves the roots of one tree.               *)
LEMMA UnionFacts ==
    ASSUME NEW n \in Nat, NEW parent, Forest(n, parent), NEW left \in 1 .. n, NEW right \in 1 .. n
    PROVE  LET a == Find(parent, left)
               b == Find(parent, right)
               joined == Union(parent, left, right)
           IN /\ Forest(n, joined)
              /\ \A x \in 1 .. n : Find(joined, x) =
                    IF Find(parent, x) = Larger(a, b) THEN Smaller(a, b) ELSE Find(parent, x)
<1> DEFINE high == Larger(Find(parent, left), Find(parent, right))
           low == Smaller(Find(parent, left), Find(parent, right))
           joined == Union(parent, left, right)
<1>1. /\ Find(parent, left) \in 1 .. n /\ Find(parent, right) \in 1 .. n
      /\ parent[Find(parent, left)] = Find(parent, left)
      /\ parent[Find(parent, right)] = Find(parent, right)
      /\ Find(parent, Find(parent, left)) = Find(parent, left)
      /\ Find(parent, Find(parent, right)) = Find(parent, right)
  BY FindFacts
<1>2. /\ high \in 1 .. n /\ low \in 1 .. n /\ low <= high
      /\ parent[high] = high /\ parent[low] = low
      /\ Find(parent, high) = high /\ Find(parent, low) = low
  BY <1>1 DEF Larger, Smaller
<1>3. joined = [parent EXCEPT ![high] = low]
  BY DEF Union
<1> HIDE DEF high, low, joined
<1>4. parent \in [1 .. n -> 1 .. n] /\ \A i \in 1 .. n : parent[i] <= i
  BY DEF Forest
<1>5. joined \in [1 .. n -> 1 .. n]
  BY <1>2, <1>3, <1>4
<1>6. \A i \in 1 .. n : joined[i] = IF i = high THEN low ELSE parent[i]
  BY <1>3, <1>4
<1>7. Forest(n, joined)
  BY <1>2, <1>4, <1>5, <1>6 DEF Forest
<1> DEFINE good(x) == Find(joined, x) = IF Find(parent, x) = high THEN low ELSE Find(parent, x)
           S == {m \in Nat : \A x \in 1 .. n : x <= m => good(x)}
<1>8. 0 \in S
  OBVIOUS
<1>9. ASSUME NEW m \in Nat, m \in S PROVE m + 1 \in S
  <2> SUFFICES ASSUME NEW x \in 1 .. n, x <= m + 1 PROVE good(x)
    OBVIOUS
  <2>1. Find(joined, x) = IF joined[x] = x THEN x ELSE Find(joined, joined[x])
    BY <1>7, FindUnfolds
  <2>2. Find(parent, x) = IF parent[x] = x THEN x ELSE Find(parent, parent[x])
    BY FindUnfolds
  <2>3. CASE x = high
    <3>1. joined[x] = low /\ Find(parent, x) = high
      BY <2>3, <1>2, <1>6
    <3>2. CASE low = high
      BY <3>1, <3>2, <2>1, <2>3
    <3>3. CASE low # high
      <4>1. Find(joined, x) = Find(joined, low)
        BY <3>1, <3>3, <2>1, <2>3
      <4>2. joined[low] = low
        BY <3>3, <1>2, <1>6
      <4>3. Find(joined, low) = low
        BY <4>2, <1>2, <1>7, FindUnfolds
      <4> QED
        BY <3>1, <4>1, <4>3
    <3> QED
      BY <3>2, <3>3
  <2>4. CASE x # high
    <3>1. joined[x] = parent[x]
      BY <2>4, <1>6
    <3>2. CASE parent[x] = x
      BY <3>1, <3>2, <2>1, <2>2, <2>4
    <3>3. CASE parent[x] # x
      <4>1. parent[x] \in 1 .. n /\ parent[x] <= m
        BY <1>4, <3>3
      <4>2. good(parent[x])
        BY <4>1, <1>9
      <4>3. Find(joined, x) = Find(joined, parent[x]) /\ Find(parent, x) = Find(parent, parent[x])
        BY <3>1, <3>3, <2>1, <2>2
      <4> QED
        BY <4>2, <4>3
    <3> QED
      BY <3>2, <3>3
  <2> QED
    BY <2>3, <2>4
<1>10. Nat \subseteq S
  <2> HIDE DEF S
  <2> QED
    BY <1>8, <1>9, NatSetInduction
<1>11. \A x \in 1 .. n : good(x)
  BY <1>10
<1> QED
  BY <1>7, <1>11 DEF joined, high, low

-----------------------------------------------------------------------------
(* The loop over the pairs *)

(* A set of items that no link enters or leaves.                           *)
ClosedUnder(T, links) == \A link \in links : link[1] \in T <=> link[2] \in T

(* What the loop keeps, when the pairs tried so far are those of seen.     *)
JoinsSoFar(n, links, seen, parent) ==
    /\ Forest(n, parent)
    /\ \A i, j \in 1 .. n :
          <<i, j>> \in seen /\ <<i, j>> \in links => Find(parent, i) = Find(parent, j)
    /\ \A T \in SUBSET (1 .. n) : ClosedUnder(T, links) =>
          \A x, y \in 1 .. n : Find(parent, x) = Find(parent, y) => (x \in T <=> y \in T)

LEMMA JoinKeeps ==
    ASSUME NEW n \in Nat, NEW links, NEW seen, NEW parent, JoinsSoFar(n, links, seen, parent),
           NEW left \in 1 .. n, NEW right \in 1 .. n
    PROVE  JoinsSoFar(n, links, seen \cup {<<left, right>>}, Join(parent, left, right, links))
<1>1. CASE <<left, right>> \notin links
  <2>1. Join(parent, left, right, links) = parent
    BY <1>1 DEF Join
  <2>2. ASSUME NEW i \in 1 .. n, NEW j \in 1 .. n,
               <<i, j>> \in seen \cup {<<left, right>>}, <<i, j>> \in links
        PROVE  Find(parent, i) = Find(parent, j)
    BY <1>1, <2>2 DEF JoinsSoFar
  <2> QED
    BY <2>1, <2>2 DEF JoinsSoFar
<1>2. CASE <<left, right>> \in links
  <2> DEFINE joined == Union(parent, left, right)
             a == Find(parent, left)
             b == Find(parent, right)
  <2>1. Join(parent, left, right, links) = joined
    BY <1>2 DEF Join
  <2>2. Forest(n, parent)
    BY DEF JoinsSoFar
  <2>3. /\ Forest(n, joined)
        /\ \A x \in 1 .. n : Find(joined, x) =
              IF Find(parent, x) = Larger(a, b) THEN Smaller(a, b) ELSE Find(parent, x)
    BY <2>2, UnionFacts
  <2>4. a \in 1 .. n /\ b \in 1 .. n /\ Find(parent, a) = a /\ Find(parent, b) = b
    BY <2>2, FindFacts
  <2>5. \/ Larger(a, b) = a /\ Smaller(a, b) = b
        \/ Larger(a, b) = b /\ Smaller(a, b) = a
    BY <2>4 DEF Larger, Smaller
  <2> HIDE DEF joined
  <2>6. ASSUME NEW i \in 1 .. n, NEW j \in 1 .. n,
               <<i, j>> \in seen \cup {<<left, right>>}, <<i, j>> \in links
        PROVE  Find(joined, i) = Find(joined, j)
    <3>1. CASE <<i, j>> \in seen
      <4>1. Find(parent, i) = Find(parent, j)
        BY <3>1, <2>6 DEF JoinsSoFar
      <4> QED
        BY <4>1, <2>3
    <3>2. CASE i = left /\ j = right
      <4>1. Find(parent, i) = a /\ Find(parent, j) = b
        BY <3>2
      <4> HIDE DEF a, b
      <4> QED
        BY <4>1, <2>3, <2>5
    <3> QED
      BY <2>6, <3>1, <3>2
  <2>7. ASSUME NEW T \in SUBSET (1 .. n), ClosedUnder(T, links),
               NEW x \in 1 .. n, NEW y \in 1 .. n, Find(joined, x) = Find(joined, y)
        PROVE  x \in T <=> y \in T
    <3>1. \A v, w \in 1 .. n : Find(parent, v) = Find(parent, w) => (v \in T <=> w \in T)
      BY <2>7 DEF JoinsSoFar
    <3>2. left \in T <=> right \in T
      BY <1>2, <2>7 DEF ClosedUnder
    <3>3. a \in T <=> b \in T
      BY <3>1, <3>2, <2>4
    <3>4. /\ Find(parent, x) \in 1 .. n /\ Find(parent, Find(parent, x)) = Find(parent, x)
          /\ Find(parent, y) \in 1 .. n /\ Find(parent, Find(parent, y)) = Find(parent, y)
      BY <2>2, FindFacts
    <3>5. (x \in T <=> Find(parent, x) \in T) /\ (y \in T <=> Find(parent, y) \in T)
      BY <3>1, <3>4
    <3> HIDE DEF a, b
    <3>6. Find(parent, x) \in T <=> Find(joined, x) \in T
      BY <2>3, <2>5, <3>3
    <3>7. Find(parent, y) \in T <=> Find(joined, y) \in T
      BY <2>3, <2>5, <3>3
    <3> QED
      BY <2>7, <3>5, <3>6, <3>7
  <2> QED
    BY <2>1, <2>3, <2>6, <2>7 DEF JoinsSoFar
<1> QED
  BY <1>1, <1>2

(* The pairs of an item with those behind it, and those of all the items   *)
(* up to one.                                                              *)
RowPairs(left, last) == {<<left, right>> : right \in left + 1 .. last}
PairsUpTo(left, n) == {pair \in (1 .. n) \X (1 .. n) : pair[1] <= left /\ pair[1] < pair[2]}

LEMMA JoinIsForest ==
    ASSUME NEW n \in Nat, NEW links, NEW parent, Forest(n, parent),
           NEW left \in 1 .. n, NEW right \in 1 .. n
    PROVE  Forest(n, Join(parent, left, right, links))
  BY UnionFacts DEF Join

LEMMA JoinRowKeeps ==
    ASSUME NEW n \in Nat, NEW links, NEW seen, NEW parent, JoinsSoFar(n, links, seen, parent),
           NEW left \in 1 .. n
    PROVE  JoinsSoFar(n, links, seen \cup RowPairs(left, n), JoinRow(parent, left, n, links))
<1> DEFINE Later == left + 1 .. n
           Forests == {p \in [1 .. n -> 1 .. n] : Forest(n, p)}
           step == [pair \in Forests \X Later |-> Join(pair[1], left, pair[2], links)]
           body(f) == [k \in left .. n |->
                         IF k = left THEN parent ELSE Join(f[k - 1], left, k, links)]
           row == CHOOSE f : f = body(f)
<1>1. parent \in Forests
  BY DEF JoinsSoFar, Forest
<1>2. step \in [Forests \X Later -> Forests]
  <2>1. ASSUME NEW pair \in Forests \X Later
        PROVE  Join(pair[1], left, pair[2], links) \in Forests
    <3>1. Forest(n, pair[1]) /\ pair[2] \in 1 .. n
      OBVIOUS
    <3>2. Forest(n, Join(pair[1], left, pair[2], links))
      BY <3>1, JoinIsForest
    <3> QED
      BY <3>2 DEF Forest
  <2> QED
    BY <2>1
<1>3. \E f : f = body(f)
  <2>0. left \in Int /\ n \in Int /\ left <= n /\ Later = left + 1 .. n
    OBVIOUS
  <2> HIDE DEF Forests, step, Later
  <2>a. PICK f : IsLoop(f, Forests, left, n, parent, step)
    BY <1>1, <1>2, <2>0, LoopExists
  <2>1. /\ f \in [left .. n -> Forests]
        /\ \A k \in left .. n : f[k] = IF k = left THEN parent ELSE step[<<f[k - 1], k>>]
    BY <2>a DEF IsLoop
  <2>2. ASSUME NEW k \in left .. n, k # left
        PROVE  step[<<f[k - 1], k>>] = Join(f[k - 1], left, k, links)
    <3>1. k - 1 \in left .. n /\ k \in Later
      BY <2>2 DEF Later
    <3>2. f[k - 1] \in Forests
      BY <2>1, <3>1
    <3> QED
      BY <3>1, <3>2 DEF step
  <2>3. f = body(f)
    BY <2>1, <2>2
  <2> QED
    BY <2>3
<1>4. row = body(row)
  <2> HIDE DEF body
  <2> QED
    BY <1>3
<1>5. JoinRow(parent, left, n, links) = row[n]
  BY DEF JoinRow
<1> HIDE DEF row
<1> DEFINE S == {k \in left .. n : JoinsSoFar(n, links, seen \cup RowPairs(left, k), row[k])}
<1>6. left \in S
  <2>1. row[left] = parent
    BY <1>4
  <2>2. seen \cup RowPairs(left, left) = seen
    BY DEF RowPairs
  <2> QED
    BY <2>1, <2>2
<1>7. ASSUME NEW k \in left + 1 .. n, k - 1 \in S PROVE k \in S
  <2>1. k \in left .. n /\ k # left /\ k \in 1 .. n
    OBVIOUS
  <2>2. row[k] = Join(row[k - 1], left, k, links)
    BY <1>4, <2>1
  <2>3. JoinsSoFar(n, links, seen \cup RowPairs(left, k - 1), row[k - 1])
    BY <1>7
  <2>4. RowPairs(left, k) = RowPairs(left, k - 1) \cup {<<left, k>>}
    <3>1. left + 1 .. k = (left + 1 .. k - 1) \cup {k}
      OBVIOUS
    <3> QED
      BY <3>1 DEF RowPairs
  <2>5. (seen \cup RowPairs(left, k - 1)) \cup {<<left, k>>} = seen \cup RowPairs(left, k)
    BY <2>4
  <2>6. JoinsSoFar(n, links, (seen \cup RowPairs(left, k - 1)) \cup {<<left, k>>},
                   Join(row[k - 1], left, k, links))
    BY <2>1, <2>3, JoinKeeps
  <2> QED
    BY <2>1, <2>2, <2>5, <2>6
<1>8. n \in S
  <2> HIDE DEF S
  <2> QED
    BY <1>6, <1>7, LoopInduction
<1> QED
  BY <1>5, <1>8

(* The whole loop ends with every pair tried.                              *)
LEMMA JoinedKeeps ==
    ASSUME NEW n \in Nat, NEW links
    PROVE  JoinsSoFar(n, links, PairsUpTo(n, n), Joined(n, links))
<1> DEFINE Later == 0 + 1 .. n
           Kept == {p \in [1 .. n -> 1 .. n] : JoinsSoFar(n, links, {}, p)}
           start == [i \in 1 .. n |-> i]
           step == [pair \in Kept \X Later |-> JoinRow(pair[1], pair[2], n, links)]
           body(f) == [left \in 0 .. n |->
                         IF left = 0 THEN start ELSE JoinRow(f[left - 1], left, n, links)]
           after == CHOOSE f : f = body(f)
<1>1. Forest(n, start) /\ JoinsSoFar(n, links, {}, start)
  <2>1. Forest(n, start)
    BY DEF Forest
  <2>2. \A x \in 1 .. n : Find(start, x) = x
    <3> TAKE x \in 1 .. n
    <3>1. start[x] = x
      OBVIOUS
    <3> HIDE DEF start
    <3> QED
      BY <2>1, <3>1, FindUnfolds
  <2> HIDE DEF start
  <2> QED
    BY <2>1, <2>2 DEF JoinsSoFar
<1>2. start \in Kept
  BY <1>1
<1>3. step \in [Kept \X Later -> Kept]
  <2>1. ASSUME NEW pair \in Kept \X Later
        PROVE  JoinRow(pair[1], pair[2], n, links) \in Kept
    <3>1. JoinsSoFar(n, links, {}, pair[1]) /\ pair[2] \in 1 .. n
      OBVIOUS
    <3>2. JoinsSoFar(n, links, {} \cup RowPairs(pair[2], n), JoinRow(pair[1], pair[2], n, links))
      BY <3>1, JoinRowKeeps
    <3>3. JoinsSoFar(n, links, {}, JoinRow(pair[1], pair[2], n, links))
      BY <3>2 DEF JoinsSoFar
    <3> QED
      BY <3>3 DEF JoinsSoFar, Forest
  <2> QED
    BY <2>1
<1>4. \E f : f = body(f)
  <2>1. 0 \in Int /\ n \in Int /\ 0 <= n /\ Later = 0 + 1 .. n
    OBVIOUS
  <2> HIDE DEF Kept, step, start, Later
  <2>a. PICK f : IsLoop(f, Kept, 0, n, start, step)
    BY <1>2, <1>3, <2>1, LoopExists
  <2>2. /\ f \in [0 .. n -> Kept]
        /\ \A k \in 0 .. n : f[k] = IF k = 0 THEN start ELSE step[<<f[k - 1], k>>]
    BY <2>a DEF IsLoop
  <2>3. ASSUME NEW k \in 0 .. n, k # 0
        PROVE  step[<<f[k - 1], k>>] = JoinRow(f[k - 1], k, n, links)
    <3>1. k - 1 \in 0 .. n /\ k \in Later
      BY <2>3 DEF Later
    <3>2. f[k - 1] \in Kept
      BY <2>2, <3>1
    <3> QED
      BY <3>1, <3>2 DEF step
  <2>4. f = body(f)
    BY <2>2, <2>3
  <2> QED
    BY <2>4
<1>5. after = body(after)
  <2> HIDE DEF body
  <2> QED
    BY <1>4
<1>6. Joined(n, links) = after[n]
  BY DEF Joined
<1> HIDE DEF after
<1> DEFINE S == {k \in 0 .. n : JoinsSoFar(n, links, PairsUpTo(k, n), after[k])}
<1>7. 0 \in S
  <2>1. after[0] = start
    BY <1>5
  <2>2. PairsUpTo(0, n) = {}
    BY DEF PairsUpTo
  <2> HIDE DEF start
  <2> QED
    BY <1>1, <2>1, <2>2
<1>8. ASSUME NEW k \in 0 + 1 .. n, k - 1 \in S PROVE k \in S
  <2>1. k \in 0 .. n /\ k # 0 /\ k \in 1 .. n
    OBVIOUS
  <2>2. after[k] = JoinRow(after[k - 1], k, n, links)
    BY <1>5, <2>1
  <2>3. JoinsSoFar(n, links, PairsUpTo(k - 1, n), after[k - 1])
    BY <1>8
  <2>4. JoinsSoFar(n, links, PairsUpTo(k - 1, n) \cup RowPairs(k, n), after[k])
    BY <2>1, <2>2, <2>3, JoinRowKeeps
  <2>5. PairsUpTo(k - 1, n) \cup RowPairs(k, n) = PairsUpTo(k, n)
    <3>1. ASSUME NEW pair \in PairsUpTo(k, n)
          PROVE  pair \in PairsUpTo(k - 1, n) \cup RowPairs(k, n)
      <4>1. PICK i \in 1 .. n, j \in 1 .. n : pair = <<i, j>> /\ i <= k /\ i < j
        BY <3>1 DEF PairsUpTo
      <4>2. CASE i = k
        BY <4>1, <4>2 DEF RowPairs
      <4>3. CASE i # k
        <5>1. i <= k - 1
          BY <4>1, <4>3
        <5> QED
          BY <4>1, <5>1 DEF PairsUpTo
      <4> QED
        BY <4>2, <4>3
    <3>2. ASSUME NEW pair \in PairsUpTo(k - 1, n) PROVE pair \in PairsUpTo(k, n)
      <4>1. PICK i \in 1 .. n, j \in 1 .. n : pair = <<i, j>> /\ i <= k - 1 /\ i < j
        BY <3>2 DEF PairsUpTo
      <4>2. i <= k
        BY <4>1
      <4> QED
        BY <4>1, <4>2 DEF PairsUpTo
    <3>3. ASSUME NEW pair \in RowPairs(k, n) PROVE pair \in PairsUpTo(k, n)
      <4>1. PICK j \in k + 1 .. n : pair = <<k, j>>
        BY <3>3 DEF RowPairs
      <4>2. j \in 1 .. n /\ k < j /\ k <= k
        BY <2>1
      <4> QED
        BY <2>1, <4>1, <4>2 DEF PairsUpTo
    <3> QED
      BY <3>1, <3>2, <3>3
  <2> QED
    BY <2>1, <2>4, <2>5
<1>9. n \in S
  <2>1. 0 \in Int /\ n \in Int /\ 0 <= n
    OBVIOUS
  <2> HIDE DEF S
  <2> QED
    BY <1>7, <1>8, <2>1, LoopInduction
<1> QED
  BY <1>6, <1>9

-----------------------------------------------------------------------------
(* Components *)

(* Links go both ways and stay among the items.                            *)
IsGraph(S, links) ==
    links \subseteq S \X S /\ \A a, b \in S : <<a, b>> \in links <=> <<b, a>> \in links

(* The union-find computes the single linkage of every graph on every set  *)
(* of numbered items, in whatever order their numbers bring the pairs      *)
(* (pool/clustering.py:88, resonance/scoring.py:67).                       *)
THEOREM ComponentsAreSingleLinkage ==
    ASSUME NEW n \in Nat, NEW S \in SUBSET (1 .. n), NEW links, IsGraph(S, links)
    PROVE  IsSingleLinkage(ComponentsOf(n, S, links), S, links)
<1> DEFINE parent == Joined(n, links)
           root(i) == Find(parent, i)
           block(r) == {i \in S : root(i) = r}
           blocks == ComponentsOf(n, S, links)
<1>1. JoinsSoFar(n, links, PairsUpTo(n, n), parent)
  BY JoinedKeeps
<1>2. blocks = {block(r) : r \in {root(i) : i \in S}}
  BY DEF ComponentsOf
<1> HIDE DEF parent, blocks
<1>3. ASSUME NEW a \in S, NEW b \in S, <<a, b>> \in links PROVE root(a) = root(b)
  <2>1. a \in 1 .. n /\ b \in 1 .. n /\ <<b, a>> \in links
    BY <1>3 DEF IsGraph
  <2>2. CASE a < b
    <3>1. <<a, b>> \in PairsUpTo(n, n)
      BY <2>1, <2>2 DEF PairsUpTo
    <3> QED
      BY <1>1, <1>3, <2>1, <3>1 DEF JoinsSoFar
  <2>3. CASE b < a
    <3>1. <<b, a>> \in PairsUpTo(n, n)
      BY <2>1, <2>3 DEF PairsUpTo
    <3> QED
      BY <1>1, <2>1, <3>1 DEF JoinsSoFar
  <2>4. CASE a = b
    BY <2>4
  <2> QED
    BY <2>1, <2>2, <2>3, <2>4
<1>4. UNION blocks = S /\ {} \notin blocks
  <2>1. \A i \in S : i \in block(root(i)) /\ block(root(i)) \in blocks
    BY <1>2
  <2> QED
    BY <1>2, <2>1
<1>5. ASSUME NEW A \in blocks, NEW B \in blocks, A # B
      PROVE  A \cap B = {} /\ \A a \in A, b \in B : <<a, b>> \notin links
  <2>1. PICK r, s : A = block(r) /\ B = block(s)
    BY <1>2
  <2>2. r # s
    BY <2>1, <1>5
  <2>3. A \subseteq S /\ B \subseteq S /\ (\A a \in A : root(a) = r) /\ (\A b \in B : root(b) = s)
    BY <2>1
  <2> HIDE DEF root
  <2> QED
    BY <1>3, <2>2, <2>3
<1>6. ASSUME NEW A \in blocks, NEW part \in (SUBSET A) \ {{}, A}
      PROVE  \E a \in part, b \in A \ part : <<a, b>> \in links
  <2> SUFFICES ASSUME \A a \in part, b \in A \ part : <<a, b>> \notin links
               PROVE  FALSE
    OBVIOUS
  <2>1. A \subseteq S /\ \A a, b \in A : root(a) = root(b)
    BY <1>2
  <2>2. PICK a \in part, b \in A \ part : TRUE
    OBVIOUS
  <2>3. ClosedUnder(part, links)
    <3> SUFFICES ASSUME NEW link \in links PROVE link[1] \in part <=> link[2] \in part
      BY DEF ClosedUnder
    <3>1. PICK c \in S, d \in S : link = <<c, d>>
      <4>1. link \in S \X S
        BY DEF IsGraph
      <4> QED
        BY <4>1
    <3>2. root(c) = root(d)
      BY <1>3, <3>1
    <3>3. <<c, d>> \in links /\ <<d, c>> \in links
      BY <3>1 DEF IsGraph
    <3>4. c \in A <=> d \in A
      <4>1. PICK r : A = block(r)
        BY <1>2
      <4> QED
        BY <3>2, <4>1
    <3>5. (c \in part => d \in part) /\ (d \in part => c \in part)
      BY <3>3, <3>4
    <3> QED
      BY <3>1, <3>5
  <2>4. part \in SUBSET (1 .. n) /\ a \in 1 .. n /\ b \in 1 .. n /\ root(a) = root(b)
    BY <2>1
  <2>5. a \in part <=> b \in part
    BY <1>1, <2>3, <2>4 DEF JoinsSoFar
  <2> QED
    BY <2>5
<1> QED
  BY <1>4, <1>5, <1>6 DEF IsSingleLinkage, blocks

(* When items are added, a block of before lies in every block of after    *)
(* that it meets;                                                          *)
LEMMA SingleLinkagesGrow ==
    ASSUME NEW S, NEW links, NEW X, IsSingleLinkage(X, S, links),
           NEW T, NEW more, NEW Y, IsSingleLinkage(Y, T, more), S \subseteq T,
           \A a, b \in S : <<a, b>> \in links <=> <<a, b>> \in more,
           NEW A \in X, NEW B \in Y, A \cap B # {}
    PROVE  A \subseteq B
<1> SUFFICES ASSUME ~(A \subseteq B) PROVE FALSE
  OBVIOUS
<1> DEFINE part == A \cap B
<1>1. part \in (SUBSET A) \ {{}, A}
  OBVIOUS
<1>2. PICK a \in part, b \in A \ part : <<a, b>> \in links
  <2> HIDE DEF part
  <2> QED
    BY <1>1 DEF IsSingleLinkage
<1>3. a \in S /\ b \in S /\ UNION Y = T
  BY DEF IsSingleLinkage
<1>4. PICK C \in Y : b \in C
  BY <1>3
<1>5. C # B /\ a \in B
  BY <1>4
<1>6. <<a, b>> \in more
  BY <1>2, <1>3
<1> QED
  BY <1>4, <1>5, <1>6 DEF IsSingleLinkage

(* and a block of after that holds no added item lies in every block of    *)
(* before that it meets.                                                   *)
LEMMA SingleLinkagesStay ==
    ASSUME NEW S, NEW links, NEW X, IsSingleLinkage(X, S, links),
           NEW T, NEW more, NEW Y, IsSingleLinkage(Y, T, more), S \subseteq T,
           \A a, b \in S : <<a, b>> \in links <=> <<a, b>> \in more,
           NEW A \in X, NEW B \in Y, A \cap B # {}, B \subseteq S
    PROVE  B \subseteq A
<1> SUFFICES ASSUME ~(B \subseteq A) PROVE FALSE
  OBVIOUS
<1> DEFINE part == A \cap B
<1>1. part \in (SUBSET B) \ {{}, B}
  OBVIOUS
<1>2. PICK a \in part, b \in B \ part : <<a, b>> \in more
  <2> HIDE DEF part
  <2> QED
    BY <1>1 DEF IsSingleLinkage
<1>3. a \in S /\ b \in S /\ UNION X = S
  BY DEF IsSingleLinkage
<1>4. PICK C \in X : b \in C
  BY <1>3
<1>5. C # A /\ a \in A
  BY <1>4
<1>6. <<a, b>> \in links
  BY <1>2, <1>3
<1> QED
  BY <1>4, <1>5, <1>6 DEF IsSingleLinkage
=============================================================================
