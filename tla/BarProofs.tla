------------------------------ MODULE BarProofs ------------------------------
(***************************************************************************)
(* Theorems about bars: the sources that Ingestion loads and resamples,    *)
(* and the detectors of CandidateScan that read them.                      *)
(*                                                                         *)
(* Ingestion, for every zone, file, source configuration and alignment     *)
(* policy: a clean load is a source, what an as-of call returns is the     *)
(* part of the batch known by then, and errors are holes.  Of a policy     *)
(* only five facts are used, which both kinds have (BucketShape to         *)
(* HeldIsListed); the second half knows what a load and the calls after it *)
(* keep.                                                                   *)
(*                                                                         *)
(* CandidateScan, for every source and every configuration of the          *)
(* detectors; it begins where their assumptions are put to use.            *)
(*                                                                         *)
(* CandidateHistory, for every source, detector and sequence of processing *)
(* times: what is found by a time is the part of the batch confirmed by    *)
(* then.  It begins with the parts of a source.                            *)
(***************************************************************************)
EXTENDS Ingestion, CandidateScan, CandidateHistory, FiniteSetTheorems,
        SequenceTheorems, NaturalsInduction, WellFoundedInduction, TLAPS

IsPolicy(p) == IsFixedPolicy(p) \/ IsExplicitPolicy(p)

-----------------------------------------------------------------------------
(* Numbers *)

(* A set that holds zero and the successor of each number it holds.        *)
LEMMA NatSetInduction ==
    ASSUME NEW T, 0 \in T, \A n \in Nat : n \in T => n + 1 \in T
    PROVE  Nat \subseteq T
<1> DEFINE Less == OpToRel(<, Nat)
           S == Nat \ T
<1>1. IsWellFoundedOn(Less, Nat)
  BY NatLessThanWellFounded
<1> SUFFICES ASSUME S # {} PROVE FALSE
  OBVIOUS
<1>2. PICK m \in S : \A n \in S : ~(<<n, m>> \in Less)
  <2>1. S \in SUBSET Nat
    OBVIOUS
  <2> HIDE DEF Less, S
  <2> QED
    BY <1>1, <2>1, WFMin
<1>3. m \in Nat /\ m # 0 /\ m - 1 \in Nat
  OBVIOUS
<1>4. m - 1 \notin S
  <2>1. ASSUME NEW n \in S PROVE ~(n < m)
    <3>1. m \in Nat /\ n \in Nat
      OBVIOUS
    <3> QED
      BY <1>2, <3>1 DEF OpToRel
  <2> HIDE DEF S
  <2> QED
    BY <1>3, <2>1
<1>5. m - 1 \in T /\ (m - 1) + 1 = m
  BY <1>3, <1>4
<1> QED
  BY <1>3, <1>5

(* A nonempty finite list of integers has a largest and a smallest.        *)
LEMMA MaxOfList ==
    ASSUME NEW n \in Nat, NEW f, NEW I \in SUBSET (1 .. n), I # {},
           \A i \in I : f[i] \in Int
    PROVE  LET S == {f[i] : i \in I}
           IN  Max(S) \in S /\ \A x \in S : x <= Max(S)
<1> DEFINE Largest(k, m) == k \in I /\ \A i \in I : i <= m => f[i] <= f[k]
           None(m) == \A i \in I : ~(i <= m)
           T == {m \in Nat : None(m) \/ \E k \in I : Largest(k, m)}
<1>1. 0 \in T
  OBVIOUS
<1>2. ASSUME NEW m \in Nat, m \in T PROVE m + 1 \in T
  <2>1. \A i \in I : i \in Int /\ (i <= m + 1 <=> i <= m \/ i = m + 1)
    OBVIOUS
  <2>2. CASE m + 1 \notin I
    <3>1. \A i \in I : i <= m + 1 <=> i <= m
      BY <2>1, <2>2
    <3> QED
      BY <1>2, <3>1
  <2>3. CASE m + 1 \in I /\ None(m)
    <3>1. \A i \in I : i <= m + 1 => i = m + 1
      BY <2>1, <2>3
    <3>2. Largest(m + 1, m + 1)
      BY <2>3, <3>1
    <3> QED
      BY <3>2
  <2>4. CASE m + 1 \in I /\ \E k \in I : Largest(k, m)
    <3>1. PICK k \in I : Largest(k, m)
      BY <2>4
    <3>2. f[k] \in Int /\ f[m + 1] \in Int
      BY <2>4
    <3>3. CASE f[k] <= f[m + 1]
      <4>1. ASSUME NEW i \in I, i <= m + 1 PROVE f[i] <= f[m + 1]
        BY <2>1, <3>1, <3>2, <3>3, <4>1
      <4>2. Largest(m + 1, m + 1)
        BY <2>4, <4>1
      <4> QED
        BY <4>2
    <3>4. CASE ~(f[k] <= f[m + 1])
      <4>1. ASSUME NEW i \in I, i <= m + 1 PROVE f[i] <= f[k]
        BY <2>1, <3>1, <3>2, <3>4, <4>1
      <4>2. Largest(k, m + 1)
        BY <4>1
      <4> QED
        BY <4>2
    <3> QED
      BY <3>3, <3>4
  <2> QED
    BY <1>2, <2>2, <2>3, <2>4
<1>3. n \in T
  <2> HIDE DEF T
  <2> QED
    BY <1>1, <1>2, NatSetInduction
<1>4. \A i \in I : i <= n
  OBVIOUS
<1>5. PICK k \in I : \A i \in I : f[i] <= f[k]
  BY <1>3, <1>4
<1> DEFINE S == {f[i] : i \in I}
<1>6. f[k] \in S /\ \A x \in S : f[k] >= x
  BY <1>5
<1> HIDE DEF S
<1>7. Max(S) \in S /\ \A x \in S : Max(S) >= x
  BY <1>6 DEF Max
<1>8. S \subseteq Int
  BY DEF S
<1>9. Max(S) \in S /\ \A x \in S : x <= Max(S)
  BY <1>7, <1>8
<1> QED
  BY <1>9 DEF S

LEMMA MinOfList ==
    ASSUME NEW n \in Nat, NEW f, NEW I \in SUBSET (1 .. n), I # {},
           \A i \in I : f[i] \in Int
    PROVE  LET S == {f[i] : i \in I}
           IN  Min(S) \in S /\ \A x \in S : Min(S) <= x
<1> DEFINE g == [i \in I |-> 0 - f[i]]
           S == {f[i] : i \in I}
           N == {g[i] : i \in I}
<1>1. \A i \in I : g[i] \in Int /\ g[i] = 0 - f[i]
  OBVIOUS
<1>2. Max(N) \in N /\ \A x \in N : x <= Max(N)
  <2> HIDE DEF g
  <2> QED
    BY <1>1, MaxOfList
<1>3. PICK k \in I : Max(N) = g[k]
  BY <1>2
<1>4. \A i \in I : f[k] <= f[i]
  <2> TAKE i \in I
  <2>1. g[i] <= g[k]
    BY <1>2, <1>3
  <2> QED
    BY <1>1, <2>1
<1>5. f[k] \in S /\ \A x \in S : f[k] <= x
  BY <1>4
<1> HIDE DEF S
<1>6. Min(S) \in S /\ \A x \in S : Min(S) <= x
  BY <1>5 DEF Min
<1> QED
  BY <1>6 DEF S

-----------------------------------------------------------------------------
(* Multiples *)

LEMMA Divided ==
    ASSUME NEW w \in Nat \ {0}, NEW x \in Int
    PROVE  /\ x \div w \in Int
           /\ (x \div w) * w \in Int
           /\ (x \div w) * w <= x /\ x < (x \div w) * w + w
           /\ x % w = 0 => x = (x \div w) * w
OBVIOUS

LEMMA MultiplesApart ==
    ASSUME NEW w \in Nat \ {0}, NEW q \in Int, NEW r \in Int, q < r
    PROVE  q * w \in Int /\ r * w \in Int /\ q * w + w <= r * w
<1>1. PICK d \in Nat : r = q + 1 + d
  <2>1. r - q - 1 \in Nat /\ r = q + 1 + (r - q - 1)
    OBVIOUS
  <2> QED
    BY <2>1
<1>2. (q + 1 + d) * w = q * w + w + d * w
  OBVIOUS
<1>3. d * w \in Nat /\ q * w \in Int
  OBVIOUS
<1> QED
  BY <1>1, <1>2, <1>3

(* A number lies between two multiples next to each other in one way only. *)
LEMMA MultipleIsOne ==
    ASSUME NEW w \in Nat \ {0}, NEW q \in Int, NEW x \in Int,
           q * w <= x, x < q * w + w
    PROVE  x \div w = q
<1> DEFINE r == x \div w
<1>1. r \in Int /\ r * w \in Int /\ r * w <= x /\ x < r * w + w
  BY Divided
<1> HIDE DEF r
<1>2. ~(r < q)
  <2> SUFFICES ASSUME r < q PROVE FALSE
    OBVIOUS
  <2>1. r * w + w <= q * w /\ q * w \in Int
    BY <1>1, MultiplesApart
  <2> QED
    BY <1>1, <2>1
<1>3. ~(q < r)
  <2> SUFFICES ASSUME q < r PROVE FALSE
    OBVIOUS
  <2>1. q * w + w <= r * w /\ q * w \in Int
    BY <1>1, MultiplesApart
  <2> QED
    BY <1>1, <2>1
<1>4. r = q
  BY <1>1, <1>2, <1>3
<1> QED
  BY <1>4 DEF r

(* The multiples of d below k * d are k many, and no gap is left.          *)
LEMMA MultiplesTile ==
    ASSUME NEW d \in Nat \ {0}, NEW w \in Nat, w % d = 0, NEW x \in Nat, x < w
    PROVE  /\ x \div d \in 0 .. w \div d - 1
           /\ (x \div d) * d <= x /\ x < (x \div d) * d + d
<1> DEFINE k == x \div d
           m == w \div d
<1>1. /\ k \in Int /\ k * d \in Int /\ k * d <= x /\ x < k * d + d
      /\ m \in Int /\ m * d \in Int /\ w = m * d
  BY Divided
<1> HIDE DEF k, m
<1>2. 0 <= k
  <2> SUFFICES ASSUME k < 0 PROVE FALSE
    BY <1>1
  <2>1. k * d + d <= 0 * d
    BY <1>1, MultiplesApart
  <2> QED
    BY <1>1, <2>1
<1>3. k < m
  <2> SUFFICES ASSUME ~(k < m) PROVE FALSE
    OBVIOUS
  <2>1. k = m \/ m < k
    BY <1>1
  <2>2. CASE m < k
    <3>1. m * d + d <= k * d
      BY <1>1, <2>2, MultiplesApart
    <3> QED
      BY <1>1, <3>1
  <2> QED
    BY <1>1, <2>1, <2>2
<1>4. k \in 0 .. m - 1
  BY <1>1, <1>2, <1>3
<1> QED
  BY <1>1, <1>4 DEF k, m

-----------------------------------------------------------------------------
(* What a policy provides *)

AllBuckets(p) ==
    IF p.kind = "FIXED" THEN {FixedBucket(p, t) : t \in Int}
    ELSE {p.boundaries[k] : k \in DOMAIN p.boundaries}

Within(t, b) == b.start <= t /\ t < b.end

LEMMA FixedFacts ==
    ASSUME NEW p, IsFixedPolicy(p)
    PROVE  /\ p.anchor \in Int /\ p.width \in Nat \ {0}
           /\ p.width % SourceDuration = 0 /\ SourceDuration \in Nat \ {0}
           /\ p.kind = "FIXED"
BY ResampleAssumption DEF IsFixedPolicy

(* The q-th bucket of a fixed grid.                                        *)
Fixed(p, q) ==
    [start |-> p.anchor + q * p.width, end |-> p.anchor + q * p.width + p.width,
     expected |-> {p.anchor + q * p.width + k * SourceDuration :
                       k \in 0 .. p.width \div SourceDuration - 1}]

LEMMA FixedIsOfGrid ==
    ASSUME NEW p, IsFixedPolicy(p), NEW t \in Int
    PROVE  /\ FixedBucket(p, t) = Fixed(p, (t - p.anchor) \div p.width)
           /\ (t - p.anchor) \div p.width \in Int
           /\ Within(t, FixedBucket(p, t))
<1> DEFINE q == (t - p.anchor) \div p.width
<1>1. p.anchor \in Int /\ p.width \in Nat \ {0} /\ t - p.anchor \in Int
  BY FixedFacts
<1>2. q \in Int /\ q * p.width \in Int /\ q * p.width <= t - p.anchor
      /\ t - p.anchor < q * p.width + p.width
  BY <1>1, Divided
<1>3. FixedBucket(p, t) = Fixed(p, q)
  BY DEF FixedBucket, Fixed
<1>4. Within(t, Fixed(p, q))
  <2> HIDE DEF q
  <2>1. /\ Fixed(p, q).start = p.anchor + q * p.width
        /\ Fixed(p, q).end = p.anchor + q * p.width + p.width
    BY DEF Fixed
  <2> QED
    BY <1>1, <1>2, <2>1 DEF Within
<1> QED
  BY <1>2, <1>3, <1>4

LEMMA GridIsFixed ==
    ASSUME NEW p, IsFixedPolicy(p), NEW q \in Int, NEW t \in Int, Within(t, Fixed(p, q))
    PROVE  FixedBucket(p, t) = Fixed(p, q)
<1>1. p.anchor \in Int /\ p.width \in Nat \ {0} /\ t - p.anchor \in Int /\ q * p.width \in Int
  BY FixedFacts
<1>2. /\ Fixed(p, q).start = p.anchor + q * p.width
      /\ Fixed(p, q).end = p.anchor + q * p.width + p.width
  BY DEF Fixed
<1>3. q * p.width <= t - p.anchor /\ t - p.anchor < q * p.width + p.width
  BY <1>1, <1>2 DEF Within
<1>4. (t - p.anchor) \div p.width = q
  BY <1>1, <1>3, MultipleIsOne
<1> QED
  BY <1>4, FixedIsOfGrid

LEMMA GridShape ==
    ASSUME NEW p, IsFixedPolicy(p), NEW q \in Int
    PROVE  /\ Fixed(p, q).start \in Int /\ Fixed(p, q).end \in Int
           /\ Fixed(p, q).start = p.anchor + q * p.width
           /\ Fixed(p, q).end = Fixed(p, q).start + p.width
           /\ Fixed(p, q).expected # {}
           /\ \A slot \in Fixed(p, q).expected :
                 /\ slot \in Int /\ Fixed(p, q).start <= slot
                 /\ slot + SourceDuration <= Fixed(p, q).end
           /\ Fixed(p, q).expected =
                 {Fixed(p, q).start + k * SourceDuration :
                      k \in 0 .. (Fixed(p, q).end - Fixed(p, q).start) \div SourceDuration - 1}
           /\ Fixed(p, q) \in AllBuckets(p)
<1> DEFINE b == Fixed(p, q)
           m == p.width \div SourceDuration
<1>1. /\ p.anchor \in Int /\ p.width \in Nat \ {0} /\ q * p.width \in Int
      /\ SourceDuration \in Nat \ {0} /\ p.width % SourceDuration = 0 /\ p.kind = "FIXED"
  BY FixedFacts
<1>2. /\ b.start = p.anchor + q * p.width /\ b.end = b.start + p.width
      /\ b.start \in Int /\ b.end \in Int /\ b.end - b.start = p.width
      /\ b.expected = {b.start + k * SourceDuration : k \in 0 .. m - 1}
  BY <1>1 DEF Fixed
<1>3. m \in Int /\ p.width = m * SourceDuration
  <2> HIDE DEF b, m
  <2>1. p.width \in Int /\ SourceDuration \in Nat \ {0} /\ p.width % SourceDuration = 0
    BY <1>1
  <2>2. /\ p.width \div SourceDuration \in Int
        /\ p.width = (p.width \div SourceDuration) * SourceDuration
    BY <2>1, Divided
  <2> QED
    BY <2>2 DEF m
<1>4. 0 \in 0 .. m - 1
  <2>1. 0 < p.width /\ p.width \in Nat
    BY <1>1
  <2>2. 0 \div SourceDuration \in 0 .. m - 1
    BY <1>1, <2>1, MultiplesTile
  <2> QED
    BY <1>3, <2>2
<1>5. b.expected # {}
  BY <1>2, <1>4
<1> HIDE DEF m
<1>6. ASSUME NEW slot \in b.expected
      PROVE  slot \in Int /\ b.start <= slot /\ slot + SourceDuration <= b.end
  <2>1. PICK k \in 0 .. m - 1 : slot = b.start + k * SourceDuration
    BY <1>2
  <2>2. k \in Int /\ k < m /\ 0 <= k
    BY <1>3
  <2>3. k * SourceDuration + SourceDuration <= m * SourceDuration /\ k * SourceDuration \in Int
    BY <1>1, <1>3, <2>2, MultiplesApart
  <2>4. 0 <= k * SourceDuration
    BY <1>1, <2>2
  <2> HIDE DEF b
  <2> QED
    BY <1>1, <1>2, <1>3, <2>1, <2>3, <2>4
<1>7. b \in AllBuckets(p)
  <2>1. Within(b.start, b) /\ b.start \in Int
    <3>1. b.start \in Int /\ b.end = b.start + p.width /\ p.width \in Nat \ {0}
      BY <1>1, <1>2
    <3> HIDE DEF b
    <3> QED
      BY <3>1 DEF Within
  <2>2. FixedBucket(p, b.start) = b
    BY <2>1, GridIsFixed
  <2> HIDE DEF b
  <2> QED
    BY <1>1, <2>1, <2>2 DEF AllBuckets
<1>8. b.expected = {b.start + k * SourceDuration :
                        k \in 0 .. (b.end - b.start) \div SourceDuration - 1}
  <2> HIDE DEF b
  <2> QED
    BY <1>2 DEF m
<1> QED
  BY <1>2, <1>5, <1>6, <1>7, <1>8

LEMMA FixedBuckets ==
    ASSUME NEW p, IsFixedPolicy(p)
    PROVE  AllBuckets(p) = {Fixed(p, q) : q \in Int}
<1>1. AllBuckets(p) \subseteq {Fixed(p, q) : q \in Int}
  <2> SUFFICES ASSUME NEW t \in Int PROVE FixedBucket(p, t) \in {Fixed(p, q) : q \in Int}
    BY FixedFacts DEF AllBuckets
  <2> QED
    BY FixedIsOfGrid
<1> QED
  BY <1>1, GridShape

(* Intervals each of which ends before the next begins are apart.          *)
LEMMA Chain ==
    ASSUME NEW n \in Nat, NEW lo, NEW hi,
           \A k \in 1 .. n : lo[k] \in Int /\ hi[k] \in Int /\ lo[k] < hi[k],
           \A k \in 1 .. n : k > 1 => hi[k - 1] <= lo[k]
    PROVE  \A j, k \in 1 .. n : j < k => hi[j] <= lo[k]
<1> DEFINE T == {m \in Nat : \A j, k \in 1 .. n : k <= m /\ j < k => hi[j] <= lo[k]}
<1>1. 0 \in T
  OBVIOUS
<1>2. ASSUME NEW m \in Nat, m \in T PROVE m + 1 \in T
  <2> SUFFICES ASSUME NEW j \in 1 .. n, NEW k \in 1 .. n, k <= m + 1, j < k
               PROVE  hi[j] <= lo[k]
    OBVIOUS
  <2>1. CASE k <= m
    BY <1>2, <2>1
  <2>2. CASE j = k - 1
    <3>1. k > 1
      BY <2>2
    <3> QED
      BY <2>2, <3>1
  <2>3. CASE k = m + 1 /\ j < k - 1
    <3>1. k - 1 \in 1 .. n /\ k > 1 /\ k - 1 <= m
      BY <2>3
    <3>2. hi[j] <= lo[k - 1]
      BY <1>2, <2>3, <3>1
    <3>3. hi[k - 1] <= lo[k] /\ lo[k - 1] < hi[k - 1]
      BY <3>1
    <3>4. hi[j] \in Int /\ lo[k] \in Int /\ lo[k - 1] \in Int /\ hi[k - 1] \in Int
      BY <3>1
    <3> QED
      BY <3>2, <3>3, <3>4
  <2>4. k <= m \/ j = k - 1 \/ (k = m + 1 /\ j < k - 1)
    OBVIOUS
  <2> QED
    BY <2>1, <2>2, <2>3, <2>4
<1>3. n \in T
  <2> HIDE DEF T
  <2> QED
    BY <1>1, <1>2, NatSetInduction
<1> QED
  BY <1>3

LEMMA ExplicitFacts ==
    ASSUME NEW p, IsExplicitPolicy(p)
    PROVE  /\ AllBuckets(p) = {p.boundaries[k] : k \in DOMAIN p.boundaries}
           /\ \A k \in DOMAIN p.boundaries :
                 /\ IsBucket(p.boundaries[k])
                 /\ \A slot \in p.boundaries[k].expected :
                       slot + SourceDuration <= p.boundaries[k].end
           /\ \A j, k \in DOMAIN p.boundaries :
                 j < k => p.boundaries[j].end <= p.boundaries[k].start
           /\ \E n \in Nat : DOMAIN p.boundaries = 1 .. n
           /\ p.kind # "FIXED"
<1>1. /\ p.boundaries \in Seq(Range(p.boundaries)) /\ p.kind = "EXPLICIT"
      /\ \A k \in DOMAIN p.boundaries :
            /\ IsBucket(p.boundaries[k])
            /\ \A slot \in p.boundaries[k].expected :
                  slot + SourceDuration <= p.boundaries[k].end
            /\ k > 1 => p.boundaries[k - 1].end <= p.boundaries[k].start
  BY DEF IsExplicitPolicy
<1>2. PICK n \in Nat : DOMAIN p.boundaries = 1 .. n
  BY <1>1
<1> DEFINE lo == [k \in 1 .. n |-> p.boundaries[k].start]
           hi == [k \in 1 .. n |-> p.boundaries[k].end]
<1>3. \A k \in 1 .. n : lo[k] = p.boundaries[k].start /\ hi[k] = p.boundaries[k].end
  OBVIOUS
<1>4. \A k \in 1 .. n : lo[k] \in Int /\ hi[k] \in Int /\ lo[k] < hi[k]
  <2> TAKE k \in 1 .. n
  <2>1. IsBucket(p.boundaries[k])
    BY <1>1, <1>2
  <2> QED
    BY <1>3, <2>1 DEF IsBucket
<1>5. \A k \in 1 .. n : k > 1 => hi[k - 1] <= lo[k]
  <2> TAKE k \in 1 .. n
  <2> HAVE k > 1
  <2>1. k - 1 \in 1 .. n
    OBVIOUS
  <2> QED
    BY <1>1, <1>2, <1>3, <2>1
<1> HIDE DEF lo, hi
<1>6. \A j, k \in 1 .. n : j < k => hi[j] <= lo[k]
  BY <1>4, <1>5, Chain
<1>7. \A j, k \in DOMAIN p.boundaries : j < k => p.boundaries[j].end <= p.boundaries[k].start
  BY <1>2, <1>3, <1>6
<1>8. AllBuckets(p) = {p.boundaries[k] : k \in DOMAIN p.boundaries} /\ p.kind # "FIXED"
  BY <1>1 DEF AllBuckets
<1> QED
  BY <1>1, <1>2, <1>7, <1>8

(* A bucket is an interval that holds its slots to their end.              *)
LEMMA BucketShape ==
    ASSUME NEW p, IsPolicy(p), NEW b \in AllBuckets(p)
    PROVE  /\ b.start \in Int /\ b.end \in Int /\ b.start < b.end /\ b # NoBucket
           /\ b.expected # {}
           /\ \A slot \in b.expected :
                 slot \in Int /\ b.start <= slot /\ slot + SourceDuration <= b.end
           /\ \A slot \in b.expected : Within(slot, b)
<1>0. SourceDuration \in Nat \ {0}
  BY ResampleAssumption
<1>1. /\ b.start \in Int /\ b.end \in Int /\ b.start < b.end /\ b.expected # {}
      /\ \A slot \in b.expected :
            slot \in Int /\ b.start <= slot /\ slot + SourceDuration <= b.end
  <2>1. CASE IsFixedPolicy(p)
    <3>1. PICK q \in Int : b = Fixed(p, q)
      BY <2>1, FixedBuckets
    <3>2. p.width \in Nat \ {0}
      BY <2>1, FixedFacts
    <3>3. /\ b.start \in Int /\ b.end \in Int /\ b.end = b.start + p.width /\ b.expected # {}
          /\ \A slot \in b.expected :
                slot \in Int /\ b.start <= slot /\ slot + SourceDuration <= b.end
      BY <2>1, <3>1, GridShape
    <3> QED
      BY <3>2, <3>3
  <2>2. CASE IsExplicitPolicy(p)
    <3>1. PICK k \in DOMAIN p.boundaries : b = p.boundaries[k]
      BY <2>2, ExplicitFacts
    <3>2. IsBucket(b) /\ \A slot \in b.expected : slot + SourceDuration <= b.end
      BY <2>2, <3>1, ExplicitFacts
    <3> QED
      BY <3>2 DEF IsBucket
  <2> QED
    BY <2>1, <2>2 DEF IsPolicy
<1>2. b # NoBucket
  BY <1>1 DEF NoBucket
<1>3. \A slot \in b.expected : Within(slot, b)
  BY <1>0, <1>1 DEF Within
<1> QED
  BY <1>1, <1>2, <1>3

LEMMA BucketsApart ==
    ASSUME NEW p, IsPolicy(p), NEW b \in AllBuckets(p), NEW c \in AllBuckets(p), b # c
    PROVE  b.end <= c.start \/ c.end <= b.start
<1>1. CASE IsFixedPolicy(p)
  <2>1. PICK q \in Int : b = Fixed(p, q)
    BY <1>1, FixedBuckets
  <2>2. PICK r \in Int : c = Fixed(p, r)
    BY <1>1, FixedBuckets
  <2>3. p.anchor \in Int /\ p.width \in Nat \ {0}
    BY <1>1, FixedFacts
  <2>4. /\ b.start = p.anchor + q * p.width /\ b.end = b.start + p.width
        /\ c.start = p.anchor + r * p.width /\ c.end = c.start + p.width
    BY <1>1, <2>1, <2>2, GridShape
  <2>5. q < r \/ r < q
    BY <2>1, <2>2
  <2>6. CASE q < r
    <3>1. q * p.width \in Int /\ r * p.width \in Int /\ q * p.width + p.width <= r * p.width
      BY <2>3, <2>6, MultiplesApart
    <3> QED
      BY <2>3, <2>4, <3>1
  <2>7. CASE r < q
    <3>1. q * p.width \in Int /\ r * p.width \in Int /\ r * p.width + p.width <= q * p.width
      BY <2>3, <2>7, MultiplesApart
    <3> QED
      BY <2>3, <2>4, <3>1
  <2> QED
    BY <2>5, <2>6, <2>7
<1>2. CASE IsExplicitPolicy(p)
  <2>1. PICK j \in DOMAIN p.boundaries : b = p.boundaries[j]
    BY <1>2, ExplicitFacts
  <2>2. PICK k \in DOMAIN p.boundaries : c = p.boundaries[k]
    BY <1>2, ExplicitFacts
  <2>3. j \in Int /\ k \in Int /\ j # k
    BY <1>2, <2>1, <2>2, ExplicitFacts
  <2>4. j < k \/ k < j
    BY <2>3
  <2> QED
    BY <1>2, <2>1, <2>2, <2>4, ExplicitFacts
<1> QED
  BY <1>1, <1>2 DEF IsPolicy

(* The bucket of a time is the one it lies in, if there is one.            *)
LEMMA BucketIsTheOne ==
    ASSUME NEW p, IsPolicy(p), NEW b \in AllBuckets(p), NEW t \in Int, Within(t, b)
    PROVE  BucketFor(p, t) = b
<1>1. CASE IsFixedPolicy(p)
  <2>1. PICK q \in Int : b = Fixed(p, q)
    BY <1>1, FixedBuckets
  <2>2. FixedBucket(p, t) = b
    BY <1>1, <2>1, GridIsFixed
  <2> QED
    BY <1>1, <2>2, FixedFacts DEF BucketFor
<1>2. CASE IsExplicitPolicy(p)
  <2> DEFINE holding == {k \in DOMAIN p.boundaries :
                            p.boundaries[k].start <= t /\ t < p.boundaries[k].end}
  <2>1. PICK j \in DOMAIN p.boundaries : b = p.boundaries[j]
    BY <1>2, ExplicitFacts
  <2>2. j \in holding
    BY <2>1 DEF Within
  <2>3. ASSUME NEW k \in holding PROVE k = j
    <3>1. p.boundaries[k] \in AllBuckets(p)
      BY <1>2, ExplicitFacts
    <3>2. /\ p.boundaries[k].start \in Int /\ p.boundaries[k].end \in Int
          /\ b.start \in Int /\ b.end \in Int
      BY <3>1, BucketShape
    <3>3. j \in Int /\ k \in Int
      BY <1>2, <2>1, ExplicitFacts
    <3>4. ~(j < k) /\ ~(k < j)
      BY <1>2, <2>1, <2>2, <3>2, ExplicitFacts
    <3> QED
      BY <3>3, <3>4
  <2>4. holding = {j} /\ j \in Int
    BY <1>2, <2>2, <2>3, ExplicitFacts
  <2> HIDE DEF holding
  <2>5. Max(holding) = j
    BY <2>4 DEF Max
  <2>6. BucketFor(p, t) = p.boundaries[Max(holding)]
    BY <1>2, <2>4, ExplicitFacts DEF BucketFor, holding
  <2> QED
    BY <2>1, <2>5, <2>6
<1> QED
  BY <1>1, <1>2 DEF IsPolicy

LEMMA BucketHolds ==
    ASSUME NEW p, IsPolicy(p), NEW t \in Int, BucketFor(p, t) # NoBucket
    PROVE  BucketFor(p, t) \in AllBuckets(p) /\ Within(t, BucketFor(p, t))
<1>1. CASE IsFixedPolicy(p)
  <2>1. BucketFor(p, t) = FixedBucket(p, t)
    BY <1>1, FixedFacts DEF BucketFor
  <2> QED
    BY <1>1, <2>1, FixedIsOfGrid, FixedFacts DEF AllBuckets
<1>2. CASE IsExplicitPolicy(p)
  <2>1. PICK k \in DOMAIN p.boundaries :
           p.boundaries[k].start <= t /\ t < p.boundaries[k].end
    BY <1>2, ExplicitFacts DEF BucketFor
  <2>2. p.boundaries[k] \in AllBuckets(p) /\ Within(t, p.boundaries[k])
    BY <1>2, <2>1, ExplicitFacts DEF Within
  <2> QED
    BY <2>2, BucketIsTheOne
<1> QED
  BY <1>1, <1>2 DEF IsPolicy

(* Where slots leave no room, every time of a bucket lies in one of them.  *)
LEMMA SlotsTile ==
    ASSUME NEW p, IsPolicy(p), Tiled(p), NEW b \in AllBuckets(p), NEW t \in Int, Within(t, b)
    PROVE  \E slot \in b.expected : slot <= t /\ t < slot + SourceDuration
<1> DEFINE w == b.end - b.start
           k == (t - b.start) \div SourceDuration
<1>0. SourceDuration \in Nat \ {0}
  BY ResampleAssumption
<1>1. b.start \in Int /\ b.end \in Int /\ b.start < b.end
  BY BucketShape
<1>2. /\ w % SourceDuration = 0
      /\ b.expected = {b.start + i * SourceDuration : i \in 0 .. w \div SourceDuration - 1}
  <2>1. CASE IsFixedPolicy(p)
    <3>1. PICK q \in Int : b = Fixed(p, q)
      BY <2>1, FixedBuckets
    <3>2. p.width \in Int /\ p.width % SourceDuration = 0
      BY <2>1, FixedFacts
    <3>3. b.end = b.start + p.width
      BY <2>1, <3>1, GridShape
    <3>4. w = p.width
      BY <1>1, <3>2, <3>3
    <3> QED
      BY <2>1, <3>1, <3>2, <3>4, GridShape
  <2>2. CASE IsExplicitPolicy(p)
    <3>1. PICK j \in DOMAIN p.boundaries : b = p.boundaries[j]
      BY <2>2, ExplicitFacts
    <3> QED
      BY <2>2, <3>1, ExplicitFacts DEF Tiled
  <2> QED
    BY <2>1, <2>2 DEF IsPolicy
<1>3. w \in Nat /\ t - b.start \in Nat /\ t - b.start < w
  BY <1>1 DEF Within
<1>4. /\ k \in 0 .. w \div SourceDuration - 1
      /\ k * SourceDuration <= t - b.start /\ t - b.start < k * SourceDuration + SourceDuration
  <2> HIDE DEF w
  <2> QED
    BY <1>0, <1>2, <1>3, MultiplesTile
<1>5. k * SourceDuration \in Int
  <2>1. k \in Int
    BY <1>0, <1>3
  <2> HIDE DEF k
  <2> QED
    BY <1>0, <2>1
<1>6. b.start + k * SourceDuration \in b.expected
  <2> HIDE DEF k, w
  <2> QED
    BY <1>2, <1>4
<1> HIDE DEF k
<1>7. b.start + k * SourceDuration <= t /\ t < b.start + k * SourceDuration + SourceDuration
  BY <1>0, <1>1, <1>4, <1>5
<1> QED
  BY <1>6, <1>7

-----------------------------------------------------------------------------
(* Bars in buckets *)

(* Some of the bars of a valid input, each at its place.                   *)
IsPart(s, n) ==
    /\ n \in Nat /\ DOMAIN s \subseteq 1 .. n
    /\ \A i \in DOMAIN s : s[i] \in Bar
    /\ IsInput(s)

LEMMA PartFacts ==
    ASSUME NEW s, NEW n, IsPart(s, n), NEW i \in DOMAIN s
    PROVE  /\ i \in Nat /\ s[i] \in Bar
           /\ s[i].timestamp \in Int /\ s[i].end \in Int /\ s[i].available \in Int
           /\ s[i].complete /\ s[i].end = s[i].timestamp + SourceDuration
           /\ \A j \in DOMAIN s : i < j => s[i].end <= s[j].timestamp
BY DEF IsPart, IsInput, IsSource, Bar

BucketOf(p, s, i) == BucketFor(p, s[i].timestamp)
Held(p, s) == {BucketOf(p, s, i) : i \in DOMAIN s} \ {NoBucket}

LEMMA HeldFacts ==
    ASSUME NEW p, IsPolicy(p), NEW s, NEW n, IsPart(s, n)
    PROVE  /\ Held(p, s) \subseteq AllBuckets(p)
           /\ \A i \in DOMAIN s : BucketOf(p, s, i) # NoBucket =>
                  /\ BucketOf(p, s, i) \in Held(p, s)
                  /\ Within(s[i].timestamp, BucketOf(p, s, i))
           /\ \A b \in Held(p, s) : Members(p, s, b) # {}
<1>1. \A i \in DOMAIN s : s[i].timestamp \in Int
  BY PartFacts
<1>2. \A i \in DOMAIN s : BucketOf(p, s, i) # NoBucket =>
          BucketOf(p, s, i) \in AllBuckets(p) /\ Within(s[i].timestamp, BucketOf(p, s, i))
  BY <1>1, BucketHolds DEF BucketOf
<1> QED
  BY <1>2 DEF Held, Members, BucketOf

(* Least and largest start of the buckets that hold a bar.                 *)
Starts(p, s) == {b.start : b \in Held(p, s)}

LEMMA StartsFacts ==
    ASSUME NEW p, IsPolicy(p), NEW s, NEW n, IsPart(s, n), Held(p, s) # {}
    PROVE  /\ Max(Starts(p, s)) \in Starts(p, s) /\ Min(Starts(p, s)) \in Starts(p, s)
           /\ \A x \in Starts(p, s) :
                 x \in Int /\ Min(Starts(p, s)) <= x /\ x <= Max(Starts(p, s))
<1> DEFINE I == {i \in DOMAIN s : BucketOf(p, s, i) # NoBucket}
           f == [i \in I |-> BucketOf(p, s, i).start]
           S == {f[i] : i \in I}
<1>1. Starts(p, s) = S
  <2>1. Starts(p, s) \subseteq S
    BY DEF Starts, Held
  <2>2. S \subseteq Starts(p, s)
    BY DEF Starts, Held
  <2> QED
    BY <2>1, <2>2
<1>2. \A i \in I : f[i] \in Int
  <2> TAKE i \in I
  <2>1. BucketOf(p, s, i) \in AllBuckets(p)
    BY HeldFacts
  <2>2. BucketOf(p, s, i).start \in Int
    BY <2>1, BucketShape
  <2> QED
    BY <2>2
<1>3. n \in Nat /\ I \in SUBSET (1 .. n) /\ I # {}
  BY DEF IsPart, Held
<1> HIDE DEF I, f
<1>4. Max(S) \in S /\ \A x \in S : x <= Max(S)
  BY <1>2, <1>3, MaxOfList
<1>5. Min(S) \in S /\ \A x \in S : Min(S) <= x
  BY <1>2, <1>3, MinOfList
<1>6. \A x \in S : x \in Int
  BY <1>2
<1> HIDE DEF S
<1> QED
  BY <1>1, <1>4, <1>5, <1>6

(* Every bucket that holds a bar is listed, and after each listed bucket,  *)
(* or at it, there is one that holds a bar.                                *)
LEMMA HeldIsListed ==
    ASSUME NEW p, IsPolicy(p), NEW s, NEW n, IsPart(s, n)
    PROVE  /\ Held(p, s) \subseteq Buckets(p, s)
           /\ Buckets(p, s) \subseteq AllBuckets(p)
           /\ \A b \in Buckets(p, s) : \E h \in Held(p, s) : b.start <= h.start
<1> DEFINE first == Min(Starts(p, s))
           last == Max(Starts(p, s))
<1>1. CASE Held(p, s) = {}
  BY <1>1 DEF Buckets, Held, BucketOf
<1>2. CASE Held(p, s) # {} /\ IsFixedPolicy(p)
  <2>1. Buckets(p, s) = {FixedBucket(p, first + k * p.width) : k \in 0 .. (last - first) \div p.width}
    BY <1>2, FixedFacts DEF Buckets, Held, BucketOf, Starts
  <2>2. p.anchor \in Int /\ p.width \in Nat \ {0}
    BY <1>2, FixedFacts
  <2>3. /\ first \in Starts(p, s) /\ last \in Starts(p, s) /\ first \in Int /\ last \in Int
        /\ \A h \in Held(p, s) : h.start \in Int /\ first <= h.start /\ h.start <= last
    BY <1>2, StartsFacts DEF Starts
  <2>4. \A h \in Held(p, s) : \E q \in Int : h = Fixed(p, q) /\ h.start = p.anchor + q * p.width
    BY <1>2, HeldFacts, FixedBuckets, GridShape
  <2>5. PICK q0 \in Int : first = p.anchor + q0 * p.width
    BY <2>3, <2>4 DEF Starts
  <2>6. PICK q1 \in Int : last = p.anchor + q1 * p.width
    BY <2>3, <2>4 DEF Starts
  <2> HIDE DEF first, last
  <2>7. q0 * p.width \in Int /\ q1 * p.width \in Int
    BY <2>2
  <2>8. (last - first) \div p.width = q1 - q0
    <3>1. (q1 - q0) * p.width = q1 * p.width - q0 * p.width /\ q1 - q0 \in Int
      BY <2>2
    <3>2. last - first = (q1 - q0) * p.width
      BY <2>2, <2>5, <2>6, <2>7, <3>1
    <3>3. (q1 - q0) * p.width <= last - first /\ last - first < (q1 - q0) * p.width + p.width
          /\ last - first \in Int
      BY <2>2, <2>3, <3>1, <3>2
    <3> QED
      BY <2>2, <3>1, <3>3, MultipleIsOne
  <2>9. ASSUME NEW k \in Int
        PROVE  /\ first + k * p.width = p.anchor + (q0 + k) * p.width
               /\ FixedBucket(p, first + k * p.width) = Fixed(p, q0 + k)
    <3>1. (q0 + k) * p.width = q0 * p.width + k * p.width /\ k * p.width \in Int /\ q0 + k \in Int
      BY <2>2
    <3>2. first + k * p.width = p.anchor + (q0 + k) * p.width
      BY <2>2, <2>5, <2>7, <3>1
    <3>3. Fixed(p, q0 + k).start = first + k * p.width
          /\ Fixed(p, q0 + k).end = first + k * p.width + p.width
          /\ first + k * p.width \in Int
      BY <1>2, <2>3, <3>1, <3>2, GridShape
    <3>4. Within(first + k * p.width, Fixed(p, q0 + k))
      BY <2>2, <3>3 DEF Within
    <3> QED
      BY <1>2, <3>1, <3>2, <3>3, <3>4, GridIsFixed
  <2>10. Held(p, s) \subseteq Buckets(p, s)
    <3> SUFFICES ASSUME NEW h \in Held(p, s) PROVE h \in Buckets(p, s)
      OBVIOUS
    <3>1. PICK q \in Int : h = Fixed(p, q) /\ h.start = p.anchor + q * p.width
      BY <2>4
    <3>2. q * p.width \in Int
      BY <2>2
    <3> DEFINE Beyond(x, y) == ~(p.anchor + y <= p.anchor + x)
    <3>b. \A x, y \in Int : x + p.width <= y => Beyond(x, y)
      BY <2>2
    <3> HIDE DEF Beyond
    <3>3. ~(q < q0) /\ ~(q1 < q)
      <4>0. first <= h.start /\ h.start <= last /\ h.start \in Int
        BY <2>3
      <4>1. CASE q < q0
        <5>1. q * p.width + p.width <= q0 * p.width
          BY <2>2, <4>1, MultiplesApart
        <5>2. Beyond(q * p.width, q0 * p.width)
          BY <2>7, <3>2, <3>b, <5>1
        <5> QED
          BY <2>5, <3>1, <4>0, <5>2 DEF Beyond
      <4>2. CASE q1 < q
        <5>1. q1 * p.width + p.width <= q * p.width
          BY <2>2, <4>2, MultiplesApart
        <5>2. Beyond(q1 * p.width, q * p.width)
          BY <2>7, <3>2, <3>b, <5>1
        <5> QED
          BY <2>6, <3>1, <4>0, <5>2 DEF Beyond
      <4> QED
        BY <4>1, <4>2
    <3>4. q - q0 \in 0 .. q1 - q0 /\ q0 + (q - q0) = q /\ q - q0 \in Int
      BY <3>3
    <3>5. FixedBucket(p, first + (q - q0) * p.width) = h
      BY <2>9, <3>1, <3>4
    <3> QED
      BY <2>1, <2>8, <3>4, <3>5
  <2>11. ASSUME NEW b \in Buckets(p, s)
         PROVE  b \in AllBuckets(p) /\ \E h \in Held(p, s) : b.start <= h.start
    <3>1. PICK k \in 0 .. q1 - q0 : b = FixedBucket(p, first + k * p.width)
      BY <2>1, <2>8
    <3>2. k \in Int /\ q0 + k \in Int /\ q0 + k <= q1
      BY <3>1
    <3>3. b = Fixed(p, q0 + k)
      BY <2>9, <3>1, <3>2
    <3>4. b \in AllBuckets(p) /\ b.start = p.anchor + (q0 + k) * p.width /\ b.start \in Int
      BY <1>2, <3>2, <3>3, GridShape
    <3>5. (q0 + k) * p.width <= q1 * p.width /\ (q0 + k) * p.width \in Int
      <4>1. CASE q0 + k = q1
        BY <2>7, <4>1
      <4>2. CASE q0 + k < q1
        <5>1. (q0 + k) * p.width + p.width <= q1 * p.width /\ (q0 + k) * p.width \in Int
          BY <2>2, <3>2, <4>2, MultiplesApart
        <5> QED
          BY <2>2, <2>7, <5>1
      <4> QED
        BY <3>2, <4>1, <4>2
    <3>6. b.start <= last
      BY <2>2, <2>6, <2>7, <3>4, <3>5
    <3>7. \E h \in Held(p, s) : h.start = last
      BY <2>3 DEF Starts
    <3> QED
      BY <3>4, <3>6, <3>7
  <2> QED
    BY <2>10, <2>11
<1>3. CASE Held(p, s) # {} /\ IsExplicitPolicy(p)
  <2>1. Buckets(p, s) = {p.boundaries[k] : k \in {k \in DOMAIN p.boundaries :
                            first <= p.boundaries[k].start /\ p.boundaries[k].start <= last}}
    BY <1>3, ExplicitFacts DEF Buckets, Held, BucketOf, Starts
  <2>2. /\ last \in Starts(p, s)
        /\ \A h \in Held(p, s) : first <= h.start /\ h.start <= last
    BY <1>3, StartsFacts DEF Starts
  <2>3. \A h \in Held(p, s) : \E k \in DOMAIN p.boundaries : h = p.boundaries[k]
    BY <1>3, HeldFacts, ExplicitFacts
  <2>4. \E h \in Held(p, s) : h.start = last
    BY <2>2 DEF Starts
  <2> HIDE DEF first, last
  <2> QED
    BY <1>3, <2>1, <2>2, <2>3, <2>4, ExplicitFacts
<1> QED
  BY <1>1, <1>2, <1>3 DEF IsPolicy

-----------------------------------------------------------------------------
(* Targets *)

LEMMA MemberFacts ==
    ASSUME NEW p, IsPolicy(p), NEW s, NEW n, IsPart(s, n), NEW b \in AllBuckets(p)
    PROVE  /\ Members(p, s, b) \subseteq DOMAIN s
           /\ \A i \in DOMAIN s : i \in Members(p, s, b) <=> Within(s[i].timestamp, b)
           /\ Members(p, s, b) # {} => b \in Held(p, s)
           /\ Members(p, s, b) # {} => Max(Members(p, s, b)) \in Members(p, s, b)
<1>1. /\ Members(p, s, b) \subseteq DOMAIN s
      /\ \A i \in DOMAIN s : i \in Members(p, s, b) <=> BucketOf(p, s, i) = b
  BY DEF Members, BucketOf
<1>2. b # NoBucket
  BY BucketShape
<1>3. \A i \in DOMAIN s : BucketOf(p, s, i) = b <=> Within(s[i].timestamp, b)
  <2> TAKE i \in DOMAIN s
  <2>1. s[i].timestamp \in Int
    BY PartFacts
  <2>2. BucketOf(p, s, i) = b => Within(s[i].timestamp, b)
    BY <1>2, HeldFacts
  <2>3. Within(s[i].timestamp, b) => BucketOf(p, s, i) = b
    BY <2>1, BucketIsTheOne DEF BucketOf
  <2> QED
    BY <2>2, <2>3
<1>4. Members(p, s, b) # {} => b \in Held(p, s)
  BY <1>1, <1>2 DEF Held
<1>5. ASSUME Members(p, s, b) # {} PROVE Max(Members(p, s, b)) \in Members(p, s, b)
  <2> DEFINE I == Members(p, s, b)
             id == [i \in I |-> i]
  <2>1. n \in Nat /\ I \in SUBSET (1 .. n) /\ I # {}
    BY <1>1, <1>5 DEF IsPart
  <2>2. (\A i \in I : id[i] \in Int) /\ {id[i] : i \in I} = I
    <3> HIDE DEF I
    <3>1. \A i \in I : i \in Int /\ id[i] = i
      BY <2>1
    <3> HIDE DEF id
    <3> QED
      BY <3>1
  <2>3. Max({id[i] : i \in I}) \in {id[i] : i \in I}
    <3> HIDE DEF I, id
    <3> QED
      BY <2>1, <2>2, MaxOfList
  <2> QED
    BY <2>2, <2>3
<1> QED
  BY <1>1, <1>3, <1>4, <1>5

Filled(p, s, b) == {s[i].timestamp : i \in Members(p, s, b)}

(* A bar in a slot ends within the bucket, so a bucket is rejected only    *)
(* for a bar in no slot.                                                   *)
LEMMA StatusMeans ==
    ASSUME NEW p, IsPolicy(p), NEW s, NEW n, IsPart(s, n), NEW b \in AllBuckets(p)
    PROVE  /\ Status(p, s, b) = "REJECTED" <=> ~(Filled(p, s, b) \subseteq b.expected)
           /\ Status(p, s, b) = "COMPLETE" <=> Filled(p, s, b) = b.expected
           /\ Status(p, s, b) \in {"REJECTED", "INCOMPLETE", "COMPLETE"}
<1>1. Filled(p, s, b) \subseteq b.expected =>
          \A i \in Members(p, s, b) : ~(s[i].end > b.end)
  <2> SUFFICES ASSUME Filled(p, s, b) \subseteq b.expected, NEW i \in Members(p, s, b)
               PROVE  ~(s[i].end > b.end)
    OBVIOUS
  <2>1. s[i].timestamp \in b.expected /\ i \in DOMAIN s
    BY MemberFacts DEF Filled
  <2>2. s[i].end = s[i].timestamp + SourceDuration /\ s[i].end \in Int
    BY <2>1, PartFacts
  <2>3. s[i].timestamp + SourceDuration <= b.end /\ b.end \in Int
    BY <2>1, BucketShape
  <2> QED
    BY <2>2, <2>3
<1> QED
  BY <1>1 DEF Status, Filled

Full(p, s) == {b \in AllBuckets(p) : Status(p, s, b) = "COMPLETE"}

LEMMA FullHoldsMembers ==
    ASSUME NEW p, IsPolicy(p), NEW s, NEW n, IsPart(s, n), NEW b \in Full(p, s)
    PROVE  b \in AllBuckets(p) /\ Members(p, s, b) # {} /\ Filled(p, s, b) = b.expected
<1>1. b \in AllBuckets(p) /\ Filled(p, s, b) = b.expected
  BY StatusMeans DEF Full
<1>2. b.expected # {}
  BY <1>1, BucketShape
<1> QED
  BY <1>1, <1>2 DEF Filled

LEMMA TargetsAre ==
    ASSUME NEW p, IsPolicy(p), NEW s, NEW n, IsPart(s, n)
    PROVE  TargetBars(p, s) = {Aggregate(p, s, b) : b \in Full(p, s)}
<1>1. {b \in Buckets(p, s) : Status(p, s, b) = "COMPLETE"} \subseteq Full(p, s)
  BY HeldIsListed DEF Full
<1>2. Full(p, s) \subseteq {b \in Buckets(p, s) : Status(p, s, b) = "COMPLETE"}
  <2> SUFFICES ASSUME NEW b \in Full(p, s) PROVE b \in Buckets(p, s)
    BY DEF Full
  <2>1. b \in Held(p, s)
    BY FullHoldsMembers, MemberFacts
  <2> QED
    BY <2>1, HeldIsListed
<1> QED
  BY <1>1, <1>2 DEF TargetBars

LEMMA ConfirmedIsPart ==
    ASSUME NEW s, NEW n, IsPart(s, n), NEW time
    PROVE  /\ IsPart(Confirmed(s, time), n)
           /\ DOMAIN Confirmed(s, time) = {i \in DOMAIN s : VisibleAt(s[i], time)}
           /\ \A i \in DOMAIN Confirmed(s, time) : Confirmed(s, time)[i] = s[i]
<1> DEFINE c == Confirmed(s, time)
<1>1. /\ DOMAIN c = {i \in DOMAIN s : VisibleAt(s[i], time)}
      /\ \A i \in DOMAIN c : c[i] = s[i]
  BY DEF Confirmed, Restrict
<1> HIDE DEF c
<1>2. IsPart(c, n)
  BY <1>1 DEF IsPart, IsInput, IsSource
<1> QED
  BY <1>1, <1>2 DEF c

(* A bucket all of whose members are confirmed is the same bucket for both.*)
LEMMA SameMembers ==
    ASSUME NEW p, IsPolicy(p), NEW s, NEW n, IsPart(s, n), NEW time, NEW b \in AllBuckets(p),
           Members(p, s, b) \subseteq DOMAIN Confirmed(s, time)
    PROVE  LET c == Confirmed(s, time)
           IN  /\ Filled(p, c, b) = Filled(p, s, b)
               /\ Members(p, s, b) # {} => Aggregate(p, c, b) = Aggregate(p, s, b)
<1> DEFINE c == Confirmed(s, time)
<1>1. /\ IsPart(c, n) /\ DOMAIN c \subseteq DOMAIN s
      /\ \A i \in DOMAIN c : c[i] = s[i]
  BY ConfirmedIsPart
<1>2. DOMAIN Confirmed(s, time) = DOMAIN c
  OBVIOUS
<1> HIDE DEF c
<1>3. Members(p, c, b) = Members(p, s, b)
  <2>1. \A i \in DOMAIN c : i \in Members(p, c, b) <=> i \in Members(p, s, b)
    BY <1>1 DEF Members
  <2>2. Members(p, c, b) \subseteq DOMAIN c
    BY DEF Members
  <2> QED
    BY <1>2, <2>1, <2>2
<1>4. \A i \in Members(p, s, b) : c[i] = s[i]
  BY <1>1, <1>2
<1>5. Filled(p, c, b) = Filled(p, s, b)
  BY <1>3, <1>4 DEF Filled
<1>6. ASSUME Members(p, s, b) # {} PROVE Aggregate(p, c, b) = Aggregate(p, s, b)
  <2> DEFINE I == Members(p, s, b)
  <2>1. Max(I) \in I
    BY <1>6, MemberFacts
  <2>2. /\ {c[i].high : i \in I} = {s[i].high : i \in I}
        /\ {c[i].low : i \in I} = {s[i].low : i \in I}
        /\ {c[i].available : i \in I} = {s[i].available : i \in I}
        /\ c[Max(I)].close = s[Max(I)].close
    BY <1>4, <2>1
  <2> HIDE DEF I
  <2>3. Members(p, c, b) = I /\ Members(p, s, b) = I
    BY <1>3 DEF I
  <2> QED
    BY <2>2, <2>3 DEF Aggregate, TargetTime
<1> QED
  BY <1>5, <1>6 DEF c

(* A target is known when its bucket has ended and its members are known.  *)
LEMMA TargetTimeFacts ==
    ASSUME NEW p, IsPolicy(p), NEW s, NEW n, IsPart(s, n), NEW b \in AllBuckets(p)
    PROVE  LET t == TargetTime(s, Members(p, s, b), b)
           IN  /\ t \in Int /\ b.end <= t
               /\ \A i \in Members(p, s, b) : s[i].available <= t
<1> DEFINE I == {i + 1 : i \in Members(p, s, b)} \cup {1}
           f == [j \in I |-> IF j = 1 THEN b.end ELSE s[j - 1].available]
           S == {b.end} \cup {s[i].available : i \in Members(p, s, b)}
<1>1. /\ n \in Nat /\ \A i \in Members(p, s, b) : i \in 1 .. n /\ s[i].available \in Int
  BY MemberFacts, PartFacts DEF IsPart
<1>2. n + 1 \in Nat /\ I \in SUBSET (1 .. n + 1) /\ I # {}
  BY <1>1
<1>3. b.end \in Int /\ PublicationLag \in Nat
  BY BucketShape, ResampleAssumption
<1>4. /\ f[1] = b.end
      /\ \A i \in Members(p, s, b) : i + 1 \in I /\ f[i + 1] = s[i].available
  BY <1>1
<1>5. \A j \in I : j = 1 \/ \E i \in Members(p, s, b) : j = i + 1
  OBVIOUS
<1> HIDE DEF f
<1>6. \A j \in I : f[j] \in Int
  BY <1>1, <1>3, <1>4, <1>5
<1>7. {f[j] : j \in I} = S
  BY <1>4, <1>5
<1> HIDE DEF I
<1>8. Max({f[j] : j \in I}) \in {f[j] : j \in I}
      /\ \A x \in {f[j] : j \in I} : x <= Max({f[j] : j \in I})
  BY <1>2, <1>6, MaxOfList
<1>9. Max(S) \in Int /\ \A x \in S : x \in Int /\ x <= Max(S)
  BY <1>1, <1>3, <1>7, <1>8
<1>10. TargetTime(s, Members(p, s, b), b) = Max(S) + PublicationLag
  BY DEF TargetTime
<1> DEFINE m == Max(S)
<1>11. m \in Int /\ b.end <= m /\ \A i \in Members(p, s, b) : s[i].available <= m
  BY <1>9
<1> HIDE DEF m
<1>12. b.end <= m + PublicationLag /\ m + PublicationLag \in Int
       /\ \A i \in Members(p, s, b) : s[i].available <= m + PublicationLag
  BY <1>1, <1>3, <1>11
<1> QED
  BY <1>10, <1>12 DEF m

-----------------------------------------------------------------------------
(* Known so far *)

(* When slots tile a bucket, the members that complete it are all there    *)
(* ever will be.                                                           *)
LEMMA CompleteIsFinal ==
    ASSUME NEW p, IsPolicy(p), Tiled(p), NEW s, NEW n, IsPart(s, n), NEW time,
           NEW b \in Full(p, Confirmed(s, time))
    PROVE  Members(p, s, b) \subseteq DOMAIN Confirmed(s, time)
<1> DEFINE c == Confirmed(s, time)
<1>1. /\ IsPart(c, n) /\ DOMAIN c \subseteq DOMAIN s
      /\ \A i \in DOMAIN c : c[i] = s[i]
  BY ConfirmedIsPart
<1>2. b \in Full(p, c)
  OBVIOUS
<1>3. DOMAIN Confirmed(s, time) = DOMAIN c
  OBVIOUS
<1> HIDE DEF c
<1>4. b \in AllBuckets(p) /\ Filled(p, c, b) = b.expected
  BY <1>1, <1>2, FullHoldsMembers
<1> SUFFICES ASSUME NEW j \in Members(p, s, b) PROVE j \in DOMAIN c
  BY <1>3
<1>5. j \in DOMAIN s /\ Within(s[j].timestamp, b) /\ s[j].timestamp \in Int
  BY <1>4, MemberFacts, PartFacts
<1>6. PICK slot \in b.expected : slot <= s[j].timestamp /\ s[j].timestamp < slot + SourceDuration
  BY <1>4, <1>5, SlotsTile
<1>7. PICK i \in DOMAIN c : slot = c[i].timestamp
  BY <1>1, <1>4, MemberFacts DEF Filled
<1>8. i \in DOMAIN s /\ s[i].timestamp = slot
  BY <1>1, <1>7
<1>9. /\ i \in Nat /\ j \in Nat /\ s[i].timestamp \in Int
      /\ s[i].end = s[i].timestamp + SourceDuration
      /\ s[j].end = s[j].timestamp + SourceDuration
      /\ i < j => s[i].end <= s[j].timestamp
      /\ j < i => s[j].end <= s[i].timestamp
  BY <1>5, <1>8, PartFacts
<1>10. SourceDuration \in Nat \ {0}
  BY ResampleAssumption
<1>11. i = j
  BY <1>5, <1>6, <1>8, <1>9, <1>10
<1> QED
  BY <1>7, <1>11

LEMMA AsOfIsKnownBatch ==
    ASSUME NEW p, IsPolicy(p), Tiled(p), NEW s, NEW n, IsPart(s, n), NEW time \in Int
    PROVE  AsOfTargets(p, s, time) = {t \in Batch(p, s) : t.available <= time}
<1> DEFINE c == Confirmed(s, time)
<1>1. /\ IsPart(c, n)
      /\ DOMAIN c = {i \in DOMAIN s : VisibleAt(s[i], time)}
  BY ConfirmedIsPart
<1>2. /\ TargetBars(p, c) = {Aggregate(p, c, b) : b \in Full(p, c)}
      /\ TargetBars(p, s) = {Aggregate(p, s, b) : b \in Full(p, s)}
  BY <1>1, TargetsAre
<1>3. ASSUME NEW b \in AllBuckets(p), Members(p, s, b) \subseteq DOMAIN c, Members(p, s, b) # {}
      PROVE  Aggregate(p, c, b) = Aggregate(p, s, b) /\ (b \in Full(p, c) <=> b \in Full(p, s))
  <2>1. Filled(p, c, b) = Filled(p, s, b) /\ Aggregate(p, c, b) = Aggregate(p, s, b)
    BY <1>3, SameMembers
  <2> HIDE DEF c
  <2>2. b \in Full(p, c) <=> b \in Full(p, s)
    BY <1>1, <2>1, StatusMeans DEF Full
  <2> QED
    BY <2>1, <2>2
<1>4. ASSUME NEW b \in Full(p, c)
      PROVE  Aggregate(p, c, b) \in TargetBars(p, s)
  <2>1. b \in AllBuckets(p) /\ Members(p, c, b) # {}
    BY <1>1, FullHoldsMembers
  <2>2. Members(p, s, b) \subseteq DOMAIN c
    BY CompleteIsFinal
  <2>3. Members(p, s, b) # {}
    <3>1. \A i \in DOMAIN c : i \in DOMAIN s /\ c[i] = s[i]
      BY ConfirmedIsPart
    <3> HIDE DEF c
    <3> QED
      BY <2>1, <3>1 DEF Members
  <2>4. b \in Full(p, s) /\ Aggregate(p, c, b) = Aggregate(p, s, b)
    BY <1>3, <2>1, <2>2, <2>3
  <2> HIDE DEF c
  <2> QED
    BY <1>2, <2>4
<1>5. ASSUME NEW b \in Full(p, s), Aggregate(p, s, b).available <= time
      PROVE  Aggregate(p, s, b) \in TargetBars(p, c)
  <2>1. b \in AllBuckets(p) /\ Members(p, s, b) # {}
    BY FullHoldsMembers
  <2>2. Aggregate(p, s, b).available = TargetTime(s, Members(p, s, b), b)
    BY DEF Aggregate
  <2>3. ASSUME NEW i \in Members(p, s, b) PROVE i \in DOMAIN c
    <3>1. i \in DOMAIN s
      BY <2>1, MemberFacts
    <3>2. s[i].available \in Int /\ s[i].complete
      BY <3>1, PartFacts
    <3>3. /\ TargetTime(s, Members(p, s, b), b) \in Int
          /\ s[i].available <= TargetTime(s, Members(p, s, b), b)
      BY <2>1, TargetTimeFacts
    <3>4. s[i].available <= time
      BY <1>5, <2>2, <3>2, <3>3
    <3> HIDE DEF c
    <3> QED
      BY <1>1, <3>1, <3>2, <3>4 DEF VisibleAt
  <2>4. b \in Full(p, c) /\ Aggregate(p, c, b) = Aggregate(p, s, b)
    BY <1>3, <2>1, <2>3
  <2> HIDE DEF c
  <2> QED
    BY <1>2, <2>4
<1>6. AsOfTargets(p, s, time) = {t \in TargetBars(p, c) : t.available <= time}
  BY DEF AsOfTargets
<1> HIDE DEF c
<1>7. {t \in TargetBars(p, c) : t.available <= time}
          = {t \in TargetBars(p, s) : t.available <= time}
  BY <1>2, <1>4, <1>5
<1> QED
  BY <1>6, <1>7 DEF Batch

(* Whatever the slots, targets do not overlap and are known after they end.*)
LEMMA TargetsAreSource ==
    ASSUME NEW p, IsPolicy(p), NEW s, NEW n, IsPart(s, n),
           NEW t \in TargetBars(p, s), NEW u \in TargetBars(p, s)
    PROVE  /\ t # u => t.end <= u.timestamp \/ u.end <= t.timestamp
           /\ t.available >= t.end
<1>1. PICK b \in Full(p, s) : t = Aggregate(p, s, b)
  BY TargetsAre
<1>2. PICK d \in Full(p, s) : u = Aggregate(p, s, d)
  BY TargetsAre
<1>3. b \in AllBuckets(p) /\ d \in AllBuckets(p)
  BY DEF Full
<1>4. /\ t.timestamp = b.start /\ t.end = b.end
      /\ t.available = TargetTime(s, Members(p, s, b), b)
      /\ u.timestamp = d.start /\ u.end = d.end
  BY <1>1, <1>2 DEF Aggregate
<1>5. b.end \in Int /\ t.available \in Int /\ b.end <= t.available
  BY <1>3, <1>4, BucketShape, TargetTimeFacts
<1>6. t # u => b # d
  BY <1>1, <1>2
<1>7. t # u => t.end <= u.timestamp \/ u.end <= t.timestamp
  BY <1>3, <1>4, <1>6, BucketsApart
<1> QED
  BY <1>4, <1>5, <1>7

-----------------------------------------------------------------------------
(* Errors *)

Slots(p, s) == UNION {b.expected : b \in Buckets(p, s)}
InSlots(p, s) == \A i \in DOMAIN s : s[i].timestamp \in Slots(p, s)
HoleBefore(p, s, time) ==
    \E slot \in Slots(p, s) : slot < time /\ \A i \in DOMAIN s : s[i].timestamp # slot

(* A slot belongs to the bucket it lies in.                                *)
LEMMA SlotIsOfBucket ==
    ASSUME NEW p, IsPolicy(p), NEW s, NEW n, IsPart(s, n), NEW b \in Buckets(p, s),
           NEW i \in DOMAIN s, s[i].timestamp \in b.expected
    PROVE  BucketOf(p, s, i) = b /\ i \in Members(p, s, b)
<1>1. b \in AllBuckets(p)
  BY HeldIsListed
<1>2. Within(s[i].timestamp, b) /\ s[i].timestamp \in Int
  BY <1>1, BucketShape, PartFacts
<1> QED
  BY <1>1, <1>2, MemberFacts, BucketIsTheOne DEF BucketOf

LEMMA OutOfSlots ==
    ASSUME NEW p, IsPolicy(p), NEW s, NEW n, IsPart(s, n)
    PROVE  ~InSlots(p, s) <=> \/ Outside(p, s) # {}
                              \/ \E b \in Buckets(p, s) : Status(p, s, b) = "REJECTED"
<1>0. Held(p, s) \subseteq Buckets(p, s) /\ Buckets(p, s) \subseteq AllBuckets(p)
  BY HeldIsListed
<1>1. ASSUME NEW i \in Outside(p, s) PROVE ~InSlots(p, s)
  <2>1. i \in DOMAIN s /\ BucketOf(p, s, i) = NoBucket
    BY DEF Outside, BucketOf
  <2>2. ASSUME NEW b \in Buckets(p, s) PROVE s[i].timestamp \notin b.expected
    <3>1. b # NoBucket
      BY <1>0, BucketShape
    <3> QED
      BY <2>1, <3>1, SlotIsOfBucket
  <2> QED
    BY <2>1, <2>2 DEF InSlots, Slots
<1>2. ASSUME NEW b \in Buckets(p, s), Status(p, s, b) = "REJECTED" PROVE ~InSlots(p, s)
  <2>1. PICK i \in Members(p, s, b) : s[i].timestamp \notin b.expected
    BY <1>0, <1>2, StatusMeans DEF Filled
  <2>2. i \in DOMAIN s /\ BucketOf(p, s, i) = b
    BY DEF Members, BucketOf
  <2>3. ASSUME NEW d \in Buckets(p, s) PROVE s[i].timestamp \notin d.expected
    BY <2>1, <2>2, SlotIsOfBucket
  <2> QED
    BY <2>2, <2>3 DEF InSlots, Slots
<1>3. ASSUME NEW i \in DOMAIN s, s[i].timestamp \notin Slots(p, s), Outside(p, s) = {}
      PROVE  \E b \in Buckets(p, s) : Status(p, s, b) = "REJECTED"
  <2> DEFINE b == BucketOf(p, s, i)
  <2>1. b # NoBucket
    BY <1>3 DEF Outside, BucketOf
  <2>2. b \in Held(p, s) /\ i \in Members(p, s, b)
    BY <2>1, HeldFacts DEF Members, BucketOf
  <2>3. b \in Buckets(p, s) /\ b \in AllBuckets(p)
    BY <1>0, <2>2
  <2>4. s[i].timestamp \notin b.expected
    BY <1>3, <2>3 DEF Slots
  <2> HIDE DEF b
  <2>5. ~(Filled(p, s, b) \subseteq b.expected)
    BY <2>2, <2>4 DEF Filled
  <2> QED
    BY <2>3, <2>5, StatusMeans
<1> QED
  BY <1>1, <1>2, <1>3 DEF InSlots

(* An expected slot before the end of a source that no bar fills is no     *)
(* trailing truncation.                                                    *)
LEMMA HoleIsNotTrailing ==
    ASSUME NEW p, IsPolicy(p), NEW s, NEW n, IsPart(s, n), n \in DOMAIN s,
           InSlots(p, s), NEW b \in Buckets(p, s), NEW slot \in b.expected,
           slot < s[n].end, \A i \in DOMAIN s : s[i].timestamp # slot
    PROVE  /\ Status(p, s, b) = "INCOMPLETE"
           /\ ~TrailingTruncation(p, s, b)
<1>1. /\ Outside(p, s) = {} /\ Status(p, s, b) # "REJECTED"
      /\ Held(p, s) \subseteq Buckets(p, s) /\ b \in AllBuckets(p)
  BY OutOfSlots, HeldIsListed
<1>2. slot \notin Filled(p, s, b)
  BY <1>1, MemberFacts DEF Filled
<1>3. Status(p, s, b) = "INCOMPLETE"
  BY <1>1, <1>2, StatusMeans
<1>4. ASSUME TrailingTruncation(p, s, b) PROVE FALSE
  <2> DEFINE last == BucketOf(p, s, n)
             Ends == {s[i].end : i \in Members(p, s, b)}
  <2>1. /\ Members(p, s, b) # {}
        /\ \A other \in Buckets(p, s) : other.start <= b.start
        /\ slot >= Max(Ends)
    BY <1>2, <1>4 DEF TrailingTruncation, Filled
  <2>2. last # NoBucket
    BY <1>1 DEF Outside, BucketOf
  <2>3. last \in Held(p, s) /\ Within(s[n].timestamp, last)
    BY <2>2, HeldFacts
  <2>4. last \in AllBuckets(p) /\ last.start <= b.start
    BY <1>1, <2>1, <2>3, HeldFacts
  <2> HIDE DEF last
  <2>5. PICK i \in Members(p, s, b) : TRUE
    BY <2>1
  <2>6. i \in DOMAIN s /\ Within(s[i].timestamp, b)
    BY <1>1, MemberFacts
  <2>7. i \in Nat /\ n \in Nat /\ i <= n
    BY <2>6 DEF IsPart
  <2>8. /\ s[i].timestamp \in Int /\ s[i].end \in Int /\ s[n].timestamp \in Int /\ s[n].end \in Int
        /\ s[i].end = s[i].timestamp + SourceDuration
        /\ i < n => s[i].end <= s[n].timestamp
    BY <2>6, PartFacts
  <2>9. s[i].timestamp <= s[n].timestamp
    BY <2>7, <2>8, ResampleAssumption
  <2>10. last = b
    <3>1. /\ b.start \in Int /\ b.end \in Int /\ b.start < b.end
          /\ last.start \in Int /\ last.end \in Int /\ last.start < last.end
      BY <1>1, <2>4, BucketShape
    <3>2. ~(last.end <= b.start) /\ ~(b.end <= last.start)
      BY <2>3, <2>4, <2>6, <2>8, <2>9, <3>1 DEF Within
    <3> QED
      BY <1>1, <2>4, <3>2, BucketsApart
  <2>11. n \in Members(p, s, b)
    BY <1>1, <2>3, <2>10, MemberFacts
  <2>12. s[n].end <= Max(Ends) /\ Max(Ends) \in Int
    <3> DEFINE I == Members(p, s, b)
               f == [j \in I |-> s[j].end]
    <3>1. n \in Nat /\ I \in SUBSET (1 .. n) /\ I # {}
      BY <1>1, <2>1, MemberFacts DEF IsPart
    <3>2. \A j \in I : f[j] = s[j].end /\ f[j] \in Int
      BY <1>1, MemberFacts, PartFacts
    <3>3. {f[j] : j \in I} = Ends
      BY <3>2
    <3>4. /\ Max({f[j] : j \in I}) \in {f[j] : j \in I}
          /\ \A x \in {f[j] : j \in I} : x <= Max({f[j] : j \in I})
      <4> HIDE DEF I, f
      <4> QED
        BY <3>1, <3>2, MaxOfList
    <3>5. s[n].end \in Ends /\ \A x \in Ends : x \in Int
      BY <2>11, <3>2, <3>3
    <3> HIDE DEF I, f, Ends
    <3> QED
      BY <3>3, <3>4, <3>5
  <2>13. slot \in Int
    BY <1>1, BucketShape
  <2> HIDE DEF Ends
  <2> QED
    BY <2>1, <2>8, <2>12, <2>13
<1> QED
  BY <1>3, <1>4

(* Conversely what is missing from a bucket that is not merely cut off is  *)
(* a hole: a later bar exists.                                             *)
LEMMA MissingIsHole ==
    ASSUME NEW p, IsPolicy(p), NEW s, NEW n, IsPart(s, n), n \in DOMAIN s,
           NEW b \in Buckets(p, s), Status(p, s, b) = "INCOMPLETE", ~TrailingTruncation(p, s, b)
    PROVE  HoleBefore(p, s, s[n].end)
<1> DEFINE Ends == {s[i].end : i \in Members(p, s, b)}
           L == s[n].end
<1>1. b \in AllBuckets(p)
  BY HeldIsListed
<1>2. /\ Filled(p, s, b) # b.expected /\ Filled(p, s, b) \subseteq b.expected
  BY <1>1, StatusMeans
<1>3. L \in Int /\ \A i \in DOMAIN s : i <= n /\ s[i].end \in Int /\ s[i].end <= L
  <2> SUFFICES ASSUME NEW i \in DOMAIN s PROVE i <= n /\ s[i].end \in Int /\ s[i].end <= L
    BY PartFacts
  <2>1. i \in Nat /\ n \in Nat /\ i <= n
    BY DEF IsPart
  <2>2. /\ s[i].end \in Int /\ s[n].end \in Int /\ s[n].timestamp \in Int
        /\ s[n].end = s[n].timestamp + SourceDuration
        /\ i < n => s[i].end <= s[n].timestamp
    BY <2>1, PartFacts
  <2> QED
    BY <2>1, <2>2, ResampleAssumption
<1>4. ASSUME NEW slot \in b.expected \ Filled(p, s, b), slot < L
      PROVE  HoleBefore(p, s, L)
  <2>1. ASSUME NEW i \in DOMAIN s PROVE s[i].timestamp # slot
    BY SlotIsOfBucket DEF Filled
  <2> QED
    BY <1>4, <2>1 DEF HoleBefore, Slots
<1>5. PICK missing \in b.expected \ Filled(p, s, b) : TRUE
  BY <1>2
<1>6. ASSUME NEW h \in Held(p, s), b.start < h.start PROVE missing < L
  <2>1. PICK i \in DOMAIN s : h = BucketOf(p, s, i) /\ h # NoBucket
    BY DEF Held
  <2>2. Within(s[i].timestamp, h) /\ h \in AllBuckets(p)
    BY <2>1, HeldFacts
  <2>3. /\ b.start \in Int /\ b.end \in Int /\ b.start < b.end
        /\ h.start \in Int /\ h.end \in Int /\ h.start < h.end
        /\ missing \in Int /\ missing + SourceDuration <= b.end
    BY <1>1, <2>2, BucketShape
  <2>4. b.end <= h.start
    BY <1>1, <1>6, <2>2, <2>3, BucketsApart
  <2>5. s[i].end = s[i].timestamp + SourceDuration /\ s[i].timestamp \in Int
    BY PartFacts
  <2> HIDE DEF L
  <2> QED
    BY <1>3, <2>2, <2>3, <2>4, <2>5, ResampleAssumption DEF Within
<1>7. CASE \E h \in Held(p, s) : b.start < h.start
  BY <1>4, <1>5, <1>6, <1>7
<1>8. CASE ~\E h \in Held(p, s) : b.start < h.start
  <2>1. ASSUME NEW other \in Buckets(p, s) PROVE other.start <= b.start
    <3>1. PICK h \in Held(p, s) : other.start <= h.start
      BY HeldIsListed
    <3>2. other \in AllBuckets(p) /\ h \in AllBuckets(p)
      BY HeldIsListed, HeldFacts
    <3>3. other.start \in Int /\ h.start \in Int /\ b.start \in Int
      BY <1>1, <3>2, BucketShape
    <3> QED
      BY <1>8, <3>1, <3>3
  <2>2. Members(p, s, b) # {}
    <3>1. PICK h \in Held(p, s) : b.start <= h.start
      BY HeldIsListed
    <3>2. h \in AllBuckets(p)
      BY HeldFacts
    <3>3. /\ h.start \in Int /\ b.start \in Int /\ h.end \in Int /\ b.end \in Int
          /\ h.start < h.end /\ b.start < b.end
      BY <1>1, <3>2, BucketShape
    <3>4. h.start = b.start
      BY <1>8, <3>1, <3>3
    <3>5. h = b
      BY <1>1, <3>2, <3>3, <3>4, BucketsApart
    <3> QED
      BY <3>5, HeldFacts
  <2>3. PICK slot \in b.expected \ Filled(p, s, b) : ~(slot >= Max(Ends))
    BY <2>1, <2>2 DEF TrailingTruncation, Filled
  <2>4. Max(Ends) \in Int /\ Max(Ends) <= L
    <3> DEFINE I == Members(p, s, b)
               f == [j \in I |-> s[j].end]
    <3>1. n \in Nat /\ I \in SUBSET (1 .. n) /\ I # {}
      BY <1>1, <2>2, MemberFacts DEF IsPart
    <3>2. \A j \in I : f[j] = s[j].end /\ f[j] \in Int /\ f[j] <= L
      BY <1>1, <1>3, MemberFacts
    <3>3. {f[j] : j \in I} = Ends
      BY <3>2
    <3>4. Max({f[j] : j \in I}) \in {f[j] : j \in I}
      <4> HIDE DEF I, f
      <4> QED
        BY <3>1, <3>2, MaxOfList
    <3> HIDE DEF I, f, Ends
    <3> QED
      BY <3>2, <3>3, <3>4
  <2>5. slot \in Int
    BY <1>1, BucketShape
  <2>6. slot < L
    <3> HIDE DEF Ends, L
    <3> QED
      BY <1>3, <2>3, <2>4, <2>5
  <2> QED
    BY <1>4, <2>6
<1> QED
  BY <1>7, <1>8

LEMMA ErrorsMean ==
    ASSUME NEW p, IsPolicy(p), NEW s, NEW n, IsPart(s, n), n \in DOMAIN s
    PROVE  HasErrors(p, s, FALSE) <=> ~InSlots(p, s) \/ HoleBefore(p, s, s[n].end)
<1>1. HasErrors(p, s, FALSE) <=>
          \/ ~InSlots(p, s)
          \/ \E b \in Buckets(p, s) : Status(p, s, b) = "INCOMPLETE" /\ ~TrailingTruncation(p, s, b)
  BY OutOfSlots DEF HasErrors
<1>2. ASSUME NEW b \in Buckets(p, s), Status(p, s, b) = "INCOMPLETE", ~TrailingTruncation(p, s, b)
      PROVE  HoleBefore(p, s, s[n].end)
  BY <1>2, MissingIsHole
<1>3. ASSUME InSlots(p, s), HoleBefore(p, s, s[n].end)
      PROVE  \E b \in Buckets(p, s) : Status(p, s, b) = "INCOMPLETE" /\ ~TrailingTruncation(p, s, b)
  <2>1. PICK slot \in Slots(p, s) : slot < s[n].end /\ \A i \in DOMAIN s : s[i].timestamp # slot
    BY <1>3 DEF HoleBefore
  <2>2. PICK b \in Buckets(p, s) : slot \in b.expected
    BY DEF Slots
  <2> QED
    BY <1>3, <2>1, <2>2, HoleIsNotTrailing
<1> QED
  BY <1>1, <1>2, <1>3

-----------------------------------------------------------------------------
(* Rows *)

LEMMA InstantFacts ==
    ASSUME NEW row \in Rows, NEW time \in {row.time, row.other, row.observed}, NEW c \in Configs,
           Instant(time) # NoInstant
    PROVE  Instant(time) \in Nat /\ Instant(time) >= c.duration
<1>1. c.duration \in Nat
  BY IngestionAssumption DEF SourceDataConfigOK
<1>2. {Summer, Winter} \subseteq Int /\ NoOffset \notin {Summer, Winter}
  BY ZoneAssumption
<1>3. time.wall \in Int /\ \A offset \in {Summer, Winter} : time.wall - offset >= c.duration
  BY RowAssumption
<1>4. \A offset \in {Summer, Winter} :
          time.wall - offset \in Nat /\ time.wall - offset >= c.duration
  BY <1>1, <1>2, <1>3
<1>5. LocalCandidates(time.wall) \subseteq {Summer, Winter}
  BY DEF LocalCandidates
<1>6. \E offset \in {Summer, Winter} : Instant(time) = time.wall - offset
  <2> DEFINE candidates == LocalCandidates(time.wall)
  <2>1. CASE time.offset \in candidates
    BY <1>5, <2>1 DEF Instant
  <2>2. CASE /\ time.offset \notin candidates /\ time.offset = NoOffset
             /\ Cardinality(candidates) = 1
    <3>1. candidates # {}
      BY <2>2, FS_EmptySet
    <3>2. (CHOOSE o \in candidates : TRUE) \in candidates
      BY <3>1
    <3> QED
      BY <1>5, <2>2, <3>2 DEF Instant
  <2> QED
    BY <2>1, <2>2 DEF Instant
<1> QED
  BY <1>4, <1>6

LEMMA RowPassesTests ==
    ASSUME NEW c, NEW row, Failed(c, row) = {}
    PROVE  LET bar == BarOf(c, row)
               explicit == c.completion = "EXPLICIT_COLUMN"
           IN  /\ Instant(row.time) # NoInstant
               /\ c.otherColumn => Instant(row.other) # NoInstant
               /\ explicit => /\ Instant(row.observed) # NoInstant
                              /\ bar.complete => ~(bar.available < bar.end + c.lag)
                              /\ ~(bar.available < bar.timestamp)
               /\ ~(bar.end <= bar.timestamp)
               /\ c.duration # 0 => bar.end = bar.timestamp + c.duration
               /\ ~(row.high < row.low) /\ row.close \in row.low .. row.high
<1>1. DOMAIN Tests(c, row) = 1 .. 7
  BY DEF Tests
<1>2. \A k \in 1 .. 7 : ~Tests(c, row)[k].fails
  BY <1>1 DEF Failed
<1>3. ~Tests(c, row)[2].fails /\ ~Tests(c, row)[4].fails
      /\ ~Tests(c, row)[6].fails /\ ~Tests(c, row)[7].fails
  BY <1>2
<1> QED
  BY <1>3 DEF Tests

LEMMA RowIsBar ==
    ASSUME NEW c \in Configs, NEW row \in Rows, Failed(c, row) = {}
    PROVE  /\ BarOf(c, row) \in Bar
           /\ c.duration # 0 => BarOf(c, row).end = BarOf(c, row).timestamp + c.duration
<1> DEFINE bar == BarOf(c, row)
<1>1. /\ c.duration \in Nat /\ c.lag \in Nat /\ c.semantics \in {"OPEN_TIME", "CLOSE_TIME"}
      /\ c.completion \in {"ALL_ROWS_ARE_CLOSED", "EXPLICIT_COLUMN"}
      /\ c.otherColumn \in BOOLEAN
  BY IngestionAssumption DEF SourceDataConfigOK
<1>2. Instant(row.time) \in Nat /\ Instant(row.time) >= c.duration
  BY RowPassesTests, InstantFacts
<1>3. c.otherColumn => Instant(row.other) \in Nat
  BY RowPassesTests, InstantFacts
<1>4. c.completion = "EXPLICIT_COLUMN" => Instant(row.observed) \in Nat
  BY RowPassesTests, InstantFacts
<1>5. /\ bar.timestamp = Interval(c, row).start /\ bar.end = Interval(c, row).end
      /\ bar.available = Available(c, row) /\ bar.complete = IsComplete(c, row)
      /\ bar.high = row.high /\ bar.low = row.low /\ bar.close = row.close
  BY DEF BarOf
<1>6. bar.timestamp \in Nat /\ bar.end \in Nat
  BY <1>1, <1>2, <1>3, <1>5 DEF Interval
<1>7. /\ c.completion = "ALL_ROWS_ARE_CLOSED" => bar.available = c.lag + bar.end
      /\ c.completion = "EXPLICIT_COLUMN" => bar.available = c.lag + Instant(row.observed)
  BY <1>5 DEF Available
<1>8. bar.available \in Nat
  BY <1>1, <1>4, <1>6, <1>7
<1>9. /\ bar.complete \in BOOLEAN
      /\ c.completion = "ALL_ROWS_ARE_CLOSED" => bar.complete
  BY <1>5 DEF IsComplete
<1>10. {bar.high, bar.low, bar.close} \subseteq Int
  BY <1>5, RowAssumption
<1>11. bar.timestamp < bar.end
  BY <1>6, RowPassesTests
<1>12. /\ bar.timestamp <= bar.available
       /\ bar.complete => bar.end <= bar.available
  <2>1. CASE c.completion = "ALL_ROWS_ARE_CLOSED"
    BY <1>1, <1>6, <1>7, <1>11, <2>1
  <2>2. CASE c.completion = "EXPLICIT_COLUMN"
    <3>1. /\ bar.complete => ~(bar.available < bar.end + c.lag)
          /\ ~(bar.available < bar.timestamp)
      BY <2>2, RowPassesTests
    <3> HIDE DEF bar
    <3> QED
      BY <1>1, <1>6, <1>8, <3>1
  <2> QED
    BY <1>1, <2>1, <2>2
<1>13. bar.low <= bar.close /\ bar.close <= bar.high
  BY <1>5, <1>10, RowPassesTests
<1>14. bar \in [timestamp : Nat, end : Nat, available : Nat, complete : BOOLEAN,
                high : Int, low : Int, close : Int]
  <2>1. bar = [timestamp |-> bar.timestamp, end |-> bar.end, available |-> bar.available,
               complete |-> bar.complete, high |-> bar.high, low |-> bar.low, close |-> bar.close]
    BY DEF BarOf
  <2> HIDE DEF bar
  <2> QED
    BY <1>6, <1>8, <1>9, <1>10, <2>1
<1> QED
  BY <1>11, <1>12, <1>13, <1>14, RowPassesTests DEF Bar

-----------------------------------------------------------------------------
(* The load and the calls *)

Categories == {Rejection(c, row) : c \in Configs, row \in Rows}

(* Each row read is a bar or an issue, and bars are what their rows say.   *)
LoadInv ==
    /\ config \in Configs
    /\ rows \in Seq(Rows) /\ loaded \in Seq(Bar) /\ issues \in Seq(Categories)
    /\ Len(rows) = Len(loaded) + Len(issues)
    /\ config.duration # 0 =>
           \A k \in DOMAIN loaded : loaded[k].end = loaded[k].timestamp + config.duration
    /\ status = "LOADED" /\ config.strict => ~ReportHasErrors(config, loaded, issues)

(* What the last call returned is what the loaded bars give.               *)
Answered ==
    IF raised THEN targets = {}
    ELSE ~InputRefused /\ targets = AsOfTargets(resampler.policy, loaded, asOf)

CallInv ==
    \/ resampler = NoResampler /\ targets = {}
    \/ /\ status = "LOADED" /\ resampler \in Resamplers /\ asOf \in Times
       /\ raised \in BOOLEAN /\ Answered

Inv == LoadInv /\ CallInv

LEMMA InitInv == InitIngestion => Inv
<1> SUFFICES ASSUME InitIngestion PROVE Inv
  OBVIOUS
<1>1. LoadInv
  BY DEF InitIngestion, LoadInv
<1>2. CallInv
  BY DEF InitIngestion, CallInv
<1> QED
  BY <1>1, <1>2 DEF Inv

LEMMA ReadRowKeeps ==
    ASSUME Inv, NEW row \in Rows, ReadRow(row)
    PROVE  Inv'
<1>1. /\ config' = config /\ status' = status /\ status = "READING" /\ rows' = Append(rows, row)
      /\ UNCHANGED callVars
  BY DEF ReadRow
<1>2. /\ config \in Configs /\ rows \in Seq(Rows) /\ loaded \in Seq(Bar)
      /\ issues \in Seq(Categories) /\ Len(rows) = Len(loaded) + Len(issues)
  BY DEF Inv, LoadInv
<1>3. rows' \in Seq(Rows) /\ Len(rows') = Len(rows) + 1
  <2>1. rows \in Seq(Rows) /\ row \in Rows /\ rows' = Append(rows, row)
    BY <1>1, <1>2
  <2> QED
    BY <2>1
<1>4. CASE Failed(config, row) = {}
  <2>1. loaded' = Append(loaded, BarOf(config, row)) /\ issues' = issues
    BY <1>4 DEF ReadRow
  <2>2. BarOf(config, row) \in Bar
    BY <1>2, <1>4, RowIsBar
  <2>3. /\ loaded' \in Seq(Bar) /\ Len(loaded') = Len(loaded) + 1
        /\ DOMAIN loaded' = DOMAIN loaded \cup {Len(loaded) + 1}
        /\ \A k \in DOMAIN loaded : loaded'[k] = loaded[k]
        /\ loaded'[Len(loaded) + 1] = BarOf(config, row)
    BY <1>2, <2>1, <2>2
  <2>4. ASSUME config.duration # 0, NEW k \in DOMAIN loaded'
        PROVE  loaded'[k].end = loaded'[k].timestamp + config.duration
    <3>1. CASE k \in DOMAIN loaded
      BY <2>3, <2>4, <3>1 DEF Inv, LoadInv
    <3>2. CASE k = Len(loaded) + 1
      BY <1>2, <1>4, <2>3, <2>4, <3>2, RowIsBar
    <3> QED
      BY <2>3, <3>1, <3>2
  <2> QED
    BY <1>1, <1>2, <1>3, <2>1, <2>3, <2>4 DEF Inv, LoadInv, CallInv, callVars
<1>5. CASE Failed(config, row) # {}
  <2>1. issues' = Append(issues, Rejection(config, row)) /\ loaded' = loaded
    BY <1>5 DEF ReadRow
  <2>2. Rejection(config, row) \in Categories
    BY <1>2 DEF Categories
  <2>3. issues' \in Seq(Categories) /\ Len(issues') = Len(issues) + 1
    BY <1>2, <2>1, <2>2
  <2> QED
    BY <1>1, <1>2, <1>3, <2>1, <2>3 DEF Inv, LoadInv, CallInv, callVars
<1> QED
  BY <1>4, <1>5

LEMMA FinishKeeps == Inv /\ Finish => Inv'
<1> SUFFICES ASSUME Inv, Finish PROVE Inv'
  OBVIOUS
<1>1. /\ status = "READING" /\ UNCHANGED <<config, rows, loaded, issues, callVars>>
      /\ status' = IF config.strict /\ ReportHasErrors(config, loaded, issues)
                   THEN "RAISED" ELSE "LOADED"
  BY DEF Finish
<1>2. LoadInv'
  BY <1>1 DEF Inv, LoadInv
<1>3. CallInv'
  BY <1>1 DEF Inv, CallInv, callVars
<1> QED
  BY <1>2, <1>3 DEF Inv

LEMMA ResampleKeeps ==
    ASSUME Inv, NEW r \in Resamplers, NEW time \in Times, ResampleAsOf(r, time)
    PROVE  Inv'
<1>1. UNCHANGED loadVars /\ resampler' = r /\ asOf' = time /\ status = "LOADED"
  BY DEF ResampleAsOf
<1>2. LoadInv'
  BY <1>1 DEF Inv, LoadInv, loadVars
<1>3. InputRefused' = InputRefused
  BY <1>1 DEF InputRefused, loadVars
<1>4. /\ raised' \in BOOLEAN /\ (~raised' => ~InputRefused)
      /\ targets' = IF raised' THEN {} ELSE AsOfTargets(r.policy, loaded, time)
  BY DEF ResampleAsOf
<1>5. CallInv'
  BY <1>1, <1>3, <1>4 DEF CallInv, Answered, loadVars
<1> QED
  BY <1>2, <1>5 DEF Inv

LEMMA NextKeeps == Inv /\ [NextIngestion]_ingestionVars => Inv'
<1> SUFFICES ASSUME Inv, [NextIngestion]_ingestionVars PROVE Inv'
  OBVIOUS
<1>1. ASSUME NEW row \in Rows, ReadRow(row) PROVE Inv'
  BY <1>1, ReadRowKeeps
<1>2. CASE Finish
  BY <1>2, FinishKeeps
<1>3. ASSUME NEW r \in Resamplers, NEW time \in Times, ResampleAsOf(r, time) PROVE Inv'
  BY <1>3, ResampleKeeps
<1>4. CASE UNCHANGED ingestionVars
  BY <1>4 DEF ingestionVars, loadVars, callVars, Inv, LoadInv, CallInv, Answered, InputRefused
<1> QED
  BY <1>1, <1>2, <1>3, <1>4 DEF NextIngestion

LEMMA InvHolds == IngestionSpec => []Inv
BY InitInv, NextKeeps, PTL DEF IngestionSpec

-----------------------------------------------------------------------------
(* Theorems *)

(* Rows that follow one another without overlap are a source, however far  *)
(* apart two bars are.                                                     *)
LEMMA CleanIsSource ==
    ASSUME LoadInv, config.duration # 0
    PROVE  ~ReportHasErrors(config, loaded, issues) <=> Len(loaded) = Len(rows) /\ IsSource(loaded)
<1> DEFINE n == Len(loaded)
           lo == [k \in 1 .. n |-> loaded[k].timestamp]
           hi == [k \in 1 .. n |-> loaded[k].end]
<1>1. /\ n \in Nat /\ DOMAIN loaded = 1 .. n /\ Len(issues) \in Nat /\ Len(rows) \in Nat
      /\ Len(rows) = n + Len(issues)
      /\ issues = <<>> <=> Len(issues) = 0
  BY DEF LoadInv
<1>2. \A k \in 1 .. n : /\ loaded[k].timestamp \in Nat /\ loaded[k].end \in Nat
                        /\ loaded[k].timestamp < loaded[k].end
  <2> TAKE k \in 1 .. n
  <2>1. loaded[k] \in Bar
    BY <1>1 DEF LoadInv
  <2> QED
    BY <2>1 DEF Bar
<1> HIDE DEF n
<1>3. ASSUME ~ReportHasErrors(config, loaded, issues) PROVE n = Len(rows) /\ IsSource(loaded)
  <2>1. /\ issues = <<>> /\ Duplicates(loaded) = {} /\ OutOfOrder(loaded) = {}
        /\ Overlaps(config, loaded) = {}
    BY <1>3 DEF ReportHasErrors
  <2>2. ASSUME NEW k \in 1 .. n, k > 1 PROVE loaded[k - 1].end <= loaded[k].timestamp
    <3>1. k \in DOMAIN loaded \ {1} /\ k - 1 \in 1 .. k - 1 /\ k - 1 \in 1 .. n
      BY <1>1, <2>2
    <3>2. /\ loaded[k].timestamp \in Nat /\ loaded[k - 1].timestamp \in Nat
          /\ loaded[k - 1].end \in Nat
      BY <1>2, <3>1
    <3>3. ~(loaded[k].timestamp < loaded[k - 1].timestamp)
      BY <2>1, <3>1 DEF OutOfOrder
    <3>4. loaded[k - 1].timestamp # loaded[k].timestamp
      BY <2>1, <3>1 DEF Duplicates
    <3>5. loaded[k].timestamp > loaded[k - 1].timestamp => ~(loaded[k].timestamp < loaded[k - 1].end)
      BY <2>1, <3>1 DEF Overlaps
    <3> QED
      BY <3>2, <3>3, <3>4, <3>5
  <2>3. \A k \in 1 .. n : lo[k] = loaded[k].timestamp /\ hi[k] = loaded[k].end
    OBVIOUS
  <2>4. \A k \in 1 .. n : lo[k] \in Int /\ hi[k] \in Int /\ lo[k] < hi[k]
    BY <1>2, <2>3
  <2>5. \A k \in 1 .. n : k > 1 => hi[k - 1] <= lo[k]
    <3> SUFFICES ASSUME NEW k \in 1 .. n, k > 1 PROVE hi[k - 1] <= lo[k]
      OBVIOUS
    <3>1. k - 1 \in 1 .. n
      BY <1>1
    <3> QED
      BY <2>2, <2>3, <3>1
  <2> HIDE DEF lo, hi
  <2>6. \A j, k \in 1 .. n : j < k => hi[j] <= lo[k]
    BY <1>1, <2>4, <2>5, Chain
  <2>7. IsSource(loaded)
    BY <1>1, <2>3, <2>6 DEF IsSource
  <2> QED
    BY <1>1, <2>1, <2>7
<1>4. ASSUME n = Len(rows), IsSource(loaded) PROVE ~ReportHasErrors(config, loaded, issues)
  <2>1. issues = <<>>
    BY <1>1, <1>4
  <2>2. \A j, k \in 1 .. n : j < k => /\ loaded[j].end <= loaded[k].timestamp
                                      /\ loaded[j].timestamp < loaded[k].timestamp
    BY <1>1, <1>2, <1>4 DEF IsSource
  <2>3. Duplicates(loaded) = {}
    <3> SUFFICES ASSUME NEW k \in DOMAIN loaded, NEW j \in 1 .. k - 1,
                        loaded[j].timestamp = loaded[k].timestamp
                 PROVE  FALSE
      BY DEF Duplicates
    <3>1. j \in 1 .. n /\ k \in 1 .. n /\ j < k
      BY <1>1
    <3> QED
      BY <1>2, <2>2, <3>1
  <2>4. \A k \in DOMAIN loaded \ {1} : k - 1 \in 1 .. n /\ k \in 1 .. n /\ k - 1 < k
    BY <1>1
  <2>5. OutOfOrder(loaded) = {}
    BY <1>2, <2>2, <2>4 DEF OutOfOrder
  <2>6. Overlaps(config, loaded) = {}
    BY <1>2, <2>2, <2>4 DEF Overlaps
  <2> QED
    BY <2>1, <2>3, <2>5, <2>6 DEF ReportHasErrors
<1> QED
  BY <1>3, <1>4 DEF n

(* A report without errors is the promise every stage above relies on: of  *)
(* a file of bars of fixed duration each row was accepted, and the bars    *)
(* are a source (msa/data/quality.py, loaders.py).                         *)
THEOREM CleanLoadAlwaysIsSource == IngestionSpec => []CleanLoadIsSource
<1>1. Inv => CleanLoadIsSource
  <2> SUFFICES ASSUME Inv PROVE CleanLoadIsSource
    OBVIOUS
  <2>1. LoadInv
    BY DEF Inv
  <2>2. \A k \in DOMAIN loaded : loaded[k] \in Bar
    BY <2>1 DEF LoadInv
  <2> QED
    BY <2>1, <2>2, CleanIsSource DEF CleanLoadIsSource, LoadInv
<1> QED
  BY <1>1, InvHolds, PTL

(* Bars the resampler did not refuse are an input, whole and in parts.     *)
LEMMA InputIsPart ==
    ASSUME Inv, resampler # NoResampler, ~InputRefused
    PROVE  /\ IsPart(loaded, Len(loaded)) /\ DOMAIN loaded = 1 .. Len(loaded) /\ Len(loaded) \in Nat
           /\ IsPolicy(resampler.policy) /\ asOf \in Int
<1>1. loaded \in Seq(Bar) /\ resampler \in Resamplers /\ asOf \in Times
  BY DEF Inv, LoadInv, CallInv
<1>2. IsPart(loaded, Len(loaded))
  BY <1>1 DEF IsPart, InputRefused
<1>3. IsPolicy(resampler.policy) /\ asOf \in Int
  BY <1>1, IngestionAssumption DEF Resamplers, IsPolicy
<1> QED
  BY <1>1, <1>2, <1>3

(* Where slots leave no room, calls at rising times return parts of one    *)
(* series, the batch; and whatever the slots, what a call returns is again *)
(* a source (msa/data/resampling.py).                                      *)
THEOREM ReplayIsTheBatchSoFar == IngestionSpec => []TiledReplayIsBatch
<1>1. Inv => TiledReplayIsBatch
  <2> SUFFICES ASSUME Inv PROVE TiledReplayIsBatch
    OBVIOUS
  <2>1. \/ targets = {}
        \/ /\ resampler # NoResampler /\ ~InputRefused
           /\ targets = AsOfTargets(resampler.policy, loaded, asOf)
    <3>1. resampler \in Resamplers => resampler # NoResampler
      BY DEF Resamplers, NoResampler
    <3> QED
      BY <3>1 DEF Inv, CallInv, Answered
  <2>2. ASSUME resampler # NoResampler, ~raised, Tiled(resampler.policy)
        PROVE  targets = {t \in Batch(resampler.policy, loaded) : t.available <= asOf}
    <3>1. ~InputRefused /\ targets = AsOfTargets(resampler.policy, loaded, asOf)
      BY <2>2 DEF Inv, CallInv, Answered
    <3> QED
      BY <2>2, <3>1, InputIsPart, AsOfIsKnownBatch
  <2>3. TargetsFormSource
    <3> SUFFICES ASSUME targets # {} PROVE TargetsFormSource
      BY DEF TargetsFormSource
    <3>1. /\ resampler # NoResampler /\ ~InputRefused
          /\ targets = AsOfTargets(resampler.policy, loaded, asOf)
      BY <2>1
    <3> DEFINE c == Confirmed(loaded, asOf)
    <3>2. IsPart(c, Len(loaded)) /\ IsPolicy(resampler.policy)
      BY <3>1, InputIsPart, ConfirmedIsPart
    <3>3. targets \subseteq TargetBars(resampler.policy, c)
      BY <3>1 DEF AsOfTargets
    <3> HIDE DEF c
    <3> QED
      BY <3>2, <3>3, TargetsAreSource DEF TargetsFormSource
  <2> QED
    BY <2>2, <2>3 DEF TiledReplayIsBatch, ReplayIsBatchSoFar, Resampled
<1> QED
  BY <1>1, InvHolds, PTL

(* A batch reports an error exactly when a bar is in no slot or a slot     *)
(* before the end of the source is empty (_is_trailing_truncation).        *)
THEOREM ErrorsAreExactlyHoles == IngestionSpec => []ErrorsAreHoles
<1>1. Inv => ErrorsAreHoles
  <2> SUFFICES ASSUME Inv, resampler # NoResampler, ~InputRefused, loaded # <<>>
               PROVE  LET p == resampler.policy
                          slots == UNION {b.expected : b \in Buckets(p, loaded)}
                          filled == {loaded[i].timestamp : i \in DOMAIN loaded}
                      IN  HasErrors(p, loaded, FALSE) <=>
                            \/ ~(filled \subseteq slots)
                            \/ \E slot \in slots \ filled : slot < loaded[Len(loaded)].end
    BY DEF ErrorsAreHoles
  <2> DEFINE p == resampler.policy
             slots == UNION {b.expected : b \in Buckets(p, loaded)}
             filled == {loaded[i].timestamp : i \in DOMAIN loaded}
  <2>1. IsPart(loaded, Len(loaded)) /\ DOMAIN loaded = 1 .. Len(loaded) /\ Len(loaded) \in Nat /\ IsPolicy(p)
    BY InputIsPart
  <2>2. Len(loaded) \in DOMAIN loaded
    <3>1. loaded \in Seq(Bar)
      BY DEF Inv, LoadInv
    <3> QED
      BY <2>1, <3>1
  <2>3. slots = Slots(p, loaded)
    BY DEF Slots
  <2> HIDE DEF slots, p
  <2>4. filled \subseteq slots <=> InSlots(p, loaded)
    BY <2>3 DEF InSlots
  <2>5. (\E slot \in slots \ filled : slot < loaded[Len(loaded)].end)
            <=> HoleBefore(p, loaded, loaded[Len(loaded)].end)
    BY <2>3 DEF HoleBefore
  <2>6. HasErrors(p, loaded, FALSE) <=> ~InSlots(p, loaded) \/ HoleBefore(p, loaded, loaded[Len(loaded)].end)
    BY <2>1, <2>2, ErrorsMean
  <2> QED
    BY <2>4, <2>5, <2>6 DEF slots, p
<1> QED
  BY <1>1, InvHolds, PTL

-----------------------------------------------------------------------------
(* CandidateScan *)

USE SwingAssumption, LevelAssumption
    DEF PivotDetectorConfigOK, AtrReversalDetectorConfigOK, StructureBreakDetectorConfigOK,
        HistoricalReactionConfigOK

-----------------------------------------------------------------------------
(* Sources that grow *)

Grows(bs, longer) ==
    /\ bs \in Seq(Bar) /\ longer \in Seq(Bar) /\ Len(bs) <= Len(longer)
    /\ \A i \in 1 .. Len(bs) : longer[i] = bs[i]

LEMMA BarFacts ==
    ASSUME NEW bs \in Seq(Bar), NEW i \in 1 .. Len(bs)
    PROVE  /\ bs[i] \in Bar /\ bs[i].high \in Int /\ bs[i].low \in Int /\ bs[i].close \in Int
           /\ bs[i].available \in Nat /\ bs[i].low <= bs[i].close /\ bs[i].close <= bs[i].high
<1>1. bs[i] \in Bar
  OBVIOUS
<1> QED
  BY <1>1 DEF Bar

LEMMA AppendGrows ==
    ASSUME NEW bs \in Seq(Bar), NEW bar \in Bar
    PROVE  /\ Grows(bs, Append(bs, bar)) /\ Append(bs, bar) \in Seq(Bar)
           /\ Len(Append(bs, bar)) = Len(bs) + 1 /\ Len(bs) \in Nat
           /\ Append(bs, bar)[Len(bs) + 1] = bar
<1>1. Len(bs) \in Nat
  OBVIOUS
<1> QED
  BY <1>1 DEF Grows

(* A sum of true ranges looks at no later bar. *)
LEMMA RangeSumIsStable ==
    ASSUME NEW bs, NEW longer, Grows(bs, longer), NEW i \in AtrPeriod .. Len(bs)
    PROVE  RangeSum(longer, i) = RangeSum(bs, i)
<1>1. Len(bs) \in Nat /\ i \in 1 .. Len(bs)
  BY DEF Grows
<1>2. ASSUME NEW k \in 1 .. AtrPeriod
      PROVE  TrueRange(longer, i - k + 1) = TrueRange(bs, i - k + 1)
  <2> DEFINE j == i - k + 1
  <2>1. j \in 1 .. Len(bs) /\ (j # 1 => j - 1 \in 1 .. Len(bs))
    BY <1>1
  <2> HIDE DEF j
  <2>2. longer[j] = bs[j] /\ (j # 1 => longer[j - 1] = bs[j - 1])
    BY <2>1 DEF Grows
  <2>3. TrueRange(longer, j) = TrueRange(bs, j)
    BY <2>1, <2>2 DEF TrueRange
  <2> QED
    BY <2>3 DEF j
<1> DEFINE body(f, b) == [k \in 0 .. AtrPeriod |->
                            IF k = 0 THEN 0 ELSE f[k - 1] + TrueRange(b, i - k + 1)]
<1>3. \A f : body(f, longer) = body(f, bs)
  <2> TAKE f
  <2>1. \A k \in 0 .. AtrPeriod :
           (IF k = 0 THEN 0 ELSE f[k - 1] + TrueRange(longer, i - k + 1))
              = (IF k = 0 THEN 0 ELSE f[k - 1] + TrueRange(bs, i - k + 1))
    BY <1>2
  <2> QED
    BY <2>1
<1>4. /\ RangeSum(longer, i) = (CHOOSE f : f = body(f, longer))[AtrPeriod]
      /\ RangeSum(bs, i) = (CHOOSE f : f = body(f, bs))[AtrPeriod]
  BY DEF RangeSum
<1>5. \A f : (f = body(f, longer)) <=> (f = body(f, bs))
  BY <1>3
<1>6. (CHOOSE f : f = body(f, longer)) = (CHOOSE f : f = body(f, bs))
  <2> HIDE DEF body
  <2> QED
    BY <1>5
<1> QED
  BY <1>4, <1>6

-----------------------------------------------------------------------------
(* The time of a prefix *)

(* The cumulative maximum exists and is the availability of a bar. *)
LEMMA PrefixTimeFacts ==
    ASSUME NEW bs \in Seq(Bar), NEW n \in 1 .. Len(bs)
    PROVE  /\ PrefixTime(bs, n) \in Nat
           /\ \E i \in 1 .. n : PrefixTime(bs, n) = bs[i].available
           /\ \A i \in 1 .. n : bs[i].available <= PrefixTime(bs, n)
<1> DEFINE latest(m) == \E i \in 1 .. m : \A j \in 1 .. m : bs[j].available <= bs[i].available
           S == {m \in Nat : m \in 1 .. Len(bs) => latest(m)}
<1>1. Len(bs) \in Nat
  OBVIOUS
<1>2. 0 \in S
  OBVIOUS
<1>3. ASSUME NEW m \in Nat, m \in S PROVE m + 1 \in S
  <2> DEFINE m2 == m + 1
  <2> HIDE DEF latest
  <2> SUFFICES ASSUME m2 \in 1 .. Len(bs) PROVE latest(m2)
    OBVIOUS
  <2> USE DEF latest
  <2>1. bs[m2].available \in Nat
    BY BarFacts
  <2>2. CASE m = 0
    <3>1. m2 = 1
      BY <2>2
    <3> QED
      BY <2>1, <3>1
  <2>3. CASE m # 0
    <3>1. m \in 1 .. Len(bs)
      BY <1>1, <2>3
    <3>2. PICK i \in 1 .. m : \A j \in 1 .. m : bs[j].available <= bs[i].available
      <4> HIDE DEF latest
      <4>1. latest(m)
        BY <1>3, <3>1
      <4> QED
        BY <4>1 DEF latest
    <3>3. \A j \in 1 .. m : bs[j].available \in Nat
      <4> TAKE j \in 1 .. m
      <4>1. j \in 1 .. Len(bs)
        BY <1>1, <3>1
      <4> QED
        BY <4>1, BarFacts
    <3>4. \A j \in 1 .. m2 : j \in 1 .. m \/ j = m2
      OBVIOUS
    <3>5. i \in 1 .. m2 /\ m2 \in 1 .. m2
      BY <1>1
    <3>6. CASE bs[m2].available <= bs[i].available
      BY <3>2, <3>4, <3>5, <3>6
    <3>7. CASE ~(bs[m2].available <= bs[i].available)
      <4>1. \A j \in 1 .. m2 : bs[j].available <= bs[m2].available
        BY <2>1, <3>2, <3>3, <3>4, <3>7
      <4> QED
        BY <3>5, <4>1
    <3> QED
      BY <3>6, <3>7
  <2> QED
    BY <2>2, <2>3
<1>4. Nat \subseteq S
  <2> HIDE DEF S
  <2> QED
    BY <1>2, <1>3, NatSetInduction
<1>5. latest(n)
  <2>1. n \in Nat
    BY <1>1
  <2> HIDE DEF latest
  <2> QED
    BY <1>4, <2>1
<1>6. \E t \in {bs[i].available : i \in 1 .. n} : \A i \in 1 .. n : bs[i].available <= t
  BY <1>5
<1>7. /\ PrefixTime(bs, n) \in {bs[i].available : i \in 1 .. n}
      /\ \A i \in 1 .. n : bs[i].available <= PrefixTime(bs, n)
  BY <1>6 DEF PrefixTime
<1>8. \A i \in 1 .. n : bs[i].available \in Nat
  <2> TAKE i \in 1 .. n
  <2>1. i \in 1 .. Len(bs)
    BY <1>1
  <2> QED
    BY <2>1, BarFacts
<1> QED
  BY <1>7, <1>8

(* It is the same in every longer source. *)
LEMMA PrefixTimeIsStable ==
    ASSUME NEW bs, NEW longer, Grows(bs, longer), NEW n \in 1 .. Len(bs)
    PROVE  PrefixTime(longer, n) = PrefixTime(bs, n)
<1>1. \A i \in 1 .. n : longer[i] = bs[i]
  <2>1. Len(bs) \in Nat
    BY DEF Grows
  <2> QED
    BY <2>1 DEF Grows
<1>2. {longer[i].available : i \in 1 .. n} = {bs[i].available : i \in 1 .. n}
  BY <1>1
<1>3. \A t : (\A i \in 1 .. n : longer[i].available <= t) <=> (\A i \in 1 .. n : bs[i].available <= t)
  BY <1>1
<1> QED
  BY <1>2, <1>3 DEF PrefixTime

-----------------------------------------------------------------------------
(* Legs *)

(* How far a bar reaches on the side of the turning point that ends a leg. *)
Reach(bs, side, i) == IF side = "UPPER" THEN bs[i].high ELSE - bs[i].low

IsExtreme(bs, side, from, to, origin) ==
    /\ origin \in from .. to
    /\ \A i \in from .. to :
          \/ Reach(bs, side, i) < Reach(bs, side, origin)
          \/ Reach(bs, side, i) = Reach(bs, side, origin) /\ origin <= i

Retrace(bs, side, from, i) ==
    IF side = "UPPER" THEN Max({bs[j].high : j \in from .. i - 1}) - bs[i].low
    ELSE bs[i].high - Min({bs[j].low : j \in from .. i - 1})

Confirms(bs, side, from, i) ==
    AtrPeriod * Retrace(bs, side, from, i) >= Multiplier * RangeSum(bs, i)

(* A leg from one bar to another, its extreme, and no retrace inside it. *)
Leg(bs, side, from, to, origin) ==
    /\ from \in AtrPeriod + 1 .. to
    /\ IsExtreme(bs, side, from, to, origin)
    /\ \A i \in from + 1 .. to : ~Confirms(bs, side, from, i)

LEMMA RetraceIsFromExtreme ==
    ASSUME NEW bs \in Seq(Bar), NEW side, NEW i \in 1 .. Len(bs), NEW from \in 1 .. i - 1,
           NEW to, to = i - 1, NEW origin, IsExtreme(bs, side, from, to, origin)
    PROVE  /\ side = "UPPER" => Retrace(bs, side, from, i) = bs[origin].high - bs[i].low
           /\ side # "UPPER" => Retrace(bs, side, from, i) = bs[i].high - bs[origin].low
<1>1. Len(bs) \in Nat /\ \A j \in from .. i - 1 : j \in 1 .. Len(bs)
  OBVIOUS
<1>2. \A j \in from .. i - 1 : bs[j].high \in Int /\ bs[j].low \in Int
  BY <1>1, BarFacts
<1>3. origin \in from .. i - 1
  BY DEF IsExtreme
<1>4. CASE side = "UPPER"
  <2> DEFINE highs == {bs[j].high : j \in from .. i - 1}
  <2>1. \A j \in from .. i - 1 : bs[j].high <= bs[origin].high
    BY <1>2, <1>3, <1>4 DEF IsExtreme, Reach
  <2>2. bs[origin].high \in highs /\ highs \subseteq Int /\ \A y \in highs : y <= bs[origin].high
    BY <1>2, <1>3, <2>1
  <2> HIDE DEF highs
  <2>3. Max(highs) \in highs /\ \A y \in highs : Max(highs) >= y
    <3>1. \E x \in highs : \A y \in highs : x >= y
      BY <2>2
    <3> QED
      BY <3>1 DEF Max
  <2>4. Max(highs) <= bs[origin].high /\ bs[origin].high <= Max(highs)
    BY <2>2, <2>3
  <2>5. Max(highs) \in Int /\ bs[origin].high \in Int
    BY <2>2, <2>3
  <2>6. Max(highs) = bs[origin].high
    BY <2>4, <2>5
  <2> QED
    BY <1>4, <2>6 DEF Retrace, highs
<1>5. CASE side # "UPPER"
  <2> DEFINE lows == {bs[j].low : j \in from .. i - 1}
  <2>1. \A j \in from .. i - 1 : bs[origin].low <= bs[j].low
    BY <1>2, <1>3, <1>5 DEF IsExtreme, Reach
  <2>2. bs[origin].low \in lows /\ lows \subseteq Int /\ \A y \in lows : bs[origin].low <= y
    BY <1>2, <1>3, <2>1
  <2> HIDE DEF lows
  <2>3. Min(lows) \in lows /\ \A y \in lows : Min(lows) <= y
    <3>1. \E x \in lows : \A y \in lows : x <= y
      BY <2>2
    <3> QED
      BY <3>1 DEF Min
  <2>4. Min(lows) <= bs[origin].low /\ bs[origin].low <= Min(lows)
    BY <2>2, <2>3
  <2>5. Min(lows) \in Int /\ bs[origin].low \in Int
    BY <2>2, <2>3
  <2>6. Min(lows) = bs[origin].low
    BY <2>4, <2>5
  <2> QED
    BY <1>5, <2>6 DEF Retrace, lows
<1> QED
  BY <1>4, <1>5

LEMMA ConfirmsIsStable ==
    ASSUME NEW bs, NEW longer, Grows(bs, longer), NEW side, NEW from \in Nat \ {0},
           NEW i \in AtrPeriod .. Len(bs)
    PROVE  Confirms(longer, side, from, i) = Confirms(bs, side, from, i)
<1>1. Len(bs) \in Nat
  BY DEF Grows
<1>2. \A j \in from .. i - 1 : longer[j] = bs[j]
  BY <1>1 DEF Grows
<1>3. longer[i] = bs[i]
  BY <1>1 DEF Grows
<1>4. /\ {longer[j].high : j \in from .. i - 1} = {bs[j].high : j \in from .. i - 1}
      /\ {longer[j].low : j \in from .. i - 1} = {bs[j].low : j \in from .. i - 1}
  BY <1>2
<1>5. Retrace(longer, side, from, i) = Retrace(bs, side, from, i)
  BY <1>3, <1>4 DEF Retrace
<1> QED
  BY <1>5, RangeSumIsStable DEF Confirms

LEMMA LegIsStable ==
    ASSUME NEW bs, NEW longer, Grows(bs, longer), NEW side, NEW from, NEW to \in Nat,
           to <= Len(bs), NEW origin, Leg(bs, side, from, to, origin)
    PROVE  Leg(longer, side, from, to, origin)
<1>1. Len(bs) \in Nat /\ from \in AtrPeriod + 1 .. to /\ from \in Nat \ {0}
  BY DEF Grows, Leg
<1>2. \A i \in from .. to : longer[i] = bs[i] /\ Reach(longer, side, i) = Reach(bs, side, i)
  BY <1>1 DEF Grows, Reach
<1>3. IsExtreme(longer, side, from, to, origin)
  BY <1>2 DEF Leg, IsExtreme
<1>4. \A i \in from + 1 .. to : i \in AtrPeriod .. Len(bs)
  BY <1>1
<1>5. \A i \in from + 1 .. to : ~Confirms(longer, side, from, i)
  BY <1>1, <1>4, ConfirmsIsStable DEF Leg
<1> QED
  BY <1>1, <1>3, <1>5 DEF Leg

(* A new bar that does not confirm continues the leg, with a new extreme   *)
(* or with the old one.                                                    *)
LEMMA LegGoesOn ==
    ASSUME NEW bs \in Seq(Bar), NEW bar \in Bar, NEW side, NEW from, NEW origin, NEW next,
           Leg(bs, side, from, Len(bs), origin),
           ~Confirms(Append(bs, bar), side, from, Len(bs) + 1),
           next = IF Reach(Append(bs, bar), side, Len(bs) + 1) > Reach(bs, side, origin)
                  THEN Len(bs) + 1 ELSE origin
    PROVE  Leg(Append(bs, bar), side, from, Len(bs) + 1, next)
<1> DEFINE longer == Append(bs, bar)
           n == Len(bs) + 1
<1>1. /\ Grows(bs, longer) /\ longer \in Seq(Bar) /\ Len(longer) = n /\ Len(bs) \in Nat /\ n \in Nat
  BY AppendGrows
<1> HIDE DEF longer
<1>2. Leg(longer, side, from, Len(bs), origin)
  BY <1>1, LegIsStable
<1>3. from \in AtrPeriod + 1 .. n /\ origin \in from .. Len(bs)
  BY <1>1, <1>2 DEF Leg, IsExtreme
<1>4. \A i \in from .. n : Reach(longer, side, i) \in Int
  <2>1. \A i \in from .. n : i \in 1 .. Len(longer)
    BY <1>1, <1>3
  <2> QED
    BY <1>1, <2>1, BarFacts DEF Reach
<1>5. Reach(longer, side, origin) = Reach(bs, side, origin)
  BY <1>1, <1>3 DEF Grows, Reach
<1>6. \A i \in from .. n : i \in from .. Len(bs) \/ i = n
  BY <1>1
<1>7. n \in from .. n /\ origin \in from .. n /\ origin <= n
  BY <1>1, <1>3
<1>8. IsExtreme(longer, side, from, n, next)
  <2>1. CASE Reach(longer, side, n) > Reach(bs, side, origin)
    <3>1. next = n
      BY <2>1 DEF longer
    <3>2. \A i \in from .. Len(bs) : Reach(longer, side, i) < Reach(longer, side, n)
      <4> TAKE i \in from .. Len(bs)
      <4>1. Reach(longer, side, i) <= Reach(longer, side, origin)
        BY <1>2, <1>4, <1>6, <1>7, <1>1 DEF Leg, IsExtreme
      <4>2. i \in from .. n
        BY <1>1
      <4> QED
        BY <2>1, <1>4, <1>5, <1>7, <4>1, <4>2
    <3> QED
      BY <1>6, <1>7, <3>1, <3>2 DEF IsExtreme
  <2>2. CASE ~(Reach(longer, side, n) > Reach(bs, side, origin))
    <3>1. next = origin
      BY <2>2 DEF longer
    <3>2. Reach(longer, side, n) <= Reach(longer, side, origin)
      BY <1>4, <1>5, <1>7, <2>2
    <3>3. \/ Reach(longer, side, n) < Reach(longer, side, origin)
          \/ Reach(longer, side, n) = Reach(longer, side, origin) /\ origin <= n
      BY <1>4, <1>7, <3>2
    <3> QED
      BY <1>2, <1>6, <1>7, <3>1, <3>3 DEF Leg, IsExtreme
  <2> QED
    BY <2>1, <2>2
<1>9. \A i \in from + 1 .. n : i \in from + 1 .. Len(bs) \/ i = n
  BY <1>1, <1>3
<1>10. \A i \in from + 1 .. n : ~Confirms(longer, side, from, i)
  BY <1>2, <1>9 DEF Leg, longer
<1>11. Leg(longer, side, from, n, next)
  BY <1>3, <1>8, <1>10 DEF Leg
<1> QED
  BY <1>11 DEF longer

-----------------------------------------------------------------------------
(* The state of the turning point detector *)

DirectedAt(bs, i) ==
    /\ i \in AtrPeriod + 1 .. Len(bs)
    /\ bs[i].close # bs[AtrPeriod].close
    /\ \A j \in AtrPeriod + 1 .. i - 1 : bs[j].close = bs[AtrPeriod].close

FirstOf(bs) ==
    CHOOSE i \in AtrPeriod + 1 .. Len(bs) :
        /\ bs[i].close # bs[AtrPeriod].close
        /\ \A j \in AtrPeriod + 1 .. i - 1 : bs[j].close = bs[AtrPeriod].close

StartOf(bs, turns, k) == IF k = 1 THEN FirstOf(bs) ELSE turns[k - 1].last

Leading(s) == IF s.trend = "UP" THEN "UPPER" ELSE "LOWER"

(* A turning point of a leg, confirmed by the first retrace. *)
Ended(bs, turn, from) ==
    /\ turn.last \in from + 1 .. Len(bs)
    /\ Leg(bs, turn.side, from, turn.last - 1, turn.origin)
    /\ Confirms(bs, turn.side, from, turn.last)

AtrOK(s, bs) ==
    /\ s \in AtrState
    /\ s.anchor = IF Len(bs) < AtrPeriod THEN 0 ELSE AtrPeriod
    /\ IF s.trend = "UNKNOWN"
       THEN /\ s.turns = <<>>
            /\ \A j \in AtrPeriod + 1 .. Len(bs) : bs[j].close = bs[AtrPeriod].close
       ELSE /\ \E i : DirectedAt(bs, i)
            /\ Leg(bs, Leading(s), StartOf(bs, s.turns, Len(s.turns) + 1), Len(bs), s.extreme)
    /\ \A k \in 1 .. Len(s.turns) : Ended(bs, s.turns[k], StartOf(bs, s.turns, k))
    /\ \A k \in 2 .. Len(s.turns) : s.turns[k].side = Opposing(s.turns[k - 1].side)
    /\ s.turns # <<>> => s.turns[Len(s.turns)].side = Opposing(Leading(s))

LEMMA FirstIsUnique ==
    ASSUME NEW bs \in Seq(Bar), NEW i, DirectedAt(bs, i)
    PROVE  FirstOf(bs) = i
<1>1. \A j : DirectedAt(bs, j) => j = i
  <2> SUFFICES ASSUME NEW j, DirectedAt(bs, j), j # i PROVE FALSE
    OBVIOUS
  <2>1. i \in Int /\ j \in Int /\ i >= AtrPeriod + 1 /\ j >= AtrPeriod + 1 /\ Len(bs) \in Nat
    BY DEF DirectedAt
  <2>2. CASE i < j
    <3>1. i \in AtrPeriod + 1 .. j - 1
      BY <2>1, <2>2
    <3> QED
      BY <3>1 DEF DirectedAt
  <2>3. CASE j < i
    <3>1. j \in AtrPeriod + 1 .. i - 1
      BY <2>1, <2>3
    <3> QED
      BY <3>1 DEF DirectedAt
  <2> QED
    BY <2>1, <2>2, <2>3
<1>2. DirectedAt(bs, FirstOf(bs))
  BY DEF DirectedAt, FirstOf
<1> QED
  BY <1>1, <1>2

LEMMA DirectedIsStable ==
    ASSUME NEW bs, NEW longer, Grows(bs, longer), NEW i, DirectedAt(bs, i)
    PROVE  DirectedAt(longer, i)
<1>1. /\ Len(bs) \in Nat /\ Len(longer) \in Nat /\ Len(bs) <= Len(longer)
      /\ i \in AtrPeriod + 1 .. Len(bs)
  BY DEF Grows, DirectedAt
<1>2. longer[i] = bs[i] /\ longer[AtrPeriod] = bs[AtrPeriod]
  BY <1>1 DEF Grows
<1>3. \A j \in AtrPeriod + 1 .. i - 1 : longer[j] = bs[j]
  BY <1>1 DEF Grows
<1>4. i \in AtrPeriod + 1 .. Len(longer)
  BY <1>1
<1> QED
  BY <1>2, <1>3, <1>4 DEF DirectedAt

LEMMA StartIsStable ==
    ASSUME NEW bs, NEW longer, Grows(bs, longer), \E i : DirectedAt(bs, i)
    PROVE  /\ FirstOf(longer) = FirstOf(bs)
           /\ \A turns, k : StartOf(longer, turns, k) = StartOf(bs, turns, k)
<1>1. PICK i : DirectedAt(bs, i)
  OBVIOUS
<1>2. DirectedAt(longer, i)
  BY <1>1, DirectedIsStable
<1>3. bs \in Seq(Bar) /\ longer \in Seq(Bar)
  BY DEF Grows
<1>4. FirstOf(bs) = i /\ FirstOf(longer) = i
  BY <1>1, <1>2, <1>3, FirstIsUnique
<1> QED
  BY <1>4 DEF StartOf

LEMMA EndedIsStable ==
    ASSUME NEW bs, NEW longer, Grows(bs, longer), NEW turn, NEW from, Ended(bs, turn, from)
    PROVE  Ended(longer, turn, from)
<1>1. Len(bs) \in Nat /\ Len(longer) \in Nat /\ Len(bs) <= Len(longer)
  BY DEF Grows
<1>2. Leg(bs, turn.side, from, turn.last - 1, turn.origin) /\ turn.last \in from + 1 .. Len(bs)
  BY DEF Ended
<1>3. from \in Nat \ {0} /\ from >= AtrPeriod + 1
  BY <1>2 DEF Leg
<1>4. /\ turn.last \in from + 1 .. Len(longer) /\ turn.last \in AtrPeriod .. Len(bs)
      /\ turn.last - 1 \in Nat /\ turn.last - 1 <= Len(bs)
  BY <1>1, <1>2, <1>3
<1>5. Leg(longer, turn.side, from, turn.last - 1, turn.origin)
  BY <1>2, <1>4, LegIsStable
<1>6. Confirms(longer, turn.side, from, turn.last)
  BY <1>3, <1>4, ConfirmsIsStable DEF Ended
<1> QED
  BY <1>4, <1>5, <1>6 DEF Ended

LEMMA FirstLegStarts ==
    ASSUME NEW bs, NEW side, NEW n \in Nat, n >= AtrPeriod + 1
    PROVE  Leg(bs, side, n, n, n)
<1>1. n \in n .. n /\ n \in AtrPeriod + 1 .. n
  OBVIOUS
<1>2. \A i \in n .. n : i = n
  OBVIOUS
<1>3. \A i \in n + 1 .. n : FALSE
  OBVIOUS
<1> QED
  BY <1>1, <1>2, <1>3 DEF Leg, IsExtreme

LEMMA TurnType ==
    ASSUME NEW bs \in Seq(Bar), NEW s, NEW i \in 1 .. Len(bs), s.extreme \in 1 .. Len(bs)
    PROVE  /\ Turn(s, bs, i) \in Candidate
           /\ Turn(s, bs, i).origin = s.extreme /\ Turn(s, bs, i).last = i
           /\ Turn(s, bs, i).side = Leading(s)
<1>1. PrefixTime(bs, i) \in Nat
  BY PrefixTimeFacts
<1>2. bs[s.extreme].high \in Int /\ bs[s.extreme].low \in Int
  BY BarFacts
<1>3. Len(bs) \in Nat /\ i \in Nat /\ s.extreme \in Nat \ {0}
  OBVIOUS
<1> QED
  BY <1>1, <1>2, <1>3 DEF Turn, Leading, Candidate, Side

LEMMA AtrStepKeepsLegs ==
    ASSUME NEW bs \in Seq(Bar), NEW bar \in Bar, NEW s, AtrOK(s, bs)
    PROVE  AtrOK(AtrStep(s, Append(bs, bar), Len(bs) + 1), Append(bs, bar))
<1> DEFINE longer == Append(bs, bar)
           n == Len(bs) + 1
           next == AtrStep(s, longer, n)
           m == Len(s.turns)
           start == StartOf(bs, s.turns, m + 1)
<1>1. /\ Grows(bs, longer) /\ longer \in Seq(Bar) /\ Len(longer) = n
      /\ Len(bs) \in Nat /\ n \in Nat /\ longer[n] = bar /\ n # 0
  BY AppendGrows
<1>2. /\ s \in AtrState /\ s.turns \in Seq(Candidate) /\ m \in Nat
      /\ s.trend \in Trend /\ s.anchor \in Nat /\ s.extreme \in Nat
      /\ s.anchor = IF Len(bs) < AtrPeriod THEN 0 ELSE AtrPeriod
  BY DEF AtrOK, AtrState
<1>3. \A j \in 1 .. Len(bs) : longer[j] = bs[j]
  BY <1>1 DEF Grows
<1>4. s.trend # "UNKNOWN" =>
        /\ Len(bs) >= AtrPeriod + 1 /\ start \in AtrPeriod + 1 .. Len(bs)
        /\ Leg(bs, Leading(s), start, Len(bs), s.extreme)
        /\ s.extreme \in start .. Len(bs)
        /\ \E i : DirectedAt(bs, i)
        /\ \E i : DirectedAt(longer, i)
        /\ FirstOf(longer) = FirstOf(bs)
        /\ \A turns, k : StartOf(longer, turns, k) = StartOf(bs, turns, k)
  <2> SUFFICES ASSUME s.trend # "UNKNOWN"
               PROVE  /\ Len(bs) >= AtrPeriod + 1 /\ start \in AtrPeriod + 1 .. Len(bs)
                      /\ Leg(bs, Leading(s), start, Len(bs), s.extreme)
                      /\ s.extreme \in start .. Len(bs)
                      /\ \E i : DirectedAt(bs, i)
                      /\ \E i : DirectedAt(longer, i)
                      /\ FirstOf(longer) = FirstOf(bs)
                      /\ \A turns, k : StartOf(longer, turns, k) = StartOf(bs, turns, k)
    OBVIOUS
  <2>1. Leg(bs, Leading(s), start, Len(bs), s.extreme) /\ \E i : DirectedAt(bs, i)
    BY DEF AtrOK
  <2>2. start \in AtrPeriod + 1 .. Len(bs) /\ s.extreme \in start .. Len(bs)
    BY <2>1 DEF Leg, IsExtreme
  <2>3. Len(bs) >= AtrPeriod + 1
    BY <1>1, <2>2
  <2>4. \E i : DirectedAt(longer, i)
    BY <1>1, <2>1, DirectedIsStable
  <2> HIDE DEF longer, start
  <2> QED
    BY <1>1, <2>1, <2>2, <2>3, <2>4, StartIsStable
<1>5. /\ \A k \in 1 .. m : Ended(bs, s.turns[k], StartOf(bs, s.turns, k))
      /\ \A k \in 2 .. m : s.turns[k].side = Opposing(s.turns[k - 1].side)
      /\ s.turns # <<>> => s.turns[m].side = Opposing(Leading(s))
  BY DEF AtrOK
<1>6. s.trend = "UNKNOWN" =>
        /\ s.turns = <<>> /\ m = 0
        /\ \A j \in AtrPeriod + 1 .. Len(bs) : bs[j].close = bs[AtrPeriod].close
  BY DEF AtrOK
<1>7. s.trend # "UNKNOWN" =>
        \A k \in 1 .. m : Ended(longer, s.turns[k], StartOf(longer, s.turns, k))
  <2> HIDE DEF longer
  <2> QED
    BY <1>1, <1>4, <1>5, EndedIsStable
<1> SUFFICES AtrOK(next, longer)
  OBVIOUS
<1> HIDE DEF longer, n, m, start
<1>8. CASE n < AtrPeriod
  <2>1. next = s
    BY <1>8 DEF AtrStep
  <2>2. s.trend = "UNKNOWN" /\ s.anchor = 0
    BY <1>1, <1>2, <1>4, <1>8 DEF n
  <2>3. \A j \in AtrPeriod + 1 .. Len(longer) : FALSE
    BY <1>1, <1>8
  <2>4. s.turns = <<>> /\ m = 0 /\ Len(s.turns) = 0
    BY <1>6, <2>2 DEF m
  <2> QED
    BY <1>1, <1>2, <1>8, <2>1, <2>2, <2>3, <2>4 DEF AtrOK
<1>9. CASE n = AtrPeriod
  <2>1. s.anchor = 0 /\ s.trend = "UNKNOWN"
    BY <1>1, <1>2, <1>4, <1>9 DEF n
  <2>2. next = [s EXCEPT !.anchor = n]
    BY <1>9, <2>1, <1>1 DEF AtrStep
  <2>3. \A j \in AtrPeriod + 1 .. Len(longer) : FALSE
    BY <1>1, <1>9
  <2>4. s.turns = <<>> /\ Len(s.turns) = 0
    BY <1>6, <2>1 DEF m
  <2>5. next \in AtrState /\ next.anchor = AtrPeriod /\ next.trend = "UNKNOWN" /\ next.turns = s.turns
    BY <1>1, <1>2, <1>9, <2>1, <2>2 DEF AtrState
  <2> HIDE DEF next
  <2> QED
    BY <1>1, <1>9, <2>3, <2>4, <2>5 DEF AtrOK
<1>10. CASE n > AtrPeriod /\ s.trend = "UNKNOWN"
  <2>1. s.anchor = AtrPeriod /\ AtrPeriod \in 1 .. Len(bs)
    BY <1>1, <1>2, <1>10 DEF n
  <2>2. longer[AtrPeriod] = bs[AtrPeriod] /\ s.turns = <<>> /\ Len(s.turns) = 0
    BY <1>3, <1>6, <1>10, <2>1 DEF m
  <2>3. next = Directed(s, longer, n)
    BY <1>1, <1>10, <2>1 DEF AtrStep
  <2>4. \A j \in AtrPeriod + 1 .. n - 1 : longer[j].close = longer[AtrPeriod].close
    <3>1. \A j \in AtrPeriod + 1 .. n - 1 : j \in AtrPeriod + 1 .. Len(bs) /\ j \in 1 .. Len(bs)
      BY <1>1 DEF n
    <3> QED
      BY <1>3, <1>6, <1>10, <2>2, <3>1
  <2>5. CASE longer[n].close = longer[AtrPeriod].close
    <3>1. next = s
      BY <2>1, <2>3, <2>5 DEF Directed
    <3>2. \A j \in AtrPeriod + 1 .. n : j \in AtrPeriod + 1 .. n - 1 \/ j = n
      BY <1>1
    <3>3. \A j \in AtrPeriod + 1 .. n : longer[j].close = longer[AtrPeriod].close
      BY <2>4, <2>5, <3>2
    <3> QED
      BY <1>1, <1>2, <1>10, <2>1, <2>2, <3>1, <3>3 DEF AtrOK
  <2>6. CASE longer[n].close # longer[AtrPeriod].close
    <3>1. /\ next \in AtrState /\ next.anchor = s.anchor /\ next.trend # "UNKNOWN"
          /\ next.turns = s.turns /\ next.extreme = n
      BY <1>1, <1>2, <2>1, <2>3, <2>6 DEF Directed, AtrState, Trend
    <3>2. DirectedAt(longer, n)
      BY <1>1, <1>10, <2>4, <2>6 DEF DirectedAt
    <3>3. FirstOf(longer) = n
      BY <1>1, <3>2, FirstIsUnique
    <3>4. StartOf(longer, next.turns, Len(next.turns) + 1) = n
      BY <2>2, <3>1, <3>3 DEF StartOf
    <3>5. Leg(longer, Leading(next), n, n, n)
      BY <1>1, <1>10, FirstLegStarts
    <3> HIDE DEF next
    <3> QED
      BY <1>1, <1>10, <2>1, <2>2, <3>1, <3>2, <3>4, <3>5 DEF AtrOK
  <2> QED
    BY <2>5, <2>6
<1>11. CASE n > AtrPeriod /\ s.trend # "UNKNOWN"
  <2> DEFINE side == Leading(s)
             old == s.extreme
  <2>1. s.anchor = AtrPeriod /\ AtrPeriod # 0 /\ ~(n < AtrPeriod)
    BY <1>1, <1>2, <1>11 DEF n
  <2>2. /\ Leg(bs, side, start, Len(bs), old) /\ start \in AtrPeriod + 1 .. Len(bs)
        /\ old \in start .. Len(bs) /\ old \in 1 .. Len(bs) /\ n - 1 = Len(bs)
        /\ start \in 1 .. n - 1 /\ n \in 1 .. Len(longer) /\ old \in 1 .. Len(longer)
    <3>1. Leg(bs, side, start, Len(bs), old) /\ start \in AtrPeriod + 1 .. Len(bs)
          /\ old \in start .. Len(bs)
      BY <1>4, <1>11
    <3> QED
      BY <1>1, <3>1 DEF n
  <2>3. longer[old] = bs[old] /\ Reach(longer, side, old) = Reach(bs, side, old)
    BY <1>3, <2>2 DEF Reach
  <2>4. /\ Leg(longer, side, start, n - 1, old) /\ Len(bs) = n - 1
        /\ IsExtreme(longer, side, start, Len(bs), old)
    <3>1. Leg(longer, side, start, Len(bs), old)
      BY <1>1, <2>2, LegIsStable
    <3> QED
      BY <2>2, <3>1 DEF Leg
  <2>5. Retrace(longer, side, start, n) = IF s.trend = "UP" THEN longer[old].high - longer[n].low
                                          ELSE longer[n].high - longer[old].low
    <3>1. /\ side = "UPPER" => Retrace(longer, side, start, n) = longer[old].high - longer[n].low
          /\ side # "UPPER" => Retrace(longer, side, start, n) = longer[n].high - longer[old].low
      <4> HIDE DEF side, old
      <4> QED
        BY <1>1, <2>2, <2>4, RetraceIsFromExtreme
    <3> QED
      BY <3>1 DEF Leading
  <2>6. Reverses(s, longer, n) <=> Confirms(longer, side, start, n)
    BY <2>5 DEF Reverses, Confirms
  <2>7. /\ longer[n].high \in Int /\ longer[n].low \in Int
        /\ longer[old].high \in Int /\ longer[old].low \in Int
    BY <1>1, <2>2, BarFacts
  <2>8. Extends(s, longer, n) <=> Reach(longer, side, n) > Reach(bs, side, old)
    BY <2>3, <2>7 DEF Extends, Reach, Leading
  <2>9. next = IF Reverses(s, longer, n) THEN Reversed(s, longer, n)
               ELSE IF Extends(s, longer, n) THEN [s EXCEPT !.extreme = n] ELSE s
    BY <1>11, <2>1 DEF AtrStep
  <2>10. StartOf(longer, s.turns, m + 1) = start
    BY <1>4, <1>11 DEF start
  <2>11. CASE ~Reverses(s, longer, n)
    <3> DEFINE e == IF Reach(longer, side, n) > Reach(bs, side, old) THEN n ELSE old
    <3>1. Leg(longer, side, start, n, e)
      BY <2>2, <2>6, <2>11, LegGoesOn DEF longer, n
    <3>2. /\ next.extreme = e /\ next.trend = s.trend /\ next.turns = s.turns
          /\ next.anchor = s.anchor /\ next \in AtrState
      BY <1>1, <1>2, <2>8, <2>9, <2>11 DEF AtrState
    <3> HIDE DEF next, e
    <3>3. Leading(next) = side
      BY <3>2 DEF Leading
    <3>4. Leg(longer, Leading(next), StartOf(longer, next.turns, Len(next.turns) + 1), n, next.extreme)
      BY <2>10, <3>1, <3>2, <3>3 DEF m
    <3>5. /\ \A k \in 1 .. Len(next.turns) : Ended(longer, next.turns[k], StartOf(longer, next.turns, k))
          /\ \A k \in 2 .. Len(next.turns) : next.turns[k].side = Opposing(next.turns[k - 1].side)
          /\ next.turns # <<>> => next.turns[Len(next.turns)].side = Opposing(Leading(next))
      BY <1>5, <1>7, <1>11, <3>2, <3>3 DEF m
    <3>6. next.anchor = IF Len(longer) < AtrPeriod THEN 0 ELSE AtrPeriod
      BY <1>1, <2>1, <3>2
    <3>7. next.trend # "UNKNOWN" /\ \E i : DirectedAt(longer, i)
      BY <1>4, <1>11, <3>2
    <3> QED
      BY <1>1, <3>2, <3>4, <3>5, <3>6, <3>7 DEF AtrOK
  <2>12. CASE Reverses(s, longer, n)
    <3> DEFINE turn == Turn(s, longer, n)
               m2 == m + 1
    <3>1. turn \in Candidate /\ turn.origin = old /\ turn.last = n /\ turn.side = side
      BY <1>1, <2>2, TurnType
    <3> HIDE DEF turn
    <3>2. /\ next.extreme = n /\ next.trend = IF s.trend = "UP" THEN "DOWN" ELSE "UP"
          /\ next.turns = Append(s.turns, turn) /\ next.anchor = s.anchor
          /\ next \in AtrState
      <4> DEFINE longerTurns == Append(s.turns, turn)
                 other == IF s.trend = "UP" THEN "DOWN" ELSE "UP"
      <4>1. longerTurns \in Seq(Candidate)
        BY <1>2, <3>1
      <4>2. next = [s EXCEPT !.trend = other, !.extreme = n, !.turns = longerTurns]
        BY <2>9, <2>12 DEF Reversed, turn
      <4>3. other \in Trend
        BY DEF Trend
      <4> HIDE DEF longerTurns, other, next
      <4>4. next.extreme = n /\ next.trend = other /\ next.turns = longerTurns
            /\ next.anchor = s.anchor /\ next \in AtrState
        BY <1>1, <1>2, <4>1, <4>2, <4>3 DEF AtrState
      <4> QED
        BY <4>4 DEF longerTurns, other
    <3>3. /\ next.turns \in Seq(Candidate) /\ Len(next.turns) = m2 /\ next.turns[m2] = turn
          /\ \A k \in 1 .. m : next.turns[k] = s.turns[k]
          /\ next.turns # <<>>
      BY <1>2, <3>1, <3>2 DEF m
    <3>4. next \in AtrState
      BY <3>2
    <3> HIDE DEF next
    <3>5. Leading(next) = Opposing(side) /\ side = Opposing(Leading(next)) /\ next.trend # "UNKNOWN"
      BY <1>2, <1>11, <3>2 DEF Leading, Opposing, Trend
    <3>6. m2 \in Nat /\ m2 # 0 /\ m2 + 1 # 1 /\ (m2 + 1) - 1 = m2
      BY <1>2
    <3>7. StartOf(longer, next.turns, m2 + 1) = n
      BY <3>1, <3>3, <3>6 DEF StartOf
    <3>8. Leg(longer, Leading(next), n, n, n)
      BY <1>1, <1>11, FirstLegStarts
    <3>9. \A k \in 1 .. m2 : StartOf(longer, next.turns, k) = StartOf(longer, s.turns, k)
      <4> TAKE k \in 1 .. m2
      <4>1. CASE k = 1
        BY <4>1 DEF StartOf
      <4>2. CASE k # 1
        <5>1. k - 1 \in 1 .. m
          BY <1>2, <4>2
        <5> QED
          BY <3>3, <4>2, <5>1 DEF StartOf
      <4> QED
        BY <4>1, <4>2
    <3>10. Ended(longer, turn, start)
      <4>1. n \in start + 1 .. Len(longer)
        BY <1>1, <2>2
      <4> QED
        BY <2>4, <2>6, <2>12, <3>1, <4>1 DEF Ended
    <3>11. \A k \in 1 .. m2 : Ended(longer, next.turns[k], StartOf(longer, next.turns, k))
      <4> TAKE k \in 1 .. m2
      <4>1. CASE k = m2
        BY <2>10, <3>3, <3>9, <3>10, <4>1
      <4>2. CASE k # m2
        <5>1. k \in 1 .. m
          BY <1>2, <4>2
        <5> QED
          BY <1>7, <1>11, <3>3, <3>9, <5>1
      <4> QED
        BY <4>1, <4>2
    <3>12. \A k \in 2 .. m2 : next.turns[k].side = Opposing(next.turns[k - 1].side)
      <4> TAKE k \in 2 .. m2
      <4>1. CASE k = m2
        <5>1. m \in 1 .. m /\ k - 1 = m /\ s.turns # <<>>
          BY <1>2, <4>1 DEF m
        <5>2. s.turns[m].side = Opposing(side)
          BY <1>5, <5>1
        <5>3. Opposing(Opposing(side)) = side
          BY <3>5
        <5> QED
          BY <3>1, <3>3, <4>1, <5>1, <5>2, <5>3
      <4>2. CASE k # m2
        <5>1. k \in 2 .. m /\ k \in 1 .. m /\ k - 1 \in 1 .. m
          BY <1>2, <4>2
        <5> QED
          BY <1>5, <3>3, <5>1
      <4> QED
        BY <4>1, <4>2
    <3>13. next.turns[Len(next.turns)].side = Opposing(Leading(next))
      BY <3>1, <3>3, <3>5
    <3>14. next.anchor = IF Len(longer) < AtrPeriod THEN 0 ELSE AtrPeriod
      BY <1>1, <2>1, <3>2
    <3>15. \E i : DirectedAt(longer, i)
      BY <1>4, <1>11
    <3>16. Leg(longer, Leading(next), StartOf(longer, next.turns, Len(next.turns) + 1), Len(longer), next.extreme)
      BY <1>1, <3>2, <3>3, <3>7, <3>8
    <3> HIDE DEF m2
    <3> QED
      BY <3>3, <3>4, <3>5, <3>11, <3>12, <3>13, <3>14, <3>15, <3>16 DEF AtrOK
  <2> QED
    BY <2>11, <2>12
<1>12. n < AtrPeriod \/ n = AtrPeriod \/ n > AtrPeriod
  BY <1>1
<1> QED
  BY <1>8, <1>9, <1>10, <1>11, <1>12

-----------------------------------------------------------------------------
(* The theorem about turning points *)

TurnInv == bars \in Seq(Bar) /\ AtrOK(atr, bars)

LEMMA TurnInvHolds == Spec => []TurnInv
<1>1. Init => TurnInv
  <2> SUFFICES ASSUME Init PROVE TurnInv
    OBVIOUS
  <2>1. bars = <<>> /\ Len(bars) = 0 /\ bars \in Seq(Bar) /\ atr = NewAtr
    BY DEF Init
  <2>2. /\ atr.trend = "UNKNOWN" /\ atr.anchor = 0 /\ atr.turns = <<>> /\ Len(atr.turns) = 0
        /\ atr \in AtrState
    BY <2>1 DEF NewAtr, AtrState, Trend
  <2> QED
    BY <2>1, <2>2 DEF TurnInv, AtrOK
<1>2. TurnInv /\ [Next]_vars => TurnInv'
  <2> SUFFICES ASSUME TurnInv, [Next]_vars PROVE TurnInv'
    OBVIOUS
  <2>1. ASSUME NEW bar \in NextBars(bars), ReadBar(bar) PROVE TurnInv'
    <3>1. /\ bar \in Bar /\ bars' = Append(bars, bar) /\ bars \in Seq(Bar)
          /\ atr' = AtrStep(atr, bars', Len(bars'))
      BY <2>1 DEF ReadBar, TurnInv
    <3>2. Len(bars') = Len(bars) + 1 /\ bars' \in Seq(Bar)
      BY <3>1, AppendGrows
    <3>3. AtrOK(AtrStep(atr, Append(bars, bar), Len(bars) + 1), Append(bars, bar))
      BY <3>1, AtrStepKeepsLegs DEF TurnInv
    <3> QED
      BY <3>1, <3>2, <3>3 DEF TurnInv
  <2>2. CASE UNCHANGED vars
    BY <2>2 DEF TurnInv, vars, AtrOK
  <2> QED
    BY <2>1, <2>2 DEF Next
<1> QED
  BY <1>1, <1>2, PTL DEF Spec

(* Each turning point of swing/atr_reversal.py is the first extreme of its *)
(* leg, confirmed by the first bar that retraces far enough from the       *)
(* extreme before it, and highs and lows alternate: for every source, ATR  *)
(* period and multiplier.                                                  *)
THEOREM TurnsRestOnTheirLegs == Spec => []TurnRestsOnItsLeg
<1>1. TurnInv => TurnRestsOnItsLeg
  <2> SUFFICES ASSUME TurnInv PROVE TurnRestsOnItsLeg
    OBVIOUS
  <2>1. bars \in Seq(Bar) /\ atr.turns \in Seq(Candidate)
    BY DEF TurnInv, AtrOK, AtrState
  <2>2. Turns = 1 .. Len(atr.turns) /\ Len(atr.turns) \in Nat
    BY <2>1 DEF Turns
  <2>3. \A k : LegStart(k) = StartOf(bars, atr.turns, k)
    BY DEF LegStart, StartOf, FirstDirected, FirstOf
  <2>4. TurnsAlternate
    <3>1. \A k \in 2 .. Len(atr.turns) : atr.turns[k].side = Opposing(atr.turns[k - 1].side)
      BY DEF TurnInv, AtrOK
    <3>2. \A k \in Turns : k > 1 => k \in 2 .. Len(atr.turns)
      BY <2>2
    <3> QED
      BY <3>1, <3>2 DEF TurnsAlternate
  <2>5. ASSUME NEW k \in Turns
        PROVE  Ended(bars, atr.turns[k], LegStart(k))
    BY <2>2, <2>3 DEF TurnInv, AtrOK
  <2>6. ASSUME NEW k \in Turns
        PROVE  LET turn == atr.turns[k]
                   leg == LegStart(k) .. turn.last - 1
                   at(i) == IF turn.side = "UPPER" THEN bars[i].high ELSE - bars[i].low
               IN /\ turn.origin \in leg
                  /\ \A i \in leg : \/ at(i) < at(turn.origin)
                                    \/ at(i) = at(turn.origin) /\ turn.origin <= i
    BY <2>5 DEF Ended, Leg, IsExtreme, Reach
  <2>7. TurnIsLegExtreme
    BY <2>6 DEF TurnIsLegExtreme
  <2>8. ASSUME NEW k \in Turns
        PROVE  /\ Confirms(bars, atr.turns[k].side, LegStart(k), atr.turns[k].last)
               /\ \A i \in LegStart(k) + 1 .. atr.turns[k].last - 1 :
                     ~Confirms(bars, atr.turns[k].side, LegStart(k), i)
    BY <2>5 DEF Ended, Leg
  <2>9. ConfirmedByFirstRetrace
    BY <2>8 DEF ConfirmedByFirstRetrace, Confirms, Retrace
  <2> QED
    BY <2>4, <2>7, <2>9 DEF TurnRestsOnItsLeg
<1> QED
  BY <1>1, TurnInvHolds, PTL

-----------------------------------------------------------------------------
(* Largest elements *)

LEMMA LargestExists ==
    ASSUME NEW S \in SUBSET Nat, S # {}, NEW bound \in Nat, \A x \in S : x <= bound
    PROVE  /\ Max(S) \in S /\ Max(S) \in Nat
           /\ \A y \in S : y <= Max(S)
<1> DEFINE Short == {u \in Nat : bound - u \in S}
           Less == OpToRel(<, Nat)
<1>1. PICK x \in S : TRUE
  OBVIOUS
<1>2. bound - x \in Short
  <2>1. x \in Nat /\ x <= bound
    OBVIOUS
  <2>2. bound - x \in Nat /\ bound - (bound - x) = x
    BY <2>1
  <2> QED
    BY <2>2
<1>3. PICK u \in Short : \A v \in Short : ~(<<v, u>> \in Less)
  <2>1. Short \in SUBSET Nat /\ Short # {}
    BY <1>2
  <2>2. IsWellFoundedOn(Less, Nat)
    BY NatLessThanWellFounded
  <2> HIDE DEF Short, Less
  <2> QED
    BY <2>1, <2>2, WFMin
<1>4. u \in Nat /\ bound - u \in S
  OBVIOUS
<1>5. ASSUME NEW y \in S PROVE bound - u >= y
  <2> DEFINE v == bound - y
  <2>1. y \in Nat /\ y <= bound
    OBVIOUS
  <2>2. v \in Nat /\ bound - v = y
    BY <2>1
  <2>3. v \in Short
    BY <2>2
  <2>4. ~(v < u)
    <3>1. v \in Nat /\ u \in Nat /\ ~(<<v, u>> \in Less)
      BY <1>3, <1>4, <2>2, <2>3
    <3> HIDE DEF v, Short
    <3> QED
      BY <3>1 DEF OpToRel
  <2> QED
    BY <1>4, <2>1, <2>4
<1>6. Max(S) \in S /\ \A y \in S : Max(S) >= y
  BY <1>4, <1>5 DEF Max
<1> QED
  BY <1>6

LEMMA LargerOfTwo ==
    ASSUME NEW x \in Nat, NEW y \in Nat
    PROVE  Max({x, y}) = IF x >= y THEN x ELSE y
<1>1. \A z \in {x, y} : (\A w \in {x, y} : z >= w) => z = IF x >= y THEN x ELSE y
  OBVIOUS
<1>2. \E z \in {x, y} : \A w \in {x, y} : z >= w
  OBVIOUS
<1> QED
  BY <1>1, <1>2 DEF Max

-----------------------------------------------------------------------------
(* Pivots *)

PivotsOf(bs) == Pivots(bs, DOMAIN bs)

IsTurn(bs, i, side) == IF side = "UPPER" THEN IsHigh(bs, i) ELSE IsLow(bs, i)

LEMMA PivotsAre ==
    ASSUME NEW bs \in Seq(Bar), NEW seed
    PROVE  seed \in PivotsOf(bs) <=>
             \E i \in 1 .. Len(bs), side \in Side :
                 /\ InWindow(i) \subseteq 1 .. Len(bs)
                 /\ IsTurn(bs, i, side) /\ seed = Pivot(bs, i, side)
<1>1. DOMAIN bs = 1 .. Len(bs)
  OBVIOUS
<1> QED
  BY <1>1 DEF PivotsOf, Pivots, IsTurn, Side

LEMMA WindowFits ==
    ASSUME NEW n \in Nat, NEW i \in Int
    PROVE  InWindow(i) \subseteq 1 .. n <=> i - LeftBars >= 1 /\ i + RightBars <= n
<1>1. i - LeftBars \in InWindow(i) /\ i + RightBars \in InWindow(i)
  BY DEF InWindow
<1> QED
  BY <1>1 DEF InWindow

LEMMA LatestIsLast ==
    ASSUME NEW bs \in Seq(Bar), NEW n \in 1 .. Len(bs), NEW m \in 1 .. n
    PROVE  PrefixTime(bs, m) <= PrefixTime(bs, n)
<1>1. m \in 1 .. Len(bs) /\ Len(bs) \in Nat
  OBVIOUS
<1>2. PICK i \in 1 .. m : PrefixTime(bs, m) = bs[i].available
  BY <1>1, PrefixTimeFacts
<1>3. i \in 1 .. n
  BY <1>1
<1> QED
  BY <1>2, <1>3, PrefixTimeFacts

LEMMA PivotFacts ==
    ASSUME NEW bs \in Seq(Bar), NEW seed \in PivotsOf(bs)
    PROVE  /\ seed.origin \in 1 .. Len(bs) /\ seed.side \in Side
           /\ seed.last = seed.origin + RightBars /\ seed.last \in 1 .. Len(bs)
           /\ InWindow(seed.origin) \subseteq 1 .. Len(bs)
           /\ IsTurn(bs, seed.origin, seed.side) /\ seed = Pivot(bs, seed.origin, seed.side)
           /\ seed.confirm \in Nat /\ seed.confirm <= PrefixTime(bs, seed.last)
           /\ seed.price \in Int /\ seed \in Candidate /\ seed # NoSeed
<1>1. PICK i \in 1 .. Len(bs), side \in Side :
         /\ InWindow(i) \subseteq 1 .. Len(bs)
         /\ IsTurn(bs, i, side) /\ seed = Pivot(bs, i, side)
  BY PivotsAre
<1>2. Len(bs) \in Nat /\ i \in Nat /\ i # 0 /\ i >= 1
  OBVIOUS
<1>3. i - LeftBars >= 1 /\ i + RightBars <= Len(bs) /\ i + RightBars \in 1 .. Len(bs)
  BY <1>1, <1>2, WindowFits
<1> DEFINE times == {bs[j].available : j \in InWindow(i)}
           last == i + RightBars
<1>4. \A j \in InWindow(i) : j \in 1 .. last /\ bs[j].available \in Nat
  <2> TAKE j \in InWindow(i)
  <2>1. j \in 1 .. Len(bs)
    BY <1>1
  <2>2. j \in 1 .. last
    BY <1>3 DEF InWindow
  <2> QED
    BY <2>1, <2>2, BarFacts
<1>5. PrefixTime(bs, last) \in Nat /\ \A j \in 1 .. last : bs[j].available <= PrefixTime(bs, last)
  BY <1>3, PrefixTimeFacts
<1>6. times \in SUBSET Nat /\ times # {} /\ \A t \in times : t <= PrefixTime(bs, last)
  <2>1. i \in InWindow(i)
    BY <1>2 DEF InWindow
  <2> QED
    BY <1>4, <1>5, <2>1
<1>7. Max(times) \in Nat /\ Max(times) <= PrefixTime(bs, last)
  <2> HIDE DEF times
  <2> QED
    BY <1>5, <1>6, LargestExists
<1>8. bs[i].high \in Int /\ bs[i].low \in Int
  BY BarFacts
<1>9. /\ seed.origin = i /\ seed.side = side /\ seed.last = last /\ seed.confirm = Max(times)
      /\ seed.price = IF side = "UPPER" THEN bs[i].high ELSE bs[i].low
  BY <1>1 DEF Pivot
<1>10. seed \in Candidate
  <2>1. /\ i \in Nat \ {0} /\ side \in Side /\ last \in Nat /\ Max(times) \in Nat
        /\ (IF side = "UPPER" THEN bs[i].high ELSE bs[i].low) \in Int
    BY <1>2, <1>7, <1>8
  <2> QED
    BY <1>1, <2>1 DEF Candidate, Pivot
<1> HIDE DEF times
<1>11. seed # NoSeed
  <2>1. NoSeed.origin = 0
    BY DEF NoSeed
  <2> QED
    BY <1>2, <1>9, <2>1
<1> QED
  BY <1>1, <1>3, <1>7, <1>8, <1>9, <1>10, <1>11

(* What a longer source adds is known only from its later bars on.         *)
LEMMA PivotIsStable ==
    ASSUME NEW bs, NEW longer, Grows(bs, longer), NEW i \in 1 .. Len(bs), NEW side \in Side,
           InWindow(i) \subseteq 1 .. Len(bs)
    PROVE  /\ Pivot(longer, i, side) = Pivot(bs, i, side)
           /\ IsTurn(longer, i, side) = IsTurn(bs, i, side)
<1>1. \A j \in InWindow(i) : longer[j] = bs[j]
  BY DEF Grows
<1>2. longer[i] = bs[i]
  BY DEF Grows
<1>3. {longer[j].available : j \in InWindow(i)} = {bs[j].available : j \in InWindow(i)}
  BY <1>1
<1>4. Pivot(longer, i, side) = Pivot(bs, i, side)
  BY <1>2, <1>3 DEF Pivot
<1> QED
  BY <1>1, <1>2, <1>4 DEF IsTurn, IsHigh, IsLow

LEMMA PivotsGrow ==
    ASSUME NEW bs, NEW longer, Grows(bs, longer)
    PROVE  \A seed : seed \in PivotsOf(bs) <=> seed \in PivotsOf(longer) /\ seed.last <= Len(bs)
<1>1. bs \in Seq(Bar) /\ longer \in Seq(Bar) /\ Len(bs) \in Nat /\ Len(longer) \in Nat
      /\ Len(bs) <= Len(longer)
  BY DEF Grows
<1> SUFFICES ASSUME NEW seed
             PROVE  seed \in PivotsOf(bs) <=> seed \in PivotsOf(longer) /\ seed.last <= Len(bs)
  OBVIOUS
<1>2. ASSUME seed \in PivotsOf(bs)
      PROVE  seed \in PivotsOf(longer) /\ seed.last <= Len(bs)
  <2>1. /\ seed.origin \in 1 .. Len(bs) /\ seed.side \in Side /\ seed.last \in 1 .. Len(bs)
        /\ InWindow(seed.origin) \subseteq 1 .. Len(bs)
        /\ IsTurn(bs, seed.origin, seed.side) /\ seed = Pivot(bs, seed.origin, seed.side)
    BY <1>1, <1>2, PivotFacts
  <2>2. IsTurn(longer, seed.origin, seed.side) /\ seed = Pivot(longer, seed.origin, seed.side)
    BY <2>1, PivotIsStable
  <2>3. seed.origin \in 1 .. Len(longer) /\ InWindow(seed.origin) \subseteq 1 .. Len(longer)
    BY <1>1, <2>1
  <2> QED
    BY <1>1, <2>1, <2>2, <2>3, PivotsAre
<1>3. ASSUME seed \in PivotsOf(longer), seed.last <= Len(bs)
      PROVE  seed \in PivotsOf(bs)
  <2>1. /\ seed.origin \in 1 .. Len(longer) /\ seed.side \in Side
        /\ seed.last = seed.origin + RightBars
        /\ InWindow(seed.origin) \subseteq 1 .. Len(longer)
        /\ IsTurn(longer, seed.origin, seed.side)
        /\ seed = Pivot(longer, seed.origin, seed.side)
    BY <1>1, <1>3, PivotFacts
  <2>2. seed.origin - LeftBars >= 1
    BY <1>1, <2>1, WindowFits
  <2>3. InWindow(seed.origin) \subseteq 1 .. Len(bs) /\ seed.origin \in 1 .. Len(bs)
    BY <1>1, <1>3, <2>1, <2>2, WindowFits
  <2>4. IsTurn(bs, seed.origin, seed.side) /\ seed = Pivot(bs, seed.origin, seed.side)
    BY <2>1, <2>3, PivotIsStable
  <2> QED
    BY <1>1, <2>1, <2>3, <2>4, PivotsAre
<1> QED
  BY <1>2, <1>3

-----------------------------------------------------------------------------
(* The rank of a seed *)

(* Seeds a detector may be given: what each is known by, and none twice.   *)
SeedsOK(seeds, bs) ==
    /\ \A p \in seeds :
          /\ p \in Candidate /\ p # NoSeed /\ p.side \in Side
          /\ p.last \in 1 .. Len(bs) /\ p.origin \in 1 .. p.last
          /\ p.confirm \in Nat /\ p.confirm <= PrefixTime(bs, p.last)
    /\ \A a, b \in seeds : DigestOf(a) = DigestOf(b) => a = b

(* What a longer source adds to them ends after the shorter one.           *)
SeedsGrow(seeds, bs, more, longer) ==
    /\ Grows(bs, longer) /\ SeedsOK(more, longer)
    /\ \A p : p \in seeds <=> p \in more /\ p.last <= Len(bs)

LEMMA SeedFacts ==
    ASSUME NEW bs \in Seq(Bar), NEW given, SeedsOK(given, bs), NEW seed \in given
    PROVE  /\ seed.origin \in 1 .. Len(bs) /\ seed.side \in Side /\ seed.last \in 1 .. Len(bs)
           /\ seed.confirm \in Nat /\ seed.confirm <= PrefixTime(bs, seed.last)
           /\ seed \in Candidate /\ seed # NoSeed
<1>1. /\ seed.last \in 1 .. Len(bs) /\ seed.origin \in 1 .. seed.last
      /\ seed.side \in Side /\ seed \in Candidate /\ seed # NoSeed
      /\ seed.confirm \in Nat /\ seed.confirm <= PrefixTime(bs, seed.last)
  BY DEF SeedsOK
<1>2. seed.origin \in 1 .. Len(bs)
  BY <1>1
<1> QED
  BY <1>1, <1>2

LEMMA GrownFacts ==
    ASSUME NEW bs, NEW longer, NEW given, NEW more, SeedsGrow(given, bs, more, longer)
    PROVE  /\ Grows(bs, longer) /\ SeedsOK(given, bs) /\ SeedsOK(more, longer)
           /\ \A p : p \in given <=> p \in more /\ p.last <= Len(bs)
<1>1. /\ Grows(bs, longer) /\ SeedsOK(more, longer) /\ Len(bs) \in Nat
      /\ \A p : p \in given <=> p \in more /\ p.last <= Len(bs)
  BY DEF SeedsGrow, Grows
<1>2. ASSUME NEW p \in given
      PROVE  /\ p \in Candidate /\ p # NoSeed /\ p.side \in Side
             /\ p.last \in 1 .. Len(bs) /\ p.origin \in 1 .. p.last
             /\ p.confirm \in Nat /\ p.confirm <= PrefixTime(bs, p.last)
  <2>1. /\ p \in Candidate /\ p # NoSeed /\ p.side \in Side
        /\ p.last \in 1 .. Len(longer) /\ p.origin \in 1 .. p.last /\ p.last <= Len(bs)
        /\ p.confirm \in Nat /\ p.confirm <= PrefixTime(longer, p.last)
    BY <1>1 DEF SeedsOK
  <2>2. p.last \in 1 .. Len(bs)
    BY <1>1, <2>1
  <2>3. PrefixTime(longer, p.last) = PrefixTime(bs, p.last)
    BY <1>1, <2>2, PrefixTimeIsStable
  <2> QED
    BY <2>1, <2>2, <2>3
<1>3. SeedsOK(given, bs)
  BY <1>1, <1>2 DEF SeedsOK
<1> QED
  BY <1>1, <1>3

LEMMA PivotsAreSeeds ==
    ASSUME NEW bs \in Seq(Bar)
    PROVE  SeedsOK(PivotsOf(bs), bs)
<1>1. ASSUME NEW p \in PivotsOf(bs)
      PROVE  /\ p \in Candidate /\ p # NoSeed /\ p.side \in Side
             /\ p.last \in 1 .. Len(bs) /\ p.origin \in 1 .. p.last
             /\ p.confirm \in Nat /\ p.confirm <= PrefixTime(bs, p.last)
             /\ p = Pivot(bs, p.origin, p.side) /\ p.origin \in Nat
  <2>1. /\ p.origin \in 1 .. Len(bs) /\ p.side \in Side
        /\ p.last = p.origin + RightBars /\ p.last \in 1 .. Len(bs)
        /\ p = Pivot(bs, p.origin, p.side)
        /\ p.confirm \in Nat /\ p.confirm <= PrefixTime(bs, p.last)
        /\ p \in Candidate /\ p # NoSeed
    BY PivotFacts
  <2>2. p.origin \in 1 .. p.last
    BY <2>1
  <2> QED
    BY <2>1, <2>2
<1>2. ASSUME NEW a \in PivotsOf(bs), NEW b \in PivotsOf(bs), DigestOf(a) = DigestOf(b)
      PROVE  a = b
  <2>1. /\ a = Pivot(bs, a.origin, a.side) /\ b = Pivot(bs, b.origin, b.side)
        /\ a.origin \in Nat /\ b.origin \in Nat /\ a.side \in Side /\ b.side \in Side
    BY <1>1
  <2>2. a.origin = b.origin /\ a.side = b.side
    BY <1>2, <2>1 DEF DigestOf, Side
  <2> QED
    BY <2>1, <2>2
<1> QED
  BY <1>1, <1>2 DEF SeedsOK

LEMMA PivotSeedsGrow ==
    ASSUME NEW bs, NEW longer, Grows(bs, longer)
    PROVE  SeedsGrow(PivotsOf(bs), bs, PivotsOf(longer), longer)
<1>1. longer \in Seq(Bar)
  BY DEF Grows
<1> QED
  BY <1>1, PivotsAreSeeds, PivotsGrow DEF SeedsGrow

LEMMA EffectiveFacts ==
    ASSUME NEW bs \in Seq(Bar), NEW given, SeedsOK(given, bs), NEW seed \in given
    PROVE  /\ EffectiveTime(seed, bs) = PrefixTime(bs, seed.last)
           /\ EffectiveTime(seed, bs) \in Nat
           /\ EffectiveTime(seed, bs) <= PrefixTime(bs, Len(bs))
<1>1. seed.confirm \in Nat /\ seed.last \in 1 .. Len(bs) /\ seed.confirm <= PrefixTime(bs, seed.last)
  BY SeedFacts
<1>2. PrefixTime(bs, seed.last) \in Nat
  BY <1>1, PrefixTimeFacts
<1>3. EffectiveTime(seed, bs) = PrefixTime(bs, seed.last)
  BY <1>1, <1>2, LargerOfTwo DEF EffectiveTime
<1>4. Len(bs) \in 1 .. Len(bs)
  BY <1>1
<1> QED
  BY <1>1, <1>2, <1>3, <1>4, LatestIsLast

LEMMA DigestFacts ==
    ASSUME NEW bs \in Seq(Bar), NEW given, SeedsOK(given, bs), NEW a \in given
    PROVE  /\ DigestOf(a) \in Nat /\ DigestOf(a) <= 2 * Len(bs) + 1
           /\ \A b \in given : DigestOf(a) = DigestOf(b) => a = b
<1>1. a.origin \in 1 .. Len(bs) /\ a.side \in Side /\ Len(bs) \in Nat
  BY SeedFacts
<1>2. DigestOf(a) \in Nat /\ DigestOf(a) <= 2 * Len(bs) + 1
  BY <1>1 DEF DigestOf
<1> QED
  BY <1>2 DEF SeedsOK

LEMMA OutranksOneWay ==
    ASSUME NEW bs \in Seq(Bar), NEW given, SeedsOK(given, bs), NEW a \in given, NEW b \in given,
           NEW o \in {1, -1}, Outranks(a, b, bs, o)
    PROVE  ~Outranks(b, a, bs, o)
<1>1. /\ EffectiveTime(a, bs) \in Nat /\ EffectiveTime(b, bs) \in Nat
      /\ a.confirm \in Nat /\ b.confirm \in Nat
      /\ DigestOf(a) \in Nat /\ DigestOf(b) \in Nat
  BY EffectiveFacts, SeedFacts, DigestFacts
<1> QED
  BY <1>1 DEF Outranks, DigestBefore

IsBest(best, seeds, bs, o) ==
    best \in seeds /\ \A other \in seeds \ {best} : Outranks(best, other, bs, o)

(* Among seeds there is one that outranks all others, and no second one.   *)
LEMMA BestFacts ==
    ASSUME NEW bs \in Seq(Bar), NEW given, SeedsOK(given, bs),
           NEW seeds \in SUBSET given, seeds # {}, NEW o \in {1, -1}
    PROVE  /\ IsBest(Best(seeds, bs, o), seeds, bs, o)
           /\ \A best : IsBest(best, seeds, bs, o) => best = Best(seeds, bs, o)
<1> DEFINE effective(seed) == EffectiveTime(seed, bs)
           top == PrefixTime(bs, Len(bs))
           rank(seed) == o * DigestOf(seed) + 2 * Len(bs) + 1
<1>1. \A seed \in seeds :
         /\ seed \in given /\ effective(seed) \in Nat /\ effective(seed) <= top
         /\ seed.confirm \in Nat /\ seed.confirm <= top
         /\ DigestOf(seed) \in Nat /\ DigestOf(seed) <= 2 * Len(bs) + 1
  <2> TAKE seed \in seeds
  <2>1. seed \in given
    OBVIOUS
  <2>2. effective(seed) \in Nat /\ effective(seed) <= top
    BY <2>1, EffectiveFacts
  <2>3. seed.confirm <= effective(seed) /\ seed.confirm \in Nat
    BY <2>1, EffectiveFacts, SeedFacts
  <2>4. seed.confirm <= top
    <3>1. top \in Nat
      <4>1. Len(bs) \in 1 .. Len(bs)
        BY <2>1, SeedFacts
      <4> QED
        BY <4>1, PrefixTimeFacts
    <3> HIDE DEF top, effective
    <3> QED
      BY <2>2, <2>3, <3>1
  <2>5. DigestOf(seed) \in Nat /\ DigestOf(seed) <= 2 * Len(bs) + 1
    BY <2>1, DigestFacts
  <2> HIDE DEF top, effective
  <2> QED
    BY <2>1, <2>2, <2>3, <2>4, <2>5
<1>2. Len(bs) \in Nat /\ top \in Nat
  <2>1. PICK seed \in seeds : TRUE
    OBVIOUS
  <2>2. Len(bs) \in Nat /\ Len(bs) \in 1 .. Len(bs)
    BY <2>1, SeedFacts
  <2> QED
    BY <2>2, PrefixTimeFacts
<1>3. \A seed \in seeds : rank(seed) \in Nat /\ rank(seed) <= 2 * (2 * Len(bs) + 1)
  <2> TAKE seed \in seeds
  <2>1. DigestOf(seed) \in Nat /\ DigestOf(seed) <= 2 * Len(bs) + 1
    BY <1>1
  <2> DEFINE d == DigestOf(seed)
  <2>2. o * d = d \/ o * d = - d
    <3>1. o = 1 \/ o = -1
      OBVIOUS
    <3>2. d \in Nat
      BY <2>1
    <3> HIDE DEF d
    <3> QED
      BY <3>1, <3>2
  <2> DEFINE m == o * d
  <2>3. (m = d \/ m = - d) /\ d \in Nat /\ d <= 2 * Len(bs) + 1 /\ rank(seed) = m + 2 * Len(bs) + 1
    BY <2>1, <2>2
  <2> HIDE DEF m, d, rank
  <2> QED
    BY <1>2, <2>3
<1> HIDE DEF effective, top, rank
<1> DEFINE times == {effective(seed) : seed \in seeds}
           first == {seed \in seeds : effective(seed) = Max(times)}
           confirms == {seed.confirm : seed \in first}
           second == {seed \in first : seed.confirm = Max(confirms)}
           ranks == {rank(seed) : seed \in second}
           third == {seed \in second : rank(seed) = Max(ranks)}
<1>4. first # {} /\ \A seed \in seeds : effective(seed) <= Max(times)
  <2>1. times \in SUBSET Nat /\ times # {} /\ \A t \in times : t <= top
    BY <1>1
  <2>2. Max(times) \in times /\ \A t \in times : t <= Max(times)
    <3> HIDE DEF times
    <3> QED
      BY <1>2, <2>1, LargestExists
  <2> QED
    BY <2>2
<1>5. second # {} /\ \A seed \in first : seed.confirm <= Max(confirms)
  <2>1. confirms \in SUBSET Nat /\ confirms # {} /\ \A t \in confirms : t <= top
    BY <1>1, <1>4
  <2>2. Max(confirms) \in confirms /\ \A t \in confirms : t <= Max(confirms)
    <3> HIDE DEF confirms
    <3> QED
      BY <1>2, <2>1, LargestExists
  <2> QED
    BY <2>2
<1>6. third # {} /\ \A seed \in second : rank(seed) <= Max(ranks)
  <2> DEFINE bound == 2 * (2 * Len(bs) + 1)
  <2>1. ranks \in SUBSET Nat /\ ranks # {} /\ \A t \in ranks : t <= bound
    BY <1>3, <1>5
  <2>2. bound \in Nat
    BY <1>2
  <2>3. Max(ranks) \in ranks /\ \A t \in ranks : t <= Max(ranks)
    <3> HIDE DEF ranks, bound
    <3> QED
      BY <2>1, <2>2, LargestExists
  <2> QED
    BY <2>3
<1>7. PICK best \in third : TRUE
  BY <1>6
<1>8. best \in seeds /\ effective(best) = Max(times) /\ best.confirm = Max(confirms)
      /\ rank(best) = Max(ranks)
  OBVIOUS
<1>9. ASSUME NEW other \in seeds \ {best}
      PROVE  Outranks(best, other, bs, o)
  <2>1. effective(other) <= effective(best) /\ effective(other) \in Nat /\ effective(best) \in Nat
    BY <1>1, <1>4, <1>8
  <2>2. CASE effective(other) # effective(best)
    <3>1. effective(best) > effective(other)
      BY <2>1, <2>2
    <3> QED
      BY <3>1 DEF Outranks, effective
  <2>3. CASE effective(other) = effective(best)
    <3>1. other \in first /\ other.confirm <= best.confirm
          /\ other.confirm \in Nat /\ best.confirm \in Nat
      BY <1>1, <1>5, <1>8, <2>3
    <3>2. CASE other.confirm # best.confirm
      <4>1. best.confirm > other.confirm
        BY <3>1, <3>2
      <4> QED
        BY <2>3, <4>1 DEF Outranks, effective
    <3>3. CASE other.confirm = best.confirm
      <4>1. other \in second
        BY <1>8, <3>1, <3>3
      <4>2. rank(other) <= rank(best)
        BY <1>6, <1>8, <4>1
      <4>3. o * DigestOf(other) \in Int /\ o * DigestOf(best) \in Int
            /\ DigestOf(best) \in Nat /\ DigestOf(other) \in Nat
        BY <1>1, <1>8
      <4>4. o * DigestOf(other) <= o * DigestOf(best)
        BY <1>2, <4>2, <4>3 DEF rank
      <4>5. DigestOf(other) # DigestOf(best)
        BY <1>1, <1>8, DigestFacts
      <4>6. o * DigestOf(other) < o * DigestOf(best)
        <5>1. o * DigestOf(other) # o * DigestOf(best)
          BY <4>3, <4>5
        <5> QED
          BY <4>3, <4>4, <5>1
      <4> QED
        BY <2>3, <3>3, <4>6 DEF Outranks, effective, DigestBefore
    <3> QED
      BY <3>2, <3>3
  <2> QED
    BY <2>2, <2>3
<1>10. \E seed \in seeds : \A other \in seeds \ {seed} : Outranks(seed, other, bs, o)
  BY <1>8, <1>9
<1>11. IsBest(Best(seeds, bs, o), seeds, bs, o)
  BY <1>10 DEF IsBest, Best
<1>12. ASSUME NEW b, IsBest(b, seeds, bs, o), b # Best(seeds, bs, o)
       PROVE  FALSE
  <2> DEFINE c == Best(seeds, bs, o)
  <2>1. b \in given /\ c \in given /\ Outranks(b, c, bs, o) /\ Outranks(c, b, bs, o)
    BY <1>11, <1>12 DEF IsBest
  <2> HIDE DEF c
  <2> QED
    BY <2>1, OutranksOneWay
<1> QED
  BY <1>11, <1>12

(* Ranks do not change when the source grows.                              *)
LEMMA OutranksIsStable ==
    ASSUME NEW bs, NEW longer, Grows(bs, longer), NEW given, SeedsOK(given, bs), NEW o,
           NEW a \in given, NEW b \in given
    PROVE  Outranks(a, b, longer, o) = Outranks(a, b, bs, o)
<1>1. bs \in Seq(Bar)
  BY DEF Grows
<1>2. a.last \in 1 .. Len(bs) /\ b.last \in 1 .. Len(bs)
  BY <1>1, SeedFacts
<1>3. EffectiveTime(a, longer) = EffectiveTime(a, bs) /\ EffectiveTime(b, longer) = EffectiveTime(b, bs)
  BY <1>2, PrefixTimeIsStable DEF EffectiveTime
<1> QED
  BY <1>3 DEF Outranks

LEMMA BestIsStable ==
    ASSUME NEW bs, NEW longer, Grows(bs, longer), NEW given, SeedsOK(given, bs),
           NEW o, NEW seeds \in SUBSET given
    PROVE  Best(seeds, longer, o) = Best(seeds, bs, o)
<1>1. \A seed \in seeds :
         (\A other \in seeds \ {seed} : Outranks(seed, other, longer, o))
            <=> (\A other \in seeds \ {seed} : Outranks(seed, other, bs, o))
  BY OutranksIsStable
<1> QED
  BY <1>1 DEF Best

-----------------------------------------------------------------------------
(* The state of the structure break detector *)

(* The references of a seed that were known when bar i was read.           *)
KnownBefore(s, seed, i) == {r \in References(s, seed) : r.last < i}

(* No bar up to a given one confirmed the pending seed of a side.          *)
Unbroken(s, bs, o, side, to) ==
    s.pending[side] # NoSeed =>
        \A i \in s.pending[side].last + 1 .. to :
            KnownBefore(s, s.pending[side], i) # {} =>
                ~Breaks(bs[i], s.pending[side],
                        Best(KnownBefore(s, s.pending[side], i), bs, o))

BreakOK(b, bs, given) ==
    /\ b.pending \in given /\ b.reference \in given /\ b.bar \in 1 .. Len(bs)
    /\ b.reference.origin < b.pending.origin
    /\ b.pending.last < b.bar /\ b.reference.last < b.bar
    /\ b.confirm = PrefixTime(bs, b.bar)

KnownOf(bs, given) == {p \in given : p.last < Len(bs)}

PendingOK(s) ==
    \A side \in Side : s.pending[side] # NoSeed =>
        s.pending[side] \in s.known /\ s.pending[side].side = side

(* Whatever is pending or broke later was not known at an earlier break.   *)
FreshAfter(s) ==
    \A j \in 1 .. Len(s.breaks) :
        /\ \A side \in Side : s.pending[side] # NoSeed /\ s.breaks[j].pending.side = side =>
              s.pending[side].last >= s.breaks[j].bar
        /\ \A k \in 1 .. Len(s.breaks) :
              j < k /\ s.breaks[j].pending.side = s.breaks[k].pending.side =>
                  s.breaks[k].pending.last >= s.breaks[j].bar

ScanOK(s, bs, given) ==
    /\ s \in BreakState
    /\ s.known = KnownOf(bs, given)
    /\ PendingOK(s)
    /\ \A k \in 1 .. Len(s.breaks) : BreakOK(s.breaks[k], bs, given)
    /\ FreshAfter(s)

LEMMA BreakIsStable ==
    ASSUME NEW bs, NEW longer, NEW given, NEW more, SeedsGrow(given, bs, more, longer),
           NEW b, BreakOK(b, bs, given)
    PROVE  BreakOK(b, longer, more)
<1>1. b.pending \in more /\ b.reference \in more
  <2>1. \A p \in given : p \in more
    BY GrownFacts
  <2> QED
    BY <2>1 DEF BreakOK
<1>2. b.bar \in 1 .. Len(longer)
  BY GrownFacts DEF BreakOK, Grows
<1>3. PrefixTime(longer, b.bar) = PrefixTime(bs, b.bar)
  BY GrownFacts, PrefixTimeIsStable DEF BreakOK
<1> QED
  BY <1>1, <1>2, <1>3 DEF BreakOK

(* The seeds that the next bar brings.                                     *)
Arrivals(bs, given, more) == {p \in more : p.last < Len(bs) + 1} \ KnownOf(bs, given)

(* The seeds that a bar brings are those whose window the bar before ended.*)
LEMMA ArrivalFacts ==
    ASSUME NEW bs \in Seq(Bar), NEW longer \in Seq(Bar), Len(longer) = Len(bs) + 1,
           NEW given, NEW more, SeedsGrow(given, bs, more, longer)
    PROVE  /\ KnownOf(longer, more) = KnownOf(bs, given) \cup Arrivals(bs, given, more)
           /\ KnownOf(bs, given) \subseteq given /\ KnownOf(bs, given) \subseteq more
           /\ Arrivals(bs, given, more) \subseteq more
           /\ \A p \in Arrivals(bs, given, more) : p.last = Len(bs)
           /\ \A p \in KnownOf(longer, more) : p.last < Len(bs) => p \in KnownOf(bs, given)
<1> DEFINE new == Arrivals(bs, given, more)
<1>1. Grows(bs, longer) /\ longer \in Seq(Bar) /\ Len(longer) = Len(bs) + 1 /\ Len(bs) \in Nat
      /\ SeedsOK(given, bs) /\ SeedsOK(more, longer)
  BY GrownFacts
<1>2. \A p \in more : p.last \in Nat
  <2> TAKE p \in more
  <2>1. p.last \in 1 .. Len(longer)
    BY <1>1, SeedFacts
  <2> QED
    BY <2>1, <1>1
<1>3. \A p : p \in given <=> p \in more /\ p.last <= Len(bs)
  BY <1>1, GrownFacts
<1>4. KnownOf(bs, given) \subseteq given /\ KnownOf(bs, given) \subseteq more
  BY <1>3 DEF KnownOf, Arrivals
<1>5. \A p \in KnownOf(bs, given) : p.last < Len(bs) + 1
  <2> TAKE p \in KnownOf(bs, given)
  <2>1. p.last \in Nat /\ p.last < Len(bs)
    BY <1>2, <1>4 DEF KnownOf, Arrivals
  <2> QED
    BY <1>1, <2>1
<1>6. KnownOf(longer, more) = KnownOf(bs, given) \cup new
  BY <1>1, <1>4, <1>5 DEF KnownOf, Arrivals
<1>7. \A p \in new : p.last = Len(bs)
  <2> TAKE p \in new
  <2>1. p \in more /\ p.last \in Nat /\ p.last < Len(bs) + 1 /\ p \notin KnownOf(bs, given)
    BY <1>2 DEF Arrivals
  <2>2. p \in given
    BY <1>1, <1>3, <2>1
  <2>3. ~(p.last < Len(bs))
    BY <2>1, <2>2 DEF KnownOf, Arrivals
  <2> QED
    BY <1>1, <2>1, <2>3
<1>8. \A p \in KnownOf(longer, more) : p.last < Len(bs) => p \in KnownOf(bs, given)
  BY <1>1, <1>6, <1>7
<1>9. new \subseteq more
  BY DEF Arrivals
<1> QED
  BY <1>4, <1>6, <1>7, <1>8, <1>9

LEMMA LatestFacts ==
    ASSUME NEW bs \in Seq(Bar), NEW o \in {1, -1}, NEW given, SeedsOK(given, bs),
           NEW arrived \in SUBSET given,
           NEW current, current = NoSeed \/ current \in given
    PROVE  Latest(current, arrived, bs, o) # NoSeed =>
              \/ Latest(current, arrived, bs, o) \in arrived
              \/ Latest(current, arrived, bs, o) = current
<1> DEFINE rivals == arrived \cup ({current} \ {NoSeed})
<1>1. rivals \in SUBSET given
  OBVIOUS
<1>2. CASE rivals = {}
  BY <1>2 DEF Latest
<1>3. CASE rivals # {}
  <2>1. Best(rivals, bs, o) \in rivals
    <3> HIDE DEF rivals
    <3> QED
      BY <1>1, <1>3, BestFacts DEF IsBest
  <2> QED
    BY <1>3, <2>1 DEF Latest
<1> QED
  BY <1>2, <1>3

LEMMA AbsorbKeeps ==
    ASSUME NEW bs \in Seq(Bar), NEW longer \in Seq(Bar), Len(longer) = Len(bs) + 1,
           NEW given, NEW more, SeedsGrow(given, bs, more, longer),
           NEW o \in {1, -1}, NEW s, ScanOK(s, bs, given),
           \A side \in Side : Unbroken(s, bs, o, side, Len(bs)),
           NEW a, a = Absorb(s, more, longer, Len(bs) + 1, o)
    PROVE  /\ ScanOK(a, longer, more)
           /\ \A side \in Side : Unbroken(a, longer, o, side, Len(bs))
<1> DEFINE n == Len(bs) + 1
           new == Arrivals(bs, given, more)
           arrived(side) == {seed \in new : seed.side = side}
           pending == [side \in Side |-> Latest(s.pending[side], arrived(side), longer, o)]
<1>1. Grows(bs, longer) /\ longer \in Seq(Bar) /\ Len(longer) = n /\ Len(bs) \in Nat
      /\ SeedsOK(given, bs) /\ SeedsOK(more, longer)
  BY GrownFacts
<1>2. /\ s \in BreakState /\ s.known = KnownOf(bs, given) /\ s.breaks \in Seq(Break)
      /\ s.pending \in [Side -> Candidate \cup {NoSeed}] /\ Len(s.breaks) \in Nat
  BY DEF ScanOK, BreakState
<1>3. /\ KnownOf(longer, more) = KnownOf(bs, given) \cup new
      /\ KnownOf(bs, given) \subseteq given /\ KnownOf(bs, given) \subseteq more
      /\ new \subseteq more
      /\ \A p \in new : p.last = Len(bs)
      /\ \A p \in KnownOf(longer, more) : p.last < Len(bs) => p \in KnownOf(bs, given)
  BY ArrivalFacts
<1>4. a = [s EXCEPT !.known = s.known \cup new, !.pending = pending]
  BY <1>2 DEF Absorb, Arrivals
<1>5. \A p \in more : p \in Candidate /\ p # NoSeed
  BY <1>1, SeedFacts
<1> HIDE DEF new, n
<1>6. \A side \in Side : pending[side] # NoSeed =>
         \/ pending[side] \in new /\ pending[side].side = side
         \/ pending[side] = s.pending[side] /\ s.pending[side] \in KnownOf(bs, given)
               /\ s.pending[side].side = side /\ s.pending[side] # NoSeed
  <2> TAKE side \in Side
  <2> DEFINE late == arrived(side)
             current == s.pending[side]
  <2>1. current = NoSeed \/ current \in more
    BY <1>2, <1>3 DEF ScanOK, PendingOK
  <2>2. late \in SUBSET more
    BY <1>3
  <2>3. Latest(current, late, longer, o) # NoSeed =>
          \/ Latest(current, late, longer, o) \in late
          \/ Latest(current, late, longer, o) = current
    <3> HIDE DEF late, current
    <3>1. longer \in Seq(Bar) /\ SeedsOK(more, longer) /\ o \in {1, -1}
      BY <1>1
    <3> QED
      BY <2>1, <2>2, <3>1, LatestFacts
  <2> QED
    BY <1>2, <2>3 DEF ScanOK, PendingOK
<1>7. \A side \in Side : pending[side] \in Candidate \cup {NoSeed}
  BY <1>2, <1>3, <1>5, <1>6
<1>8. pending \in [Side -> Candidate \cup {NoSeed}]
  BY <1>7
<1> HIDE DEF pending
<1>9. /\ a.known = KnownOf(longer, more) /\ a.pending = pending /\ a.breaks = s.breaks
      /\ a \in BreakState
  <2>1. s.known \cup new \in SUBSET Candidate /\ s.known \cup new = KnownOf(longer, more)
    BY <1>2, <1>3, <1>5
  <2> QED
    BY <1>2, <1>4, <1>8, <2>1 DEF BreakState
<1>10. PendingOK(a)
  BY <1>3, <1>6, <1>9 DEF PendingOK
<1>11. \A k \in 1 .. Len(a.breaks) : BreakOK(a.breaks[k], longer, more)
  BY <1>1, <1>9, BreakIsStable DEF ScanOK
<1>12. FreshAfter(a)
  <2>1. ASSUME NEW j \in 1 .. Len(s.breaks), NEW side \in Side, a.pending[side] # NoSeed,
               s.breaks[j].pending.side = side
        PROVE  a.pending[side].last >= s.breaks[j].bar
    <3>1. CASE pending[side] \in new
      <4>1. a.pending[side].last = Len(bs) /\ s.breaks[j].bar \in 1 .. Len(bs)
        BY <1>3, <1>9, <3>1 DEF ScanOK, BreakOK
      <4> QED
        BY <1>1, <4>1
    <3>2. CASE pending[side] = s.pending[side] /\ s.pending[side] # NoSeed
      BY <1>9, <2>1, <3>2 DEF ScanOK, FreshAfter
    <3> QED
      BY <1>6, <1>9, <2>1, <3>1, <3>2
  <2>2. \A j, k \in 1 .. Len(s.breaks) :
           j < k /\ s.breaks[j].pending.side = s.breaks[k].pending.side =>
               s.breaks[k].pending.last >= s.breaks[j].bar
    BY DEF ScanOK, FreshAfter
  <2> QED
    BY <1>9, <2>1, <2>2 DEF FreshAfter
<1>13. ASSUME NEW side \in Side, a.pending[side] # NoSeed,
              NEW i \in a.pending[side].last + 1 .. Len(bs),
              KnownBefore(a, a.pending[side], i) # {}
       PROVE  ~Breaks(longer[i], a.pending[side],
                      Best(KnownBefore(a, a.pending[side], i), longer, o))
  <2> DEFINE seed == a.pending[side]
             then == KnownBefore(a, seed, i)
  <2>1. seed \in more /\ seed.last \in 1 .. Len(longer)
    <3>1. seed \in more
      BY <1>3, <1>9, <1>10, <1>13 DEF PendingOK
    <3> QED
      BY <1>1, <3>1, SeedFacts
  <2>2. seed.last # Len(bs) /\ i \in 1 .. Len(bs)
    BY <1>1, <2>1
  <2>3. seed = s.pending[side] /\ s.pending[side] # NoSeed
    BY <1>3, <1>6, <1>9, <1>13, <2>2
  <2>4. then = KnownBefore(s, seed, i)
    <3>1. \A r \in KnownOf(longer, more) : r.last < i => r.last < Len(bs)
      <4> TAKE r \in KnownOf(longer, more)
      <4>1. r \in more
        BY DEF KnownOf
      <4>2. r.last \in 1 .. Len(longer)
        BY <1>1, <4>1, SeedFacts
      <4> QED
        BY <1>1, <2>2, <4>2
    <3>2. \A r : r \in KnownOf(longer, more) /\ r.last < i <=> r \in KnownOf(bs, given) /\ r.last < i
      BY <1>3, <3>1
    <3> QED
      BY <1>2, <1>9, <3>2 DEF KnownBefore, References
  <2>5. then \in SUBSET given
    BY <1>2, <1>3, <2>4 DEF KnownBefore, References
  <2> HIDE DEF then
  <2>6. Best(then, longer, o) = Best(then, bs, o)
    BY <1>1, <2>5, BestIsStable
  <2>7. longer[i] = bs[i]
    BY <1>1, <2>2 DEF Grows
  <2>8. ~Breaks(bs[i], seed, Best(then, bs, o))
    <3>1. Unbroken(s, bs, o, side, Len(bs))
      OBVIOUS
    <3>2. then # {}
      BY <1>13 DEF then
    <3>3. i \in s.pending[side].last + 1 .. Len(bs)
      BY <2>3
    <3> HIDE DEF seed
    <3>4. KnownBefore(s, s.pending[side], i) = then
      BY <2>3, <2>4
    <3> QED
      BY <2>3, <3>1, <3>2, <3>3, <3>4 DEF Unbroken
  <2> QED
    BY <2>6, <2>7, <2>8 DEF then
<1>14. \A side \in Side : Unbroken(a, longer, o, side, Len(bs))
  BY <1>13 DEF Unbroken
<1> QED
  BY <1>9, <1>10, <1>11, <1>12, <1>14 DEF ScanOK

(* What breaks, breaks at its bar's prefix time.                           *)
LEMMA BreakTimeIs ==
    ASSUME NEW bs \in Seq(Bar), NEW given, SeedsOK(given, bs),
           NEW seed \in given, NEW reference \in given,
           NEW i \in 1 .. Len(bs), seed.last < i, reference.last < i
    PROVE  BreakTime(seed, reference, bs, i) = PrefixTime(bs, i)
<1>1. /\ seed.confirm \in Nat /\ seed.confirm <= PrefixTime(bs, seed.last)
      /\ reference.confirm \in Nat /\ reference.confirm <= PrefixTime(bs, reference.last)
      /\ seed.last \in 1 .. Len(bs) /\ reference.last \in 1 .. Len(bs)
  BY SeedFacts
<1>2. seed.last \in 1 .. i /\ reference.last \in 1 .. i
  BY <1>1
<1>3. /\ PrefixTime(bs, seed.last) <= PrefixTime(bs, i)
      /\ PrefixTime(bs, reference.last) <= PrefixTime(bs, i)
  BY <1>2, LatestIsLast
<1>4. /\ PrefixTime(bs, i) \in Nat /\ PrefixTime(bs, seed.last) \in Nat
      /\ PrefixTime(bs, reference.last) \in Nat
  BY <1>1, PrefixTimeFacts
<1> DEFINE t == PrefixTime(bs, i)
           times == {seed.confirm, reference.confirm, t}
<1>5. t \in Nat /\ seed.confirm <= t /\ reference.confirm <= t
  BY <1>1, <1>3, <1>4
<1> HIDE DEF t
<1>6. t \in times /\ times \in SUBSET Nat /\ \A x \in times : t >= x
  BY <1>1, <1>5
<1>7. \A x \in times : (\A y \in times : x >= y) => x = t
  BY <1>5, <1>6
<1>8. Max(times) = t
  <2> HIDE DEF times
  <2> QED
    BY <1>6, <1>7 DEF Max
<1> QED
  BY <1>8 DEF BreakTime, t

LEMMA TryKeeps ==
    ASSUME NEW bs \in Seq(Bar), NEW given, SeedsOK(given, bs), NEW n, n = Len(bs), n # 0,
           NEW o \in {1, -1}, NEW s, ScanOK(s, bs, given),
           NEW side \in Side, NEW before, before = n - 1, Unbroken(s, bs, o, side, before),
           NEW other \in Side, other # side, NEW m, Unbroken(s, bs, o, other, m),
           NEW t, t = TryBreak(s, side, bs, n, o)
    PROVE  /\ ScanOK(t, bs, given)
           /\ Unbroken(t, bs, o, side, n)
           /\ Unbroken(t, bs, o, other, m)
<1> DEFINE seed == s.pending[side]
           references == References(s, seed)
           reference == Best(references, bs, o)
           breaks == seed # NoSeed /\ references # {} /\ Breaks(bs[n], seed, reference)
<1>1. n \in Nat /\ n \in 1 .. Len(bs) /\ n - 1 \in Nat
  OBVIOUS
<1>2. /\ s \in BreakState /\ s.known = KnownOf(bs, given) /\ s.breaks \in Seq(Break)
      /\ s.pending \in [Side -> Candidate \cup {NoSeed}] /\ Len(s.breaks) \in Nat
      /\ s.known \in SUBSET Candidate
  BY DEF ScanOK, BreakState
<1>3. references \in SUBSET given /\ \A r \in references : r.last < n
  BY <1>2 DEF KnownOf, References
<1>4. KnownBefore(s, seed, n) = references
  BY <1>3 DEF KnownBefore
<1>5. CASE ~breaks
  <2>1. t = s
    BY <1>5 DEF TryBreak
  <2>2. ASSUME seed # NoSeed, NEW i \in seed.last + 1 .. n, KnownBefore(s, seed, i) # {}
        PROVE  ~Breaks(bs[i], seed, Best(KnownBefore(s, seed, i), bs, o))
    <3>1. CASE i = n
      BY <1>4, <1>5, <2>2, <3>1
    <3>2. CASE i # n
      <4>1. seed \in KnownOf(bs, given)
        BY <1>2, <2>2 DEF ScanOK, PendingOK
      <4>2. seed.last \in 1 .. Len(bs)
        BY <4>1, SeedFacts DEF KnownOf
      <4>3. i \in seed.last + 1 .. n - 1
        BY <1>1, <3>2, <4>2
      <4> QED
        BY <2>2, <4>3 DEF Unbroken
    <3> QED
      BY <3>1, <3>2
  <2>3. Unbroken(s, bs, o, side, n)
    BY <2>2 DEF Unbroken
  <2> QED
    BY <2>1, <2>3
<1>6. CASE breaks
  <2> DEFINE time == BreakTime(seed, reference, bs, n)
             break == [pending |-> seed, reference |-> reference, bar |-> n, confirm |-> time]
             spent == Spent(s, side)
             count == Len(s.breaks)
             count2 == count + 1
  <2>1. t = [spent EXCEPT !.breaks = Append(s.breaks, break)]
    BY <1>6 DEF TryBreak
  <2>2. /\ spent.known = s.known /\ spent.pending = [s.pending EXCEPT ![side] = NoSeed]
        /\ spent \in BreakState
    <3>1. [s.pending EXCEPT ![side] = NoSeed] \in [Side -> Candidate \cup {NoSeed}]
      BY <1>2
    <3> DEFINE cleared == [s.pending EXCEPT ![side] = NoSeed]
    <3>2. spent = [s EXCEPT !.pending = cleared]
      BY <1>2 DEF Spent
    <3> HIDE DEF cleared, spent
    <3>3. spent.known = s.known /\ spent.pending = cleared /\ spent \in BreakState
      BY <1>2, <3>1, <3>2 DEF BreakState, cleared
    <3> QED
      BY <3>3 DEF cleared
  <2>3. IsBest(reference, references, bs, o)
    BY <1>3, <1>6, BestFacts
  <2>4. reference \in references /\ reference \in given /\ reference.last < n
    BY <1>3, <2>3 DEF IsBest
  <2>5. seed \in KnownOf(bs, given) /\ seed \in given /\ seed.last < n /\ seed.side = side
    BY <1>2, <1>6 DEF ScanOK, PendingOK, KnownOf
  <2>6. reference.origin < seed.origin
    BY <2>4 DEF References
  <2>7. time = PrefixTime(bs, n) /\ time \in Nat
    BY <1>1, <2>4, <2>5, BreakTimeIs, PrefixTimeFacts
  <2>8. seed \in Candidate /\ reference \in Candidate
    BY <2>4, <2>5, SeedFacts
  <2> HIDE DEF seed, reference, time, spent
  <2>9. break \in Break
    BY <1>1, <2>7, <2>8 DEF Break
  <2>10. BreakOK(break, bs, given)
    BY <1>1, <2>4, <2>5, <2>6, <2>7 DEF BreakOK
  <2>11. break.pending = seed /\ break.bar = n
    OBVIOUS
  <2> HIDE DEF break
  <2>12. Append(s.breaks, break) \in Seq(Break)
    BY <1>2, <2>9
  <2>13. /\ t \in BreakState /\ t.known = s.known /\ t.breaks = Append(s.breaks, break)
         /\ t.pending = [s.pending EXCEPT ![side] = NoSeed]
    BY <2>1, <2>2, <2>12 DEF BreakState
  <2>14. t.pending[side] = NoSeed /\ \A away \in Side \ {side} : t.pending[away] = s.pending[away]
    BY <1>2, <2>13
  <2>15. /\ Len(t.breaks) = count2 /\ t.breaks[count2] = break
         /\ \A k \in 1 .. count : t.breaks[k] = s.breaks[k]
    BY <1>2, <2>9, <2>13
  <2>16. \A k \in 1 .. count2 : k \in 1 .. count \/ k = count2
    BY <1>2
  <2>17. PendingOK(t)
    BY <2>13, <2>14 DEF ScanOK, PendingOK
  <2>18. \A k \in 1 .. Len(t.breaks) : BreakOK(t.breaks[k], bs, given)
    BY <2>10, <2>15, <2>16 DEF ScanOK
  <2>19. FreshAfter(t)
    <3> SUFFICES ASSUME NEW j \in 1 .. count2
                 PROVE  /\ \A away \in Side : t.pending[away] # NoSeed
                                                /\ t.breaks[j].pending.side = away =>
                              t.pending[away].last >= t.breaks[j].bar
                        /\ \A k \in 1 .. count2 :
                              j < k /\ t.breaks[j].pending.side = t.breaks[k].pending.side =>
                                  t.breaks[k].pending.last >= t.breaks[j].bar
      BY <2>15 DEF FreshAfter
    <3>1. CASE j = count2
      <4>1. t.breaks[j].pending.side = side
        BY <2>5, <2>11, <2>15, <3>1
      <4>2. \A k \in 1 .. count2 : ~(j < k)
        BY <1>2, <3>1
      <4> QED
        BY <2>14, <4>1, <4>2
    <3>2. CASE j \in 1 .. count
      <4>1. t.breaks[j] = s.breaks[j]
        BY <2>15, <3>2
      <4>2. \A away \in Side : t.pending[away] # NoSeed /\ t.breaks[j].pending.side = away =>
               t.pending[away].last >= t.breaks[j].bar
        BY <2>14, <3>2, <4>1 DEF ScanOK, FreshAfter
      <4>3. ASSUME NEW k \in 1 .. count2, j < k,
                   t.breaks[j].pending.side = t.breaks[k].pending.side
            PROVE  t.breaks[k].pending.last >= t.breaks[j].bar
        <5>1. CASE k = count2
          <6>1. seed # NoSeed /\ s.breaks[j].pending.side = side /\ t.breaks[k].pending = seed
            BY <1>6, <2>5, <2>11, <2>15, <4>1, <4>3, <5>1
          <6> QED
            BY <3>2, <4>1, <6>1 DEF ScanOK, FreshAfter, seed
        <5>2. CASE k \in 1 .. count
          BY <2>15, <3>2, <4>1, <4>3, <5>2 DEF ScanOK, FreshAfter
        <5> QED
          BY <2>16, <5>1, <5>2
      <4> QED
        BY <4>2, <4>3
    <3> QED
      BY <2>16, <3>1, <3>2
  <2>20. ScanOK(t, bs, given)
    BY <1>2, <2>13, <2>17, <2>18, <2>19 DEF ScanOK
  <2>21. Unbroken(t, bs, o, side, n)
    BY <2>14 DEF Unbroken
  <2>22. Unbroken(t, bs, o, other, m)
    <3>1. t.pending[other] = s.pending[other]
      BY <2>14
    <3>2. \A x, i : KnownBefore(t, x, i) = KnownBefore(s, x, i)
      BY <2>13 DEF KnownBefore, References
    <3> QED
      BY <3>1, <3>2 DEF Unbroken
  <2> QED
    BY <2>20, <2>21, <2>22
<1> QED
  BY <1>5, <1>6

LEMMA BothTries ==
    ASSUME NEW bs \in Seq(Bar), NEW given, SeedsOK(given, bs),
           NEW n, n = Len(bs), n # 0, NEW before, before = n - 1,
           NEW o \in {1, -1}, NEW a, ScanOK(a, bs, given),
           Unbroken(a, bs, o, "UPPER", before), Unbroken(a, bs, o, "LOWER", before),
           NEW u, u = TryBreak(a, "UPPER", bs, n, o), NEW l, l = TryBreak(u, "LOWER", bs, n, o)
    PROVE  ScanOK(l, bs, given) /\ Unbroken(l, bs, o, "UPPER", n) /\ Unbroken(l, bs, o, "LOWER", n)
<1>1. "UPPER" \in Side /\ "LOWER" \in Side
  BY DEF Side
<1>2. /\ ScanOK(u, bs, given) /\ Unbroken(u, bs, o, "UPPER", n) /\ Unbroken(u, bs, o, "LOWER", before)
  BY <1>1, TryKeeps
<1> QED
  BY <1>1, <1>2, TryKeeps

LEMMA BreakStepKeeps ==
    ASSUME NEW bs \in Seq(Bar), NEW longer \in Seq(Bar), Len(longer) = Len(bs) + 1,
           NEW given, NEW more, SeedsGrow(given, bs, more, longer),
           NEW o \in {1, -1}, NEW s, ScanOK(s, bs, given),
           \A side \in Side : Unbroken(s, bs, o, side, Len(bs))
    PROVE  LET next == BreakStep(s, more, longer, Len(longer), o)
           IN  ScanOK(next, longer, more) /\ \A side \in Side : Unbroken(next, longer, o, side, Len(longer))
<1> DEFINE n == Len(longer)
           before == Len(bs)
           a == Absorb(s, more, longer, n, o)
           u == TryBreak(a, "UPPER", longer, n, o)
           l == TryBreak(u, "LOWER", longer, n, o)
<1>1. longer \in Seq(Bar) /\ n = before + 1 /\ before \in Nat /\ before = n - 1 /\ n # 0
      /\ SeedsOK(more, longer)
  BY GrownFacts
<1>2. "UPPER" \in Side /\ "LOWER" \in Side /\ \A side \in Side : side = "UPPER" \/ side = "LOWER"
  BY DEF Side
<1>3. BreakStep(s, more, longer, n, o) = l
  BY DEF BreakStep
<1>4. ScanOK(a, longer, more) /\ \A side \in Side : Unbroken(a, longer, o, side, before)
  <2>1. a = Absorb(s, more, longer, Len(bs) + 1, o)
    BY <1>1
  <2> HIDE DEF a
  <2> QED
    BY <2>1, AbsorbKeeps, Zenon DEF before
<1>5. u = TryBreak(a, "UPPER", longer, n, o) /\ l = TryBreak(u, "LOWER", longer, n, o) /\ n = Len(longer)
  OBVIOUS
<1> HIDE DEF a, u, l, n, before
<1>6. ScanOK(l, longer, more) /\ Unbroken(l, longer, o, "UPPER", n) /\ Unbroken(l, longer, o, "LOWER", n)
  <2>1. Unbroken(a, longer, o, "UPPER", before) /\ Unbroken(a, longer, o, "LOWER", before)
    BY <1>2, <1>4
  <2>2. n = Len(longer) /\ n # 0 /\ before = n - 1 /\ longer \in Seq(Bar) /\ SeedsOK(more, longer)
    BY <1>1, <1>5
  <2>3. ScanOK(a, longer, more) /\ u = TryBreak(a, "UPPER", longer, n, o) /\ l = TryBreak(u, "LOWER", longer, n, o)
    BY <1>4, <1>5
  <2> QED
    BY <2>1, <2>2, <2>3, BothTries
<1>7. ScanOK(l, longer, more) /\ \A side \in Side : Unbroken(l, longer, o, side, n)
  BY <1>2, <1>6
<1> QED
  BY <1>3, <1>5, <1>7

BreakInv ==
    /\ bars \in Seq(Bar) /\ order \in {1, -1}
    /\ ScanOK(scan, bars, PivotsOf(bars))
    /\ \A side \in Side : Unbroken(scan, bars, order, side, Len(bars))

LEMMA BreakInvHolds == Spec => []BreakInv
<1>1. Init => BreakInv
  <2> SUFFICES ASSUME Init PROVE BreakInv
    OBVIOUS
  <2>1. bars = <<>> /\ Len(bars) = 0 /\ bars \in Seq(Bar) /\ scan = NewBreak /\ order \in {1, -1}
    BY DEF Init
  <2>2. /\ scan.known = {} /\ scan.breaks = <<>> /\ Len(scan.breaks) = 0
        /\ scan.pending = [side \in Side |-> NoSeed] /\ scan \in BreakState
    BY <2>1 DEF NewBreak, BreakState
  <2>3. KnownOf(bars, PivotsOf(bars)) = {}
    <3>1. \A p : p \notin PivotsOf(bars)
      <4>1. \A i \in 1 .. Len(bars) : FALSE
        BY <2>1
      <4> QED
        BY <2>1, <4>1, PivotFacts
    <3> QED
      BY <3>1 DEF KnownOf
  <2> QED
    BY <2>1, <2>2, <2>3 DEF BreakInv, ScanOK, PendingOK, FreshAfter, Unbroken
<1>2. BreakInv /\ [Next]_vars => BreakInv'
  <2> SUFFICES ASSUME BreakInv, [Next]_vars PROVE BreakInv'
    OBVIOUS
  <2>1. ASSUME NEW bar \in NextBars(bars), ReadBar(bar) PROVE BreakInv'
    <3>1. /\ bar \in Bar /\ bars' = Append(bars, bar) /\ bars \in Seq(Bar)
          /\ scan' = BreakStep(scan, PivotsOf(bars'), bars', Len(bars'), order)
          /\ order' = order
      BY <2>1 DEF ReadBar, BreakInv, PivotsOf
    <3>2. bars' \in Seq(Bar)
      BY <3>1, AppendGrows
    <3>3. /\ ScanOK(scan', bars', PivotsOf(bars'))
          /\ \A side \in Side : Unbroken(scan', bars', order, side, Len(bars'))
      <4>1. SeedsGrow(PivotsOf(bars), bars, PivotsOf(bars'), bars')
        BY <3>1, AppendGrows, PivotSeedsGrow
      <4>2. /\ bars' \in Seq(Bar) /\ Len(bars') = Len(bars) + 1 /\ bars \in Seq(Bar)
            /\ order \in {1, -1} /\ ScanOK(scan, bars, PivotsOf(bars))
            /\ \A side \in Side : Unbroken(scan, bars, order, side, Len(bars))
        BY <3>1, AppendGrows DEF BreakInv
      <4>3. LET next == BreakStep(scan, PivotsOf(bars'), bars', Len(bars'), order)
            IN  /\ ScanOK(next, bars', PivotsOf(bars'))
                /\ \A side \in Side : Unbroken(next, bars', order, side, Len(bars'))
        BY <4>1, <4>2, BreakStepKeeps
      <4> QED
        BY <3>1, <4>3
    <3> QED
      BY <3>1, <3>2, <3>3 DEF BreakInv
  <2>2. CASE UNCHANGED vars
    BY <2>2 DEF BreakInv, vars
  <2> QED
    BY <2>1, <2>2 DEF Next
<1> QED
  BY <1>1, <1>2, PTL DEF Spec
(* A structure break of swing/structure_break.py rests on two seeds known  *)
(* before its bar, no seed breaks twice or after a break of its side that  *)
(* knew it, and none that is still pending was passed over.                *)
THEOREM EveryBreakIsExact == Spec => []BreaksAreExact
<1>1. BreakInv => BreaksAreExact
  <2> SUFFICES ASSUME BreakInv PROVE BreaksAreExact
    OBVIOUS
  <2>1. /\ bars \in Seq(Bar) /\ order \in {1, -1} /\ ScanOK(scan, bars, PivotsOf(bars))
        /\ scan.breaks \in Seq(Break) /\ Len(scan.breaks) \in Nat /\ Len(bars) \in Nat
        /\ Found = 1 .. Len(scan.breaks)
    BY DEF BreakInv, ScanOK, BreakState, Found
  <2>0. SeedsOK(PivotsOf(bars), bars)
    BY <2>1, PivotsAreSeeds
  <2>2. \A k \in Found : BreakOK(scan.breaks[k], bars, PivotsOf(bars))
    BY <2>1 DEF ScanOK
  <2>3. EachSeedBreaksOnce
    <3>1. ASSUME NEW j \in Found, NEW k \in Found, j < k,
                 scan.breaks[j].pending.side = scan.breaks[k].pending.side
          PROVE  /\ scan.breaks[k].pending.last >= scan.breaks[j].bar
                 /\ scan.breaks[j].pending # scan.breaks[k].pending
      <4>1. scan.breaks[k].pending.last >= scan.breaks[j].bar
        BY <2>1, <3>1 DEF ScanOK, FreshAfter
      <4>2. /\ scan.breaks[j].pending.last < scan.breaks[j].bar /\ scan.breaks[j].bar \in Nat
            /\ scan.breaks[j].pending \in PivotsOf(bars) /\ scan.breaks[k].pending \in PivotsOf(bars)
        BY <2>1, <2>2 DEF BreakOK
      <4>3. scan.breaks[j].pending.last \in Nat /\ scan.breaks[k].pending.last \in Nat
        BY <2>1, <4>2, PivotFacts
      <4>4. scan.breaks[j].pending.last # scan.breaks[k].pending.last
        BY <4>1, <4>2, <4>3
      <4> QED
        BY <4>1, <4>4
    <3>2. \A j, k \in Found : j # k => j < k \/ k < j
      BY <2>1
    <3> QED
      BY <3>1, <3>2 DEF EachSeedBreaksOnce
  <2>4. BreakRestsOnThePast
    BY <2>2 DEF BreakRestsOnThePast, BreakOK
  <2>5. NoneMissed
    <3> SUFFICES ASSUME NEW side \in Side, scan.pending[side] # NoSeed,
                        References(scan, scan.pending[side]) # {},
                        NEW i \in Max({scan.pending[side].last,
                                       Best(References(scan, scan.pending[side]), bars, order).last})
                                  + 1 .. Len(bars)
                 PROVE  ~Breaks(bars[i], scan.pending[side],
                                Best(References(scan, scan.pending[side]), bars, order))
      BY DEF NoneMissed
    <3> DEFINE seed == scan.pending[side]
               all == References(scan, seed)
               reference == Best(all, bars, order)
               then == KnownBefore(scan, seed, i)
    <3>1. all \in SUBSET PivotsOf(bars) /\ seed \in PivotsOf(bars)
      BY <2>1 DEF ScanOK, PendingOK, KnownOf, References
    <3> HIDE DEF all
    <3>2. all # {}
      BY DEF all
    <3>3. IsBest(reference, all, bars, order)
      BY <2>1, <3>1, <3>2, <2>0, BestFacts
    <3>4. reference \in all /\ reference \in PivotsOf(bars)
      BY <3>1, <3>3 DEF IsBest
    <3>5. seed.last \in Nat /\ reference.last \in Nat /\ Len(bars) \in Nat
      <4>1. seed.last \in 1 .. Len(bars) /\ reference.last \in 1 .. Len(bars)
        BY <2>1, <3>1, <3>4, PivotFacts
      <4> QED
        BY <4>1
    <3>6. i \in seed.last + 1 .. Len(bars) /\ reference.last < i
      <4> DEFINE x == seed.last
                 y == reference.last
      <4>1. i \in Max({x, y}) + 1 .. Len(bars)
        BY DEF all
      <4>2. x \in Nat /\ y \in Nat
        BY <3>5
      <4> HIDE DEF x, y
      <4>3. Max({x, y}) = IF x >= y THEN x ELSE y
        BY <4>2, LargerOfTwo
      <4>4. i \in x + 1 .. Len(bars) /\ y < i
        BY <3>5, <4>1, <4>2, <4>3
      <4> QED
        BY <4>4 DEF x, y
    <3>7. then \in SUBSET PivotsOf(bars) /\ then \subseteq all /\ reference \in then
      BY <3>1, <3>4, <3>6 DEF KnownBefore, all
    <3>8. IsBest(reference, then, bars, order)
      BY <3>3, <3>7 DEF IsBest
    <3> HIDE DEF then
    <3>9. Best(then, bars, order) = reference
      BY <2>1, <3>7, <3>8, <2>0, BestFacts
    <3>10. ~Breaks(bars[i], seed, Best(then, bars, order))
      <4>1. Unbroken(scan, bars, order, side, Len(bars)) /\ then # {}
        BY <3>7 DEF BreakInv
      <4> QED
        BY <3>6, <4>1 DEF Unbroken, then
    <3> QED
      BY <3>9, <3>10 DEF all
  <2> QED
    BY <2>3, <2>4, <2>5 DEF BreaksAreExact
<1> QED
  BY <1>1, BreakInvHolds, PTL

-----------------------------------------------------------------------------
(* The reading of a zone, attempt by attempt *)

LEMMA LeastExists ==
    ASSUME NEW S \in SUBSET Nat, S # {}
    PROVE  Min(S) \in S /\ Min(S) \in Nat /\ \A y \in S : Min(S) <= y
<1> DEFINE Less == OpToRel(<, Nat)
<1>1. IsWellFoundedOn(Less, Nat)
  BY NatLessThanWellFounded
<1>2. PICK x \in S : \A y \in S : ~(<<y, x>> \in Less)
  <2> HIDE DEF Less
  <2> QED
    BY <1>1, WFMin
<1>3. \A y \in S : x <= y
  <2> TAKE y \in S
  <2>1. x \in Nat /\ y \in Nat /\ ~(<<y, x>> \in Less)
    BY <1>2
  <2>2. ~(y < x)
    BY <2>1 DEF OpToRel
  <2> HIDE DEF Less
  <2> QED
    BY <2>1, <2>2
<1> HIDE DEF Less
<1> QED
  BY <1>2, <1>3 DEF Min

LEMMA SmallerOfTwo ==
    ASSUME NEW x \in Nat, NEW y \in Nat
    PROVE  Min({x, y}) = IF x <= y THEN x ELSE y
<1>1. \A z \in {x, y} : (\A w \in {x, y} : z <= w) => z = IF x <= y THEN x ELSE y
  OBVIOUS
<1>2. \E z \in {x, y} : \A w \in {x, y} : z <= w
  OBVIOUS
<1> QED
  BY <1>1, <1>2 DEF Min

First(bs, sd, p, l) == Min(Openings(bs, sd, p, l))
After(bs, sd, t) == Min({AttemptEnd(bs, sd, t) + 1, Len(bs) + 1})

Body(bs, sd, f, p, l) ==
    IF Openings(bs, sd, p, l) = {} THEN <<>>
    ELSE IF Holds(bs, sd, First(bs, sd, p, l))
         THEN <<First(bs, sd, p, l)>>
                  \o f[After(bs, sd, First(bs, sd, p, l))][First(bs, sd, p, l)]
         ELSE f[After(bs, sd, First(bs, sd, p, l))][l]

Whole(bs, sd, f) == [p \in 1 .. Len(bs) + 1 |-> [l \in 0 .. Len(bs) |-> Body(bs, sd, f, p, l)]]

Reading(bs, sd) == CHOOSE f : f = Whole(bs, sd, f)

LEMMA RejectedIsReading ==
    ASSUME NEW bs, NEW sd
    PROVE  RejectedTouches(bs, sd) = Reading(bs, sd)[1][0]
BY DEF RejectedTouches, Reading, Whole, Body, First, After

LEMMA EndFacts ==
    ASSUME NEW bs \in Seq(Bar), NEW sd, NEW t \in Nat
    PROVE  /\ AttemptEnd(bs, sd, t) \in Nat
           /\ AttemptEnd(bs, sd, t) \in t + 1 .. t + ReactionHorizon
<1>1. ReactionHorizon \in Nat \ {0}
  BY DEF HistoricalReactionConfigOK
<1>2. CASE Deciding(bs, sd, t) = {}
  BY <1>1, <1>2 DEF AttemptEnd
<1>3. CASE Deciding(bs, sd, t) # {}
  <2> DEFINE S == Deciding(bs, sd, t)
  <2>1. S \in SUBSET Nat /\ S \subseteq t + 1 .. t + ReactionHorizon
    BY <1>1 DEF Deciding
  <2>2. Min(S) \in S
    <3> HIDE DEF S
    <3> QED
      BY <1>3, <2>1, LeastExists DEF S
  <2>3. AttemptEnd(bs, sd, t) = Min(S)
    BY <1>3 DEF AttemptEnd
  <2> HIDE DEF S
  <2> QED
    BY <1>1, <2>1, <2>2, <2>3
<1> QED
  BY <1>2, <1>3

LEMMA FirstFacts ==
    ASSUME NEW bs \in Seq(Bar), NEW sd, NEW p \in 1 .. Len(bs) + 1, NEW l,
           Openings(bs, sd, p, l) # {}
    PROVE  /\ First(bs, sd, p, l) \in Openings(bs, sd, p, l)
           /\ First(bs, sd, p, l) \in p .. Len(bs) /\ First(bs, sd, p, l) \in 0 .. Len(bs)
           /\ \A t \in Openings(bs, sd, p, l) : First(bs, sd, p, l) <= t
           /\ After(bs, sd, First(bs, sd, p, l)) \in p + 1 .. Len(bs) + 1
<1> DEFINE S == Openings(bs, sd, p, l)
           t == First(bs, sd, p, l)
           e == AttemptEnd(bs, sd, t)
<1>1. Len(bs) \in Nat /\ p \in Nat
  OBVIOUS
<1>2. S \in SUBSET Nat /\ S \subseteq p .. Len(bs)
  BY <1>1 DEF Openings
<1>3. t \in S /\ \A x \in S : t <= x
  <2>1. t = Min(S)
    BY DEF First
  <2> HIDE DEF S, t
  <2> QED
    BY <1>2, <2>1, LeastExists DEF S
<1>4. t \in p .. Len(bs) /\ t \in Nat /\ t \in 0 .. Len(bs)
  <2> HIDE DEF S, t
  <2> QED
    BY <1>1, <1>2, <1>3
<1>5. e \in Nat /\ e \in t + 1 .. t + ReactionHorizon
  <2> HIDE DEF t
  <2> QED
    BY <1>4, EndFacts
<1>6. After(bs, sd, t) \in p + 1 .. Len(bs) + 1
  <2> DEFINE x == e + 1
             y == Len(bs) + 1
  <2>1. ReactionHorizon \in Nat
    BY DEF HistoricalReactionConfigOK
  <2> HIDE DEF t, e
  <2>2. x \in Nat /\ y \in Nat /\ x >= p + 2 /\ y >= p
    BY <1>1, <1>4, <1>5, <2>1
  <2>3. y >= p + 1
    BY <1>1, <1>4
  <2>4. After(bs, sd, t) = Min({x, y})
    BY DEF After, e
  <2> HIDE DEF x
  <2>5. Min({x, y}) = IF x <= y THEN x ELSE y
    <3> HIDE DEF y
    <3> QED
      BY <2>2, SmallerOfTwo
  <2> QED
    BY <1>1, <2>2, <2>3, <2>4, <2>5
<1> QED
  BY <1>3, <1>4, <1>6

(* A place of the reading depends on later places only.                    *)
LEMMA BodyLooksAhead ==
    ASSUME NEW bs \in Seq(Bar), NEW sd, NEW p \in 1 .. Len(bs) + 1, NEW l \in 0 .. Len(bs),
           NEW f, NEW g,
           \A q \in p + 1 .. Len(bs) + 1, m \in 0 .. Len(bs) :
               f[q][m] = g[q][m] /\ g[q][m] \in Seq(Nat)
    PROVE  Body(bs, sd, f, p, l) = Body(bs, sd, g, p, l) /\ Body(bs, sd, g, p, l) \in Seq(Nat)
<1>1. CASE Openings(bs, sd, p, l) = {}
  BY <1>1 DEF Body
<1>2. CASE Openings(bs, sd, p, l) # {}
  <2> DEFINE t == First(bs, sd, p, l)
             p2 == After(bs, sd, t)
  <2>1. t \in 0 .. Len(bs) /\ p2 \in p + 1 .. Len(bs) + 1 /\ t \in Nat
    <3>1. t \in 0 .. Len(bs) /\ p2 \in p + 1 .. Len(bs) + 1
      BY <1>2, FirstFacts
    <3> HIDE DEF t
    <3> QED
      BY <3>1
  <2> HIDE DEF t, p2
  <2>2. /\ f[p2][t] = g[p2][t] /\ g[p2][t] \in Seq(Nat)
        /\ f[p2][l] = g[p2][l] /\ g[p2][l] \in Seq(Nat)
    BY <2>1
  <2>3. <<t>> \o g[p2][t] \in Seq(Nat)
    <3> DEFINE x == g[p2][t]
    <3>1. x \in Seq(Nat) /\ <<t>> \in Seq(Nat)
      BY <2>1, <2>2
    <3> HIDE DEF x
    <3>2. <<t>> \o x \in Seq(Nat)
      BY <3>1, ConcatProperties
    <3> QED
      BY <3>2 DEF x
  <2>4. /\ Body(bs, sd, f, p, l) = IF Holds(bs, sd, t) THEN <<t>> \o f[p2][t] ELSE f[p2][l]
        /\ Body(bs, sd, g, p, l) = IF Holds(bs, sd, t) THEN <<t>> \o g[p2][t] ELSE g[p2][l]
    BY <1>2 DEF Body, t, p2
  <2> QED
    BY <2>2, <2>3, <2>4
<1> QED
  BY <1>1, <1>2

(* The reading exists: it can be built from the end of the source.         *)
IsReadFrom(bs, sd, f, q) ==
    /\ f \in [1 .. Len(bs) + 1 -> [0 .. Len(bs) -> Seq(Nat)]]
    /\ \A p \in q .. Len(bs) + 1, l \in 0 .. Len(bs) : f[p][l] = Body(bs, sd, f, p, l)

LEMMA ReadOneMore ==
    ASSUME NEW bs \in Seq(Bar), NEW sd, NEW q \in 1 .. Len(bs) + 1, NEW f,
           IsReadFrom(bs, sd, f, q + 1)
    PROVE  \E g : IsReadFrom(bs, sd, g, q)
<1> DEFINE N == Len(bs)
           value(p, l) == IF p = q THEN Body(bs, sd, f, p, l) ELSE f[p][l]
           g == [p \in 1 .. N + 1 |-> [l \in 0 .. N |-> value(p, l)]]
<1>1. N \in Nat /\ q \in Nat
  OBVIOUS
<1>2. \A p \in 1 .. N + 1, l \in 0 .. N : f[p][l] \in Seq(Nat)
  BY DEF IsReadFrom
<1>3. \A p \in q + 1 .. N + 1 : p \in 1 .. N + 1 /\ p # q
  BY <1>1
<1>4. \A l \in 0 .. N : Body(bs, sd, f, q, l) \in Seq(Nat)
  BY <1>2, <1>3, BodyLooksAhead
<1>5. \A p \in 1 .. N + 1, l \in 0 .. N : value(p, l) \in Seq(Nat)
  BY <1>2, <1>4
<1>6. \A p \in 1 .. N + 1, l \in 0 .. N : g[p][l] = value(p, l)
  <2> HIDE DEF value
  <2> QED
    OBVIOUS
<1>7. g \in [1 .. N + 1 -> [0 .. N -> Seq(Nat)]]
  <2> HIDE DEF value
  <2> QED
    BY <1>5
<1> HIDE DEF g
<1>8. ASSUME NEW p \in q .. N + 1, NEW l \in 0 .. N
      PROVE  g[p][l] = Body(bs, sd, g, p, l)
  <2>1. p \in 1 .. N + 1 /\ p \in Nat
    BY <1>1
  <2>2. \A x \in p + 1 .. N + 1, m \in 0 .. N : g[x][m] = f[x][m] /\ f[x][m] \in Seq(Nat)
    <3> TAKE x \in p + 1 .. N + 1, m \in 0 .. N
    <3>1. x \in 1 .. N + 1 /\ x # q
      BY <1>1, <2>1
    <3> QED
      BY <1>2, <1>6, <3>1
  <2>3. Body(bs, sd, g, p, l) = Body(bs, sd, f, p, l)
    BY <2>1, <2>2, BodyLooksAhead
  <2>4. CASE p = q
    BY <1>6, <2>1, <2>3, <2>4
  <2>5. CASE p # q
    <3>1. p \in q + 1 .. N + 1
      BY <1>1, <2>1, <2>5
    <3>2. f[p][l] = Body(bs, sd, f, p, l)
      BY <3>1 DEF IsReadFrom
    <3> QED
      BY <1>6, <2>1, <2>3, <2>5, <3>2
  <2> QED
    BY <2>4, <2>5
<1>9. IsReadFrom(bs, sd, g, q)
  BY <1>7, <1>8 DEF IsReadFrom
<1> QED
  BY <1>9

LEMMA ReadingExists ==
    ASSUME NEW bs \in Seq(Bar), NEW sd
    PROVE  Reading(bs, sd) = Whole(bs, sd, Reading(bs, sd))
<1> DEFINE N == Len(bs)
           can(d) == \E f : IsReadFrom(bs, sd, f, N + 2 - d)
           S == {d \in Nat : d <= N + 1 => can(d)}
<1>1. N \in Nat
  OBVIOUS
<1>2. 0 \in S
  <2> DEFINE empty == [p \in 1 .. N + 1 |-> [l \in 0 .. N |-> <<>>]]
  <2>1. empty \in [1 .. N + 1 -> [0 .. N -> Seq(Nat)]]
    OBVIOUS
  <2>2. \A p \in N + 2 - 0 .. N + 1 : FALSE
    BY <1>1
  <2> HIDE DEF empty
  <2>3. IsReadFrom(bs, sd, empty, N + 2 - 0)
    BY <2>1, <2>2 DEF IsReadFrom
  <2> QED
    BY <2>3
<1>3. ASSUME NEW d \in Nat, d \in S PROVE d + 1 \in S
  <2> DEFINE d2 == d + 1
             q == N + 2 - d2
  <2> SUFFICES ASSUME d2 <= N + 1 PROVE can(d2)
    <3> HIDE DEF can
    <3> QED
      OBVIOUS
  <2>1. can(d)
    <3> HIDE DEF can
    <3>1. d <= N + 1
      BY <1>1
    <3> QED
      BY <1>3, <3>1
  <2>2. q \in 1 .. N + 1 /\ N + 2 - d = q + 1
    BY <1>1
  <2>3. PICK f : IsReadFrom(bs, sd, f, q + 1)
    BY <2>1, <2>2
  <2> HIDE DEF q
  <2>4. \E g : IsReadFrom(bs, sd, g, q)
    BY <2>2, <2>3, ReadOneMore
  <2> QED
    BY <2>4 DEF q
<1>4. can(N + 1)
  <2> HIDE DEF can
  <2>1. Nat \subseteq S
    <3> HIDE DEF S
    <3> QED
      BY <1>2, <1>3, NatSetInduction
  <2>2. N + 1 \in S
    BY <1>1, <2>1
  <2> QED
    BY <1>1, <2>2
<1>5. PICK f : IsReadFrom(bs, sd, f, 1)
  <2>1. N + 2 - (N + 1) = 1
    BY <1>1
  <2> QED
    BY <1>4, <2>1
<1>6. f = Whole(bs, sd, f)
  <2>1. f \in [1 .. N + 1 -> [0 .. N -> Seq(Nat)]]
        /\ \A p \in 1 .. N + 1, l \in 0 .. N : f[p][l] = Body(bs, sd, f, p, l)
    BY <1>5 DEF IsReadFrom
  <2>2. \A p \in 1 .. N + 1 : f[p] = [l \in 0 .. N |-> Body(bs, sd, f, p, l)]
    <3> TAKE p \in 1 .. N + 1
    <3>1. f[p] \in [0 .. N -> Seq(Nat)]
      BY <2>1
    <3>2. f[p] = [l \in 0 .. N |-> f[p][l]]
      BY <3>1
    <3> QED
      BY <2>1, <3>2
  <2>3. f = [p \in 1 .. N + 1 |-> f[p]]
    BY <2>1
  <2> QED
    BY <2>2, <2>3 DEF Whole
<1> QED
  BY <1>6 DEF Reading

LEMMA ReadingFacts ==
    ASSUME NEW bs \in Seq(Bar), NEW sd, NEW p \in 1 .. Len(bs) + 1, NEW l \in 0 .. Len(bs)
    PROVE  /\ Reading(bs, sd)[p][l] = Body(bs, sd, Reading(bs, sd), p, l)
           /\ Reading(bs, sd)[p][l] \in Seq(Nat)
<1> DEFINE N == Len(bs)
           R == Reading(bs, sd)
           good(d) == \A x \in N + 2 - d .. N + 1, m \in 0 .. N : R[x][m] \in Seq(Nat)
           S == {d \in Nat : d <= N + 1 => good(d)}
<1>1. N \in Nat
  OBVIOUS
<1>2. \A x \in 1 .. N + 1, m \in 0 .. N : R[x][m] = Body(bs, sd, R, x, m)
  <2>1. R = Whole(bs, sd, R)
    BY ReadingExists
  <2> HIDE DEF R
  <2>2. \A x \in 1 .. N + 1, m \in 0 .. N : Whole(bs, sd, R)[x][m] = Body(bs, sd, R, x, m)
    BY DEF Whole
  <2> QED
    BY <2>1, <2>2
<1> HIDE DEF R
<1>3. 0 \in S
  <2>1. \A x \in N + 2 - 0 .. N + 1 : FALSE
    BY <1>1
  <2> QED
    BY <2>1
<1>4. ASSUME NEW d \in Nat, d \in S PROVE d + 1 \in S
  <2> DEFINE d2 == d + 1
             q == N + 2 - d2
  <2> SUFFICES ASSUME d2 <= N + 1 PROVE good(d2)
    <3> HIDE DEF good
    <3> QED
      OBVIOUS
  <2>1. good(d)
    <3> HIDE DEF good
    <3>1. d <= N + 1
      BY <1>1
    <3> QED
      BY <1>4, <3>1
  <2>2. q \in 1 .. N + 1 /\ N + 2 - d = q + 1 /\ q \in Nat
    BY <1>1
  <2>3. \A x \in q + 1 .. N + 1, m \in 0 .. N : R[x][m] \in Seq(Nat)
    BY <2>1, <2>2
  <2> HIDE DEF q
  <2>4. \A m \in 0 .. N : R[q][m] \in Seq(Nat)
    <3> TAKE m \in 0 .. N
    <3>1. Body(bs, sd, R, q, m) \in Seq(Nat)
      BY <2>2, <2>3, BodyLooksAhead
    <3> QED
      BY <1>2, <2>2, <3>1
  <2>5. \A x \in q .. N + 1 : x = q \/ x \in q + 1 .. N + 1
    BY <1>1, <2>2
  <2>6. \A x \in q .. N + 1, m \in 0 .. N : R[x][m] \in Seq(Nat)
    BY <2>3, <2>4, <2>5
  <2> QED
    BY <2>6 DEF q
<1>5. good(N + 1)
  <2> HIDE DEF good
  <2>1. Nat \subseteq S
    <3> HIDE DEF S
    <3> QED
      BY <1>3, <1>4, NatSetInduction
  <2>2. N + 1 \in S
    BY <1>1, <2>1
  <2> QED
    BY <1>1, <2>2
<1>6. N + 2 - (N + 1) = 1
  BY <1>1
<1>7. R[p][l] \in Seq(Nat)
  BY <1>5, <1>6
<1> QED
  BY <1>2, <1>7 DEF R

-----------------------------------------------------------------------------
(* How the reading moves on *)

(* The first bar that decides an attempt ends it.                          *)
LEMMA AttemptDecided ==
    ASSUME NEW bs \in Seq(Bar), NEW sd, NEW t \in Nat, NEW e \in 1 .. Len(bs),
           e \in t + 1 .. t + ReactionHorizon, Decides(bs, sd, e),
           \A i \in t + 1 .. e - 1 : ~Decides(bs, sd, i)
    PROVE  AttemptEnd(bs, sd, t) = e /\ (Holds(bs, sd, t) <=> ~Penetrates(bs[e], sd))
<1> DEFINE S == Deciding(bs, sd, t)
<1>1. ReactionHorizon \in Nat /\ Len(bs) \in Nat /\ e \in Nat
  BY DEF HistoricalReactionConfigOK
<1>2. S \in SUBSET Nat
  BY <1>1 DEF Deciding
<1>3. e \in S
  BY <1>1 DEF Deciding
<1>4. ASSUME NEW i \in S PROVE e <= i
  <2>1. i \in t + 1 .. t + ReactionHorizon /\ Decides(bs, sd, i)
    BY DEF Deciding
  <2> QED
    BY <1>1, <2>1
<1> HIDE DEF S
<1>5. Min(S) = e
  <2>1. Min(S) \in S /\ Min(S) \in Nat /\ \A y \in S : Min(S) <= y
    BY <1>2, <1>3, LeastExists
  <2>2. Min(S) <= e /\ e <= Min(S)
    BY <1>3, <1>4, <2>1
  <2> QED
    BY <1>1, <2>1, <2>2
<1>6. AttemptEnd(bs, sd, t) = e
  BY <1>3, <1>5 DEF AttemptEnd, S
<1> QED
  BY <1>3, <1>6 DEF Holds, S

LEMMA AttemptUndecided ==
    ASSUME NEW bs \in Seq(Bar), NEW sd, NEW t \in Nat,
           \A i \in t + 1 .. t + ReactionHorizon : i \in 1 .. Len(bs) => ~Decides(bs, sd, i)
    PROVE  AttemptEnd(bs, sd, t) = t + ReactionHorizon /\ ~Holds(bs, sd, t)
<1>1. DOMAIN bs = 1 .. Len(bs)
  OBVIOUS
<1>2. Deciding(bs, sd, t) = {}
  BY <1>1 DEF Deciding
<1> QED
  BY <1>2 DEF AttemptEnd, Holds

LEMMA ReadingPasses ==
    ASSUME NEW bs \in Seq(Bar), NEW sd, NEW p \in 1 .. Len(bs) + 1, NEW q \in p .. Len(bs) + 1,
           NEW l \in 0 .. Len(bs), \A i \in p .. q - 1 : i \notin Openings(bs, sd, p, l)
    PROVE  Reading(bs, sd)[p][l] = Reading(bs, sd)[q][l]
<1>1. Len(bs) \in Nat /\ p \in Nat /\ q \in Nat /\ q \in 1 .. Len(bs) + 1
  OBVIOUS
<1>2. Openings(bs, sd, q, l) = Openings(bs, sd, p, l)
  <2>1. ASSUME NEW t \in Openings(bs, sd, p, l) PROVE t \in Openings(bs, sd, q, l)
    <3>1. t \in p .. Len(bs) /\ ~(t \in p .. q - 1)
      BY DEF Openings
    <3>2. t \in q .. Len(bs)
      BY <1>1, <3>1
    <3> QED
      BY <3>2 DEF Openings
  <2>2. ASSUME NEW t \in Openings(bs, sd, q, l) PROVE t \in Openings(bs, sd, p, l)
    <3>1. t \in q .. Len(bs)
      BY DEF Openings
    <3>2. t \in p .. Len(bs)
      BY <1>1, <3>1
    <3> QED
      BY <3>2 DEF Openings
  <2> QED
    BY <2>1, <2>2
<1>3. First(bs, sd, q, l) = First(bs, sd, p, l)
  BY <1>2 DEF First
<1>4. Body(bs, sd, Reading(bs, sd), q, l) = Body(bs, sd, Reading(bs, sd), p, l)
  BY <1>2, <1>3 DEF Body
<1> QED
  BY <1>1, <1>4, ReadingFacts

LEMMA ReadingEnds ==
    ASSUME NEW bs \in Seq(Bar), NEW sd, NEW l \in 0 .. Len(bs)
    PROVE  Reading(bs, sd)[Len(bs) + 1][l] = <<>>
<1> DEFINE p == Len(bs) + 1
<1>1. p \in 1 .. Len(bs) + 1 /\ Len(bs) \in Nat
  OBVIOUS
<1>2. Openings(bs, sd, p, l) = {}
  <2>1. \A t \in p .. Len(bs) : FALSE
    BY <1>1
  <2> QED
    BY <2>1 DEF Openings
<1> HIDE DEF p
<1>3. Reading(bs, sd)[p][l] = <<>>
  <2>1. Reading(bs, sd)[p][l] = Body(bs, sd, Reading(bs, sd), p, l)
    BY <1>1, ReadingFacts
  <2>2. Body(bs, sd, Reading(bs, sd), p, l) = <<>>
    BY <1>2 DEF Body
  <2> QED
    BY <2>1, <2>2
<1> QED
  BY <1>3 DEF p

(* An attempt that opens at the place read is read from its end on.        *)
LEMMA ReadingTakes ==
    ASSUME NEW bs \in Seq(Bar), NEW sd, NEW p \in 1 .. Len(bs), NEW l \in 0 .. Len(bs),
           p \in Openings(bs, sd, p, l)
    PROVE  Reading(bs, sd)[p][l] =
             IF Holds(bs, sd, p) THEN <<p>> \o Reading(bs, sd)[After(bs, sd, p)][p]
             ELSE Reading(bs, sd)[After(bs, sd, p)][l]
<1>1. Len(bs) \in Nat /\ p \in Nat /\ p \in 1 .. Len(bs) + 1
  OBVIOUS
<1>2. Openings(bs, sd, p, l) # {}
  OBVIOUS
<1>3. First(bs, sd, p, l) = p
  <2>1. First(bs, sd, p, l) \in p .. Len(bs) /\ First(bs, sd, p, l) <= p
    BY <1>1, <1>2, FirstFacts
  <2> QED
    BY <1>1, <2>1
<1>4. Reading(bs, sd)[p][l] = Body(bs, sd, Reading(bs, sd), p, l)
  BY <1>1, ReadingFacts
<1> QED
  BY <1>2, <1>3, <1>4 DEF Body

LEMMA ReadingFails ==
    ASSUME NEW bs \in Seq(Bar), NEW sd, NEW p \in 1 .. Len(bs), NEW l \in 0 .. Len(bs),
           p \in Openings(bs, sd, p, l), ~Holds(bs, sd, p), NEW q, q = After(bs, sd, p)
    PROVE  Reading(bs, sd)[p][l] = Reading(bs, sd)[q][l]
<1> DEFINE taken == <<p>> \o Reading(bs, sd)[After(bs, sd, p)][p]
<1>1. Reading(bs, sd)[p][l] =
        IF Holds(bs, sd, p) THEN taken ELSE Reading(bs, sd)[After(bs, sd, p)][l]
  BY ReadingTakes
<1> HIDE DEF taken
<1> QED
  BY <1>1

LEMMA ReadingSucceeds ==
    ASSUME NEW bs \in Seq(Bar), NEW sd, NEW p \in 1 .. Len(bs), NEW l \in 0 .. Len(bs),
           p \in Openings(bs, sd, p, l), Holds(bs, sd, p)
    PROVE  Reading(bs, sd)[p][l] = <<p>> \o Reading(bs, sd)[After(bs, sd, p)][p]
BY ReadingTakes

LEMMA AfterIs ==
    ASSUME NEW bs \in Seq(Bar), NEW sd, NEW t \in Nat
    PROVE  /\ AttemptEnd(bs, sd, t) <= Len(bs) => After(bs, sd, t) = AttemptEnd(bs, sd, t) + 1
           /\ AttemptEnd(bs, sd, t) >= Len(bs) => After(bs, sd, t) = Len(bs) + 1
<1> DEFINE e == AttemptEnd(bs, sd, t)
           x == e + 1
           y == Len(bs) + 1
<1>1. e \in Nat /\ Len(bs) \in Nat
  BY EndFacts
<1> HIDE DEF e
<1>2. x \in Nat /\ y \in Nat
  BY <1>1
<1>3. After(bs, sd, t) = Min({x, y})
  BY DEF After, e
<1>4. Min({x, y}) = IF x <= y THEN x ELSE y
  <2> HIDE DEF x, y
  <2> QED
    BY <1>2, SmallerOfTwo
<1>5. /\ e <= Len(bs) => After(bs, sd, t) = x
      /\ e >= Len(bs) => After(bs, sd, t) = y
  BY <1>1, <1>2, <1>3, <1>4
<1> QED
  BY <1>5 DEF e

(* An attempt that the source leaves undecided adds nothing to its reading.*)
LEMMA ReadingLeavesOpen ==
    ASSUME NEW bs \in Seq(Bar), NEW sd, NEW p \in 1 .. Len(bs), NEW l \in 0 .. Len(bs),
           p \in Openings(bs, sd, p, l), Len(bs) < p + ReactionHorizon,
           \A i \in p + 1 .. Len(bs) : ~Decides(bs, sd, i)
    PROVE  Reading(bs, sd)[p][l] = <<>>
<1>1. Len(bs) \in Nat /\ p \in Nat /\ ReactionHorizon \in Nat
  BY DEF HistoricalReactionConfigOK
<1>2. \A i \in p + 1 .. p + ReactionHorizon : i \in 1 .. Len(bs) => ~Decides(bs, sd, i)
  BY <1>1
<1>3. AttemptEnd(bs, sd, p) = p + ReactionHorizon /\ ~Holds(bs, sd, p)
  BY <1>1, <1>2, AttemptUndecided
<1>4. After(bs, sd, p) = Len(bs) + 1
  BY <1>1, <1>3, AfterIs
<1> DEFINE q == After(bs, sd, p)
<1>5. Reading(bs, sd)[p][l] = Reading(bs, sd)[q][l]
  <2>1. q = After(bs, sd, p)
    OBVIOUS
  <2> HIDE DEF q
  <2> QED
    BY <1>3, <2>1, ReadingFails
<1>6. Reading(bs, sd)[q][l] = <<>>
  <2>1. Reading(bs, sd)[Len(bs) + 1][l] = <<>>
    BY ReadingEnds
  <2> QED
    BY <1>4, <2>1
<1> QED
  BY <1>5, <1>6

-----------------------------------------------------------------------------
(* The state of the reaction scan *)

Touches(found) == [k \in 1 .. Len(found) |-> found[k].touch]

Reaction == [touch : Nat, bar : Nat, confirm : Nat]

(* The reading of a source starts with the touches found; until there are  *)
(* enough of them it goes on as it does from place p, l.                   *)
Reads(bs, sd, found, p, l) ==
    \E rest \in Seq(Nat) :
        /\ Reading(bs, sd)[1][0] = Touches(found) \o rest
        /\ Len(found) < MinReactions => rest = Reading(bs, sd)[p][l]

FoundOK(f, bs, sd) ==
    /\ f.touch \in 1 .. Len(bs) /\ f.bar \in 1 .. Len(bs)
    /\ f.bar \in f.touch + 1 .. f.touch + ReactionHorizon
    /\ Decides(bs, sd, f.bar) /\ ~Penetrates(bs[f.bar], sd)
    /\ \A i \in f.touch + 1 .. f.bar - 1 : ~Decides(bs, sd, i)
    /\ \A i \in 1 .. f.bar : f.confirm >= bs[i].available
    /\ f.confirm >= sd.confirm

(* An attempt that opened on bar t is undecided and within its horizon.    *)
Pending(bs, sd, t, l) ==
    /\ t \in Openings(bs, sd, t, l)
    /\ Len(bs) < t + ReactionHorizon
    /\ \A i \in t + 1 .. Len(bs) : ~Decides(bs, sd, i)

Position(r, bs) == IF r.touch = 0 THEN Len(bs) + 1 ELSE r.touch

ReactionTyped(r, bs) ==
    /\ r \in [touch : Nat, lastSuccess : Nat, found : Seq(Reaction)]
    /\ r.touch <= Len(bs) /\ r.lastSuccess <= Len(bs)
    /\ Len(r.found) <= MinReactions
    /\ Len(r.found) = MinReactions => r.touch = 0

ReactionReads(r, bs, sd) ==
    \A on \in Seq(Bar) :
        Grows(bs, on) => Reads(on, sd, r.found, Position(r, bs), r.lastSuccess)

ReactionOK(r, bs, sd) ==
    /\ ReactionTyped(r, bs)
    /\ \A k \in 1 .. Len(r.found) : FoundOK(r.found[k], bs, sd)
    /\ r.touch # 0 => Pending(bs, sd, r.touch, r.lastSuccess)
    /\ ReactionReads(r, bs, sd)

SameReading(bs, sd, p, l, q, m) == Reading(bs, sd)[p][l] = Reading(bs, sd)[q][m]

TakenReading(bs, sd, t, l, q) ==
    /\ Reading(bs, sd)[t][l] = <<t>> \o Reading(bs, sd)[q][t]
    /\ Reading(bs, sd)[q][t] \in Seq(Nat)

LEMMA ReadsElsewhere ==
    ASSUME NEW bs, NEW sd, NEW found, NEW p, NEW l, NEW q, NEW m, Reads(bs, sd, found, p, l),
           Len(found) < MinReactions => Reading(bs, sd)[p][l] = Reading(bs, sd)[q][m]
    PROVE  Reads(bs, sd, found, q, m)
BY DEF Reads

LEMMA TouchesJoin ==
    ASSUME NEW s \in Seq(Nat), NEW t \in Seq(Nat), NEW u \in Seq(Nat)
    PROVE  (s \o t) \o u = s \o (t \o u)
BY ConcatAssociative

LEMMA ReadsAnother ==
    ASSUME NEW bs, NEW sd, NEW found \in Seq(Reaction), NEW t, NEW l, NEW q,
           Reads(bs, sd, found, t, l), Len(found) < MinReactions,
           NEW item \in Reaction, t = item.touch, TakenReading(bs, sd, t, l, q),
           NEW more, more = Append(found, item)
    PROVE  Reads(bs, sd, more, q, t)
<1> DEFINE rest == Reading(bs, sd)[q][t]
           before == Touches(found)
           after == Touches(more)
           here == Reading(bs, sd)[t][l]
           whole == Reading(bs, sd)[1][0]
<1>1. whole = before \o here
  BY DEF Reads
<1>2. Len(found) \in Nat /\ t \in Nat /\ \A k \in 1 .. Len(found) : found[k] \in Reaction
  <2>1. t \in Nat
    BY DEF Reaction
  <2>2. Len(found) \in Nat /\ \A k \in 1 .. Len(found) : found[k] \in Reaction
    OBVIOUS
  <2> QED
    BY <2>1, <2>2
<1>3. before \in Seq(Nat) /\ Len(before) = Len(found)
  BY <1>2 DEF Touches, Reaction
<1>4. after = Append(before, t)
  <2>1. Len(more) = Len(found) + 1 /\ \A k \in 1 .. Len(more) :
           more[k] = IF k <= Len(found) THEN found[k] ELSE item
    BY <1>2
  <2>2. after = [k \in 1 .. Len(found) + 1 |-> IF k <= Len(found) THEN found[k].touch ELSE t]
    BY <2>1 DEF Touches
  <2>3. Append(before, t) = [k \in 1 .. Len(found) + 1 |-> IF k <= Len(found) THEN found[k].touch ELSE t]
    BY <1>2, <1>3 DEF Touches
  <2> QED
    BY <2>2, <2>3
<1>5. rest \in Seq(Nat) /\ here = <<t>> \o rest
  BY DEF TakenReading
<1> HIDE DEF rest, before, after, here, whole
<1>6. <<t>> \in Seq(Nat)
  BY <1>2
<1>7. after = before \o <<t>>
  BY <1>2, <1>3, <1>4, AppendIsConcat
<1>8. whole = after \o rest
  <2>1. (before \o <<t>>) \o rest = before \o (<<t>> \o rest)
    <3>1. before \in Seq(Nat) /\ rest \in Seq(Nat) /\ <<t>> \in Seq(Nat)
      BY <1>3, <1>5, <1>6
    <3> QED
      BY <3>1, TouchesJoin
  <2> QED
    BY <1>1, <1>5, <1>7, <2>1, Zenon
<1> QED
  BY <1>5, <1>8 DEF Reads, rest, after, whole

LEMMA GrowsOn ==
    ASSUME NEW bs, NEW longer, NEW on, Grows(bs, longer), Grows(longer, on)
    PROVE  Grows(bs, on)
<1>1. Len(bs) \in Nat /\ Len(longer) \in Nat /\ Len(on) \in Nat
  BY DEF Grows
<1> QED
  BY <1>1 DEF Grows

LEMMA SameBarsDecide ==
    ASSUME NEW bs, NEW on, Grows(bs, on), NEW sd, NEW i \in 1 .. Len(bs)
    PROVE  /\ Decides(on, sd, i) = Decides(bs, sd, i)
           /\ Eligible(on, sd, i) = Eligible(bs, sd, i)
           /\ Penetrates(on[i], sd) = Penetrates(bs[i], sd)
           /\ \A l : i \in Openings(on, sd, i, l) <=> i \in Openings(bs, sd, i, l)
<1>1. on[i] = bs[i] /\ Len(bs) \in Nat /\ Len(on) \in Nat /\ Len(bs) <= Len(on)
  BY DEF Grows
<1>2. i \in i .. Len(bs) /\ i \in i .. Len(on)
  BY <1>1
<1>3. Eligible(on, sd, i) = Eligible(bs, sd, i)
  BY <1>1 DEF Eligible
<1> QED
  BY <1>1, <1>2, <1>3 DEF Decides, Openings

LEMMA FoundIsStable ==
    ASSUME NEW bs, NEW longer, Grows(bs, longer), NEW sd, NEW f, FoundOK(f, bs, sd)
    PROVE  FoundOK(f, longer, sd)
<1>1. Len(bs) \in Nat /\ Len(longer) \in Nat /\ Len(bs) <= Len(longer)
  BY DEF Grows
<1>2. /\ f.touch \in 1 .. Len(bs) /\ f.bar \in 1 .. Len(bs)
      /\ f.bar \in f.touch + 1 .. f.touch + ReactionHorizon
      /\ Decides(bs, sd, f.bar) /\ ~Penetrates(bs[f.bar], sd)
      /\ \A i \in f.touch + 1 .. f.bar - 1 : ~Decides(bs, sd, i)
      /\ \A i \in 1 .. f.bar : f.confirm >= bs[i].available
      /\ f.confirm >= sd.confirm
  BY DEF FoundOK
<1>3. f.touch \in 1 .. Len(longer) /\ f.bar \in 1 .. Len(longer)
  BY <1>1, <1>2
<1>4. Decides(longer, sd, f.bar) /\ ~Penetrates(longer[f.bar], sd)
  BY <1>2, SameBarsDecide
<1>5. ASSUME NEW i \in f.touch + 1 .. f.bar - 1 PROVE ~Decides(longer, sd, i)
  <2>1. i \in 1 .. Len(bs)
    BY <1>1, <1>2
  <2> QED
    BY <1>2, <2>1, SameBarsDecide
<1>6. \A i \in 1 .. f.bar : longer[i] = bs[i]
  BY <1>1, <1>2 DEF Grows
<1> QED
  BY <1>2, <1>3, <1>4, <1>5, <1>6 DEF FoundOK

-----------------------------------------------------------------------------
(* The bar on which an attempt ends *)

(* Bar n ends an attempt that opened on bar t without a rejection.         *)
Spoils(bs, sd, t, n) ==
    \/ Decides(bs, sd, n) /\ Penetrates(bs[n], sd)
    \/ ~Decides(bs, sd, n) /\ n = t + ReactionHorizon

UnderWay(longer, sd, n, t, l) ==
    /\ t \in 1 .. n - 1 /\ l \in 0 .. n /\ t \in Openings(longer, sd, t, l)
    /\ n <= t + ReactionHorizon
    /\ \A i \in t + 1 .. n - 1 : ~Decides(longer, sd, i)

LEMMA EndsUnrejected ==
    ASSUME NEW longer, NEW on \in Seq(Bar), Grows(longer, on), NEW sd, NEW n \in Nat,
           n = Len(longer), NEW t \in 1 .. n - 1, NEW l \in 0 .. n,
           UnderWay(longer, sd, n, t, l),
           Spoils(longer, sd, t, n), NEW q \in Nat, q = n + 1
    PROVE  SameReading(on, sd, t, l, q, l)
<1>0. /\ t \in Openings(longer, sd, t, l) /\ n <= t + ReactionHorizon
      /\ \A i \in t + 1 .. n - 1 : ~Decides(longer, sd, i)
  BY DEF UnderWay
<1>1. /\ on \in Seq(Bar) /\ n \in Nat /\ Len(on) \in Nat /\ n <= Len(on) /\ t \in Nat
      /\ t \in 1 .. Len(on) /\ l \in 0 .. Len(on) /\ n \in 1 .. n /\ n \in 1 .. Len(on)
      /\ t \in 1 .. n /\ n \in t + 1 .. t + ReactionHorizon /\ ReactionHorizon \in Nat
  BY <1>0 DEF Grows, HistoricalReactionConfigOK
<1>2. t \in Openings(on, sd, t, l)
  BY <1>0, <1>1, SameBarsDecide
<1>3. \A i \in t + 1 .. n - 1 : ~Decides(on, sd, i)
  <2> TAKE i \in t + 1 .. n - 1
  <2>1. i \in 1 .. Len(longer)
    BY <1>1
  <2> QED
    BY <1>0, <2>1, SameBarsDecide
<1>9. Decides(on, sd, n) = Decides(longer, sd, n)
  BY <1>1, SameBarsDecide
<1>4. AttemptEnd(on, sd, t) = n /\ ~Holds(on, sd, t)
  <2>1. CASE Decides(longer, sd, n) /\ Penetrates(longer[n], sd)
    <3>1. Decides(on, sd, n) /\ Penetrates(on[n], sd)
      BY <1>1, <2>1, SameBarsDecide
    <3> QED
      BY <1>1, <1>3, <3>1, AttemptDecided
  <2>2. CASE ~Decides(longer, sd, n) /\ n = t + ReactionHorizon
    <3>1. ~Decides(on, sd, n)
      BY <1>9, <2>2
    <3>2. \A i \in t + 1 .. t + ReactionHorizon : i \in t + 1 .. n - 1 \/ i = n
      BY <1>1, <2>2
    <3>3. \A i \in t + 1 .. t + ReactionHorizon : ~Decides(on, sd, i)
      BY <1>3, <3>1, <3>2
    <3> QED
      BY <1>1, <2>2, <3>3, AttemptUndecided
  <2> QED
    BY <2>1, <2>2 DEF Spoils
<1>5. q = After(on, sd, t)
  BY <1>1, <1>4, AfterIs
<1>6. Reading(on, sd)[t][l] = Reading(on, sd)[q][l]
  BY <1>1, <1>2, <1>4, <1>5, ReadingFails
<1> QED
  BY <1>6 DEF SameReading

LEMMA EndsRejected ==
    ASSUME NEW longer, NEW on \in Seq(Bar), Grows(longer, on), NEW sd, NEW n \in Nat,
           n = Len(longer), NEW t \in 1 .. n - 1, NEW l \in 0 .. n,
           UnderWay(longer, sd, n, t, l),
           Decides(longer, sd, n), ~Penetrates(longer[n], sd), NEW q \in Nat, q = n + 1
    PROVE  TakenReading(on, sd, t, l, q)
<1>0. /\ t \in Openings(longer, sd, t, l) /\ n <= t + ReactionHorizon
      /\ \A i \in t + 1 .. n - 1 : ~Decides(longer, sd, i)
  BY DEF UnderWay
<1>1. /\ on \in Seq(Bar) /\ n \in Nat /\ Len(on) \in Nat /\ n <= Len(on) /\ t \in Nat
      /\ t \in 1 .. Len(on) /\ l \in 0 .. Len(on) /\ n \in 1 .. n /\ n \in 1 .. Len(on)
      /\ t \in 1 .. n /\ n \in t + 1 .. t + ReactionHorizon /\ ReactionHorizon \in Nat
  BY <1>0 DEF Grows, HistoricalReactionConfigOK
<1>2. t \in Openings(on, sd, t, l)
  BY <1>0, <1>1, SameBarsDecide
<1>3. \A i \in t + 1 .. n - 1 : ~Decides(on, sd, i)
  <2> TAKE i \in t + 1 .. n - 1
  <2>1. i \in 1 .. Len(longer)
    BY <1>1
  <2> QED
    BY <1>0, <2>1, SameBarsDecide
<1>4. Decides(on, sd, n) /\ ~Penetrates(on[n], sd)
  BY <1>1, SameBarsDecide
<1>5. AttemptEnd(on, sd, t) = n /\ Holds(on, sd, t)
  BY <1>1, <1>3, <1>4, AttemptDecided
<1>6. q = After(on, sd, t)
  BY <1>1, <1>5, AfterIs
<1>7. q \in 1 .. Len(on) + 1 /\ t \in 0 .. Len(on)
  BY <1>1
<1>8. Reading(on, sd)[q][t] \in Seq(Nat)
  BY <1>1, <1>7, ReadingFacts
<1>9. Reading(on, sd)[t][l] = <<t>> \o Reading(on, sd)[q][t]
  <2>1. on \in Seq(Bar) /\ t \in 1 .. Len(on) /\ l \in 0 .. Len(on)
    BY <1>1
  <2>2. Holds(on, sd, t)
    BY <1>5
  <2>3. Reading(on, sd)[t][l] = <<t>> \o Reading(on, sd)[After(on, sd, t)][t]
    BY <1>2, <2>1, <2>2, ReadingSucceeds
  <2> QED
    BY <1>6, <2>3, Zenon
<1> QED
  BY <1>8, <1>9 DEF TakenReading

(* A bar that opens no attempt is passed over.                             *)
LEMMA OpensNothing ==
    ASSUME NEW longer, NEW on \in Seq(Bar), Grows(longer, on), NEW sd, NEW n \in Nat, n = Len(longer), n # 0,
           NEW l \in 0 .. n, n \notin Openings(longer, sd, n, l), NEW q \in Nat, q = n + 1
    PROVE  SameReading(on, sd, n, l, q, l)
<1>1. /\ on \in Seq(Bar) /\ n \in Nat /\ Len(on) \in Nat /\ n <= Len(on)
      /\ l \in 0 .. Len(on) /\ n \in 1 .. n /\ n \in 1 .. Len(on) + 1
      /\ q \in n .. Len(on) + 1
  BY DEF Grows
<1>2. n \notin Openings(on, sd, n, l)
  BY <1>1, SameBarsDecide
<1>3. \A i \in n .. q - 1 : i \notin Openings(on, sd, n, l)
  BY <1>1, <1>2
<1>4. Reading(on, sd)[n][l] = Reading(on, sd)[q][l]
  BY <1>1, <1>3, ReadingPasses
<1> QED
  BY <1>4 DEF SameReading

-----------------------------------------------------------------------------
(* One bar of the reaction scan *)

LEMMA ReactionBefore ==
    ASSUME NEW bs \in Seq(Bar), NEW bar \in Bar, NEW longer, longer = Append(bs, bar), NEW sd,
           NEW r, ReactionOK(r, bs, sd), NEW n, n = Len(bs) + 1
    PROVE  /\ Grows(bs, longer) /\ longer \in Seq(Bar) /\ Len(longer) = n
           /\ n \in Nat /\ n # 0 /\ Len(bs) \in Nat /\ n - 1 = Len(bs)
           /\ r \in [touch : Nat, lastSuccess : Nat, found : Seq(Reaction)]
           /\ r.touch \in 0 .. n - 1 /\ r.lastSuccess \in 0 .. n
           /\ Len(r.found) \in Nat /\ Len(r.found) <= MinReactions
           /\ \A k \in 1 .. Len(r.found) : FoundOK(r.found[k], longer, sd)
           /\ \A on \in Seq(Bar) : Grows(longer, on) =>
                 Reads(on, sd, r.found, Position(r, bs), r.lastSuccess)
<1>1. /\ Grows(bs, longer) /\ longer \in Seq(Bar) /\ Len(longer) = n
      /\ n \in Nat /\ n # 0 /\ Len(bs) \in Nat /\ n - 1 = Len(bs)
  BY AppendGrows
<1>2. ReactionTyped(r, bs) /\ ReactionReads(r, bs, sd)
      /\ \A k \in 1 .. Len(r.found) : FoundOK(r.found[k], bs, sd)
  BY DEF ReactionOK
<1>3. /\ r \in [touch : Nat, lastSuccess : Nat, found : Seq(Reaction)]
      /\ Len(r.found) \in Nat /\ Len(r.found) <= MinReactions
      /\ r.touch \in 0 .. n - 1 /\ r.lastSuccess \in 0 .. n
  BY <1>1, <1>2 DEF ReactionTyped
<1>4. \A k \in 1 .. Len(r.found) : FoundOK(r.found[k], longer, sd)
  BY <1>1, <1>2, FoundIsStable
<1>5. ASSUME NEW on \in Seq(Bar), Grows(longer, on)
      PROVE  Reads(on, sd, r.found, Position(r, bs), r.lastSuccess)
  BY <1>1, <1>2, <1>5, GrowsOn DEF ReactionReads
<1> QED
  BY <1>1, <1>3, <1>4, <1>5

(* Enough reactions were found: later bars are not looked at.              *)
LEMMA StepWhenDone ==
    ASSUME NEW bs \in Seq(Bar), NEW bar \in Bar, NEW longer, longer = Append(bs, bar), NEW sd,
           NEW r, ReactionOK(r, bs, sd), Len(r.found) = MinReactions
    PROVE  ReactionOK(r, longer, sd)
<1> DEFINE n == Len(bs) + 1
<1>1. /\ Len(longer) = n /\ n \in Nat /\ Len(bs) \in Nat
      /\ r \in [touch : Nat, lastSuccess : Nat, found : Seq(Reaction)]
      /\ Len(r.found) \in Nat
      /\ \A k \in 1 .. Len(r.found) : FoundOK(r.found[k], longer, sd)
      /\ \A on \in Seq(Bar) : Grows(longer, on) =>
            Reads(on, sd, r.found, Position(r, bs), r.lastSuccess)
  <2>1. n = Len(bs) + 1
    OBVIOUS
  <2> HIDE DEF n
  <2> QED
    BY <2>1, ReactionBefore
<1>2. ReactionTyped(r, longer) /\ r.touch = 0
  BY <1>1 DEF ReactionOK, ReactionTyped
<1>3. ASSUME NEW on \in Seq(Bar), Grows(longer, on)
      PROVE  Reads(on, sd, r.found, Position(r, longer), r.lastSuccess)
  <2>1. Reads(on, sd, r.found, Position(r, bs), r.lastSuccess)
    BY <1>1, <1>3
  <2>2. ~(Len(r.found) < MinReactions)
    BY <1>1
  <2> QED
    BY <2>1, <2>2, ReadsElsewhere
<1> QED
  BY <1>1, <1>2, <1>3 DEF ReactionOK, ReactionReads

(* The attempt under way goes on past a bar that does not decide it.       *)
LEMMA StepWaits ==
    ASSUME NEW bs \in Seq(Bar), NEW bar \in Bar, NEW longer, longer = Append(bs, bar), NEW sd,
           NEW r, ReactionOK(r, bs, sd), r.touch # 0, NEW n, n = Len(bs) + 1,
           ~Decides(longer, sd, n), n < r.touch + ReactionHorizon
    PROVE  ReactionOK(r, longer, sd)
<1>1. /\ Grows(bs, longer) /\ Len(longer) = n /\ n \in Nat /\ Len(bs) \in Nat /\ n - 1 = Len(bs)
      /\ r \in [touch : Nat, lastSuccess : Nat, found : Seq(Reaction)]
      /\ r.touch \in 0 .. n - 1
      /\ \A k \in 1 .. Len(r.found) : FoundOK(r.found[k], longer, sd)
      /\ \A on \in Seq(Bar) : Grows(longer, on) =>
            Reads(on, sd, r.found, Position(r, bs), r.lastSuccess)
  BY ReactionBefore
<1>2. ReactionTyped(r, longer)
  BY <1>1 DEF ReactionOK, ReactionTyped
<1>3. Position(r, longer) = Position(r, bs)
  BY DEF Position
<1>4. Pending(longer, sd, r.touch, r.lastSuccess)
  <2> DEFINE t == r.touch
             l == r.lastSuccess
  <2>1. t \in Openings(bs, sd, t, l) /\ \A i \in t + 1 .. Len(bs) : ~Decides(bs, sd, i)
    BY DEF ReactionOK, Pending
  <2>2. t \in Nat /\ t \in 1 .. Len(bs)
    BY <1>1
  <2> HIDE DEF t, l
  <2>3. t \in Openings(longer, sd, t, l)
    BY <1>1, <2>1, <2>2, SameBarsDecide
  <2>4. ASSUME NEW i \in t + 1 .. n - 1 PROVE ~Decides(longer, sd, i)
    <3>1. i \in 1 .. Len(bs) /\ i \in t + 1 .. Len(bs)
      BY <1>1, <2>2
    <3> QED
      BY <1>1, <2>1, <3>1, SameBarsDecide
  <2>5. \A i \in t + 1 .. n : i \in t + 1 .. n - 1 \/ i = n
    BY <1>1, <2>2
  <2>6. \A i \in t + 1 .. n : ~Decides(longer, sd, i)
    BY <2>4, <2>5
  <2> QED
    BY <1>1, <2>3, <2>6 DEF Pending, t, l
<1> QED
  BY <1>1, <1>2, <1>3, <1>4 DEF ReactionOK, ReactionReads

(* What holds on the bar that may end an attempt.                          *)
LEMMA AttemptFacts ==
    ASSUME NEW bs \in Seq(Bar), NEW bar \in Bar, NEW longer, longer = Append(bs, bar), NEW sd,
           NEW r, ReactionOK(r, bs, sd), r.touch # 0, NEW n, n = Len(bs) + 1
    PROVE  /\ r.touch \in 1 .. n - 1 /\ r.touch \in Openings(longer, sd, r.touch, r.lastSuccess)
           /\ n <= r.touch + ReactionHorizon /\ r.lastSuccess \in 0 .. n
           /\ \A i \in r.touch + 1 .. n - 1 : ~Decides(longer, sd, i)
           /\ Position(r, bs) = r.touch /\ Len(r.found) < MinReactions
<1>1. /\ Grows(bs, longer) /\ Len(longer) = n /\ n \in Nat /\ Len(bs) \in Nat /\ n - 1 = Len(bs)
      /\ r.touch \in 0 .. n - 1 /\ r.lastSuccess \in 0 .. n
      /\ Len(r.found) \in Nat /\ Len(r.found) <= MinReactions
  BY ReactionBefore
<1> DEFINE t == r.touch
           l == r.lastSuccess
<1>2. /\ t \in Openings(bs, sd, t, l) /\ \A i \in t + 1 .. Len(bs) : ~Decides(bs, sd, i)
      /\ Len(bs) < t + ReactionHorizon
  BY DEF ReactionOK, Pending
<1>3. t \in Nat /\ t \in 1 .. Len(bs) /\ ReactionHorizon \in Nat
  BY <1>1 DEF HistoricalReactionConfigOK
<1>4. Len(r.found) < MinReactions /\ Position(r, bs) = t
  <2>1. Len(r.found) # MinReactions
    BY DEF ReactionOK, ReactionTyped
  <2> QED
    BY <1>1, <2>1 DEF Position, HistoricalReactionConfigOK
<1> HIDE DEF t, l
<1>5. t \in Openings(longer, sd, t, l)
  BY <1>1, <1>2, <1>3, SameBarsDecide
<1>6. ASSUME NEW i \in t + 1 .. n - 1 PROVE ~Decides(longer, sd, i)
  <2>1. i \in 1 .. Len(bs) /\ i \in t + 1 .. Len(bs)
    BY <1>1, <1>3
  <2> QED
    BY <1>1, <1>2, <2>1, SameBarsDecide
<1>7. n <= t + ReactionHorizon
  BY <1>1, <1>2, <1>3
<1> QED
  BY <1>1, <1>3, <1>4, <1>5, <1>6, <1>7 DEF t, l

(* What is left of the state before bar n, and of an attempt under way.    *)
Carried(r, longer, sd, n, p) ==
    /\ longer \in Seq(Bar) /\ n = Len(longer) /\ n # 0
    /\ r \in [touch : Nat, lastSuccess : Nat, found : Seq(Reaction)]
    /\ r.lastSuccess \in 0 .. n /\ Len(r.found) < MinReactions
    /\ \A k \in 1 .. Len(r.found) : FoundOK(r.found[k], longer, sd)
    /\ \A on \in Seq(Bar) : Grows(longer, on) => Reads(on, sd, r.found, p, r.lastSuccess)

LEMMA AttemptCarried ==
    ASSUME NEW bs \in Seq(Bar), NEW bar \in Bar, NEW longer, longer = Append(bs, bar), NEW sd,
           NEW r, ReactionOK(r, bs, sd), r.touch # 0, NEW n, n = Len(bs) + 1
    PROVE  Carried(r, longer, sd, n, r.touch) /\ UnderWay(longer, sd, n, r.touch, r.lastSuccess)
<1>1. /\ longer \in Seq(Bar) /\ Len(longer) = n /\ n # 0
      /\ r \in [touch : Nat, lastSuccess : Nat, found : Seq(Reaction)]
      /\ r.lastSuccess \in 0 .. n
      /\ \A k \in 1 .. Len(r.found) : FoundOK(r.found[k], longer, sd)
      /\ \A on \in Seq(Bar) : Grows(longer, on) =>
            Reads(on, sd, r.found, Position(r, bs), r.lastSuccess)
  BY ReactionBefore
<1>2. /\ r.touch \in 1 .. n - 1 /\ r.touch \in Openings(longer, sd, r.touch, r.lastSuccess)
      /\ n <= r.touch + ReactionHorizon
      /\ \A i \in r.touch + 1 .. n - 1 : ~Decides(longer, sd, i)
      /\ Position(r, bs) = r.touch /\ Len(r.found) < MinReactions
  BY AttemptFacts
<1> QED
  BY <1>1, <1>2 DEF Carried, UnderWay

(* The zone is penetrated, or the horizon runs out.                        *)
LEMMA StepAbandons ==
    ASSUME NEW longer, NEW sd, NEW n \in Nat, NEW r, Carried(r, longer, sd, n, r.touch),
           UnderWay(longer, sd, n, r.touch, r.lastSuccess), Spoils(longer, sd, r.touch, n),
           NEW s \in [touch : Nat, lastSuccess : Nat, found : Seq(Reaction)],
           s.touch = 0, s.lastSuccess = r.lastSuccess, s.found = r.found
    PROVE  ReactionOK(s, longer, sd)
<1>1. /\ longer \in Seq(Bar) /\ n = Len(longer) /\ n \in Nat /\ n # 0
      /\ Len(s.found) \in Nat /\ Len(s.found) < MinReactions
      /\ r.lastSuccess \in 0 .. n /\ r.touch \in 1 .. n - 1 /\ MinReactions \in Nat
      /\ \A k \in 1 .. Len(s.found) : FoundOK(s.found[k], longer, sd)
  BY DEF Carried, UnderWay, HistoricalReactionConfigOK
<1>2. ReactionTyped(s, longer)
  BY <1>1 DEF ReactionTyped
<1> DEFINE q == n + 1
           t == r.touch
           l == r.lastSuccess
<1>3. Position(s, longer) = q
  BY <1>1 DEF Position
<1>4. ASSUME NEW on \in Seq(Bar), Grows(longer, on)
      PROVE  Reads(on, sd, s.found, q, l)
  <2>1. Reads(on, sd, s.found, t, l)
    BY <1>4 DEF Carried
  <2>2. SameReading(on, sd, t, l, q, l)
    <3>1. /\ q = n + 1 /\ q \in Nat /\ n \in Nat /\ n = Len(longer)
          /\ t \in 1 .. n - 1 /\ l \in 0 .. n
          /\ UnderWay(longer, sd, n, t, l) /\ Spoils(longer, sd, t, n)
      BY <1>1
    <3> HIDE DEF q, t, l
    <3> QED
      BY <1>4, <3>1, EndsUnrejected, Zenon
  <2> HIDE DEF q
  <2> QED
    BY <2>1, <2>2, ReadsElsewhere DEF SameReading
<1>5. ReactionReads(s, longer, sd)
  BY <1>3, <1>4 DEF ReactionReads
<1> QED
  BY <1>1, <1>2, <1>5 DEF ReactionOK

LEMMA ReactionTimeFacts ==
    ASSUME NEW bs \in Seq(Bar), NEW n \in 1 .. Len(bs), NEW sd, sd.confirm \in Nat
    PROVE  /\ ReactionTime(bs, sd, n) \in Nat /\ ReactionTime(bs, sd, n) >= sd.confirm
           /\ \A i \in 1 .. n : ReactionTime(bs, sd, n) >= bs[i].available
<1> DEFINE x == sd.confirm
           y == PrefixTime(bs, n)
<1>1. x \in Nat /\ y \in Nat /\ \A i \in 1 .. n : bs[i].available <= y
  BY PrefixTimeFacts
<1>2. \A i \in 1 .. n : bs[i].available \in Nat
  <2> TAKE i \in 1 .. n
  <2>1. i \in 1 .. Len(bs)
    OBVIOUS
  <2> QED
    BY <2>1, BarFacts
<1>3. ReactionTime(bs, sd, n) = Max({x, y})
  BY DEF ReactionTime
<1> HIDE DEF x, y
<1>4. Max({x, y}) = IF x >= y THEN x ELSE y
  BY <1>1, LargerOfTwo
<1>5. ReactionTime(bs, sd, n) \in Nat /\ ReactionTime(bs, sd, n) >= x
      /\ ReactionTime(bs, sd, n) >= y
  BY <1>1, <1>3, <1>4
<1> QED
  BY <1>1, <1>2, <1>5 DEF x

(* The bar rejects the zone: the attempt is a reaction.                    *)
LEMMA StepSucceeds ==
    ASSUME NEW longer, NEW sd, sd.confirm \in Nat, NEW n \in Nat, NEW r,
           Carried(r, longer, sd, n, r.touch),
           UnderWay(longer, sd, n, r.touch, r.lastSuccess),
           Decides(longer, sd, n), ~Penetrates(longer[n], sd),
           NEW item \in Reaction, item.touch = r.touch, item.bar = n,
           item.confirm = ReactionTime(longer, sd, n),
           NEW s \in [touch : Nat, lastSuccess : Nat, found : Seq(Reaction)],
           s.touch = 0, s.lastSuccess = r.touch, s.found = Append(r.found, item)
    PROVE  ReactionOK(s, longer, sd)
<1>1. /\ longer \in Seq(Bar) /\ n = Len(longer) /\ n \in Nat /\ n # 0 /\ n \in 1 .. n
      /\ r.found \in Seq(Reaction) /\ Len(r.found) \in Nat /\ Len(r.found) < MinReactions
      /\ r.lastSuccess \in 0 .. n /\ r.touch \in 1 .. n - 1 /\ r.touch \in Nat
      /\ r.touch \in 1 .. n
      /\ MinReactions \in Nat /\ ReactionHorizon \in Nat
      /\ \A k \in 1 .. Len(r.found) : FoundOK(r.found[k], longer, sd)
      /\ n <= r.touch + ReactionHorizon
      /\ \A i \in r.touch + 1 .. n - 1 : ~Decides(longer, sd, i)
  BY DEF Carried, UnderWay, HistoricalReactionConfigOK
<1> DEFINE found == r.found
           more == s.found
<1>2. /\ Len(more) = Len(found) + 1 /\ more = Append(found, item)
      /\ \A k \in 1 .. Len(more) : k \in 1 .. Len(found) \/ k = Len(found) + 1
      /\ \A k \in 1 .. Len(found) : more[k] = found[k]
      /\ more[Len(found) + 1] = item
  BY <1>1
<1>3. ReactionTyped(s, longer)
  BY <1>1, <1>2 DEF ReactionTyped
<1>4. FoundOK(item, longer, sd)
  <2>1. /\ ReactionTime(longer, sd, n) >= sd.confirm
        /\ \A i \in 1 .. n : ReactionTime(longer, sd, n) >= longer[i].available
    BY <1>1, ReactionTimeFacts
  <2>2. n \in r.touch + 1 .. r.touch + ReactionHorizon
    BY <1>1
  <2> QED
    BY <1>1, <2>1, <2>2 DEF FoundOK
<1>5. \A k \in 1 .. Len(more) : FoundOK(more[k], longer, sd)
  BY <1>1, <1>2, <1>4
<1> DEFINE q == n + 1
           t == r.touch
           l == r.lastSuccess
<1>6. Position(s, longer) = q
  BY <1>1 DEF Position
<1>7. ASSUME NEW on \in Seq(Bar), Grows(longer, on)
      PROVE  Reads(on, sd, more, q, t)
  <2>1. Reads(on, sd, found, t, l)
    BY <1>7 DEF Carried
  <2>2. TakenReading(on, sd, t, l, q)
    <3>1. /\ q = n + 1 /\ q \in Nat /\ n \in Nat /\ n = Len(longer)
          /\ t \in 1 .. n - 1 /\ l \in 0 .. n
          /\ UnderWay(longer, sd, n, t, l)
      BY <1>1
    <3> HIDE DEF q, t, l
    <3> QED
      BY <1>7, <3>1, EndsRejected, Zenon
  <2>3. found \in Seq(Reaction) /\ Len(found) < MinReactions /\ t = item.touch
    BY <1>1
  <2> HIDE DEF q, t, l, found, more
  <2>4. more = Append(found, item)
    BY <1>2
  <2> QED
    BY <2>1, <2>2, <2>3, <2>4, ReadsAnother, Zenon
<1>8. ReactionReads(s, longer, sd)
  BY <1>6, <1>7 DEF ReactionReads
<1> QED
  BY <1>1, <1>3, <1>5, <1>8 DEF ReactionOK

LEMMA StateCarried ==
    ASSUME NEW bs \in Seq(Bar), NEW bar \in Bar, NEW longer, longer = Append(bs, bar), NEW sd,
           NEW r, ReactionOK(r, bs, sd), NEW n, n = Len(bs) + 1
    PROVE  Len(r.found) # MinReactions => Carried(r, longer, sd, n, Position(r, bs))
<1>1. /\ longer \in Seq(Bar) /\ Len(longer) = n /\ n # 0
      /\ r \in [touch : Nat, lastSuccess : Nat, found : Seq(Reaction)]
      /\ r.lastSuccess \in 0 .. n
      /\ \A k \in 1 .. Len(r.found) : FoundOK(r.found[k], longer, sd)
      /\ \A on \in Seq(Bar) : Grows(longer, on) =>
            Reads(on, sd, r.found, Position(r, bs), r.lastSuccess)
  BY ReactionBefore
<1>2. Len(r.found) # MinReactions => Len(r.found) < MinReactions
  <2>1. Len(r.found) \in Nat /\ Len(r.found) <= MinReactions
    BY DEF ReactionOK, ReactionTyped
  <2> QED
    BY <2>1 DEF HistoricalReactionConfigOK
<1> QED
  BY <1>1, <1>2 DEF Carried

LEMMA IdleCarried ==
    ASSUME NEW bs \in Seq(Bar), NEW bar \in Bar, NEW longer, longer = Append(bs, bar), NEW sd,
           NEW r, ReactionOK(r, bs, sd), r.touch = 0, Len(r.found) # MinReactions,
           NEW n, n = Len(bs) + 1
    PROVE  Carried(r, longer, sd, n, n)
<1>1. Position(r, bs) = n
  BY DEF Position
<1>2. Carried(r, longer, sd, n, Position(r, bs))
  BY StateCarried
<1> QED
  BY <1>1, <1>2

(* The bar opens an attempt.                                               *)
LEMMA StepOpens ==
    ASSUME NEW longer, NEW sd, NEW n \in Nat, NEW r, Carried(r, longer, sd, n, n),
           n \in Openings(longer, sd, n, r.lastSuccess),
           NEW s \in [touch : Nat, lastSuccess : Nat, found : Seq(Reaction)],
           s.touch = n, s.lastSuccess = r.lastSuccess, s.found = r.found
    PROVE  ReactionOK(s, longer, sd)
<1>1. /\ longer \in Seq(Bar) /\ n = Len(longer) /\ n \in Nat /\ n # 0
      /\ Len(s.found) \in Nat /\ Len(s.found) < MinReactions
      /\ r.lastSuccess \in 0 .. n /\ MinReactions \in Nat
      /\ \A k \in 1 .. Len(s.found) : FoundOK(s.found[k], longer, sd)
  BY DEF Carried, HistoricalReactionConfigOK
<1>2. ReactionTyped(s, longer)
  BY <1>1 DEF ReactionTyped
<1>3. Position(s, longer) = n
  BY <1>1 DEF Position
<1>4. ReactionReads(s, longer, sd)
  BY <1>3 DEF ReactionReads, Carried
<1>5. Pending(longer, sd, n, r.lastSuccess)
  <2>1. n < n + ReactionHorizon
    BY DEF HistoricalReactionConfigOK
  <2>2. \A i \in n + 1 .. Len(longer) : FALSE
    BY <1>1
  <2> QED
    BY <1>1, <2>1, <2>2 DEF Pending
<1> QED
  BY <1>1, <1>2, <1>4, <1>5 DEF ReactionOK

LEMMA StepPasses ==
    ASSUME NEW longer, NEW sd, NEW n \in Nat, NEW r, Carried(r, longer, sd, n, n),
           n \notin Openings(longer, sd, n, r.lastSuccess), r.touch = 0
    PROVE  ReactionOK(r, longer, sd)
<1>1. /\ longer \in Seq(Bar) /\ n = Len(longer) /\ n \in Nat /\ n # 0
      /\ Len(r.found) \in Nat /\ Len(r.found) < MinReactions
      /\ r.lastSuccess \in 0 .. n /\ MinReactions \in Nat
      /\ r \in [touch : Nat, lastSuccess : Nat, found : Seq(Reaction)]
      /\ \A k \in 1 .. Len(r.found) : FoundOK(r.found[k], longer, sd)
  BY DEF Carried, HistoricalReactionConfigOK
<1>2. ReactionTyped(r, longer)
  BY <1>1 DEF ReactionTyped
<1> DEFINE q == n + 1
           l == r.lastSuccess
<1>3. Position(r, longer) = q
  BY <1>1 DEF Position
<1>4. ASSUME NEW on \in Seq(Bar), Grows(longer, on)
      PROVE  Reads(on, sd, r.found, q, l)
  <2>1. Reads(on, sd, r.found, n, l)
    BY <1>4 DEF Carried
  <2>2. SameReading(on, sd, n, l, q, l)
    <3>1. /\ q = n + 1 /\ q \in Nat /\ n \in Nat /\ n = Len(longer) /\ n # 0
          /\ l \in 0 .. n /\ n \notin Openings(longer, sd, n, l)
      BY <1>1
    <3> HIDE DEF q, l
    <3> QED
      BY <1>4, <3>1, OpensNothing, Zenon
  <2> HIDE DEF q, l
  <2> QED
    BY <2>1, <2>2, ReadsElsewhere DEF SameReading
<1>5. ReactionReads(r, longer, sd)
  BY <1>3, <1>4 DEF ReactionReads
<1> QED
  BY <1>1, <1>2, <1>5 DEF ReactionOK

LEMMA OpeningIs ==
    ASSUME NEW bs \in Seq(Bar), NEW sd, NEW n, n = Len(bs), n # 0, NEW r,
           r.lastSuccess \in 0 .. n
    PROVE  n \in Openings(bs, sd, n, r.lastSuccess) <=>
             Eligible(bs, sd, n) /\ TouchesZone(bs[n], sd) /\ Separated(r, n)
<1>1. n \in n .. Len(bs)
  OBVIOUS
<1> QED
  BY <1>1 DEF Openings, Separated

(* A step of ReactionStep on the bar that was read.                        *)
LEMMA HorizonFacts ==
    ASSUME NEW n \in Nat, NEW t \in Nat, n <= t + ReactionHorizon
    PROVE  /\ n - t <= ReactionHorizon
           /\ n - t >= ReactionHorizon <=> n = t + ReactionHorizon
           /\ n # t + ReactionHorizon => n < t + ReactionHorizon
BY DEF HistoricalReactionConfigOK

LEMMA WatchKeeps ==
    ASSUME NEW bs \in Seq(Bar), NEW bar \in Bar, NEW longer, longer = Append(bs, bar),
           NEW sd, sd.confirm \in Nat, NEW r, ReactionOK(r, bs, sd), r.touch # 0,
           NEW n \in Nat, n = Len(bs) + 1, NEW s, s = Watch(r, longer, sd, n)
    PROVE  ReactionOK(s, longer, sd)
<1>1. /\ Carried(r, longer, sd, n, r.touch)
      /\ UnderWay(longer, sd, n, r.touch, r.lastSuccess)
  BY AttemptCarried
<1>2. /\ longer \in Seq(Bar) /\ n = Len(longer) /\ n \in 1 .. n
      /\ r \in [touch : Nat, lastSuccess : Nat, found : Seq(Reaction)]
      /\ r.touch \in 1 .. n - 1 /\ n <= r.touch + ReactionHorizon /\ ReactionHorizon \in Nat
  BY <1>1 DEF Carried, UnderWay, HistoricalReactionConfigOK
<1>3. n - r.touch <= ReactionHorizon /\ (n - r.touch >= ReactionHorizon <=> n = r.touch + ReactionHorizon)
      /\ (n # r.touch + ReactionHorizon => n < r.touch + ReactionHorizon)
  <2> DEFINE t == r.touch
  <2>1. t \in Nat /\ n <= t + ReactionHorizon
    BY <1>2
  <2> HIDE DEF t
  <2>2. n - t <= ReactionHorizon /\ (n - t >= ReactionHorizon <=> n = t + ReactionHorizon)
        /\ (n # t + ReactionHorizon => n < t + ReactionHorizon)
    BY <2>1, HorizonFacts, Zenon
  <2> QED
    BY <2>2 DEF t
<1> DEFINE abandoned == [r EXCEPT !.touch = 0]
           item == [touch |-> r.touch, bar |-> n, confirm |-> ReactionTime(longer, sd, n)]
           success == [touch |-> 0, lastSuccess |-> r.touch, found |-> Append(r.found, item)]
<1>4. s = IF Eligible(longer, sd, n) /\ Penetrates(longer[n], sd) THEN abandoned
          ELSE IF Eligible(longer, sd, n) /\ ConfirmsRejection(longer[n], sd) THEN success
          ELSE IF n = r.touch + ReactionHorizon THEN abandoned
          ELSE r
  BY <1>3 DEF Watch, OutOfTime, Succeed
<1>5. ASSUME Spoils(longer, sd, r.touch, n) PROVE ReactionOK(abandoned, longer, sd)
  <2>1. /\ abandoned \in [touch : Nat, lastSuccess : Nat, found : Seq(Reaction)]
        /\ abandoned.touch = 0 /\ abandoned.lastSuccess = r.lastSuccess
        /\ abandoned.found = r.found
    BY <1>2
  <2> HIDE DEF abandoned
  <2> QED
    BY <1>1, <1>5, <2>1, StepAbandons, Zenon
<1>6. ASSUME Decides(longer, sd, n), ~Penetrates(longer[n], sd)
      PROVE  ReactionOK(success, longer, sd)
  <2>1. ReactionTime(longer, sd, n) \in Nat
    BY <1>2, ReactionTimeFacts
  <2>2. item \in Reaction /\ item.touch = r.touch /\ item.bar = n
        /\ item.confirm = ReactionTime(longer, sd, n)
    BY <1>2, <2>1 DEF Reaction
  <2> HIDE DEF item
  <2>3. /\ success \in [touch : Nat, lastSuccess : Nat, found : Seq(Reaction)]
        /\ success.touch = 0 /\ success.lastSuccess = r.touch
        /\ success.found = Append(r.found, item)
    BY <1>2, <2>2
  <2> HIDE DEF success
  <2> QED
    BY <1>1, <1>6, <2>2, <2>3, StepSucceeds, Zenon
<1>7. ASSUME ~Decides(longer, sd, n), n < r.touch + ReactionHorizon
      PROVE  ReactionOK(r, longer, sd)
  BY <1>7, StepWaits
<1> HIDE DEF abandoned, success
<1>8. CASE Decides(longer, sd, n)
  <2>1. CASE Penetrates(longer[n], sd)
    BY <1>4, <1>5, <1>8, <2>1 DEF Decides, Spoils
  <2>2. CASE ~Penetrates(longer[n], sd)
    BY <1>4, <1>6, <1>8, <2>2 DEF Decides
  <2> QED
    BY <2>1, <2>2
<1>9. CASE ~Decides(longer, sd, n)
  <2>1. CASE n = r.touch + ReactionHorizon
    BY <1>4, <1>5, <1>9, <2>1 DEF Decides, Spoils
  <2>2. CASE n # r.touch + ReactionHorizon
    BY <1>3, <1>4, <1>7, <1>9, <2>2 DEF Decides
  <2> QED
    BY <2>1, <2>2
<1> QED
  BY <1>8, <1>9

LEMMA ReactionStepKeeps ==
    ASSUME NEW bs \in Seq(Bar), NEW bar \in Bar, NEW longer, longer = Append(bs, bar),
           NEW sd, sd.confirm \in Nat, NEW r, ReactionOK(r, bs, sd),
           NEW n \in Nat, n = Len(bs) + 1, NEW s, s = ReactionStep(r, longer, sd, n)
    PROVE  ReactionOK(s, longer, sd)
<1>1. CASE Len(r.found) = MinReactions
  <2>1. s = r
    BY <1>1 DEF ReactionStep
  <2> QED
    BY <1>1, <2>1, StepWhenDone
<1>2. CASE Len(r.found) # MinReactions /\ r.touch # 0
  <2>1. s = Watch(r, longer, sd, n)
    BY <1>2 DEF ReactionStep
  <2> QED
    BY <1>2, <2>1, WatchKeeps, Zenon
<1>3. CASE Len(r.found) # MinReactions /\ r.touch = 0
  <2> DEFINE opened == [r EXCEPT !.touch = n]
  <2>1. Carried(r, longer, sd, n, n)
    BY <1>3, IdleCarried, Zenon
  <2>2. /\ longer \in Seq(Bar) /\ n = Len(longer) /\ n # 0 /\ r.lastSuccess \in 0 .. n
        /\ r \in [touch : Nat, lastSuccess : Nat, found : Seq(Reaction)]
    BY <2>1 DEF Carried
  <2>3. n \in Openings(longer, sd, n, r.lastSuccess) <=>
             Eligible(longer, sd, n) /\ TouchesZone(longer[n], sd) /\ Separated(r, n)
    BY <2>2, OpeningIs, Zenon
  <2>4. s = IF n \in Openings(longer, sd, n, r.lastSuccess) THEN opened ELSE r
    BY <1>3, <2>3 DEF ReactionStep
  <2>5. /\ opened \in [touch : Nat, lastSuccess : Nat, found : Seq(Reaction)]
        /\ opened.touch = n /\ opened.lastSuccess = r.lastSuccess /\ opened.found = r.found
    BY <2>2
  <2> HIDE DEF opened
  <2>6. CASE n \in Openings(longer, sd, n, r.lastSuccess)
    BY <2>1, <2>4, <2>5, <2>6, StepOpens, Zenon
  <2>7. CASE n \notin Openings(longer, sd, n, r.lastSuccess)
    BY <1>3, <2>1, <2>4, <2>7, StepPasses, Zenon
  <2> QED
    BY <2>6, <2>7
<1> QED
  BY <1>1, <1>2, <1>3

(* The scan of a zone starts when the zone is known; no earlier bar counts.*)
LEMMA NothingBefore ==
    ASSUME NEW bs, NEW longer, Grows(bs, longer), NEW sd \in PivotsOf(longer),
           sd \notin PivotsOf(bs), NEW i \in 1 .. Len(bs), Len(longer) = Len(bs) + 1
    PROVE  ~Eligible(bs, sd, i)
<1>1. longer \in Seq(Bar) /\ Len(bs) \in Nat /\ longer[i] = bs[i] /\ i \in Nat
  BY DEF Grows
<1>2. /\ sd.origin \in 1 .. Len(longer) /\ sd.side \in Side
      /\ sd.last = sd.origin + RightBars /\ sd.last \in 1 .. Len(longer)
      /\ InWindow(sd.origin) \subseteq 1 .. Len(longer)
      /\ sd = Pivot(longer, sd.origin, sd.side)
  BY <1>1, PivotFacts
<1>3. ~(sd.last <= Len(bs))
  BY PivotsGrow
<1>4. sd.last = Len(bs) + 1
  BY <1>1, <1>2, <1>3
<1>5. CASE i <= sd.origin
  BY <1>1, <1>2, <1>5 DEF Eligible
<1>6. CASE i > sd.origin
  <2> DEFINE times == {longer[j].available : j \in InWindow(sd.origin)}
  <2>1. i \in InWindow(sd.origin)
    BY <1>1, <1>2, <1>4, <1>6 DEF InWindow
  <2>2. \A j \in InWindow(sd.origin) : j \in 1 .. Len(longer) /\ longer[j].available \in Nat
    BY <1>1, <1>2, BarFacts
  <2>3. PrefixTime(longer, Len(longer)) \in Nat
        /\ \A j \in 1 .. Len(longer) : longer[j].available <= PrefixTime(longer, Len(longer))
    <3>1. Len(longer) \in 1 .. Len(longer)
      BY <1>1
    <3> QED
      BY <1>1, <3>1, PrefixTimeFacts
  <2>4. times \in SUBSET Nat /\ longer[i].available \in times
        /\ \A x \in times : x <= PrefixTime(longer, Len(longer))
    BY <2>1, <2>2, <2>3
  <2>5. sd.confirm = Max(times)
    BY <1>2 DEF Pivot
  <2>6. longer[i].available <= Max(times) /\ Max(times) \in Nat
    <3> HIDE DEF times
    <3> QED
      BY <2>3, <2>4, LargestExists
  <2> HIDE DEF times
  <2>7. bs[i].available \in Nat
    BY <1>1, <2>1, <2>2
  <2> QED
    BY <1>1, <2>5, <2>6, <2>7 DEF Eligible
<1> QED
  BY <1>1, <1>2, <1>5, <1>6

LEMMA NewReactionOK ==
    ASSUME NEW bs \in Seq(Bar), NEW sd, \A i \in 1 .. Len(bs) : ~Eligible(bs, sd, i)
    PROVE  ReactionOK(NewReaction, bs, sd)
<1>1. Len(bs) \in Nat
  OBVIOUS
<1>2. /\ NewReaction.touch = 0 /\ NewReaction.lastSuccess = 0 /\ NewReaction.found = <<>>
      /\ Len(NewReaction.found) = 0
      /\ NewReaction \in [touch : Nat, lastSuccess : Nat, found : Seq(Reaction)]
  BY DEF NewReaction
<1>3. ReactionTyped(NewReaction, bs)
  BY <1>1, <1>2 DEF ReactionTyped, HistoricalReactionConfigOK
<1> DEFINE q == Len(bs) + 1
<1>4. Position(NewReaction, bs) = q
  BY <1>2 DEF Position
<1>5. ASSUME NEW on \in Seq(Bar), Grows(bs, on)
      PROVE  Reads(on, sd, <<>>, q, 0)
  <2>1. /\ Len(on) \in Nat /\ Len(bs) <= Len(on) /\ 1 \in 1 .. Len(on) + 1 /\ 0 \in 0 .. Len(on)
        /\ q \in 1 .. Len(on) + 1 /\ \A i \in 1 .. q - 1 : i \in 1 .. Len(bs)
    BY <1>1, <1>5 DEF Grows
  <2> HIDE DEF q
  <2>2. ASSUME NEW i \in 1 .. q - 1 PROVE i \notin Openings(on, sd, 1, 0)
    <3>1. ~Eligible(bs, sd, i) /\ Eligible(on, sd, i) = Eligible(bs, sd, i)
      BY <1>5, <2>1, SameBarsDecide
    <3> QED
      BY <3>1 DEF Openings
  <2>3. Reading(on, sd)[1][0] = Reading(on, sd)[q][0]
    BY <2>1, <2>2, ReadingPasses
  <2>4. Reading(on, sd)[q][0] \in Seq(Nat)
    BY <2>1, ReadingFacts
  <2>5. Touches(<<>>) = <<>>
    BY DEF Touches
  <2> DEFINE rest == Reading(on, sd)[q][0]
  <2>6. rest \in Seq(Nat) /\ Reading(on, sd)[1][0] = rest
    BY <2>3, <2>4
  <2>7. <<>> \o rest = rest
    <3> HIDE DEF rest
    <3> QED
      BY <2>6, ConcatEmptySeq
  <2> QED
    BY <2>5, <2>6, <2>7 DEF Reads
<1>6. ReactionReads(NewReaction, bs, sd)
  BY <1>2, <1>4, <1>5 DEF ReactionReads
<1> QED
  BY <1>2, <1>3, <1>6 DEF ReactionOK

Begins(s, t, joined) ==
    /\ joined \in Seq(Nat) /\ Len(joined) = Len(s) + Len(t)
    /\ \A i \in 1 .. Len(s) : joined[i] = s[i]

LEMMA TouchesBefore ==
    ASSUME NEW s \in Seq(Nat), NEW t \in Seq(Nat), NEW joined, joined = s \o t
    PROVE  Begins(s, t, joined)
<1>1. Len(s) \in Nat /\ Len(t) \in Nat
  OBVIOUS
<1> QED
  BY <1>1, ConcatProperties DEF Begins

ReadFirst(found, rejected) ==
    /\ Len(found) = Min({MinReactions, Len(rejected)})
    /\ \A k \in 1 .. Len(found) : rejected[k] = found[k].touch

(* At the end of the source nothing is left to read.                       *)
LEMMA ReadingIsFound ==
    ASSUME NEW bs \in Seq(Bar), NEW sd, NEW r, ReactionOK(r, bs, sd),
           NEW rejected, rejected = RejectedTouches(bs, sd)
    PROVE  ReadFirst(r.found, rejected)
<1>1. Len(bs) \in Nat /\ MinReactions \in Nat /\ Grows(bs, bs)
  BY DEF Grows, HistoricalReactionConfigOK
<1> DEFINE found == r.found
           t == r.touch
           l == r.lastSuccess
           before == Touches(found)
           p == Position(r, bs)
<1>2. /\ found \in Seq(Reaction) /\ t \in Nat /\ l \in Nat /\ t <= Len(bs) /\ l \in 0 .. Len(bs)
      /\ Len(found) \in Nat /\ Len(found) <= MinReactions
  BY <1>1 DEF ReactionOK, ReactionTyped
<1>3. Reads(bs, sd, found, p, l)
  BY <1>1 DEF ReactionOK, ReactionReads
<1>4. PICK rest \in Seq(Nat) :
        /\ Reading(bs, sd)[1][0] = before \o rest
        /\ Len(found) < MinReactions => rest = Reading(bs, sd)[p][l]
  BY <1>3 DEF Reads
<1>5. rejected = before \o rest
  BY <1>4, RejectedIsReading
<1>6. before \in Seq(Nat) /\ Len(before) = Len(found)
      /\ \A k \in 1 .. Len(found) : before[k] = found[k].touch
  <2>1. \A k \in 1 .. Len(found) : found[k].touch \in Nat
    <3> TAKE k \in 1 .. Len(found)
    <3>1. found[k] \in Reaction
      BY <1>2
    <3> QED
      BY <3>1 DEF Reaction
  <2> QED
    BY <1>2, <2>1 DEF Touches
<1>7. Len(found) < MinReactions => rest = <<>>
  <2>1. CASE t = 0
    <3>1. p = Len(bs) + 1
      BY <2>1 DEF Position
    <3>2. Reading(bs, sd)[Len(bs) + 1][l] = <<>>
      BY <1>2, ReadingEnds
    <3> QED
      BY <1>4, <3>1, <3>2
  <2>2. CASE t # 0
    <3>1. p = t /\ t \in 1 .. Len(bs)
      BY <1>1, <1>2, <2>2 DEF Position
    <3>2. t \in Openings(bs, sd, t, l) /\ Len(bs) < t + ReactionHorizon
          /\ \A i \in t + 1 .. Len(bs) : ~Decides(bs, sd, i)
      BY <2>2 DEF ReactionOK, Pending
    <3> HIDE DEF t, l
    <3>3. Reading(bs, sd)[t][l] = <<>>
      BY <1>2, <3>1, <3>2, ReadingLeavesOpen
    <3> QED
      BY <1>4, <3>1, <3>3
  <2> QED
    BY <2>1, <2>2
<1> HIDE DEF found, before
<1>8. /\ rejected \in Seq(Nat) /\ Len(rejected) = Len(found) + Len(rest)
      /\ \A k \in 1 .. Len(found) : rejected[k] = before[k]
  <2>1. /\ rejected \in Seq(Nat) /\ Len(rejected) = Len(before) + Len(rest)
        /\ \A i \in 1 .. Len(before) : rejected[i] = before[i]
    <3>1. Begins(before, rest, rejected)
      BY <1>5, <1>6, TouchesBefore, Zenon
    <3> QED
      BY <3>1 DEF Begins
  <2>2. Len(rest) \in Nat
    OBVIOUS
  <2> QED
    BY <1>2, <1>6, <2>1, <2>2
<1>9. Len(found) = Min({MinReactions, Len(rejected)})
  <2> DEFINE x == MinReactions
             y == Len(rejected)
  <2>1. x \in Nat /\ y \in Nat /\ Len(rest) \in Nat
    BY <1>1, <1>8
  <2>2. Min({x, y}) = IF x <= y THEN x ELSE y
    <3> HIDE DEF x, y
    <3> QED
      BY <2>1, SmallerOfTwo
  <2>3. CASE Len(found) < x
    <3>1. Len(rest) = 0
      BY <1>7, <2>3
    <3> QED
      BY <1>2, <1>8, <2>1, <2>2, <2>3, <3>1
  <2>4. CASE ~(Len(found) < x)
    <3>1. Len(found) = x
      BY <1>1, <1>2, <2>4
    <3> QED
      BY <1>2, <1>8, <2>1, <2>2, <3>1
  <2> QED
    BY <2>3, <2>4
<1> QED
  BY <1>6, <1>8, <1>9 DEF ReadFirst, found

ReactionInv ==
    /\ bars \in Seq(Bar)
    /\ DOMAIN reaction = PivotsOf(bars)
    /\ \A seed \in PivotsOf(bars) : ReactionOK(reaction[seed], bars, seed)

LEMMA ReactionInvHolds == Spec => []ReactionInv
<1>1. Init => ReactionInv
  <2> SUFFICES ASSUME Init PROVE ReactionInv
    OBVIOUS
  <2>1. bars = <<>> /\ Len(bars) = 0 /\ bars \in Seq(Bar) /\ reaction = <<>>
    BY DEF Init
  <2>2. PivotsOf(bars) = {}
    <3>1. \A i \in 1 .. Len(bars) : FALSE
      BY <2>1
    <3> QED
      BY <2>1, <3>1, PivotFacts
  <2>3. DOMAIN reaction = {}
    BY <2>1
  <2> QED
    BY <2>1, <2>2, <2>3 DEF ReactionInv
<1>2. ReactionInv /\ [Next]_vars => ReactionInv'
  <2> SUFFICES ASSUME ReactionInv, [Next]_vars PROVE ReactionInv'
    OBVIOUS
  <2>1. ASSUME NEW bar \in NextBars(bars), ReadBar(bar) PROVE ReactionInv'
    <3> DEFINE longer == bars'
               n == Len(bars) + 1
    <3>1. /\ bar \in Bar /\ longer = Append(bars, bar) /\ bars \in Seq(Bar)
          /\ reaction' = [seed \in PivotsOf(longer) |->
                             ReactionStep(ReactionOf(seed), longer, seed, Len(longer))]
      BY <2>1 DEF ReadBar, ReactionInv, PivotsOf
    <3>2. longer \in Seq(Bar) /\ Grows(bars, longer) /\ Len(longer) = n /\ n \in Nat
      BY <3>1, AppendGrows
    <3> HIDE DEF longer, n
    <3>3. ASSUME NEW seed \in PivotsOf(longer)
          PROVE  ReactionOK(ReactionOf(seed), bars, seed)
      <4>1. CASE seed \in PivotsOf(bars)
        BY <4>1 DEF ReactionInv, ReactionOf
      <4>2. CASE seed \notin PivotsOf(bars)
        <5>1. ReactionOf(seed) = NewReaction
          BY <4>2 DEF ReactionInv, ReactionOf
        <5>2. \A i \in 1 .. Len(bars) : ~Eligible(bars, seed, i)
          BY <3>2, <4>2, NothingBefore DEF n
        <5> QED
          BY <3>1, <5>1, <5>2, NewReactionOK
      <4> QED
        BY <4>1, <4>2
    <3>4. ASSUME NEW seed \in PivotsOf(longer)
          PROVE  ReactionOK(ReactionStep(ReactionOf(seed), longer, seed, n), longer, seed)
      <4> DEFINE r == ReactionOf(seed)
                 s == ReactionStep(r, longer, seed, n)
      <4>1. seed.confirm \in Nat
        BY <3>2, PivotFacts
      <4>2. ReactionOK(r, bars, seed) /\ s = ReactionStep(r, longer, seed, n) /\ n = Len(bars) + 1
        BY <3>3 DEF n
      <4> HIDE DEF r, s
      <4>3. ReactionOK(s, longer, seed)
        BY <3>1, <3>2, <4>1, <4>2, ReactionStepKeeps, Zenon
      <4> QED
        BY <4>3 DEF r, s
    <3>5. \A seed \in PivotsOf(longer) : ReactionOK(reaction'[seed], longer, seed)
      BY <3>1, <3>2, <3>4
    <3>6. DOMAIN reaction' = PivotsOf(longer)
      BY <3>1
    <3> QED
      BY <3>2, <3>5, <3>6 DEF ReactionInv, longer
  <2>2. CASE UNCHANGED vars
    BY <2>2 DEF ReactionInv, vars
  <2> QED
    BY <2>1, <2>2 DEF Next
<1> QED
  BY <1>1, <1>2, PTL DEF Spec

(* What levels/reaction.py finds at a zone bar by bar is what reading the  *)
(* attempts at it one after another yields, and nothing in a reaction was  *)
(* known later than the reaction.                                          *)
THEOREM ReactionsAreTheReading == Spec => []ReactionsMatchReading
<1>1. ReactionInv => ReactionsMatchReading
  <2> SUFFICES ASSUME ReactionInv, NEW seed \in PivotsOf(bars)
               PROVE  LET found == reaction[seed].found
                          rejected == RejectedTouches(bars, seed)
                      IN /\ Len(found) = Min({MinReactions, Len(rejected)})
                         /\ \A k \in DOMAIN found :
                               /\ found[k].touch = rejected[k]
                               /\ found[k].bar = AttemptEnd(bars, seed, rejected[k])
                               /\ \A i \in 1 .. found[k].bar :
                                     found[k].confirm >= bars[i].available
                               /\ found[k].confirm >= seed.confirm
    BY DEF ReactionsMatchReading, ReactionInv
  <2> DEFINE r == reaction[seed]
             found == r.found
             rejected == RejectedTouches(bars, seed)
  <2>1. bars \in Seq(Bar) /\ ReactionOK(r, bars, seed)
    BY DEF ReactionInv
  <2>2. rejected = RejectedTouches(bars, seed)
    OBVIOUS
  <2> HIDE DEF r, rejected
  <2>3. /\ Len(found) = Min({MinReactions, Len(rejected)})
        /\ \A k \in 1 .. Len(found) : rejected[k] = found[k].touch
    <3>1. ReadFirst(r.found, rejected)
      BY <2>1, <2>2, ReadingIsFound, Zenon
    <3> QED
      BY <3>1 DEF ReadFirst
  <2>4. DOMAIN found = 1 .. Len(found) /\ \A k \in 1 .. Len(found) : FoundOK(found[k], bars, seed)
    BY <2>1 DEF ReactionOK, ReactionTyped
  <2>5. ASSUME NEW k \in 1 .. Len(found)
        PROVE  /\ found[k].bar = AttemptEnd(bars, seed, found[k].touch)
               /\ \A i \in 1 .. found[k].bar : found[k].confirm >= bars[i].available
               /\ found[k].confirm >= seed.confirm
    <3> DEFINE f == found[k]
    <3>1. FoundOK(f, bars, seed)
      BY <2>4
    <3> HIDE DEF f
    <3>2. /\ f.touch \in Nat /\ f.bar \in 1 .. Len(bars)
          /\ f.bar \in f.touch + 1 .. f.touch + ReactionHorizon
          /\ Decides(bars, seed, f.bar) /\ \A i \in f.touch + 1 .. f.bar - 1 : ~Decides(bars, seed, i)
      BY <3>1 DEF FoundOK
    <3>3. AttemptEnd(bars, seed, f.touch) = f.bar
      BY <2>1, <3>2, AttemptDecided
    <3> QED
      BY <3>1, <3>3 DEF FoundOK, f
  <2> QED
    BY <2>3, <2>4, <2>5 DEF r, rejected
<1> QED
  BY <1>1, ReactionInvHolds, PTL

-----------------------------------------------------------------------------
(* Parts of a source *)

Part(bs, n) == SubSeq(bs, 1, n)

LEMMA CutFacts ==
    ASSUME NEW bs \in Seq(Bar), NEW n \in 0 .. Len(bs)
    PROVE  /\ Part(bs, n) \in Seq(Bar) /\ Len(Part(bs, n)) = n
           /\ \A i \in 1 .. n : Part(bs, n)[i] = bs[i]
           /\ Grows(Part(bs, n), bs)
<1>1. Len(bs) \in Nat /\ n \in Nat
  OBVIOUS
<1>2. /\ Part(bs, n) \in Seq(Bar) /\ Len(Part(bs, n)) = n
      /\ \A i \in 1 .. n : Part(bs, n)[i] = bs[i]
  BY <1>1 DEF Part
<1>3. Grows(Part(bs, n), bs)
  BY <1>1, <1>2 DEF Grows
<1> QED
  BY <1>2, <1>3

LEMMA WholeCut ==
    ASSUME NEW bs \in Seq(Bar)
    PROVE  Part(bs, Len(bs)) = bs
  BY DEF Part

(* The parts of a source that grows are parts of the longer one.           *)
LEMMA PartsAgree ==
    ASSUME NEW bs, NEW longer, Grows(bs, longer), NEW n \in 0 .. Len(bs)
    PROVE  Part(longer, n) = Part(bs, n) /\ n \in 0 .. Len(longer)
<1>1. /\ bs \in Seq(Bar) /\ longer \in Seq(Bar) /\ n \in 0 .. Len(longer)
      /\ Len(bs) \in Nat /\ \A i \in 1 .. Len(bs) : longer[i] = bs[i]
  BY DEF Grows
<1> DEFINE a == Part(bs, n)
           b == Part(longer, n)
<1>2. /\ a \in Seq(Bar) /\ Len(a) = n /\ \A i \in 1 .. n : a[i] = bs[i]
      /\ b \in Seq(Bar) /\ Len(b) = n /\ \A i \in 1 .. n : b[i] = longer[i]
  BY <1>1, CutFacts
<1> HIDE DEF a, b
<1>3. \A i \in 1 .. n : a[i] = b[i]
  BY <1>1, <1>2
<1>4. a = b
  BY <1>2, <1>3
<1> QED
  BY <1>1, <1>4 DEF a, b

(* Each part is the one before it and one bar.                             *)
LEMMA PartSteps ==
    ASSUME NEW bs \in Seq(Bar), NEW n \in 1 .. Len(bs)
    PROVE  /\ n - 1 \in 0 .. Len(bs) /\ n \in 0 .. Len(bs) /\ bs[n] \in Bar
           /\ Part(bs, n) = Append(Part(bs, n - 1), bs[n])
           /\ Grows(Part(bs, n - 1), Part(bs, n))
<1>1. n - 1 \in 0 .. Len(bs) /\ n \in 0 .. Len(bs) /\ bs[n] \in Bar /\ n \in Nat /\ n # 0
  OBVIOUS
<1> DEFINE m == n - 1
           a == Part(bs, m)
           b == Part(bs, n)
<1>2. /\ a \in Seq(Bar) /\ Len(a) = m /\ \A i \in 1 .. m : a[i] = bs[i]
      /\ b \in Seq(Bar) /\ Len(b) = n /\ \A i \in 1 .. n : b[i] = bs[i]
  BY <1>1, CutFacts
<1>3. m \in Nat /\ n = m + 1
  BY <1>1
<1> HIDE DEF a, b, m
<1>4. /\ Append(a, bs[n]) \in Seq(Bar) /\ Len(Append(a, bs[n])) = n
      /\ Append(a, bs[n])[n] = bs[n] /\ \A i \in 1 .. m : Append(a, bs[n])[i] = a[i]
  BY <1>1, <1>2, <1>3
<1>5. \A i \in 1 .. n : Append(a, bs[n])[i] = b[i]
  <2> TAKE i \in 1 .. n
  <2>1. i = n \/ i \in 1 .. m
    BY <1>3
  <2> QED
    BY <1>2, <1>4, <2>1
<1>6. b = Append(a, bs[n])
  BY <1>2, <1>4, <1>5
<1>7. Grows(a, b)
  BY <1>2, <1>3 DEF Grows
<1> QED
  BY <1>1, <1>6, <1>7 DEF a, b, m

-----------------------------------------------------------------------------
(* Causal prefixes *)

LEMMA CausalPrefixFacts ==
    ASSUME NEW bs \in Seq(Bar), NEW time \in Int
    PROVE  /\ PrefixLength(bs, time) \in 0 .. Len(bs)
           /\ \A i \in 1 .. PrefixLength(bs, time) : VisibleAt(bs[i], time)
           /\ PrefixLength(bs, time) < Len(bs) =>
                 ~VisibleAt(bs[PrefixLength(bs, time) + 1], time)
           /\ CausalPrefix(bs, time) = Part(bs, PrefixLength(bs, time))
<1> DEFINE Fits(n) == /\ \A i \in 1 .. n : VisibleAt(bs[i], time)
                      /\ n < Len(bs) => ~VisibleAt(bs[n + 1], time)
           hidden == {n \in Nat : n < Len(bs) /\ ~VisibleAt(bs[n + 1], time)}
<1>1. Len(bs) \in Nat
  OBVIOUS
<1>2. \E n \in 0 .. Len(bs) : Fits(n)
  <2>1. CASE hidden = {}
    <3>1. \A i \in 1 .. Len(bs) : VisibleAt(bs[i], time)
      <4> TAKE i \in 1 .. Len(bs)
      <4>1. i - 1 \in Nat /\ i - 1 < Len(bs) /\ (i - 1) + 1 = i
        BY <1>1
      <4> QED
        BY <2>1, <4>1
    <3>2. Len(bs) \in 0 .. Len(bs) /\ ~(Len(bs) < Len(bs))
      BY <1>1
    <3> QED
      BY <3>1, <3>2
  <2>2. CASE hidden # {}
    <3> DEFINE n == Min(hidden)
    <3>1. n \in hidden /\ n \in Nat /\ \A m \in hidden : n <= m
      <4>1. hidden \in SUBSET Nat
        OBVIOUS
      <4> HIDE DEF hidden
      <4> QED
        BY <2>2, <4>1, LeastExists
    <3> HIDE DEF n
    <3>2. \A i \in 1 .. n : VisibleAt(bs[i], time)
      <4> TAKE i \in 1 .. n
      <4>1. i - 1 \in Nat /\ ~(n <= i - 1) /\ i - 1 < Len(bs) /\ (i - 1) + 1 = i
        BY <1>1, <3>1
      <4>2. i - 1 \notin hidden
        BY <3>1, <4>1
      <4> QED
        BY <4>1, <4>2
    <3> QED
      BY <1>1, <3>1, <3>2
  <2> QED
    BY <2>1, <2>2
<1>3. PrefixLength(bs, time) \in 0 .. Len(bs) /\ Fits(PrefixLength(bs, time))
  <2>1. PrefixLength(bs, time) = CHOOSE n \in 0 .. Len(bs) : Fits(n)
    BY DEF PrefixLength
  <2> HIDE DEF Fits
  <2> QED
    BY <1>2, <2>1
<1> QED
  BY <1>3 DEF CausalPrefix, Part

(* When every bar of a source that ends may be seen.                       *)
EndTime(bs) == Max({0} \cup {bs[i].available : i \in DOMAIN bs})

LEMMA EndTimeFacts ==
    ASSUME NEW bs \in Seq(Bar)
    PROVE  EndTime(bs) \in Nat /\ \A i \in 1 .. Len(bs) : bs[i].available <= EndTime(bs)
<1> DEFINE times == {0} \cup {bs[i].available : i \in DOMAIN bs}
           bound == IF Len(bs) = 0 THEN 0 ELSE PrefixTime(bs, Len(bs))
<1>1. Len(bs) \in Nat /\ DOMAIN bs = 1 .. Len(bs)
  OBVIOUS
<1>2. bound \in Nat /\ \A i \in 1 .. Len(bs) : bs[i].available \in Nat /\ bs[i].available <= bound
  <2>1. CASE Len(bs) = 0
    BY <2>1
  <2>2. CASE Len(bs) # 0
    <3>1. Len(bs) \in 1 .. Len(bs)
      BY <1>1, <2>2
    <3>2. /\ PrefixTime(bs, Len(bs)) \in Nat
          /\ \A i \in 1 .. Len(bs) : bs[i].available <= PrefixTime(bs, Len(bs))
      BY <3>1, PrefixTimeFacts
    <3> QED
      BY <2>2, <3>2, BarFacts
  <2> QED
    BY <2>1, <2>2
<1> HIDE DEF bound
<1>3. times \in SUBSET Nat /\ times # {} /\ \A t \in times : t <= bound
  BY <1>1, <1>2
<1>4. Max(times) \in Nat /\ \A t \in times : t <= Max(times)
  <2> HIDE DEF times
  <2> QED
    BY <1>2, <1>3, LargestExists
<1> QED
  BY <1>1, <1>4 DEF EndTime

(* What a time sees of a source is the start of what its end sees, and     *)
(* ends where the prefix time passes it.                                   *)
LEMMA PrefixesNest ==
    ASSUME NEW bs \in Seq(Bar), NEW time \in Nat
    PROVE  LET short == CausalPrefix(bs, time)
               long == CausalPrefix(bs, EndTime(bs))
           IN  /\ short \in Seq(Bar) /\ long \in Seq(Bar)
               /\ Grows(short, long) /\ Grows(long, bs)
               /\ \A i \in 1 .. Len(long) : PrefixTime(long, i) <= time <=> i <= Len(short)
<1> DEFINE m == PrefixLength(bs, time)
           n == PrefixLength(bs, EndTime(bs))
           short == Part(bs, m)
           long == Part(bs, n)
<1>1. /\ m \in 0 .. Len(bs) /\ \A i \in 1 .. m : VisibleAt(bs[i], time)
      /\ m < Len(bs) => ~VisibleAt(bs[m + 1], time)
      /\ CausalPrefix(bs, time) = short
  BY CausalPrefixFacts
<1>2. EndTime(bs) \in Int /\ \A i \in 1 .. Len(bs) : bs[i].available <= EndTime(bs)
  BY EndTimeFacts
<1>3. /\ n \in 0 .. Len(bs) /\ \A i \in 1 .. n : VisibleAt(bs[i], EndTime(bs))
      /\ n < Len(bs) => ~VisibleAt(bs[n + 1], EndTime(bs))
      /\ CausalPrefix(bs, EndTime(bs)) = long
  BY <1>2, CausalPrefixFacts
<1>4. /\ short \in Seq(Bar) /\ Len(short) = m /\ \A i \in 1 .. m : short[i] = bs[i]
      /\ long \in Seq(Bar) /\ Len(long) = n /\ \A i \in 1 .. n : long[i] = bs[i]
      /\ Grows(long, bs) /\ Len(bs) \in Nat
  <2>1. Len(bs) \in Nat
    OBVIOUS
  <2> QED
    BY <1>1, <1>3, <2>1, CutFacts
<1> HIDE DEF m, n, short, long
<1>5. m <= n
  <2> SUFFICES ASSUME n < m PROVE FALSE
    BY <1>1, <1>3
  <2>1. n + 1 \in 1 .. m /\ n < Len(bs) /\ n + 1 \in 1 .. Len(bs)
    BY <1>1, <1>3
  <2>2. VisibleAt(bs[n + 1], time) /\ ~VisibleAt(bs[n + 1], EndTime(bs))
    BY <1>1, <1>3, <2>1
  <2> QED
    BY <1>2, <2>1, <2>2 DEF VisibleAt
<1>6. Grows(short, long)
  BY <1>1, <1>3, <1>4, <1>5 DEF Grows
<1>7. ASSUME NEW i \in 1 .. n, i <= m PROVE PrefixTime(long, i) <= time
  <2>1. PICK j \in 1 .. i : PrefixTime(long, i) = long[j].available
    BY <1>4, PrefixTimeFacts
  <2>2. j \in 1 .. m /\ j \in 1 .. n
    BY <1>1, <1>3, <1>7
  <2>3. VisibleAt(bs[j], time) /\ long[j] = bs[j]
    BY <1>1, <1>4, <2>2
  <2> QED
    BY <2>1, <2>3 DEF VisibleAt
<1>8. ASSUME NEW i \in 1 .. n, ~(i <= m) PROVE ~(PrefixTime(long, i) <= time)
  <2>1. m + 1 \in 1 .. i /\ m + 1 \in 1 .. n /\ m < Len(bs) /\ m + 1 \in 1 .. Len(bs)
    BY <1>1, <1>3, <1>8
  <2>2. ~VisibleAt(bs[m + 1], time) /\ VisibleAt(bs[m + 1], EndTime(bs)) /\ long[m + 1] = bs[m + 1]
    BY <1>1, <1>3, <1>4, <2>1
  <2>3. bs[m + 1].available \in Nat
    BY <2>1, BarFacts
  <2>4. ~(bs[m + 1].available <= time)
    BY <2>2 DEF VisibleAt
  <2>5. PrefixTime(long, i) \in Nat /\ long[m + 1].available <= PrefixTime(long, i)
    BY <1>4, <2>1, PrefixTimeFacts
  <2> QED
    BY <2>2, <2>3, <2>4, <2>5
<1> QED
  BY <1>1, <1>3, <1>4, <1>6, <1>7, <1>8

-----------------------------------------------------------------------------
(* The three scans of a causal prefix *)

(* What the loops of the stateful detectors have in common: where they     *)
(* start and what one bar does.  What is given is nothing for turning      *)
(* points, the seeds for breaks, and the one seed of a zone.               *)
Scans == {"ATR", "BREAK", "REACTION"}

Started(kind) ==
    CASE kind = "ATR" -> NewAtr
      [] kind = "BREAK" -> NewBreak
      [] kind = "REACTION" -> NewReaction

ReadOn(kind, s, bs, given, i, o) ==
    CASE kind = "ATR" -> AtrStep(s, bs, i)
      [] kind = "BREAK" -> BreakStep(s, given, bs, i, o)
      [] kind = "REACTION" -> ReactionStep(s, bs, given, i)

RunTo(f, kind, bs, given, o, n) ==
    f = [k \in 0 .. n |-> IF k = 0 THEN Started(kind) ELSE ReadOn(kind, f[k - 1], bs, given, k, o)]

(* The state in which a scan of the whole prefix ends.                     *)
Ran(kind, bs, given, o) ==
    LET after == CHOOSE f : RunTo(f, kind, bs, given, o, Len(bs)) IN after[Len(bs)]

LEMMA ScansRun ==
    ASSUME NEW bs, NEW given, NEW o
    PROVE  /\ AtrAfter(bs) = Ran("ATR", bs, given, o)
           /\ BreaksAfter(bs, given, o) = Ran("BREAK", bs, given, o).breaks
           /\ ReactionAfter(bs, given) = Ran("REACTION", bs, given, o)
<1>1. /\ Started("ATR") = NewAtr /\ Started("BREAK") = NewBreak /\ Started("REACTION") = NewReaction
      /\ \A s, i : ReadOn("ATR", s, bs, given, i, o) = AtrStep(s, bs, i)
      /\ \A s, i : ReadOn("BREAK", s, bs, given, i, o) = BreakStep(s, given, bs, i, o)
      /\ \A s, i : ReadOn("REACTION", s, bs, given, i, o) = ReactionStep(s, bs, given, i)
  BY DEF Started, ReadOn
<1>2. AtrAfter(bs) = Ran("ATR", bs, given, o)
  <2> DEFINE body(f) == [k \in 0 .. Len(bs) |-> IF k = 0 THEN NewAtr ELSE AtrStep(f[k - 1], bs, k)]
  <2>1. \A f : (f = body(f)) <=> RunTo(f, "ATR", bs, given, o, Len(bs))
    BY <1>1 DEF RunTo
  <2>2. (CHOOSE f : f = body(f)) = CHOOSE f : RunTo(f, "ATR", bs, given, o, Len(bs))
    <3> HIDE DEF body
    <3> QED
      BY <2>1
  <2> QED
    BY <2>2 DEF AtrAfter, Ran
<1>3. BreaksAfter(bs, given, o) = Ran("BREAK", bs, given, o).breaks
  <2> DEFINE body(f) == [k \in 0 .. Len(bs) |->
                            IF k = 0 THEN NewBreak ELSE BreakStep(f[k - 1], given, bs, k, o)]
  <2>1. \A f : (f = body(f)) <=> RunTo(f, "BREAK", bs, given, o, Len(bs))
    BY <1>1 DEF RunTo
  <2>2. (CHOOSE f : f = body(f)) = CHOOSE f : RunTo(f, "BREAK", bs, given, o, Len(bs))
    <3> HIDE DEF body
    <3> QED
      BY <2>1
  <2> QED
    BY <2>2 DEF BreaksAfter, Ran
<1>4. ReactionAfter(bs, given) = Ran("REACTION", bs, given, o)
  <2> DEFINE body(f) == [k \in 0 .. Len(bs) |->
                            IF k = 0 THEN NewReaction ELSE ReactionStep(f[k - 1], bs, given, k)]
  <2>1. \A f : (f = body(f)) <=> RunTo(f, "REACTION", bs, given, o, Len(bs))
    BY <1>1 DEF RunTo
  <2>2. (CHOOSE f : f = body(f)) = CHOOSE f : RunTo(f, "REACTION", bs, given, o, Len(bs))
    <3> HIDE DEF body
    <3> QED
      BY <2>1
  <2> QED
    BY <2>2 DEF ReactionAfter, Ran
<1> QED
  BY <1>2, <1>3, <1>4

LEMMA RunExists ==
    ASSUME NEW kind, NEW bs, NEW given, NEW o, NEW m \in Nat
    PROVE  \E f : RunTo(f, kind, bs, given, o, m)
<1> DEFINE T == {n \in Nat : \E f : RunTo(f, kind, bs, given, o, n)}
           next(s, k) == ReadOn(kind, s, bs, given, k, o)
<1>1. 0 \in T
  <2> DEFINE f == [n \in 0 .. 0 |-> Started(kind)]
  <2>1. \A n \in 0 .. 0 : n = 0
    OBVIOUS
  <2>2. RunTo(f, kind, bs, given, o, 0)
    BY <2>1 DEF RunTo
  <2> QED
    BY <2>2
<1>2. ASSUME NEW k \in Nat, k \in T PROVE k + 1 \in T
  <2>1. PICK f : RunTo(f, kind, bs, given, o, k)
    BY <1>2
  <2> DEFINE last == next(f[k], k + 1)
             g == [n \in 0 .. k + 1 |-> IF n = k + 1 THEN last ELSE f[n]]
  <2>2. \A n \in 0 .. k : f[n] = IF n = 0 THEN Started(kind) ELSE next(f[n - 1], n)
    BY <2>1 DEF RunTo
  <2>3. ASSUME NEW n \in 0 .. k + 1
        PROVE  g[n] = IF n = 0 THEN Started(kind) ELSE next(g[n - 1], n)
    <3> HIDE DEF next
    <3>1. CASE n = k + 1
      <4>1. n - 1 = k /\ k \in 0 .. k + 1 /\ k # k + 1 /\ n # 0
        BY <3>1
      <4>2. g[n] = last /\ g[n - 1] = f[k]
        BY <3>1, <4>1
      <4> HIDE DEF g
      <4> QED
        BY <3>1, <4>1, <4>2
    <3>2. CASE n # k + 1
      <4>1. n \in 0 .. k /\ (n # 0 => n - 1 \in 0 .. k /\ n - 1 # k + 1)
        BY <3>2
      <4>2. g[n] = f[n] /\ (n # 0 => g[n - 1] = f[n - 1])
        BY <3>2, <4>1
      <4> HIDE DEF g
      <4> QED
        BY <2>2, <4>1, <4>2
    <3> QED
      BY <3>1, <3>2
  <2>4. g = [n \in 0 .. k + 1 |-> g[n]]
    OBVIOUS
  <2>5. RunTo(g, kind, bs, given, o, k + 1)
    <3> HIDE DEF g
    <3> QED
      BY <2>3, <2>4 DEF RunTo
  <2> HIDE DEF g
  <2> QED
    BY <2>5
<1> HIDE DEF T
<1>3. Nat \subseteq T
  BY <1>1, <1>2, NatSetInduction
<1> QED
  BY <1>3 DEF T

-----------------------------------------------------------------------------
(* A bar is read alike in every source that starts with the same bars *)

LEMMA AtrStepIsStable ==
    ASSUME NEW bs, NEW longer, Grows(bs, longer), NEW i \in 1 .. Len(bs),
           NEW before, NEW s, AtrOK(s, before), before \in Seq(Bar), Len(before) = i - 1
    PROVE  AtrStep(s, longer, i) = AtrStep(s, bs, i)
<1>1. /\ Len(bs) \in Nat /\ i \in Nat /\ \A j \in 1 .. Len(bs) : longer[j] = bs[j]
      /\ longer[i] = bs[i]
  BY DEF Grows
<1>2. s.anchor # 0 => s.anchor \in 1 .. Len(bs)
  BY <1>1 DEF AtrOK
<1>3. s.trend # "UNKNOWN" => s.extreme \in 1 .. Len(bs)
  <2> SUFFICES ASSUME s.trend # "UNKNOWN" PROVE s.extreme \in 1 .. Len(bs)
    OBVIOUS
  <2> DEFINE from == StartOf(before, s.turns, Len(s.turns) + 1)
  <2>1. Leg(before, Leading(s), from, Len(before), s.extreme)
    BY DEF AtrOK
  <2> HIDE DEF from
  <2>2. from \in AtrPeriod + 1 .. Len(before) /\ s.extreme \in from .. Len(before)
    BY <2>1 DEF Leg, IsExtreme
  <2> QED
    BY <1>1, <2>2
<1>4. i >= AtrPeriod => RangeSum(longer, i) = RangeSum(bs, i)
  <2>1. i >= AtrPeriod => i \in AtrPeriod .. Len(bs)
    BY <1>1
  <2> QED
    BY <2>1, RangeSumIsStable
<1>5. PrefixTime(longer, i) = PrefixTime(bs, i)
  BY PrefixTimeIsStable
<1>6. s.anchor # 0 => longer[s.anchor] = bs[s.anchor]
  BY <1>1, <1>2
<1>7. s.trend # "UNKNOWN" => longer[s.extreme] = bs[s.extreme]
  BY <1>1, <1>3
<1>8. s.anchor # 0 => Directed(s, longer, i) = Directed(s, bs, i)
  BY <1>1, <1>6 DEF Directed
<1>9. s.trend # "UNKNOWN" /\ i >= AtrPeriod =>
         /\ Reverses(s, longer, i) = Reverses(s, bs, i)
         /\ Extends(s, longer, i) = Extends(s, bs, i)
         /\ Reversed(s, longer, i) = Reversed(s, bs, i)
  <2> SUFFICES ASSUME s.trend # "UNKNOWN", i >= AtrPeriod
               PROVE  /\ Reverses(s, longer, i) = Reverses(s, bs, i)
                      /\ Extends(s, longer, i) = Extends(s, bs, i)
                      /\ Reversed(s, longer, i) = Reversed(s, bs, i)
    OBVIOUS
  <2>1. longer[s.extreme] = bs[s.extreme] /\ RangeSum(longer, i) = RangeSum(bs, i)
    BY <1>4, <1>7
  <2>2. Turn(s, longer, i) = Turn(s, bs, i)
    BY <1>5, <2>1 DEF Turn
  <2>3. Reverses(s, longer, i) = Reverses(s, bs, i)
    BY <1>1, <2>1 DEF Reverses
  <2>4. Extends(s, longer, i) = Extends(s, bs, i)
    BY <1>1, <2>1 DEF Extends
  <2> QED
    BY <2>2, <2>3, <2>4 DEF Reversed
<1>10. CASE i < AtrPeriod
  BY <1>10 DEF AtrStep
<1>11. CASE ~(i < AtrPeriod)
  <2>1. i >= AtrPeriod
    BY <1>1, <1>11
  <2> QED
    BY <1>8, <1>9, <1>11, <2>1, Zenon DEF AtrStep
<1> QED
  BY <1>10, <1>11

LEMMA TryIsStable ==
    ASSUME NEW bs, NEW longer, Grows(bs, longer), NEW given, SeedsOK(given, bs),
           NEW i \in 1 .. Len(bs), NEW o, NEW side \in Side,
           NEW s \in BreakState, s.known \subseteq given, PendingOK(s)
    PROVE  /\ TryBreak(s, side, longer, i, o) = TryBreak(s, side, bs, i, o)
           /\ TryBreak(s, side, bs, i, o).known = s.known
<1> DEFINE seed == s.pending[side]
           references == References(s, seed)
           reference == Best(references, bs, o)
<1>1. longer[i] = bs[i] /\ PrefixTime(longer, i) = PrefixTime(bs, i)
  BY PrefixTimeIsStable DEF Grows
<1>2. references \in SUBSET given
  BY DEF References
<1>3. Best(references, longer, o) = reference
  <2> HIDE DEF references
  <2> QED
    BY <1>2, BestIsStable
<1>4. BreakTime(seed, reference, longer, i) = BreakTime(seed, reference, bs, i)
  BY <1>1 DEF BreakTime
<1>5. TryBreak(s, side, longer, i, o) = TryBreak(s, side, bs, i, o)
  BY <1>1, <1>3, <1>4, Zenon DEF TryBreak
<1>6. TryBreak(s, side, bs, i, o).known = s.known
  <2> DEFINE spent == Spent(s, side)
             item == [pending |-> seed, reference |-> reference, bar |-> i,
                      confirm |-> BreakTime(seed, reference, bs, i)]
             t == [spent EXCEPT !.breaks = Append(s.breaks, item)]
  <2>1. TryBreak(s, side, bs, i, o) = s \/ TryBreak(s, side, bs, i, o) = t
    BY Zenon DEF TryBreak
  <2>2. DOMAIN s = {"known", "pending", "breaks"}
    BY DEF BreakState
  <2>3. DOMAIN spent = DOMAIN s /\ spent.known = s.known
    <3> DEFINE cleared == [s.pending EXCEPT ![side] = NoSeed]
    <3>1. spent = [s EXCEPT !.pending = cleared]
      BY DEF Spent
    <3> HIDE DEF cleared, spent
    <3> QED
      BY <2>2, <3>1
  <2> HIDE DEF spent, item
  <2>4. t.known = spent.known
    BY <2>2, <2>3
  <2> QED
    BY <2>1, <2>3, <2>4
<1> QED
  BY <1>5, <1>6

LEMMA AbsorbIsStable ==
    ASSUME NEW bs, NEW longer, NEW given, NEW more, SeedsGrow(given, bs, more, longer),
           NEW i, i = Len(bs), NEW o, NEW s \in BreakState, s.known \subseteq given, PendingOK(s)
    PROVE  Absorb(s, more, longer, i, o) = Absorb(s, given, bs, i, o)
<1>1. /\ Grows(bs, longer) /\ SeedsOK(given, bs) /\ SeedsOK(more, longer)
      /\ \A p : p \in given <=> p \in more /\ p.last <= Len(bs)
      /\ bs \in Seq(Bar) /\ longer \in Seq(Bar) /\ Len(bs) \in Nat
  BY GrownFacts DEF Grows
<1>2. {seed \in more : seed.last < i} = {seed \in given : seed.last < i}
  <2>1. \A seed \in more : seed.last \in Nat
    BY <1>1 DEF SeedsOK
  <2>2. \A seed \in more : seed.last < i => seed.last <= Len(bs)
    BY <1>1, <2>1
  <2> QED
    BY <1>1, <2>2
<1> DEFINE new == {seed \in given : seed.last < i} \ s.known
           arrived(side) == {seed \in new : seed.side = side}
<1>3. ASSUME NEW side \in Side
      PROVE  Latest(s.pending[side], arrived(side), longer, o) = Latest(s.pending[side], arrived(side), bs, o)
  <2> DEFINE rivals == arrived(side) \cup ({s.pending[side]} \ {NoSeed})
  <2>1. s.pending[side] = NoSeed \/ s.pending[side] \in given
    BY DEF PendingOK
  <2>2. rivals \in SUBSET given
    BY <2>1
  <2>3. Best(rivals, longer, o) = Best(rivals, bs, o)
    <3> HIDE DEF rivals
    <3> QED
      BY <1>1, <2>2, BestIsStable
  <2> QED
    BY <2>3, Zenon DEF Latest
<1>4. /\ Absorb(s, more, longer, i, o)
            = [s EXCEPT !.known = s.known \cup new,
                        !.pending = [side \in Side |-> Latest(s.pending[side], arrived(side), longer, o)]]
      /\ Absorb(s, given, bs, i, o)
            = [s EXCEPT !.known = s.known \cup new,
                        !.pending = [side \in Side |-> Latest(s.pending[side], arrived(side), bs, o)]]
  BY <1>2, Zenon DEF Absorb
<1> DEFINE a == [side \in Side |-> Latest(s.pending[side], arrived(side), longer, o)]
           b == [side \in Side |-> Latest(s.pending[side], arrived(side), bs, o)]
<1>5. a = b
  <2> HIDE DEF arrived
  <2> QED
    BY <1>3
<1> QED
  BY <1>4, <1>5, Zenon

LEMMA BreakStepIsStable ==
    ASSUME NEW shorter \in Seq(Bar), NEW bs \in Seq(Bar), Len(bs) = Len(shorter) + 1,
           NEW earlier, NEW given, SeedsGrow(earlier, shorter, given, bs),
           NEW longer, NEW more, SeedsGrow(given, bs, more, longer),
           NEW o \in {1, -1}, NEW s, ScanOK(s, shorter, earlier),
           \A side \in Side : Unbroken(s, shorter, o, side, Len(shorter))
    PROVE  BreakStep(s, more, longer, Len(bs), o) = BreakStep(s, given, bs, Len(bs), o)
<1> DEFINE i == Len(bs)
           before == Len(shorter)
           a == Absorb(s, given, bs, i, o)
           u == TryBreak(a, "UPPER", bs, i, o)
<1>1. /\ Grows(bs, longer) /\ SeedsOK(given, bs) /\ i \in 1 .. Len(bs) /\ i # 0 /\ before = i - 1
      /\ before + 1 = i /\ i \in Nat
  BY GrownFacts
<1>2. s \in BreakState /\ s.known \subseteq given /\ PendingOK(s)
  <2>1. \A p \in earlier : p \in given
    BY GrownFacts
  <2> QED
    BY <2>1 DEF ScanOK, KnownOf
<1>3. Absorb(s, more, longer, i, o) = a
  BY <1>2, AbsorbIsStable
<1>4. ScanOK(a, bs, given) /\ \A side \in Side : Unbroken(a, bs, o, side, before)
  <2>1. a = Absorb(s, given, bs, Len(shorter) + 1, o)
    BY <1>1
  <2> HIDE DEF a
  <2> QED
    BY <2>1, AbsorbKeeps, Zenon DEF before
<1> HIDE DEF a, before, i
<1>5. "UPPER" \in Side /\ "LOWER" \in Side /\ "UPPER" # "LOWER"
  BY DEF Side
<1>6. a \in BreakState /\ a.known \subseteq given /\ PendingOK(a)
  BY <1>4 DEF ScanOK, KnownOf
<1>7. /\ TryBreak(a, "UPPER", longer, i, o) = u /\ u.known = a.known
  BY <1>1, <1>5, <1>6, TryIsStable
<1>8. ScanOK(u, bs, given)
  <2>1. Unbroken(a, bs, o, "UPPER", before) /\ Unbroken(a, bs, o, "LOWER", before)
    BY <1>4, <1>5
  <2>2. i = Len(bs) /\ u = TryBreak(a, "UPPER", bs, i, o)
    BY DEF i
  <2> HIDE DEF u
  <2> QED
    BY <1>1, <1>4, <1>5, <2>1, <2>2, TryKeeps
<1> HIDE DEF u
<1>9. u \in BreakState /\ u.known \subseteq given /\ PendingOK(u)
  BY <1>8 DEF ScanOK, KnownOf
<1>10. TryBreak(u, "LOWER", longer, i, o) = TryBreak(u, "LOWER", bs, i, o)
  BY <1>1, <1>5, <1>9, TryIsStable
<1>11. BreakStep(s, more, longer, i, o) = TryBreak(u, "LOWER", longer, i, o)
  BY <1>3, <1>7 DEF BreakStep
<1>12. BreakStep(s, given, bs, i, o) = TryBreak(u, "LOWER", bs, i, o)
  BY DEF BreakStep, u, a
<1> QED
  BY <1>10, <1>11, <1>12 DEF i

LEMMA ReactionStepIsStable ==
    ASSUME NEW bs, NEW longer, Grows(bs, longer), NEW i \in 1 .. Len(bs), NEW r, NEW sd
    PROVE  ReactionStep(r, longer, sd, i) = ReactionStep(r, bs, sd, i)
<1>1. longer[i] = bs[i] /\ PrefixTime(longer, i) = PrefixTime(bs, i)
  BY PrefixTimeIsStable DEF Grows
<1>2. Eligible(longer, sd, i) = Eligible(bs, sd, i)
  BY <1>1 DEF Eligible
<1>3. Succeed(r, longer, sd, i) = Succeed(r, bs, sd, i)
  BY <1>1, Zenon DEF Succeed, ReactionTime
<1>4. Watch(r, longer, sd, i) = Watch(r, bs, sd, i)
  BY <1>1, <1>2, <1>3, Zenon DEF Watch
<1> QED
  BY <1>1, <1>2, <1>4, Zenon DEF ReactionStep

-----------------------------------------------------------------------------
(* What one bar adds *)

(* What a bar finds goes behind what was found before, and is confirmed    *)
(* when the prefix up to that bar is known.                                *)
Adds(found, more, bs, i) ==
    /\ ToSet(found) \subseteq ToSet(more)
    /\ \A x \in ToSet(more) \ ToSet(found) : x.confirm = PrefixTime(bs, i)

LEMMA SetOfAppend ==
    ASSUME NEW T, NEW s \in Seq(T), NEW x \in T
    PROVE  ToSet(Append(s, x)) = ToSet(s) \cup {x}
<1>1. /\ DOMAIN s = 1 .. Len(s) /\ Len(s) \in Nat
      /\ DOMAIN Append(s, x) = 1 .. Len(s) + 1
      /\ \A k \in 1 .. Len(s) : Append(s, x)[k] = s[k]
      /\ Append(s, x)[Len(s) + 1] = x
  OBVIOUS
<1>2. \A k \in 1 .. Len(s) + 1 : k \in 1 .. Len(s) \/ k = Len(s) + 1
  BY <1>1
<1>3. Len(s) + 1 \in 1 .. Len(s) + 1 /\ \A k \in 1 .. Len(s) : k \in 1 .. Len(s) + 1
  BY <1>1
<1> DEFINE t == Append(s, x)
           m == Len(s) + 1
<1>4. /\ ToSet(t) = {t[k] : k \in 1 .. m} /\ ToSet(s) = {s[k] : k \in 1 .. Len(s)}
  BY <1>1 DEF ToSet
<1> HIDE DEF t
<1>5. /\ \A k \in 1 .. Len(s) : t[k] = s[k] /\ k \in 1 .. m
      /\ t[m] = x /\ m \in 1 .. m /\ \A k \in 1 .. m : k \in 1 .. Len(s) \/ k = m
  BY <1>1, <1>2, <1>3 DEF t
<1> HIDE DEF m
<1>6. \A y : y \in ToSet(t) <=> y \in ToSet(s) \/ y = x
  BY <1>4, <1>5
<1> QED
  BY <1>6 DEF t

LEMMA AtrStepAdds ==
    ASSUME NEW bs, NEW i, NEW s \in AtrState, NEW next, next = AtrStep(s, bs, i),
           next \in AtrState
    PROVE  /\ Adds(s.turns, next.turns, bs, i)
           /\ \A x \in ToSet(next.turns) \ ToSet(s.turns) : x.last = i
<1>1. s.turns \in Seq(Candidate) /\ next.turns \in Seq(Candidate)
      /\ DOMAIN s = {"trend", "anchor", "extreme", "turns"}
  BY DEF AtrState
<1> DEFINE turn == Turn(s, bs, i)
<1>2. turn.confirm = PrefixTime(bs, i) /\ turn.last = i
  BY DEF Turn
<1> HIDE DEF turn
<1>3. next.turns = s.turns \/ next.turns = Append(s.turns, turn)
  <2>1. \/ next = s \/ next = [s EXCEPT !.anchor = i] \/ next = [s EXCEPT !.extreme = i]
        \/ next = Directed(s, bs, i) \/ next = Reversed(s, bs, i)
    BY Zenon DEF AtrStep
  <2>2. CASE next = Directed(s, bs, i)
    BY <1>1, <2>2 DEF Directed
  <2>3. CASE next = Reversed(s, bs, i)
    BY <1>1, <2>3 DEF Reversed, turn
  <2> QED
    BY <1>1, <2>1, <2>2, <2>3
<1>4. CASE next.turns = s.turns
  BY <1>4 DEF Adds
<1>5. CASE next.turns = Append(s.turns, turn)
  <2>1. turn \in Candidate
    <3>1. Len(s.turns) + 1 \in 1 .. Len(next.turns) /\ next.turns[Len(s.turns) + 1] = turn
      BY <1>1, <1>5
    <3> DEFINE k == Len(s.turns) + 1
    <3> HIDE DEF k
    <3>2. k \in 1 .. Len(next.turns) /\ next.turns[k] = turn
      BY <3>1 DEF k
    <3> QED
      BY <1>1, <3>2
  <2>2. ToSet(next.turns) = ToSet(s.turns) \cup {turn}
    BY <1>1, <1>5, <2>1, SetOfAppend
  <2> QED
    BY <1>2, <2>2 DEF Adds
<1> QED
  BY <1>3, <1>4, <1>5

LEMMA TryAdds ==
    ASSUME NEW bs, NEW given, NEW i, NEW o, NEW side, NEW s, ScanOK(s, bs, given),
           NEW t, t = TryBreak(s, side, bs, i, o), ScanOK(t, bs, given)
    PROVE  Adds(s.breaks, t.breaks, bs, i)
<1> DEFINE seed == s.pending[side]
           reference == Best(References(s, seed), bs, o)
           item == [pending |-> seed, reference |-> reference, bar |-> i,
                    confirm |-> BreakTime(seed, reference, bs, i)]
           spent == Spent(s, side)
<1>1. /\ s.breaks \in Seq(Break) /\ t.breaks \in Seq(Break)
      /\ DOMAIN s = {"known", "pending", "breaks"}
  BY DEF ScanOK, BreakState
<1>2. t = s \/ t = [spent EXCEPT !.breaks = Append(s.breaks, item)]
  BY Zenon DEF TryBreak
<1>3. item.bar = i
  OBVIOUS
<1> HIDE DEF item
<1>4. DOMAIN spent = DOMAIN s
  <2> DEFINE cleared == [s.pending EXCEPT ![side] = NoSeed]
  <2>1. spent = [s EXCEPT !.pending = cleared]
    BY DEF Spent
  <2> HIDE DEF cleared, spent
  <2> QED
    BY <2>1
<1> HIDE DEF spent
<1>5. CASE t = s
  BY <1>5 DEF Adds
<1>6. CASE t = [spent EXCEPT !.breaks = Append(s.breaks, item)]
  <2>1. t.breaks = Append(s.breaks, item)
    BY <1>1, <1>4, <1>6
  <2> DEFINE k == Len(s.breaks) + 1
  <2>2. k \in 1 .. Len(t.breaks) /\ t.breaks[k] = item
    BY <1>1, <2>1
  <2> HIDE DEF k
  <2>3. item \in Break /\ BreakOK(item, bs, given)
    BY <1>1, <2>2 DEF ScanOK
  <2>4. item.confirm = PrefixTime(bs, i)
    BY <1>3, <2>3 DEF BreakOK
  <2>5. ToSet(t.breaks) = ToSet(s.breaks) \cup {item}
    BY <1>1, <2>1, <2>3, SetOfAppend
  <2> QED
    BY <2>4, <2>5 DEF Adds
<1> QED
  BY <1>2, <1>5, <1>6

LEMMA BreakStepAdds ==
    ASSUME NEW shorter \in Seq(Bar), NEW bs \in Seq(Bar), Len(bs) = Len(shorter) + 1,
           NEW earlier, NEW given, SeedsGrow(earlier, shorter, given, bs),
           NEW o \in {1, -1}, NEW s, ScanOK(s, shorter, earlier),
           \A side \in Side : Unbroken(s, shorter, o, side, Len(shorter)),
           NEW next, next = BreakStep(s, given, bs, Len(bs), o)
    PROVE  Adds(s.breaks, next.breaks, bs, Len(bs))
<1> DEFINE i == Len(bs)
           before == Len(shorter)
           a == Absorb(s, given, bs, i, o)
           u == TryBreak(a, "UPPER", bs, i, o)
           l == TryBreak(u, "LOWER", bs, i, o)
<1>1. /\ SeedsOK(given, bs) /\ i # 0 /\ before = i - 1 /\ before + 1 = i /\ i = Len(bs)
  BY GrownFacts
<1>2. ScanOK(a, bs, given) /\ \A side \in Side : Unbroken(a, bs, o, side, before)
  <2>1. a = Absorb(s, given, bs, Len(shorter) + 1, o)
    BY <1>1
  <2> HIDE DEF a
  <2> QED
    BY <2>1, AbsorbKeeps, Zenon DEF before
<1>3. a.breaks = s.breaks
  <2>1. DOMAIN s = {"known", "pending", "breaks"}
    BY DEF ScanOK, BreakState
  <2> QED
    BY <2>1 DEF Absorb
<1>4. next = l /\ l = TryBreak(u, "LOWER", bs, i, o) /\ u = TryBreak(a, "UPPER", bs, i, o)
  BY DEF BreakStep
<1> HIDE DEF a, u, l, before, i
<1>5. "UPPER" \in Side /\ "LOWER" \in Side /\ "UPPER" # "LOWER"
  BY DEF Side
<1>6. Unbroken(a, bs, o, "UPPER", before) /\ Unbroken(a, bs, o, "LOWER", before)
  BY <1>2, <1>5
<1>7. ScanOK(u, bs, given) /\ Unbroken(u, bs, o, "LOWER", before) /\ Unbroken(u, bs, o, "UPPER", i)
  BY <1>1, <1>2, <1>4, <1>5, <1>6, TryKeeps
<1>8. ScanOK(l, bs, given)
  BY <1>1, <1>4, <1>5, <1>7, TryKeeps
<1>9. Adds(a.breaks, u.breaks, bs, i) /\ Adds(u.breaks, l.breaks, bs, i)
  BY <1>2, <1>4, <1>7, <1>8, TryAdds
<1>10. Adds(a.breaks, l.breaks, bs, i)
  BY <1>9, Zenon DEF Adds
<1> QED
  BY <1>1, <1>3, <1>4, <1>10

(* What one more bar does to the reactions found at a zone.                *)
FoundNext(found, next, clock, sd) ==
    \/ next = found
    \/ /\ Len(found) # MinReactions
       /\ \E item : next = Append(found, item) /\ item.confirm = clock /\ sd.confirm < clock

LEMMA ReactionStepAdds ==
    ASSUME NEW bs \in Seq(Bar), NEW i \in 1 .. Len(bs), NEW sd, sd.confirm \in Nat,
           NEW r \in [touch : Nat, lastSuccess : Nat, found : Seq(Reaction)],
           NEW s, s = ReactionStep(r, bs, sd, i)
    PROVE  FoundNext(r.found, s.found, PrefixTime(bs, i), sd)
<1> DEFINE item == [touch |-> r.touch, bar |-> i, confirm |-> ReactionTime(bs, sd, i)]
           success == Succeed(r, bs, sd, i)
<1>1. DOMAIN r = {"touch", "lastSuccess", "found"} /\ r.found \in Seq(Reaction)
  OBVIOUS
<1>2. success.found = Append(r.found, item)
  BY DEF Succeed
<1>3. item.confirm = ReactionTime(bs, sd, i)
  OBVIOUS
<1> HIDE DEF item, success
<1>4. \/ s = r \/ s = [r EXCEPT !.touch = 0] \/ s = [r EXCEPT !.touch = i]
      \/ Len(r.found) # MinReactions /\ Eligible(bs, sd, i) /\ s = success
  BY Zenon DEF ReactionStep, Watch, success
<1>5. CASE s = r \/ s = [r EXCEPT !.touch = 0] \/ s = [r EXCEPT !.touch = i]
  BY <1>1, <1>5 DEF FoundNext
<1>6. CASE Len(r.found) # MinReactions /\ Eligible(bs, sd, i) /\ s = success
  <2>1. /\ PrefixTime(bs, i) \in Nat /\ bs[i].available <= PrefixTime(bs, i)
        /\ bs[i].available \in Nat
    <3>1. i \in 1 .. i
      OBVIOUS
    <3>2. PrefixTime(bs, i) \in Nat /\ \A j \in 1 .. i : bs[j].available <= PrefixTime(bs, i)
      BY PrefixTimeFacts
    <3>3. bs[i].available \in Nat
      BY BarFacts
    <3> QED
      BY <3>1, <3>2, <3>3
  <2>2. sd.confirm < PrefixTime(bs, i)
    BY <1>6, <2>1 DEF Eligible
  <2>3. ReactionTime(bs, sd, i) = PrefixTime(bs, i)
    <3> DEFINE x == sd.confirm
               y == PrefixTime(bs, i)
    <3>1. x \in Nat /\ y \in Nat /\ x < y /\ ReactionTime(bs, sd, i) = Max({x, y})
      BY <2>1, <2>2 DEF ReactionTime
    <3> HIDE DEF x, y
    <3>2. ReactionTime(bs, sd, i) = y
      BY <3>1, LargerOfTwo
    <3> QED
      BY <3>2 DEF y
  <2> QED
    BY <1>2, <1>3, <1>6, <2>2, <2>3 DEF FoundNext
<1> QED
  BY <1>4, <1>5, <1>6

-----------------------------------------------------------------------------
(* The states of a scan on the parts of a source *)

StateOK(kind, s, bs, given, o) ==
    /\ kind = "ATR" => AtrOK(s, bs)
    /\ kind = "BREAK" =>
          ScanOK(s, bs, given) /\ \A side \in Side : Unbroken(s, bs, o, side, Len(bs))
    /\ kind = "REACTION" => ReactionOK(s, bs, given)

(* What is given with each part of a source.                               *)
FamilyOK(kind, family, bs) ==
    /\ kind = "BREAK" =>
          \A i, j \in 0 .. Len(bs) :
              i <= j => SeedsGrow(family[i], Part(bs, i), family[j], Part(bs, j))
    /\ kind = "REACTION" =>
          \A i, j \in 0 .. Len(bs) : family[i] = family[j] /\ family[i].confirm \in Nat

LEMMA StartIsOK ==
    ASSUME NEW kind \in Scans, NEW bs \in Seq(Bar), NEW family, FamilyOK(kind, family, bs), NEW o
    PROVE  StateOK(kind, Started(kind), Part(bs, 0), family[0], o)
<1> DEFINE none == Part(bs, 0)
           given == family[0]
<1>1. 0 \in 0 .. Len(bs)
  OBVIOUS
<1>2. none \in Seq(Bar) /\ Len(none) = 0
  BY <1>1, CutFacts
<1> HIDE DEF none, given
<1>3. \A i \in 1 .. Len(none) : FALSE
  BY <1>2
<1>4. AtrOK(NewAtr, none)
  <2>1. /\ NewAtr.trend = "UNKNOWN" /\ NewAtr.anchor = 0 /\ NewAtr.turns = <<>> /\ Len(NewAtr.turns) = 0
        /\ NewAtr \in AtrState
    BY DEF NewAtr, AtrState, Trend
  <2> QED
    BY <1>2, <2>1 DEF AtrOK
<1>5. ASSUME SeedsOK(given, none)
      PROVE  ScanOK(NewBreak, none, given) /\ \A side \in Side : Unbroken(NewBreak, none, o, side, Len(none))
  <2>1. /\ NewBreak.known = {} /\ NewBreak.breaks = <<>> /\ Len(NewBreak.breaks) = 0
        /\ NewBreak.pending = [side \in Side |-> NoSeed] /\ NewBreak \in BreakState
    BY DEF NewBreak, BreakState
  <2>2. KnownOf(none, given) = {}
    BY <1>2, <1>3, <1>5 DEF KnownOf, SeedsOK
  <2> QED
    BY <2>1, <2>2 DEF ScanOK, PendingOK, FreshAfter, Unbroken
<1>6. ReactionOK(NewReaction, none, given)
  BY <1>2, <1>3, NewReactionOK
<1>7. kind = "BREAK" => SeedsOK(given, none)
  <2>1. kind = "BREAK" => SeedsGrow(family[0], Part(bs, 0), family[0], Part(bs, 0))
    BY <1>1 DEF FamilyOK
  <2> QED
    BY <2>1, GrownFacts DEF given, none
<1>8. StateOK(kind, Started(kind), none, given, o)
  BY <1>4, <1>5, <1>6, <1>7, Zenon DEF StateOK, Started, Scans
<1> QED
  BY <1>8 DEF none, given

LEMMA StepKeeps ==
    ASSUME NEW kind \in Scans, NEW bs \in Seq(Bar), NEW family, FamilyOK(kind, family, bs),
           NEW o \in {1, -1}, NEW n \in 1 .. Len(bs), NEW before, before = n - 1,
           NEW s, StateOK(kind, s, Part(bs, before), family[before], o)
    PROVE  StateOK(kind, ReadOn(kind, s, Part(bs, n), family[n], n, o), Part(bs, n), family[n], o)
<1> DEFINE a == Part(bs, before)
           b == Part(bs, n)
           next == ReadOn(kind, s, b, family[n], n, o)
<1>1. /\ before \in 0 .. Len(bs) /\ n \in 0 .. Len(bs) /\ bs[n] \in Bar /\ before <= n /\ n \in Nat
      /\ b = Append(a, bs[n]) /\ Grows(a, b)
  BY PartSteps
<1>2. /\ a \in Seq(Bar) /\ b \in Seq(Bar) /\ Len(a) = before /\ Len(b) = n
      /\ Len(b) = Len(a) + 1 /\ n = Len(a) + 1
  <2>1. a \in Seq(Bar) /\ b \in Seq(Bar) /\ Len(a) = before /\ Len(b) = n
    BY <1>1, CutFacts
  <2> QED
    BY <1>1, <2>1
<1>3. StateOK(kind, s, a, family[before], o)
  OBVIOUS
<1> HIDE DEF a, b
<1>4. CASE kind = "ATR"
  <2>1. next = AtrStep(s, b, n) /\ AtrOK(s, a)
    BY <1>3, <1>4 DEF ReadOn, StateOK
  <2>2. AtrOK(AtrStep(s, b, n), b)
    BY <1>1, <1>2, <2>1, AtrStepKeepsLegs
  <2> HIDE DEF next
  <2> QED
    BY <1>4, <2>1, <2>2 DEF StateOK, next, b
<1>5. CASE kind = "BREAK"
  <2>1. /\ next = BreakStep(s, family[n], b, n, o)
        /\ ScanOK(s, a, family[before]) /\ \A side \in Side : Unbroken(s, a, o, side, Len(a))
    BY <1>3, <1>5 DEF ReadOn, StateOK
  <2>2. SeedsGrow(family[before], a, family[n], b)
    BY <1>1, <1>5 DEF FamilyOK, a, b
  <2> HIDE DEF next
  <2>3. LET later == BreakStep(s, family[n], b, Len(b), o)
        IN  ScanOK(later, b, family[n]) /\ \A side \in Side : Unbroken(later, b, o, side, Len(b))
    BY <1>2, <2>1, <2>2, BreakStepKeeps
  <2>4. ScanOK(next, b, family[n]) /\ \A side \in Side : Unbroken(next, b, o, side, Len(b))
    BY <1>2, <2>1, <2>3
  <2> QED
    BY <1>5, <2>4 DEF StateOK, next, b
<1>6. CASE kind = "REACTION"
  <2>1. next = ReactionStep(s, b, family[n], n) /\ ReactionOK(s, a, family[before])
    BY <1>3, <1>6 DEF ReadOn, StateOK
  <2>2. family[before] = family[n] /\ family[n].confirm \in Nat
    BY <1>1, <1>6 DEF FamilyOK
  <2> DEFINE sd == family[n]
  <2>3. sd.confirm \in Nat /\ ReactionOK(s, a, sd) /\ next = ReactionStep(s, b, sd, n)
    BY <2>1, <2>2
  <2> HIDE DEF next, sd
  <2>4. ReactionOK(next, b, sd)
    BY <1>1, <1>2, <2>3, ReactionStepKeeps, Zenon
  <2> QED
    BY <1>6, <2>4 DEF StateOK, next, b, sd
<1> QED
  BY <1>4, <1>5, <1>6 DEF Scans

ReadsAlike(kind, s, bs, family, o, n, m) ==
    ReadOn(kind, s, Part(bs, m), family[m], n, o) = ReadOn(kind, s, Part(bs, n), family[n], n, o)

LEMMA StepSame ==
    ASSUME NEW kind \in Scans, NEW bs \in Seq(Bar), NEW family, FamilyOK(kind, family, bs),
           NEW o \in {1, -1}, NEW n \in 1 .. Len(bs), NEW before, before = n - 1,
           NEW s, StateOK(kind, s, Part(bs, before), family[before], o),
           NEW m \in n .. Len(bs)
    PROVE  ReadsAlike(kind, s, bs, family, o, n, m)
<1> DEFINE a == Part(bs, before)
           b == Part(bs, n)
           c == Part(bs, m)
<1>1. /\ before \in 0 .. Len(bs) /\ n \in 0 .. Len(bs) /\ m \in 0 .. Len(bs) /\ before <= n /\ n <= m
      /\ n \in Nat /\ n \in 1 .. n
  OBVIOUS
<1>2. /\ a \in Seq(Bar) /\ b \in Seq(Bar) /\ Len(a) = before /\ Len(b) = n
      /\ c \in Seq(Bar) /\ Len(c) = m
      /\ \A i \in 1 .. n : b[i] = bs[i]
      /\ \A i \in 1 .. m : c[i] = bs[i]
  BY <1>1, CutFacts
<1>3. StateOK(kind, s, a, family[before], o) /\ Len(b) = Len(a) + 1
  BY <1>1, <1>2
<1> HIDE DEF a, b, c
<1>4. Grows(b, c)
  <2>1. \A i \in 1 .. n : i \in 1 .. m
    BY <1>1
  <2>2. \A i \in 1 .. n : c[i] = b[i]
    BY <1>2, <2>1
  <2> QED
    BY <1>1, <1>2, <2>2 DEF Grows
<1>5. CASE kind = "ATR"
  <2>1. AtrOK(s, a)
    BY <1>3, <1>5 DEF StateOK
  <2>2. AtrStep(s, c, n) = AtrStep(s, b, n)
    BY <1>1, <1>2, <1>4, <2>1, AtrStepIsStable
  <2> QED
    BY <1>5, <2>2 DEF ReadsAlike, ReadOn, b, c
<1>6. CASE kind = "BREAK"
  <2>1. ScanOK(s, a, family[before]) /\ \A side \in Side : Unbroken(s, a, o, side, Len(a))
    BY <1>3, <1>6 DEF StateOK
  <2>2. SeedsGrow(family[before], a, family[n], b) /\ SeedsGrow(family[n], b, family[m], c)
    BY <1>1, <1>6 DEF FamilyOK, a, b, c
  <2>3. BreakStep(s, family[m], c, n, o) = BreakStep(s, family[n], b, n, o)
    BY <1>2, <1>3, <2>1, <2>2, BreakStepIsStable
  <2> QED
    BY <1>6, <2>3 DEF ReadsAlike, ReadOn, b, c
<1>7. CASE kind = "REACTION"
  <2>1. family[m] = family[n]
    BY <1>1, <1>7 DEF FamilyOK
  <2>2. ReactionStep(s, c, family[n], n) = ReactionStep(s, b, family[n], n)
    BY <1>1, <1>2, <1>4, ReactionStepIsStable
  <2> QED
    BY <1>7, <2>1, <2>2 DEF ReadsAlike, ReadOn, b, c
<1> QED
  BY <1>5, <1>6, <1>7 DEF Scans

GoesOn(kind, bs, family, o) ==
    LET at(n) == Ran(kind, Part(bs, n), family[n], o)
    IN  /\ at(0) = Started(kind)
        /\ \A n \in 0 .. Len(bs) : StateOK(kind, at(n), Part(bs, n), family[n], o)
        /\ \A n \in 0 .. Len(bs) - 1 :
              at(n + 1) = ReadOn(kind, at(n), Part(bs, n + 1), family[n + 1], n + 1, o)

(* A scan of a part of the source is the scan of the part before it and    *)
(* one bar more, although the code starts each of them from nothing.       *)
LEMMA ScansGoOn ==
    ASSUME NEW kind \in Scans, NEW bs \in Seq(Bar), NEW family, FamilyOK(kind, family, bs),
           NEW o \in {1, -1}
    PROVE  GoesOn(kind, bs, family, o)
<1> DEFINE at(n) == Ran(kind, Part(bs, n), family[n], o)
           Is(f, m) == RunTo(f, kind, Part(bs, m), family[m], o, m)
           next(s, m, k) == ReadOn(kind, s, Part(bs, m), family[m], k, o)
           ok(s, n) == StateOK(kind, s, Part(bs, n), family[n], o)
           T == {n \in Nat : n <= Len(bs) =>
                    /\ ok(at(n), n)
                    /\ \A m \in n .. Len(bs) : \A f : Is(f, m) => f[n] = at(n)}
<1>1. Len(bs) \in Nat
  OBVIOUS
<1>2. ASSUME NEW m \in 0 .. Len(bs) PROVE \E f : Is(f, m) /\ at(m) = f[m]
  <2>1. Len(Part(bs, m)) = m /\ m \in Nat
    BY CutFacts
  <2> DEFINE after == CHOOSE f : Is(f, m)
  <2>2. Is(after, m)
    <3>1. \E f : Is(f, m)
      BY <2>1, RunExists
    <3> HIDE DEF Is
    <3> QED
      BY <3>1
  <2>3. at(m) = after[m]
    BY <2>1 DEF Ran
  <2> HIDE DEF after, Is, at
  <2> QED
    BY <2>2, <2>3
<1>3. ASSUME NEW m \in 0 .. Len(bs), NEW f, Is(f, m)
      PROVE  /\ f[0] = Started(kind)
             /\ \A k \in Nat : k + 1 <= m => f[k + 1] = next(f[k], m, k + 1)
  <2>1. \A k \in 0 .. m : f[k] = IF k = 0 THEN Started(kind) ELSE next(f[k - 1], m, k)
    BY <1>3 DEF RunTo
  <2> HIDE DEF next
  <2>2. 0 \in 0 .. m
    BY <1>1
  <2>3. ASSUME NEW k \in Nat, k + 1 <= m PROVE f[k + 1] = next(f[k], m, k + 1)
    <3> DEFINE k1 == k + 1
    <3>1. k1 \in 0 .. m /\ k1 # 0 /\ k1 - 1 = k
      BY <1>1, <2>3
    <3> HIDE DEF k1
    <3>2. f[k1] = next(f[k], m, k1)
      BY <2>1, <3>1
    <3> QED
      BY <3>2 DEF k1
  <2> QED
    BY <2>1, <2>2, <2>3
<1>4. at(0) = Started(kind)
  <2>1. 0 \in 0 .. Len(bs)
    BY <1>1
  <2>2. PICK f : Is(f, 0) /\ at(0) = f[0]
    BY <1>2, <2>1
  <2> HIDE DEF Is, at
  <2> QED
    BY <1>3, <2>1, <2>2
<1>5. 0 \in T
  <2>1. ok(Started(kind), 0)
    BY StartIsOK
  <2>2. \A m \in 0 .. Len(bs) : \A f : Is(f, m) => f[0] = Started(kind)
    BY <1>3
  <2> HIDE DEF Is, at, ok
  <2> QED
    BY <1>1, <1>4, <2>1, <2>2
<1>6. ASSUME NEW k \in Nat, NEW n \in 1 .. Len(bs), n = k + 1, k \in T
      PROVE  /\ at(n) = next(at(k), n, n)
             /\ ok(at(n), n)
             /\ \A m \in n .. Len(bs) : \A f : Is(f, m) => f[n] = at(n)
  <2>1. /\ k = n - 1 /\ k <= Len(bs) /\ n \in 0 .. Len(bs) /\ n \in n .. Len(bs)
        /\ \A m \in n .. Len(bs) : m \in 0 .. Len(bs) /\ m \in k .. Len(bs) /\ k + 1 <= m
    BY <1>1, <1>6
  <2>2. ok(at(k), k) /\ \A m \in k .. Len(bs) : \A f : Is(f, m) => f[k] = at(k)
    BY <1>6, <2>1
  <2>3. \A m \in n .. Len(bs) : next(at(k), m, n) = next(at(k), n, n)
    <3> DEFINE s == at(k)
    <3>1. ok(s, k)
      BY <2>2
    <3> HIDE DEF s, at
    <3>2. \A m \in n .. Len(bs) : ReadsAlike(kind, s, bs, family, o, n, m)
      BY <2>1, <3>1, StepSame
    <3> QED
      BY <3>2 DEF s, ReadsAlike
  <2>4. ok(next(at(k), n, n), n)
    <3> DEFINE s == at(k)
    <3>1. ok(s, k)
      BY <2>2
    <3> HIDE DEF s, at
    <3>2. ok(next(s, n, n), n)
      BY <2>1, <3>1, StepKeeps
    <3> QED
      BY <3>2 DEF s
  <2> HIDE DEF Is, at, ok, next
  <2>5. \A m \in n .. Len(bs) : \A f : Is(f, m) => f[n] = next(at(k), n, n)
    <3> TAKE m \in n .. Len(bs)
    <3> TAKE f
    <3> HAVE Is(f, m)
    <3>1. f[k] = at(k) /\ f[n] = next(f[k], m, n)
      BY <1>3, <1>6, <2>1, <2>2
    <3> QED
      BY <2>3, <3>1
  <2>6. at(n) = next(at(k), n, n)
    <3>1. PICK f : Is(f, n) /\ at(n) = f[n]
      BY <1>2, <2>1
    <3> QED
      BY <2>1, <2>5, <3>1
  <2> QED
    BY <2>4, <2>5, <2>6
<1>7. ASSUME NEW k \in Nat, k \in T PROVE k + 1 \in T
  <2> DEFINE n == k + 1
  <2>1. n \in Nat /\ (n <= Len(bs) => n \in 1 .. Len(bs)) /\ n = k + 1
    BY <1>1
  <2> HIDE DEF at, ok, Is, n
  <2>2. n \in T
    BY <1>6, <1>7, <2>1
  <2> QED
    BY <2>2 DEF n
<1>8. Nat \subseteq T
  <2> HIDE DEF T
  <2> QED
    BY <1>5, <1>7, NatSetInduction
<1>9. \A n \in 0 .. Len(bs) : ok(at(n), n) /\ n \in T
  <2> HIDE DEF at, ok, Is
  <2> QED
    BY <1>1, <1>8
<1>10. \A n \in 0 .. Len(bs) - 1 : at(n + 1) = next(at(n), n + 1, n + 1)
  <2> TAKE n \in 0 .. Len(bs) - 1
  <2>1. n \in Nat /\ n + 1 \in 1 .. Len(bs) /\ n \in T
    BY <1>1, <1>8
  <2> HIDE DEF at, ok, Is, T, next
  <2> QED
    BY <1>6, <2>1
<1>11. \A n \in 0 .. Len(bs) : StateOK(kind, at(n), Part(bs, n), family[n], o)
  <2> HIDE DEF T, at
  <2> QED
    BY <1>9
<1> HIDE DEF T, ok, Is
<1> QED
  BY <1>4, <1>10, <1>11, Zenon DEF GoesOn

(* If each bar adds only what is stamped with its time, what was stamped   *)
(* by then is what the bars up to then have found.                         *)
Builds(found, N, clock, stamp) ==
    /\ \A x : x \notin found[0]
    /\ \A n \in 0 .. N - 1 :
          /\ found[n] \subseteq found[n + 1]
          /\ \A x \in found[n + 1] \ found[n] : stamp[x] = clock[n + 1]

SeenBy(found, N, m, stamp, time) ==
    \A x : x \in found[m] <=> x \in found[N] /\ stamp[x] <= time

LEMMA FoundInParts ==
    ASSUME NEW N \in Nat, NEW found, NEW clock, NEW stamp, NEW m \in 0 .. N, NEW time,
           \A i \in 1 .. N : clock[i] <= time <=> i <= m,
           Builds(found, N, clock, stamp)
    PROVE  SeenBy(found, N, m, stamp, time)
<1> DEFINE cut(n) == IF n <= m THEN n ELSE m
           T == {n \in Nat : n <= N =>
                    \A x : x \in found[n] /\ stamp[x] <= time <=> x \in found[cut(n)]}
<1>1. 0 \in T
  <2>1. cut(0) = 0 /\ \A x : x \notin found[0]
    BY DEF Builds
  <2> HIDE DEF cut
  <2> QED
    BY <2>1
<1>2. ASSUME NEW n \in Nat, n \in T PROVE n + 1 \in T
  <2> DEFINE k == n + 1
  <2> SUFFICES ASSUME k <= N
               PROVE  \A x : x \in found[k] /\ stamp[x] <= time <=> x \in found[cut(k)]
    OBVIOUS
  <2>1. n <= N /\ n \in 0 .. N - 1 /\ k \in 1 .. N
    OBVIOUS
  <2>2. /\ found[n] \subseteq found[k] /\ \A x \in found[k] \ found[n] : stamp[x] = clock[k]
        /\ clock[k] <= time <=> k <= m
    BY <2>1 DEF Builds
  <2>3. \A x : x \in found[n] /\ stamp[x] <= time <=> x \in found[cut(n)]
    BY <1>2, <2>1
  <2>4. CASE k <= m
    <3>1. cut(n) = n /\ cut(k) = k
      BY <2>4
    <3> HIDE DEF cut, k
    <3> QED
      BY <2>2, <2>3, <2>4, <3>1
  <2>5. CASE ~(k <= m)
    <3>1. cut(n) = m /\ cut(k) = m
      BY <2>5
    <3> HIDE DEF cut, k
    <3> QED
      BY <2>2, <2>3, <2>5, <3>1
  <2> QED
    BY <2>4, <2>5
<1>3. N \in T
  <2> HIDE DEF T
  <2> QED
    BY <1>1, <1>2, NatSetInduction
<1>4. cut(N) = m
  OBVIOUS
<1>5. \A x : x \in found[N] /\ stamp[x] <= time <=> x \in found[m]
  <2> HIDE DEF cut
  <2> QED
    BY <1>3, <1>4
<1> QED
  BY <1>5 DEF SeenBy

(* The same when each finding is stamped with its confirm time: what a     *)
(* time sees of a source is what the bars it sees have found.              *)
BuildsOn(found, bs) ==
    /\ \A x : x \notin found[0]
    /\ \A n \in 0 .. Len(bs) - 1 :
          /\ found[n] \subseteq found[n + 1]
          /\ \A x \in found[n + 1] \ found[n] : x.confirm = PrefixTime(bs, n + 1)

SeesBars(bs, m, time) == \A i \in 1 .. Len(bs) : PrefixTime(bs, i) <= time <=> i <= m

ConfirmedBy(found, n, m, time) ==
    \A x : x \in found[m] <=> x \in found[n] /\ x.confirm <= time

LEMMA ConfirmedInParts ==
    ASSUME NEW bs \in Seq(Bar), NEW found, BuildsOn(found, bs), NEW m \in 0 .. Len(bs),
           NEW time, SeesBars(bs, m, time)
    PROVE  ConfirmedBy(found, Len(bs), m, time)
<1> DEFINE N == Len(bs)
           all == UNION {found[n] : n \in 0 .. N}
           confirmOf == [x \in all |-> x.confirm]
           clock == [i \in 1 .. N |-> PrefixTime(bs, i)]
<1>1. /\ N \in Nat /\ \A n \in 0 .. N - 1 : n \in 0 .. N /\ n + 1 \in 0 .. N /\ n + 1 \in 1 .. N
      /\ 0 \in 0 .. N /\ N \in 0 .. N /\ m \in 0 .. N
  OBVIOUS
<1>2. \A n \in 0 .. N : \A x \in found[n] : confirmOf[x] = x.confirm
  BY <1>1
<1>3. \A i \in 1 .. N : clock[i] = PrefixTime(bs, i)
  OBVIOUS
<1> HIDE DEF all, confirmOf, clock
<1>4. Builds(found, N, clock, confirmOf)
  BY <1>1, <1>2, <1>3 DEF Builds, BuildsOn
<1>5. SeenBy(found, N, m, confirmOf, time)
  <2>1. \A i \in 1 .. N : clock[i] <= time <=> i <= m
    BY <1>3 DEF SeesBars
  <2> QED
    BY <1>1, <1>4, <2>1, FoundInParts
<1> QED
  BY <1>1, <1>2, <1>5 DEF SeenBy, ConfirmedBy

-----------------------------------------------------------------------------
(* Turning points *)

TurnsOf(bs) == ToSet(AtrAfter(bs).turns)

LEMMA TurnsGoOn ==
    ASSUME NEW bs \in Seq(Bar)
    PROVE  /\ \A x : x \notin TurnsOf(Part(bs, 0))
           /\ \A n \in 0 .. Len(bs) : AtrOK(AtrAfter(Part(bs, n)), Part(bs, n))
           /\ \A n \in 0 .. Len(bs) - 1 :
                 /\ TurnsOf(Part(bs, n)) \subseteq TurnsOf(Part(bs, n + 1))
                 /\ \A x \in TurnsOf(Part(bs, n + 1)) \ TurnsOf(Part(bs, n)) :
                       x.last = n + 1 /\ x.confirm = PrefixTime(bs, n + 1)
<1> DEFINE family == [n \in 0 .. Len(bs) |-> {}]
           at(n) == AtrAfter(Part(bs, n))
<1>1. Len(bs) \in Nat /\ "ATR" \in Scans /\ 1 \in {1, -1}
  BY DEF Scans
<1>2. FamilyOK("ATR", family, bs)
  BY DEF FamilyOK
<1> HIDE DEF family
<1>3. \A n : Ran("ATR", Part(bs, n), family[n], 1) = at(n)
  BY ScansRun
<1>4. /\ at(0) = Started("ATR")
      /\ \A n \in 0 .. Len(bs) : StateOK("ATR", at(n), Part(bs, n), family[n], 1)
      /\ \A n \in 0 .. Len(bs) - 1 :
            at(n + 1) = ReadOn("ATR", at(n), Part(bs, n + 1), family[n + 1], n + 1, 1)
  <2> DEFINE ran(n) == Ran("ATR", Part(bs, n), family[n], 1)
  <2>1. /\ ran(0) = Started("ATR")
        /\ \A n \in 0 .. Len(bs) : StateOK("ATR", ran(n), Part(bs, n), family[n], 1)
        /\ \A n \in 0 .. Len(bs) - 1 :
              ran(n + 1) = ReadOn("ATR", ran(n), Part(bs, n + 1), family[n + 1], n + 1, 1)
    <3>1. GoesOn("ATR", bs, family, 1)
      BY <1>1, <1>2, ScansGoOn
    <3> QED
      BY <3>1, Zenon DEF GoesOn
  <2>2. \A n : ran(n) = at(n)
    BY <1>3
  <2> HIDE DEF ran, at
  <2> QED
    BY <2>1, <2>2
<1>5. /\ at(0) = NewAtr
      /\ \A n \in 0 .. Len(bs) : AtrOK(at(n), Part(bs, n))
      /\ \A n \in 0 .. Len(bs) - 1 : at(n + 1) = AtrStep(at(n), Part(bs, n + 1), n + 1)
  <2> HIDE DEF at
  <2> QED
    BY <1>4 DEF Started, StateOK, ReadOn
<1>6. \A x : x \notin TurnsOf(Part(bs, 0))
  <2>1. at(0).turns = <<>>
    BY <1>5 DEF NewAtr
  <2> QED
    BY <2>1 DEF TurnsOf, ToSet
<1>7. ASSUME NEW n \in 0 .. Len(bs) - 1
      PROVE  /\ TurnsOf(Part(bs, n)) \subseteq TurnsOf(Part(bs, n + 1))
             /\ \A x \in TurnsOf(Part(bs, n + 1)) \ TurnsOf(Part(bs, n)) :
                   x.last = n + 1 /\ x.confirm = PrefixTime(bs, n + 1)
  <2> DEFINE k == n + 1
             c == Part(bs, k)
             s == at(n)
             next == at(k)
  <2>1. /\ n \in 0 .. Len(bs) /\ k \in 0 .. Len(bs) /\ k \in 1 .. Len(c)
        /\ Grows(c, bs)
    <3>1. n \in 0 .. Len(bs) /\ k \in 0 .. Len(bs) /\ k \in 1 .. k
      BY <1>1
    <3> HIDE DEF k
    <3> QED
      BY <3>1, CutFacts
  <2>2. next = AtrStep(s, c, k) /\ s \in AtrState /\ next \in AtrState
    <3> HIDE DEF at
    <3> QED
      BY <1>5, <2>1 DEF AtrOK
  <2>3. PrefixTime(bs, k) = PrefixTime(c, k)
    BY <2>1, PrefixTimeIsStable
  <2> HIDE DEF s, next, c, k
  <2>4. /\ Adds(s.turns, next.turns, c, k)
        /\ \A x \in ToSet(next.turns) \ ToSet(s.turns) : x.last = k
    BY <2>2, AtrStepAdds
  <2>5. TurnsOf(Part(bs, n)) = ToSet(s.turns) /\ TurnsOf(Part(bs, k)) = ToSet(next.turns)
    BY DEF TurnsOf, s, next
  <2>6. /\ TurnsOf(Part(bs, n)) \subseteq TurnsOf(Part(bs, k))
        /\ \A x \in TurnsOf(Part(bs, k)) \ TurnsOf(Part(bs, n)) :
              x.last = k /\ x.confirm = PrefixTime(bs, k)
    BY <2>3, <2>4, <2>5 DEF Adds
  <2> QED
    BY <2>6 DEF k
<1> QED
  BY <1>5, <1>6, <1>7

(* The turning points of a part are those of the whole that were confirmed *)
(* by its last bar, and by the times that see that part and no more.       *)
LEMMA TurnsInParts ==
    ASSUME NEW bs \in Seq(Bar), NEW m \in 0 .. Len(bs)
    PROVE  /\ \A x : x \in TurnsOf(Part(bs, m)) <=> x \in TurnsOf(bs) /\ x.last <= m
           /\ \A time : SeesBars(bs, m, time) =>
                 \A x : x \in TurnsOf(Part(bs, m)) <=> x \in TurnsOf(bs) /\ x.confirm <= time
<1> DEFINE N == Len(bs)
           found == [n \in 0 .. N |-> TurnsOf(Part(bs, n))]
           all == UNION {found[n] : n \in 0 .. N}
           lastOf == [x \in all |-> x.last]
           index == [i \in 1 .. N |-> i]
<1>1. /\ N \in Nat /\ \A n \in 0 .. N - 1 : n \in 0 .. N /\ n + 1 \in 0 .. N /\ n + 1 \in 1 .. N
      /\ 0 \in 0 .. N /\ N \in 0 .. N /\ m \in 0 .. N
  OBVIOUS
<1>2. \A n \in 0 .. N : found[n] = TurnsOf(Part(bs, n))
  OBVIOUS
<1>3. \A n \in 0 .. N : \A x \in found[n] : lastOf[x] = x.last
  BY <1>1
<1>4. \A i \in 1 .. N : index[i] = i
  OBVIOUS
<1> HIDE DEF found, all, lastOf, index
<1>5. found[N] = TurnsOf(bs) /\ found[m] = TurnsOf(Part(bs, m))
  BY <1>1, <1>2, WholeCut
<1>6. /\ \A x : x \notin TurnsOf(Part(bs, 0))
      /\ \A n \in 0 .. N - 1 :
            /\ TurnsOf(Part(bs, n)) \subseteq TurnsOf(Part(bs, n + 1))
            /\ \A x \in TurnsOf(Part(bs, n + 1)) \ TurnsOf(Part(bs, n)) :
                  x.last = n + 1 /\ x.confirm = PrefixTime(bs, n + 1)
  BY TurnsGoOn
<1>7. Builds(found, N, index, lastOf)
  BY <1>1, <1>2, <1>3, <1>4, <1>6 DEF Builds
<1>8. BuildsOn(found, bs)
  BY <1>1, <1>2, <1>6 DEF BuildsOn
<1>9. \A x : x \in found[m] <=> x \in found[N] /\ x.last <= m
  <2>1. \A i \in 1 .. N : index[i] <= m <=> i <= m
    BY <1>4
  <2>2. SeenBy(found, N, m, lastOf, m)
    BY <1>1, <1>7, <2>1, FoundInParts
  <2> QED
    BY <1>1, <1>3, <2>2 DEF SeenBy
<1>10. ASSUME NEW time, SeesBars(bs, m, time)
       PROVE  \A x : x \in found[m] <=> x \in found[N] /\ x.confirm <= time
  BY <1>8, <1>10, ConfirmedInParts DEF ConfirmedBy
<1> QED
  BY <1>5, <1>9, <1>10

(* Turning points come in the order of their bars: each leg starts where   *)
(* the turn before it was confirmed.                                       *)
LEMMA TurnsAscend ==
    ASSUME NEW bs \in Seq(Bar), NEW s, AtrOK(s, bs)
    PROVE  /\ Len(s.turns) \in Nat /\ DOMAIN s.turns = 1 .. Len(s.turns)
           /\ \A k \in 1 .. Len(s.turns) :
                 /\ s.turns[k] \in Candidate /\ s.turns[k].last \in 1 .. Len(bs)
                 /\ s.turns[k].origin \in 1 .. s.turns[k].last
           /\ \A j, k \in 1 .. Len(s.turns) : j < k => s.turns[j].origin < s.turns[k].origin
<1> DEFINE turns == s.turns
           n == Len(turns)
<1>1. turns \in Seq(Candidate) /\ n \in Nat /\ DOMAIN turns = 1 .. n /\ Len(bs) \in Nat
  BY DEF AtrOK, AtrState
<1>2. \A k \in 1 .. n : Ended(bs, turns[k], StartOf(bs, turns, k))
  BY DEF AtrOK
<1> HIDE DEF turns, n
<1>3. \A k \in 1 .. n : turns[k] \in Candidate
  BY <1>1, ElementOfSeq
<1>4. ASSUME NEW k \in 1 .. n
      PROVE  /\ StartOf(bs, turns, k) \in Int /\ StartOf(bs, turns, k) >= 1
             /\ turns[k].last \in 1 .. Len(bs)
             /\ turns[k].origin \in 1 .. turns[k].last
             /\ StartOf(bs, turns, k) <= turns[k].origin
             /\ turns[k].origin < turns[k].last
  <2> DEFINE from == StartOf(bs, turns, k)
             turn == turns[k]
  <2>1. /\ turn.last \in from + 1 .. Len(bs)
        /\ from \in AtrPeriod + 1 .. turn.last - 1
        /\ turn.origin \in from .. turn.last - 1
    BY <1>2 DEF Ended, Leg, IsExtreme
  <2>2. turn.last \in Nat /\ turn.origin \in Nat
    BY <1>3 DEF Candidate
  <2> HIDE DEF from, turn
  <2>3. /\ from \in Int /\ from >= 1 /\ turn.last \in 1 .. Len(bs)
        /\ turn.origin \in 1 .. turn.last /\ from <= turn.origin /\ turn.origin < turn.last
    BY <1>1, <2>1, <2>2
  <2> QED
    BY <2>3 DEF from, turn
<1>5. \A k \in 1 .. n : \A p \in Nat : k = p + 1 /\ p >= 1 => turns[p].last <= turns[k].origin
  <2> TAKE k \in 1 .. n
  <2> TAKE p \in Nat
  <2> HAVE k = p + 1 /\ p >= 1
  <2>1. k # 1 /\ k - 1 = p
    OBVIOUS
  <2>2. StartOf(bs, turns, k) = turns[p].last
    BY <2>1 DEF StartOf
  <2> QED
    BY <1>4, <2>2
<1> DEFINE T == {k \in Nat : k <= n => \A j \in 1 .. k - 1 : turns[j].origin < turns[k].origin}
<1>6. 0 \in T
  OBVIOUS
<1>7. ASSUME NEW p \in Nat, NEW k \in Nat, k = p + 1, p \in T PROVE k \in T
  <2> SUFFICES ASSUME k <= n, NEW j \in 1 .. k - 1 PROVE turns[j].origin < turns[k].origin
    OBVIOUS
  <2>1. p >= 1 /\ k \in 1 .. n /\ p \in 1 .. n /\ (j = p \/ j \in 1 .. p - 1) /\ j \in 1 .. n
    BY <1>1, <1>7
  <2>2. turns[p].last <= turns[k].origin
    BY <1>5, <1>7, <2>1
  <2>3. turns[p].origin < turns[p].last
    BY <1>4, <2>1
  <2>4. j = p \/ turns[j].origin < turns[p].origin
    BY <1>7, <2>1
  <2>5. turns[j].origin \in Nat /\ turns[p].origin \in Nat /\ turns[k].origin \in Nat /\ turns[p].last \in Nat
    BY <1>3, <2>1 DEF Candidate
  <2> QED
    BY <2>2, <2>3, <2>4, <2>5
<1>8. Nat \subseteq T
  <2>1. \A p \in Nat : p \in T => p + 1 \in T
    <3> HIDE DEF T
    <3>1. \A p \in Nat : p + 1 \in Nat
      OBVIOUS
    <3> QED
      BY <1>7, <3>1
  <2> HIDE DEF T
  <2> QED
    BY <1>6, <2>1, NatSetInduction
<1>9. \A j, k \in 1 .. n : j < k => turns[j].origin < turns[k].origin
  <2> TAKE j, k \in 1 .. n
  <2> HAVE j < k
  <2>1. k \in Nat /\ k <= n /\ j \in 1 .. k - 1 /\ k \in T
    BY <1>1, <1>8
  <2> QED
    BY <2>1
<1> QED
  BY <1>1, <1>3, <1>4, <1>9 DEF turns, n

(* Turning points can be seeds.                                            *)
LEMMA TurnsAreSeeds ==
    ASSUME NEW bs \in Seq(Bar)
    PROVE  SeedsOK(TurnsOf(bs), bs)
<1> DEFINE turns == AtrAfter(bs).turns
<1>1. Len(bs) \in 0 .. Len(bs) /\ Part(bs, Len(bs)) = bs /\ Len(bs) \in Nat
  BY WholeCut
<1>2. AtrOK(AtrAfter(bs), bs)
  BY <1>1, TurnsGoOn
<1>3. /\ Len(turns) \in Nat /\ DOMAIN turns = 1 .. Len(turns)
      /\ \A k \in 1 .. Len(turns) :
            /\ turns[k] \in Candidate /\ turns[k].last \in 1 .. Len(bs)
            /\ turns[k].origin \in 1 .. turns[k].last
      /\ \A j, k \in 1 .. Len(turns) : j < k => turns[j].origin < turns[k].origin
  BY <1>2, TurnsAscend
<1>4. \A x : x \in TurnsOf(bs) <=> \E k \in 1 .. Len(turns) : x = turns[k]
  BY <1>3 DEF TurnsOf, ToSet
<1> HIDE DEF turns
<1>5. ASSUME NEW x \in TurnsOf(bs)
      PROVE  /\ x \in Candidate /\ x # NoSeed /\ x.side \in Side
             /\ x.last \in 1 .. Len(bs) /\ x.origin \in 1 .. x.last
             /\ x.confirm \in Nat /\ x.confirm <= PrefixTime(bs, x.last)
  <2>1. x \in Candidate /\ x.last \in 1 .. Len(bs) /\ x.origin \in 1 .. x.last
    BY <1>3, <1>4
  <2>2. x # NoSeed
    <3>1. NoSeed.origin = 0
      BY DEF NoSeed
    <3> QED
      BY <2>1, <3>1
  <2>3. x.side \in Side /\ x.confirm \in Nat
    BY <2>1 DEF Candidate
  <2>4. x.confirm = PrefixTime(bs, x.last)
    <3> DEFINE l == x.last
               m == l - 1
    <3>1. l \in 0 .. Len(bs) /\ m \in 0 .. Len(bs) - 1 /\ m \in 0 .. Len(bs) /\ m + 1 = l /\ ~(l <= m) /\ l <= l
      BY <1>1, <2>1
    <3>2. x.last = l
      OBVIOUS
    <3> HIDE DEF l, m
    <3>3. x \in TurnsOf(Part(bs, l))
      BY <3>1, <3>2, TurnsInParts
    <3>4. x \notin TurnsOf(Part(bs, m))
      BY <3>1, <3>2, TurnsInParts
    <3>5. \A y \in TurnsOf(Part(bs, m + 1)) \ TurnsOf(Part(bs, m)) : y.confirm = PrefixTime(bs, m + 1)
      BY <3>1, TurnsGoOn
    <3> QED
      BY <3>1, <3>2, <3>3, <3>4, <3>5
  <2>5. PrefixTime(bs, x.last) \in Nat
    BY <2>1, PrefixTimeFacts
  <2> QED
    BY <2>1, <2>2, <2>3, <2>4, <2>5
<1>6. ASSUME NEW a \in TurnsOf(bs), NEW b \in TurnsOf(bs), DigestOf(a) = DigestOf(b) PROVE a = b
  <2>1. PICK j \in 1 .. Len(turns) : a = turns[j]
    BY <1>4
  <2>2. PICK k \in 1 .. Len(turns) : b = turns[k]
    BY <1>4
  <2>3. a.origin \in Nat /\ b.origin \in Nat
    BY <1>5 DEF Candidate
  <2>4. a.origin = b.origin
    BY <1>6, <2>3 DEF DigestOf
  <2>5. ~(a.origin < b.origin) /\ ~(b.origin < a.origin)
    BY <2>3, <2>4
  <2>6. ~(j < k) /\ ~(k < j)
    BY <1>3, <2>1, <2>2, <2>5
  <2>7. j = k
    BY <1>3, <2>6
  <2> QED
    BY <2>1, <2>2, <2>7
<1> QED
  BY <1>5, <1>6 DEF SeedsOK

(* Those of a longer part are those of a shorter one and some that end     *)
(* after it.                                                               *)
LEMMA TurnSeedsGrow ==
    ASSUME NEW bs \in Seq(Bar), NEW i \in 0 .. Len(bs), NEW j \in i .. Len(bs)
    PROVE  SeedsGrow(TurnsOf(Part(bs, i)), Part(bs, i), TurnsOf(Part(bs, j)), Part(bs, j))
<1> DEFINE a == Part(bs, i)
           b == Part(bs, j)
<1>1. /\ i \in Nat /\ j \in Nat /\ i <= j /\ j \in 0 .. Len(bs) /\ i \in 0 .. j /\ i <= Len(bs)
      /\ Len(bs) \in Nat
  OBVIOUS
<1>2. /\ a \in Seq(Bar) /\ Len(a) = i /\ \A k \in 1 .. i : a[k] = bs[k]
      /\ b \in Seq(Bar) /\ Len(b) = j /\ \A k \in 1 .. j : b[k] = bs[k]
      /\ Grows(b, bs)
  BY <1>1, CutFacts
<1>3. Part(b, i) = a
  BY <1>1, <1>2, PartsAgree
<1> HIDE DEF a, b
<1>4. Grows(a, b)
  <2>1. \A k \in 1 .. i : k \in 1 .. j
    BY <1>1
  <2> QED
    BY <1>1, <1>2, <2>1 DEF Grows
<1>5. SeedsOK(TurnsOf(b), b)
  BY <1>2, TurnsAreSeeds
<1>6. \A x : x \in TurnsOf(a) <=> x \in TurnsOf(b) /\ x.last <= i
  <2>1. i \in 0 .. Len(b)
    BY <1>1, <1>2
  <2> QED
    BY <1>2, <1>3, <2>1, TurnsInParts
<1>7. SeedsGrow(TurnsOf(a), a, TurnsOf(b), b)
  BY <1>2, <1>4, <1>5, <1>6 DEF SeedsGrow
<1> QED
  BY <1>7 DEF a, b

-----------------------------------------------------------------------------
(* Structure breaks *)

BreaksIn(bs, family, o, n) == ToSet(BreaksAfter(Part(bs, n), family[n], o))

LEMMA BreaksGoOn ==
    ASSUME NEW bs \in Seq(Bar), NEW family, FamilyOK("BREAK", family, bs), NEW o \in {1, -1}
    PROVE  /\ \A x : x \notin BreaksIn(bs, family, o, 0)
           /\ \A n \in 0 .. Len(bs) :
                 ScanOK(Ran("BREAK", Part(bs, n), family[n], o), Part(bs, n), family[n])
           /\ \A n \in 0 .. Len(bs) - 1 :
                 /\ BreaksIn(bs, family, o, n) \subseteq BreaksIn(bs, family, o, n + 1)
                 /\ \A x \in BreaksIn(bs, family, o, n + 1) \ BreaksIn(bs, family, o, n) :
                       x.confirm = PrefixTime(bs, n + 1)
<1> DEFINE at(n) == Ran("BREAK", Part(bs, n), family[n], o)
           found(n) == BreaksIn(bs, family, o, n)
<1>1. Len(bs) \in Nat /\ "BREAK" \in Scans /\ FamilyOK("BREAK", family, bs) /\ o \in {1, -1}
  BY DEF Scans
<1>2. \A n : found(n) = ToSet(at(n).breaks)
  BY ScansRun DEF BreaksIn
<1>3. /\ at(0) = Started("BREAK")
      /\ \A n \in 0 .. Len(bs) : StateOK("BREAK", at(n), Part(bs, n), family[n], o)
      /\ \A n \in 0 .. Len(bs) - 1 :
            at(n + 1) = ReadOn("BREAK", at(n), Part(bs, n + 1), family[n + 1], n + 1, o)
  <2>1. GoesOn("BREAK", bs, family, o)
    BY <1>1, ScansGoOn
  <2> QED
    BY <2>1, Zenon DEF GoesOn
<1> HIDE DEF at, found
<1>4. /\ at(0) = NewBreak
      /\ \A n \in 0 .. Len(bs) :
            /\ ScanOK(at(n), Part(bs, n), family[n])
            /\ \A side \in Side : Unbroken(at(n), Part(bs, n), o, side, Len(Part(bs, n)))
      /\ \A n \in 0 .. Len(bs) - 1 :
            at(n + 1) = BreakStep(at(n), family[n + 1], Part(bs, n + 1), n + 1, o)
  BY <1>3 DEF Started, StateOK, ReadOn
<1>5. \A x : x \notin found(0)
  <2>1. at(0).breaks = <<>>
    BY <1>4 DEF NewBreak
  <2> QED
    BY <1>2, <2>1 DEF ToSet
<1>6. ASSUME NEW n \in 0 .. Len(bs) - 1
      PROVE  /\ found(n) \subseteq found(n + 1)
             /\ \A x \in found(n + 1) \ found(n) : x.confirm = PrefixTime(bs, n + 1)
  <2> DEFINE k == n + 1
             a == Part(bs, n)
             b == Part(bs, k)
             s == at(n)
             next == at(k)
  <2>1. /\ n \in 0 .. Len(bs) /\ k \in 0 .. Len(bs) /\ k \in 1 .. Len(bs) /\ n <= k /\ k = n + 1
        /\ k \in 1 .. k
    BY <1>1
  <2> HIDE DEF k
  <2>2. /\ a \in Seq(Bar) /\ Len(a) = n /\ b \in Seq(Bar) /\ Len(b) = k /\ Grows(b, bs)
    BY <2>1, CutFacts
  <2>3. /\ next = BreakStep(s, family[k], b, k, o)
        /\ ScanOK(s, a, family[n])
        /\ \A side \in Side : Unbroken(s, a, o, side, Len(a))
    BY <1>4, <2>1
  <2>4. SeedsGrow(family[n], a, family[k], b)
    BY <2>1 DEF FamilyOK
  <2>5. PrefixTime(bs, k) = PrefixTime(b, k)
    BY <2>1, <2>2, PrefixTimeIsStable
  <2> HIDE DEF s, next, a, b
  <2>6. Len(b) = Len(a) + 1
    BY <2>1, <2>2
  <2>7. Adds(s.breaks, next.breaks, b, Len(b))
    BY <2>2, <2>3, <2>4, <2>6, BreakStepAdds
  <2>8. found(n) = ToSet(s.breaks) /\ found(k) = ToSet(next.breaks)
    BY <1>2 DEF s, next
  <2>9. found(n) \subseteq found(k) /\ \A x \in found(k) \ found(n) : x.confirm = PrefixTime(bs, k)
    BY <2>2, <2>5, <2>7, <2>8 DEF Adds
  <2> QED
    BY <2>9 DEF k
<1> QED
  BY <1>4, <1>5, <1>6 DEF at, found

LEMMA BreaksInParts ==
    ASSUME NEW bs \in Seq(Bar), NEW family, FamilyOK("BREAK", family, bs), NEW o \in {1, -1},
           NEW m \in 0 .. Len(bs), NEW time, SeesBars(bs, m, time)
    PROVE  \A x : x \in BreaksIn(bs, family, o, m) <=>
                     x \in BreaksIn(bs, family, o, Len(bs)) /\ x.confirm <= time
<1> DEFINE N == Len(bs)
           found == [n \in 0 .. N |-> BreaksIn(bs, family, o, n)]
<1>1. /\ \A n \in 0 .. N - 1 : n \in 0 .. N /\ n + 1 \in 0 .. N
      /\ 0 \in 0 .. N /\ N \in 0 .. N /\ m \in 0 .. N
  OBVIOUS
<1>2. \A n \in 0 .. N : found[n] = BreaksIn(bs, family, o, n)
  OBVIOUS
<1> HIDE DEF found
<1>3. BuildsOn(found, bs)
  <2>1. \A x : x \notin found[0]
    BY <1>1, <1>2, BreaksGoOn
  <2>2. \A n \in 0 .. N - 1 :
           /\ found[n] \subseteq found[n + 1]
           /\ \A x \in found[n + 1] \ found[n] : x.confirm = PrefixTime(bs, n + 1)
    BY <1>1, <1>2, BreaksGoOn
  <2> QED
    BY <2>1, <2>2 DEF BuildsOn
<1> QED
  BY <1>1, <1>2, <1>3, ConfirmedInParts DEF ConfirmedBy

(* The image of a finite set. *)
LEMMA FiniteImage ==
    ASSUME NEW S, IsFiniteSet(S), NEW f
    PROVE  IsFiniteSet({f[x] : x \in S})
<1> DEFINE T == {f[x] : x \in S}
           g == [x \in S |-> f[x]]
<1>1. g \in Surjection(S, T)
  BY DEF Surjection
<1> HIDE DEF g, T
<1>2. IsFiniteSet(T)
  BY <1>1, FS_Surjection
<1> QED
  BY <1>2 DEF T

(* Each break is known by the seed it is of.                               *)
LEMMA BreaksDiffer ==
    ASSUME NEW bs \in Seq(Bar), NEW family, FamilyOK("BREAK", family, bs), NEW o \in {1, -1}
    PROVE  /\ IsFiniteSet(BreaksIn(bs, family, o, Len(bs)))
           /\ \A x \in BreaksIn(bs, family, o, Len(bs)) :
                 x.confirm \in Nat /\ DigestOf(x.pending) \in Int
           /\ \A x, y \in BreaksIn(bs, family, o, Len(bs)) :
                 DigestOf(x.pending) = DigestOf(y.pending) => x = y
<1> DEFINE N == Len(bs)
           given == family[N]
           s == Ran("BREAK", Part(bs, N), given, o)
           B == s.breaks
<1>1. N \in Nat /\ N \in 0 .. N /\ Part(bs, N) = bs
  BY WholeCut
<1>2. ScanOK(s, bs, given)
  BY <1>1, BreaksGoOn
<1>3. SeedsOK(given, bs)
  <2>1. SeedsGrow(family[N], Part(bs, N), family[N], Part(bs, N))
    BY <1>1 DEF FamilyOK
  <2> QED
    BY <1>1, <2>1, GrownFacts
<1>4. BreaksIn(bs, family, o, N) = ToSet(B)
  BY ScansRun DEF BreaksIn
<1> HIDE DEF s, given
<1>5. B \in Seq(Break) /\ DOMAIN B = 1 .. Len(B) /\ Len(B) \in Nat
  BY <1>2 DEF ScanOK, BreakState
<1>6. \A x : x \in ToSet(B) <=> \E k \in 1 .. Len(B) : x = B[k]
  BY <1>5 DEF ToSet
<1>7. \A k \in 1 .. Len(B) : BreakOK(B[k], bs, given)
  BY <1>2 DEF ScanOK
<1>8. \A j, k \in 1 .. Len(B) :
         j < k /\ B[j].pending.side = B[k].pending.side => B[k].pending.last >= B[j].bar
  BY <1>2 DEF ScanOK, FreshAfter
<1> HIDE DEF B
<1>9. ASSUME NEW k \in 1 .. Len(B)
      PROVE  /\ B[k].pending \in given /\ B[k].bar \in Nat /\ B[k].pending.last < B[k].bar
             /\ B[k].pending.last \in Nat /\ B[k].pending \in Candidate /\ B[k].confirm \in Nat
  <2>1. /\ B[k].pending \in given /\ B[k].bar \in 1 .. N /\ B[k].pending.last < B[k].bar
        /\ B[k].confirm = PrefixTime(bs, B[k].bar)
    BY <1>7 DEF BreakOK
  <2>2. B[k].pending \in Candidate
    BY <1>3, <2>1, SeedFacts
  <2>3. B[k].confirm \in Nat
    BY <2>1, PrefixTimeFacts
  <2> QED
    BY <2>1, <2>2, <2>3 DEF Candidate
<1>10. IsFiniteSet(ToSet(B))
  <2>1. IsFiniteSet(1 .. Len(B))
    BY <1>5, FS_Interval
  <2>2. IsFiniteSet({B[k] : k \in 1 .. Len(B)})
    BY <2>1, FiniteImage
  <2> QED
    BY <1>5, <2>2 DEF ToSet
<1>11. ASSUME NEW x \in ToSet(B) PROVE x.confirm \in Nat /\ DigestOf(x.pending) \in Int
  <2>1. PICK k \in 1 .. Len(B) : x = B[k]
    BY <1>6
  <2>2. x.confirm \in Nat /\ x.pending \in Candidate
    BY <1>9, <2>1
  <2>3. x.pending.origin \in Nat
    BY <2>2 DEF Candidate
  <2> QED
    BY <2>2, <2>3 DEF DigestOf
<1>12. ASSUME NEW x \in ToSet(B), NEW y \in ToSet(B), DigestOf(x.pending) = DigestOf(y.pending)
       PROVE  x = y
  <2>1. PICK j \in 1 .. Len(B) : x = B[j]
    BY <1>6
  <2>2. PICK k \in 1 .. Len(B) : y = B[k]
    BY <1>6
  <2>3. B[j].pending = B[k].pending
    BY <1>3, <1>9, <1>12, <2>1, <2>2 DEF SeedsOK
  <2>4. ~(j < k)
    BY <1>8, <1>9, <2>3
  <2>5. ~(k < j)
    BY <1>8, <1>9, <2>3
  <2>6. j = k
    BY <1>5, <2>4, <2>5
  <2> QED
    BY <2>1, <2>2, <2>6
<1> QED
  BY <1>4, <1>10, <1>11, <1>12

-----------------------------------------------------------------------------
(* Reactions *)

ZoneIsRead(bs, sd) ==
    LET found(n) == ReactionAfter(Part(bs, n), sd).found
    IN  /\ found(0) = <<>>
        /\ \A n \in 0 .. Len(bs) :
              /\ found(n) \in Seq(Reaction)
              /\ \A k \in 1 .. Len(found(n)) : sd.confirm <= found(n)[k].confirm
        /\ \A n \in 0 .. Len(bs) - 1 :
              FoundNext(found(n), found(n + 1), PrefixTime(bs, n + 1), sd)

LEMMA ZonesAreRead ==
    ASSUME NEW bs \in Seq(Bar), NEW sd, sd.confirm \in Nat
    PROVE  ZoneIsRead(bs, sd)
<1> DEFINE family == [n \in 0 .. Len(bs) |-> sd]
           at(n) == ReactionAfter(Part(bs, n), sd)
           ran(n) == Ran("REACTION", Part(bs, n), family[n], 1)
<1>1. Len(bs) \in Nat /\ "REACTION" \in Scans /\ 1 \in {1, -1} /\ 0 \in 0 .. Len(bs)
  BY DEF Scans
<1>2. \A n \in 0 .. Len(bs) : family[n] = sd
  OBVIOUS
<1> HIDE DEF family
<1>3. FamilyOK("REACTION", family, bs)
  BY <1>2 DEF FamilyOK
<1>4. \A n \in 0 .. Len(bs) : ran(n) = at(n)
  BY <1>2, ScansRun
<1>5. /\ ran(0) = Started("REACTION")
      /\ \A n \in 0 .. Len(bs) : StateOK("REACTION", ran(n), Part(bs, n), family[n], 1)
      /\ \A n \in 0 .. Len(bs) - 1 :
            ran(n + 1) = ReadOn("REACTION", ran(n), Part(bs, n + 1), family[n + 1], n + 1, 1)
  <2>1. GoesOn("REACTION", bs, family, 1)
    BY <1>1, <1>3, ScansGoOn
  <2> QED
    BY <2>1, Zenon DEF GoesOn
<1>6. \A n \in 0 .. Len(bs) - 1 : n \in 0 .. Len(bs) /\ n + 1 \in 0 .. Len(bs) /\ n + 1 \in 1 .. Len(bs)
  BY <1>1
<1> HIDE DEF ran, at
<1>7. /\ at(0) = NewReaction
      /\ \A n \in 0 .. Len(bs) : ReactionOK(at(n), Part(bs, n), sd)
      /\ \A n \in 0 .. Len(bs) - 1 : at(n + 1) = ReactionStep(at(n), Part(bs, n + 1), sd, n + 1)
  BY <1>1, <1>2, <1>4, <1>5, <1>6 DEF Started, StateOK, ReadOn
<1>8. at(0).found = <<>>
  BY <1>7 DEF NewReaction
<1>9. ASSUME NEW n \in 0 .. Len(bs)
      PROVE  /\ at(n).found \in Seq(Reaction)
             /\ at(n) \in [touch : Nat, lastSuccess : Nat, found : Seq(Reaction)]
             /\ \A k \in 1 .. Len(at(n).found) : sd.confirm <= at(n).found[k].confirm
  <2> DEFINE r == at(n)
  <2>1. ReactionOK(r, Part(bs, n), sd)
    BY <1>7
  <2> HIDE DEF r
  <2>2. r \in [touch : Nat, lastSuccess : Nat, found : Seq(Reaction)] /\ r.found \in Seq(Reaction)
    BY <2>1 DEF ReactionOK, ReactionTyped
  <2>3. \A k \in 1 .. Len(r.found) : FoundOK(r.found[k], Part(bs, n), sd)
    BY <2>1 DEF ReactionOK
  <2>4. \A k \in 1 .. Len(r.found) : r.found[k].confirm >= sd.confirm
    BY <2>3 DEF FoundOK
  <2>5. \A k \in 1 .. Len(r.found) : r.found[k].confirm \in Nat
    <3>1. \A k \in 1 .. Len(r.found) : r.found[k] \in Reaction
      BY <2>2, ElementOfSeq
    <3> QED
      BY <3>1 DEF Reaction
  <2> QED
    BY <2>2, <2>4, <2>5 DEF r
<1>10. ASSUME NEW n \in 0 .. Len(bs) - 1
       PROVE  FoundNext(at(n).found, at(n + 1).found, PrefixTime(bs, n + 1), sd)
  <2> DEFINE k == n + 1
             b == Part(bs, k)
             r == at(n)
             s == at(k)
  <2>1. n \in 0 .. Len(bs) /\ k \in 0 .. Len(bs) /\ k \in 1 .. k
    BY <1>1
  <2>2. s = ReactionStep(r, b, sd, k)
    BY <1>7
  <2>3. r \in [touch : Nat, lastSuccess : Nat, found : Seq(Reaction)]
    BY <1>9, <2>1
  <2> HIDE DEF k
  <2>4. b \in Seq(Bar) /\ Len(b) = k /\ Grows(b, bs)
    BY <2>1, CutFacts
  <2>5. PrefixTime(bs, k) = PrefixTime(b, k)
    BY <2>1, <2>4, PrefixTimeIsStable
  <2> HIDE DEF b, r, s
  <2>6. FoundNext(r.found, s.found, PrefixTime(b, k), sd)
    BY <2>1, <2>2, <2>3, <2>4, ReactionStepAdds
  <2>7. FoundNext(r.found, s.found, PrefixTime(bs, k), sd)
    BY <2>5, <2>6
  <2> QED
    BY <2>7 DEF k, r, s
<1>11. ZoneIsRead(bs, sd)
  BY <1>8, <1>9, <1>10, Zenon DEF ZoneIsRead, at
<1> QED
  BY <1>11

LevelsIn(bs, seeds, n) == ReactionLevels(Part(bs, n), seeds)

LEMMA LevelsGoOn ==
    ASSUME NEW bs \in Seq(Bar), NEW seeds, \A sd \in seeds : sd.confirm \in Nat
    PROVE  /\ \A x : x \notin LevelsIn(bs, seeds, 0)
           /\ \A n \in 0 .. Len(bs) : \A x \in LevelsIn(bs, seeds, n) :
                 x.seed \in seeds /\ x.confirm \in Nat /\ x.seed.confirm <= x.confirm
           /\ \A n \in 0 .. Len(bs) - 1 :
                 /\ LevelsIn(bs, seeds, n) \subseteq LevelsIn(bs, seeds, n + 1)
                 /\ \A x \in LevelsIn(bs, seeds, n + 1) \ LevelsIn(bs, seeds, n) :
                       x.confirm = PrefixTime(bs, n + 1)
<1> DEFINE found(n, sd) == ReactionAfter(Part(bs, n), sd).found
<1>1. Len(bs) \in Nat /\ MinReactions \in Nat /\ MinReactions # 0 /\ 0 \in 0 .. Len(bs)
  OBVIOUS
<1>2. ASSUME NEW sd \in seeds
      PROVE  /\ found(0, sd) = <<>>
             /\ \A n \in 0 .. Len(bs) :
                   /\ found(n, sd) \in Seq(Reaction)
                   /\ \A k \in 1 .. Len(found(n, sd)) : sd.confirm <= found(n, sd)[k].confirm
             /\ \A n \in 0 .. Len(bs) - 1 :
                   FoundNext(found(n, sd), found(n + 1, sd), PrefixTime(bs, n + 1), sd)
  <2>1. ZoneIsRead(bs, sd)
    BY ZonesAreRead
  <2> QED
    BY <2>1, Zenon DEF ZoneIsRead
<1>3. \A n : \A x : x \in LevelsIn(bs, seeds, n) <=>
                      \E sd \in seeds : /\ Len(found(n, sd)) = MinReactions
                                        /\ x = ReactionLevel(sd, found(n, sd))
  BY DEF LevelsIn, ReactionLevels
<1> HIDE DEF found
<1>4. \A x : x \notin LevelsIn(bs, seeds, 0)
  <2>1. \A sd \in seeds : Len(found(0, sd)) = 0
    BY <1>2
  <2> QED
    BY <1>1, <1>3, <2>1
<1>5. ASSUME NEW n \in 0 .. Len(bs), NEW x \in LevelsIn(bs, seeds, n)
      PROVE  x.seed \in seeds /\ x.confirm \in Nat /\ x.seed.confirm <= x.confirm
  <2>1. PICK sd \in seeds : /\ Len(found(n, sd)) = MinReactions
                            /\ x = ReactionLevel(sd, found(n, sd))
    BY <1>3
  <2> DEFINE f == found(n, sd)
  <2>2. /\ f \in Seq(Reaction) /\ \A k \in 1 .. Len(f) : sd.confirm <= f[k].confirm
        /\ Len(f) = MinReactions
    BY <1>2, <2>1
  <2>3. x.seed = sd /\ x.confirm = f[Len(f)].confirm
    BY <2>1 DEF ReactionLevel
  <2> HIDE DEF f
  <2>4. Len(f) \in 1 .. Len(f) /\ f[Len(f)] \in Reaction
    BY <1>1, <2>2, ElementOfSeq
  <2>5. f[Len(f)].confirm \in Nat
    BY <2>4 DEF Reaction
  <2> QED
    BY <2>2, <2>3, <2>4, <2>5
<1>6. ASSUME NEW n \in 0 .. Len(bs) - 1
      PROVE  /\ LevelsIn(bs, seeds, n) \subseteq LevelsIn(bs, seeds, n + 1)
             /\ \A x \in LevelsIn(bs, seeds, n + 1) \ LevelsIn(bs, seeds, n) :
                   x.confirm = PrefixTime(bs, n + 1)
  <2> DEFINE k == n + 1
  <2>1. n \in 0 .. Len(bs) /\ k \in 0 .. Len(bs)
    BY <1>1
  <2>2. \A sd \in seeds :
           /\ FoundNext(found(n, sd), found(k, sd), PrefixTime(bs, k), sd)
           /\ found(n, sd) \in Seq(Reaction) /\ found(k, sd) \in Seq(Reaction)
    BY <1>2, <2>1
  <2> HIDE DEF k
  <2>3. ASSUME NEW x \in LevelsIn(bs, seeds, n) PROVE x \in LevelsIn(bs, seeds, k)
    <3>1. PICK sd \in seeds : /\ Len(found(n, sd)) = MinReactions
                              /\ x = ReactionLevel(sd, found(n, sd))
      BY <1>3
    <3>2. found(k, sd) = found(n, sd)
      BY <2>2, <3>1 DEF FoundNext
    <3> QED
      BY <1>3, <3>1, <3>2
  <2>4. ASSUME NEW x \in LevelsIn(bs, seeds, k), x \notin LevelsIn(bs, seeds, n)
        PROVE  x.confirm = PrefixTime(bs, k)
    <3>1. PICK sd \in seeds : /\ Len(found(k, sd)) = MinReactions
                              /\ x = ReactionLevel(sd, found(k, sd))
      BY <1>3
    <3>2. found(k, sd) # found(n, sd)
      BY <1>3, <2>4, <3>1
    <3>3. PICK item : found(k, sd) = Append(found(n, sd), item) /\ item.confirm = PrefixTime(bs, k)
      BY <2>2, <3>2 DEF FoundNext
    <3> DEFINE f == found(n, sd)
               g == found(k, sd)
    <3>4. f \in Seq(Reaction) /\ g = Append(f, item) /\ x = ReactionLevel(sd, g)
      BY <2>2, <3>1, <3>3
    <3> HIDE DEF f, g
    <3>5. g[Len(g)] = item
      <4>1. Len(g) = Len(f) + 1
        BY <3>4
      <4> QED
        BY <3>4, <4>1
    <3>6. x.confirm = g[Len(g)].confirm
      BY <3>4 DEF ReactionLevel
    <3> QED
      BY <3>3, <3>5, <3>6
  <2>5. /\ LevelsIn(bs, seeds, n) \subseteq LevelsIn(bs, seeds, k)
        /\ \A x \in LevelsIn(bs, seeds, k) \ LevelsIn(bs, seeds, n) : x.confirm = PrefixTime(bs, k)
    BY <2>3, <2>4
  <2> QED
    BY <2>5 DEF k
<1> QED
  BY <1>4, <1>5, <1>6

LEMMA LevelsInParts ==
    ASSUME NEW bs \in Seq(Bar), NEW seeds, \A sd \in seeds : sd.confirm \in Nat,
           NEW m \in 0 .. Len(bs), NEW time, SeesBars(bs, m, time)
    PROVE  \A x : x \in LevelsIn(bs, seeds, m) <=>
                     x \in LevelsIn(bs, seeds, Len(bs)) /\ x.confirm <= time
<1> DEFINE N == Len(bs)
           found == [n \in 0 .. N |-> LevelsIn(bs, seeds, n)]
<1>1. /\ \A n \in 0 .. N - 1 : n \in 0 .. N /\ n + 1 \in 0 .. N
      /\ 0 \in 0 .. N /\ N \in 0 .. N /\ m \in 0 .. N
  OBVIOUS
<1>2. \A n \in 0 .. N : found[n] = LevelsIn(bs, seeds, n)
  OBVIOUS
<1> HIDE DEF found
<1>3. BuildsOn(found, bs)
  <2>1. \A x : x \notin found[0]
    BY <1>1, <1>2, LevelsGoOn
  <2>2. \A n \in 0 .. N - 1 :
           /\ found[n] \subseteq found[n + 1]
           /\ \A x \in found[n + 1] \ found[n] : x.confirm = PrefixTime(bs, n + 1)
    BY <1>1, <1>2, LevelsGoOn
  <2> QED
    BY <2>1, <2>2 DEF BuildsOn
<1> QED
  BY <1>1, <1>2, <1>3, ConfirmedInParts DEF ConfirmedBy

(* The seeds confirmed later have no level yet, so that it does not matter *)
(* whether a reaction generator is given them.                             *)
LEMMA LateSeedsAreIdle ==
    ASSUME NEW bs \in Seq(Bar), NEW seeds, \A sd \in seeds : sd.confirm \in Nat,
           NEW m \in 0 .. Len(bs), NEW time \in Nat, SeesBars(bs, m, time),
           NEW known, known = {sd \in seeds : sd.confirm <= time}
    PROVE  \A x : x \in LevelsIn(bs, known, m) <=> x \in LevelsIn(bs, seeds, m)
<1>1. \A S : \A x : x \in LevelsIn(bs, S, m) <=>
                \E sd \in S : /\ Len(ReactionAfter(Part(bs, m), sd).found) = MinReactions
                              /\ x = ReactionLevel(sd, ReactionAfter(Part(bs, m), sd).found)
  BY DEF LevelsIn, ReactionLevels
<1>2. ASSUME NEW x \in LevelsIn(bs, seeds, m) PROVE x \in LevelsIn(bs, known, m)
  <2>1. PICK sd \in seeds : /\ Len(ReactionAfter(Part(bs, m), sd).found) = MinReactions
                            /\ x = ReactionLevel(sd, ReactionAfter(Part(bs, m), sd).found)
    BY <1>1
  <2>2. x.seed = sd
    BY <2>1 DEF ReactionLevel
  <2>3. x.confirm <= time
    BY LevelsInParts
  <2>4. x.confirm \in Nat /\ sd.confirm <= x.confirm /\ sd.confirm \in Nat
    BY <2>2, LevelsGoOn
  <2>5. sd \in known
    BY <2>3, <2>4
  <2> QED
    BY <1>1, <2>1, <2>5
<1> QED
  BY <1>1, <1>2

(* Each level is known by its seed. *)
LEMMA LevelsDiffer ==
    ASSUME NEW bs \in Seq(Bar), NEW seeds, IsFiniteSet(seeds), NEW n
    PROVE  /\ IsFiniteSet(LevelsIn(bs, seeds, n))
           /\ \A x, y \in LevelsIn(bs, seeds, n) : x.seed = y.seed => x = y
<1> DEFINE found(sd) == ReactionAfter(Part(bs, n), sd).found
           done == {sd \in seeds : Len(found(sd)) = MinReactions}
           level == [sd \in done |-> ReactionLevel(sd, found(sd))]
<1>1. IsFiniteSet(done)
  <2>1. done \in SUBSET seeds
    OBVIOUS
  <2> HIDE DEF done
  <2> QED
    BY <2>1, FS_Subset
<1>2. LevelsIn(bs, seeds, n) = {level[sd] : sd \in done}
  BY DEF LevelsIn, ReactionLevels
<1>3. \A sd \in done : level[sd].seed = sd
  BY DEF ReactionLevel
<1> HIDE DEF done, level
<1> QED
  BY <1>1, <1>2, <1>3, FiniteImage

-----------------------------------------------------------------------------
(* What is found at fixed positions *)

(* The pivots of some of the bars are those of all whose windows they fill.*)
LEMMA PivotsAmong ==
    ASSUME NEW bs \in Seq(Bar), NEW visible \in SUBSET DOMAIN bs
    PROVE  \A x : x \in Pivots(bs, visible) <=>
                     x \in PivotsOf(bs) /\ InWindow(x.origin) \subseteq visible
<1>1. DOMAIN bs = 1 .. Len(bs)
  OBVIOUS
<1>2. \A x : x \in Pivots(bs, visible) <=>
               \E i \in 1 .. Len(bs), side \in Side :
                   InWindow(i) \subseteq visible /\ IsTurn(bs, i, side) /\ x = Pivot(bs, i, side)
  BY <1>1 DEF Pivots, IsTurn, Side
<1>3. \A x : x \in PivotsOf(bs) <=>
               \E i \in 1 .. Len(bs), side \in Side :
                   InWindow(i) \subseteq 1 .. Len(bs) /\ IsTurn(bs, i, side) /\ x = Pivot(bs, i, side)
  BY PivotsAre
<1>4. \A i, side : Pivot(bs, i, side).origin = i
  BY DEF Pivot
<1> QED
  BY <1>1, <1>2, <1>3, <1>4

(* A pivot is confirmed when all bars of its window are available.         *)
LEMMA PivotTime ==
    ASSUME NEW bs \in Seq(Bar), NEW p \in PivotsOf(bs), NEW time \in Nat
    PROVE  p.confirm <= time <=> \A j \in InWindow(p.origin) : bs[j].available <= time
<1> DEFINE window == InWindow(p.origin)
           times == {bs[j].available : j \in window}
<1>1. /\ p.origin \in 1 .. Len(bs) /\ window \subseteq 1 .. Len(bs)
      /\ p = Pivot(bs, p.origin, p.side) /\ Len(bs) \in Nat
      /\ p.last \in 1 .. Len(bs) /\ p.last = p.origin + RightBars
  BY PivotFacts
<1>2. p.confirm = Max(times)
  BY <1>1 DEF Pivot
<1>3. p.origin \in window
  BY <1>1 DEF InWindow
<1>4. \A j \in window : bs[j].available \in Nat /\ bs[j].available <= PrefixTime(bs, p.last)
  <2> TAKE j \in window
  <2>1. j \in 1 .. Len(bs) /\ j <= p.last
    BY <1>1 DEF InWindow
  <2>2. j \in 1 .. p.last
    BY <1>1, <2>1
  <2> QED
    BY <1>1, <2>1, <2>2, BarFacts, PrefixTimeFacts
<1>5. PrefixTime(bs, p.last) \in Nat
  BY <1>1, PrefixTimeFacts
<1>6. times \in SUBSET Nat /\ times # {} /\ \A t \in times : t <= PrefixTime(bs, p.last)
  BY <1>3, <1>4
<1>7. Max(times) \in times /\ Max(times) \in Nat /\ \A t \in times : t <= Max(times)
  <2> HIDE DEF times
  <2> QED
    BY <1>5, <1>6, LargestExists
<1> HIDE DEF window
<1>8. ASSUME p.confirm <= time, NEW j \in window PROVE bs[j].available <= time
  <2>1. bs[j].available \in Nat /\ bs[j].available <= Max(times)
    BY <1>4, <1>7
  <2> HIDE DEF times
  <2> QED
    BY <1>2, <1>7, <1>8, <2>1
<1>9. ASSUME \A j \in window : bs[j].available <= time PROVE p.confirm <= time
  <2>1. PICK j \in window : Max(times) = bs[j].available
    BY <1>7
  <2> QED
    BY <1>2, <1>9, <2>1
<1> QED
  BY <1>8, <1>9 DEF window

CompleteBars(bs) == {i \in DOMAIN bs : bs[i].complete}
VisibleBarsAt(bs, time) == {i \in DOMAIN bs : VisibleAt(bs[i], time)}

LEMMA PivotsSoFar ==
    ASSUME NEW bs \in Seq(Bar), NEW time \in Nat
    PROVE  \A x : x \in Pivots(bs, VisibleBarsAt(bs, time)) <=>
                     x \in Pivots(bs, CompleteBars(bs)) /\ x.confirm <= time
<1>1. VisibleBarsAt(bs, time) \in SUBSET DOMAIN bs /\ CompleteBars(bs) \in SUBSET DOMAIN bs
  BY DEF VisibleBarsAt, CompleteBars
<1>2. /\ \A x : x \in Pivots(bs, VisibleBarsAt(bs, time)) <=>
                   x \in PivotsOf(bs) /\ InWindow(x.origin) \subseteq VisibleBarsAt(bs, time)
      /\ \A x : x \in Pivots(bs, CompleteBars(bs)) <=>
                   x \in PivotsOf(bs) /\ InWindow(x.origin) \subseteq CompleteBars(bs)
  BY <1>1, PivotsAmong
<1>3. \A x \in PivotsOf(bs) :
         InWindow(x.origin) \subseteq VisibleBarsAt(bs, time) <=>
            InWindow(x.origin) \subseteq CompleteBars(bs) /\ x.confirm <= time
  <2> TAKE x \in PivotsOf(bs)
  <2>1. x.confirm <= time <=> \A j \in InWindow(x.origin) : bs[j].available <= time
    BY PivotTime
  <2> QED
    BY <2>1 DEF VisibleBarsAt, CompleteBars, VisibleAt
<1> QED
  BY <1>2, <1>3

LEMMA SidesAreFinite == IsFiniteSet(Side)
<1>1. IsFiniteSet({"UPPER"}) /\ IsFiniteSet({"LOWER"})
  BY FS_Singleton
<1>2. Side = {"UPPER"} \cup {"LOWER"}
  BY DEF Side
<1> QED
  BY <1>1, <1>2, FS_Union

LEMMA PivotsDiffer ==
    ASSUME NEW bs \in Seq(Bar), NEW S \in SUBSET PivotsOf(bs)
    PROVE  /\ IsFiniteSet(S)
           /\ \A x \in S : x.confirm \in Nat /\ DigestOf(x) \in Int
           /\ \A x, y \in S : DigestOf(x) = DigestOf(y) => x = y
<1> DEFINE places == (1 .. Len(bs)) \X Side
           at == [p \in places |-> Pivot(bs, p[1], p[2])]
<1>1. IsFiniteSet(places)
  <2>1. IsFiniteSet(1 .. Len(bs))
    BY FS_Interval
  <2>2. IsFiniteSet(Side)
    BY SidesAreFinite
  <2> QED
    BY <2>1, <2>2, FS_Product
<1>2. PivotsOf(bs) \subseteq {at[p] : p \in places}
  <2> SUFFICES ASSUME NEW x \in PivotsOf(bs) PROVE \E p \in places : x = at[p]
    OBVIOUS
  <2>1. PICK i \in 1 .. Len(bs), side \in Side : x = Pivot(bs, i, side)
    BY PivotsAre
  <2>2. <<i, side>> \in places /\ at[<<i, side>>] = Pivot(bs, i, side)
    OBVIOUS
  <2> QED
    BY <2>1, <2>2
<1>3. IsFiniteSet({at[p] : p \in places})
  <2> HIDE DEF places, at
  <2> QED
    BY <1>1, FiniteImage
<1>4. IsFiniteSet(S)
  <2> HIDE DEF places, at
  <2>1. S \in SUBSET {at[p] : p \in places}
    BY <1>2
  <2> QED
    BY <1>3, <2>1, FS_Subset
<1> HIDE DEF places, at
<1>5. SeedsOK(PivotsOf(bs), bs)
  BY PivotsAreSeeds
<1>6. \A x \in S : x.confirm \in Nat /\ DigestOf(x) \in Int
  <2> TAKE x \in S
  <2>1. x.origin \in 1 .. Len(bs) /\ x.confirm \in Nat
    BY PivotFacts
  <2> QED
    BY <2>1 DEF DigestOf
<1> QED
  BY <1>4, <1>5, <1>6 DEF SeedsOK

LEMMA PeriodsSoFar ==
    ASSUME NEW bs \in Seq(Bar), NEW time \in Nat
    PROVE  \A x : x \in PeriodicExtremes(bs, VisibleBarsAt(bs, time)) <=>
                     x \in PeriodicExtremes(bs, CompleteBars(bs)) /\ x.confirm <= time
<1> DEFINE sides == (IF EmitHigh THEN {"UPPER"} ELSE {}) \cup (IF EmitLow THEN {"LOWER"} ELSE {})
           V == VisibleBarsAt(bs, time)
           C == CompleteBars(bs)
<1>1. /\ \A x : x \in PeriodicExtremes(bs, V) <=>
                   \E i \in V, side \in sides : x = PeriodicExtreme(bs, i, side)
      /\ \A x : x \in PeriodicExtremes(bs, C) <=>
                   \E i \in C, side \in sides : x = PeriodicExtreme(bs, i, side)
  BY DEF PeriodicExtremes
<1>2. \A i, side : PeriodicExtreme(bs, i, side).confirm = bs[i].available
  BY DEF PeriodicExtreme
<1>3. \A i : i \in V <=> i \in C /\ bs[i].available <= time
  BY DEF VisibleBarsAt, CompleteBars, VisibleAt
<1> HIDE DEF sides, V, C
<1>4. \A x : x \in PeriodicExtremes(bs, V) <=> x \in PeriodicExtremes(bs, C) /\ x.confirm <= time
  BY <1>1, <1>2, <1>3
<1> QED
  BY <1>4 DEF V, C

LEMMA PeriodsDiffer ==
    ASSUME NEW bs \in Seq(Bar), NEW visible \in SUBSET DOMAIN bs
    PROVE  /\ IsFiniteSet(PeriodicExtremes(bs, visible))
           /\ \A x \in PeriodicExtremes(bs, visible) : x.confirm \in Nat /\ DigestOf(x) \in Int
           /\ \A x, y \in PeriodicExtremes(bs, visible) : DigestOf(x) = DigestOf(y) => x = y
<1> DEFINE sides == (IF EmitHigh THEN {"UPPER"} ELSE {}) \cup (IF EmitLow THEN {"LOWER"} ELSE {})
           places == visible \X sides
           at == [p \in places |-> PeriodicExtreme(bs, p[1], p[2])]
<1>1. sides \in SUBSET Side
  BY DEF Side
<1>2. \A x : x \in PeriodicExtremes(bs, visible) <=>
                \E i \in visible, side \in sides : x = PeriodicExtreme(bs, i, side)
  BY DEF PeriodicExtremes
<1> HIDE DEF sides
<1>3. IsFiniteSet(places)
  <2>1. IsFiniteSet(1 .. Len(bs)) /\ visible \in SUBSET (1 .. Len(bs))
    BY FS_Interval
  <2>2. IsFiniteSet(Side)
    BY SidesAreFinite
  <2>3. IsFiniteSet(visible) /\ IsFiniteSet(sides)
    BY <1>1, <2>1, <2>2, FS_Subset
  <2> QED
    BY <2>3, FS_Product
<1>4. PeriodicExtremes(bs, visible) = {at[p] : p \in places}
  <2>1. \A p \in places : p[1] \in visible /\ p[2] \in sides /\ at[p] = PeriodicExtreme(bs, p[1], p[2])
    OBVIOUS
  <2>2. \A i \in visible, side \in sides :
           <<i, side>> \in places /\ at[<<i, side>>] = PeriodicExtreme(bs, i, side)
    OBVIOUS
  <2> DEFINE image == {at[p] : p \in places}
  <2>3. \A x : x \in image <=> \E p \in places : x = at[p]
    OBVIOUS
  <2> HIDE DEF places, at, image
  <2>4. ASSUME NEW x \in PeriodicExtremes(bs, visible) PROVE x \in image
    <3>1. PICK i \in visible, side \in sides : x = PeriodicExtreme(bs, i, side)
      BY <1>2
    <3>2. <<i, side>> \in places /\ x = at[<<i, side>>]
      BY <2>2, <3>1
    <3> QED
      BY <2>3, <3>2
  <2>5. ASSUME NEW x \in image PROVE x \in PeriodicExtremes(bs, visible)
    <3>1. PICK p \in places : x = at[p]
      BY <2>3
    <3> QED
      BY <1>2, <2>1, <3>1
  <2>6. PeriodicExtremes(bs, visible) = image
    BY <2>4, <2>5
  <2> QED
    BY <2>6 DEF image
<1>5. IsFiniteSet(PeriodicExtremes(bs, visible))
  <2> HIDE DEF places, at
  <2> QED
    BY <1>3, <1>4, FiniteImage
<1>6. \A x \in PeriodicExtremes(bs, visible) : \E i \in visible, side \in Side :
         x = PeriodicExtreme(bs, i, side)
  BY <1>1, <1>2
<1>7. \A i \in visible, side \in Side :
         /\ i \in Nat /\ PeriodicExtreme(bs, i, side).confirm \in Nat
         /\ DigestOf(PeriodicExtreme(bs, i, side)) = 2 * i + (IF side = "UPPER" THEN 1 ELSE 0)
  <2> TAKE i \in visible, side \in Side
  <2>1. i \in 1 .. Len(bs)
    OBVIOUS
  <2>2. bs[i].available \in Nat
    BY <2>1, BarFacts
  <2> QED
    BY <2>1, <2>2 DEF PeriodicExtreme, DigestOf
<1>8. ASSUME NEW x \in PeriodicExtremes(bs, visible) PROVE x.confirm \in Nat /\ DigestOf(x) \in Int
  <2>1. PICK i \in visible, side \in Side : x = PeriodicExtreme(bs, i, side)
    BY <1>6
  <2>2. i \in Nat /\ x.confirm \in Nat /\ DigestOf(x) = 2 * i + (IF side = "UPPER" THEN 1 ELSE 0)
    BY <1>7, <2>1
  <2> QED
    BY <2>2
<1>9. ASSUME NEW x \in PeriodicExtremes(bs, visible), NEW y \in PeriodicExtremes(bs, visible),
             DigestOf(x) = DigestOf(y)
      PROVE  x = y
  <2>1. PICK i \in visible, side \in Side : x = PeriodicExtreme(bs, i, side)
    BY <1>6
  <2>2. PICK j \in visible, other \in Side : y = PeriodicExtreme(bs, j, other)
    BY <1>6
  <2>3. /\ i \in Nat /\ j \in Nat
        /\ DigestOf(x) = 2 * i + (IF side = "UPPER" THEN 1 ELSE 0)
        /\ DigestOf(y) = 2 * j + (IF other = "UPPER" THEN 1 ELSE 0)
    BY <1>7, <2>1, <2>2
  <2> DEFINE u == IF side = "UPPER" THEN 1 ELSE 0
             v == IF other = "UPPER" THEN 1 ELSE 0
  <2>4. u \in 0 .. 1 /\ v \in 0 .. 1 /\ (u = v => side = other)
    BY DEF Side
  <2>5. 2 * i + u = 2 * j + v
    BY <1>9, <2>3, Zenon
  <2> HIDE DEF u, v
  <2>6. i = j /\ u = v
    <3>1. i \in Nat /\ j \in Nat
      BY <2>3
    <3> QED
      BY <2>4, <2>5, <3>1
  <2> QED
    BY <2>1, <2>2, <2>4, <2>6
<1> QED
  BY <1>5, <1>8, <1>9

LEMMA TurnsDiffer ==
    ASSUME NEW bs \in Seq(Bar)
    PROVE  /\ IsFiniteSet(TurnsOf(bs))
           /\ \A x \in TurnsOf(bs) : x.confirm \in Nat /\ DigestOf(x) \in Int
           /\ \A x, y \in TurnsOf(bs) : DigestOf(x) = DigestOf(y) => x = y
<1> DEFINE turns == AtrAfter(bs).turns
<1>1. SeedsOK(TurnsOf(bs), bs)
  BY TurnsAreSeeds
<1>2. Len(turns) \in Nat /\ DOMAIN turns = 1 .. Len(turns)
  <2>1. Len(bs) \in 0 .. Len(bs) /\ Part(bs, Len(bs)) = bs
    BY WholeCut
  <2>2. AtrOK(AtrAfter(bs), bs)
    BY <2>1, TurnsGoOn
  <2> QED
    BY <2>2, TurnsAscend
<1> HIDE DEF turns
<1>3. IsFiniteSet({turns[k] : k \in 1 .. Len(turns)})
  <2>1. IsFiniteSet(1 .. Len(turns))
    BY <1>2, FS_Interval
  <2> QED
    BY <2>1, FiniteImage
<1>4. IsFiniteSet(TurnsOf(bs))
  BY <1>2, <1>3 DEF TurnsOf, ToSet, turns
<1>5. \A x \in TurnsOf(bs) : x.confirm \in Nat /\ DigestOf(x) \in Int
  <2> TAKE x \in TurnsOf(bs)
  <2>1. x.confirm \in Nat /\ x \in Candidate
    BY <1>1 DEF SeedsOK
  <2>2. x.origin \in Nat
    BY <2>1 DEF Candidate
  <2> QED
    BY <2>1, <2>2 DEF DigestOf
<1> QED
  BY <1>1, <1>4, <1>5 DEF SeedsOK

-----------------------------------------------------------------------------
(* What the whole source says at a time: sorting *)

(* The digest of the candidate a finding is about, and the order of        *)
(* InOrder.                                                                *)
Key(f) ==
    DigestOf(CASE detector \in {"PIVOT_BREAK", "ATR_BREAK"} -> f.pending
               [] detector = "REACTION" -> f.seed
               [] OTHER -> f)

Earlier(g, f) ==
    \/ g.confirm < f.confirm
    \/ g.confirm = f.confirm /\ tie * Key(g) < tie * Key(f)

Sortable(S) ==
    /\ IsFiniteSet(S) /\ tie \in {1, -1}
    /\ \A f \in S : f.confirm \in Nat /\ Key(f) \in Int
    /\ \A f, g \in S : Key(f) = Key(g) => f = g

EarlierIn(S, f) == {g \in S : Earlier(g, f)}
Rank(S, f) == Cardinality(EarlierIn(S, f))

LEMMA InOrderIs ==
    ASSUME NEW S
    PROVE  InOrder(S) = [k \in 1 .. Cardinality(S) |-> CHOOSE f \in S : Rank(S, f) = k - 1]
  BY Zenon DEF InOrder, Rank, EarlierIn, Earlier, Key

LEMMA EarlierIsStrict ==
    ASSUME NEW S, Sortable(S), NEW a \in S, NEW b \in S, NEW c \in S
    PROVE  /\ ~Earlier(a, a)
           /\ Earlier(a, b) /\ Earlier(b, c) => Earlier(a, c)
           /\ a = b \/ Earlier(a, b) \/ Earlier(b, a)
<1>1. /\ \A f \in {a, b, c} : f.confirm \in Nat /\ Key(f) \in Int
      /\ tie = 1 \/ tie = -1
      /\ Key(a) = Key(b) => a = b
  BY DEF Sortable
<1>2. CASE tie = 1
  BY <1>1, <1>2 DEF Earlier
<1>3. CASE tie = -1
  BY <1>1, <1>3 DEF Earlier
<1> QED
  BY <1>1, <1>2, <1>3

(* The number of findings before a finding says where it comes.            *)
LEMMA RankOrders ==
    ASSUME NEW S, Sortable(S)
    PROVE  /\ Cardinality(S) \in Nat
           /\ \A a \in S : Rank(S, a) \in 0 .. Cardinality(S) - 1
           /\ \A a, b \in S : Earlier(a, b) => Rank(S, a) < Rank(S, b)
           /\ \A a, b \in S : Rank(S, a) = Rank(S, b) => a = b
<1>1. IsFiniteSet(S) /\ Cardinality(S) \in Nat
  BY FS_CardinalityType DEF Sortable
<1>2. ASSUME NEW a \in S
      PROVE  /\ EarlierIn(S, a) \in SUBSET S /\ IsFiniteSet(EarlierIn(S, a))
             /\ Rank(S, a) \in Nat /\ a \notin EarlierIn(S, a)
  <2>1. EarlierIn(S, a) \in SUBSET S /\ a \notin EarlierIn(S, a)
    BY EarlierIsStrict DEF EarlierIn
  <2>2. IsFiniteSet(EarlierIn(S, a))
    BY <1>1, <2>1, FS_Subset
  <2> QED
    BY <2>1, <2>2, FS_CardinalityType DEF Rank
<1>3. ASSUME NEW a \in S PROVE Rank(S, a) \in 0 .. Cardinality(S) - 1
  <2>1. /\ Cardinality(EarlierIn(S, a)) <= Cardinality(S)
        /\ Cardinality(S) = Cardinality(EarlierIn(S, a)) => S = EarlierIn(S, a)
    BY <1>1, <1>2, FS_Subset
  <2>2. Rank(S, a) <= Cardinality(S) /\ Rank(S, a) # Cardinality(S)
    BY <1>2, <2>1 DEF Rank
  <2> QED
    BY <1>1, <1>2, <2>2
<1>4. ASSUME NEW a \in S, NEW b \in S, Earlier(a, b) PROVE Rank(S, a) < Rank(S, b)
  <2>1. EarlierIn(S, a) \in SUBSET EarlierIn(S, b)
    BY <1>4, EarlierIsStrict DEF EarlierIn
  <2>2. a \in EarlierIn(S, b) /\ a \notin EarlierIn(S, a)
    BY <1>2, <1>4 DEF EarlierIn
  <2>3. /\ Cardinality(EarlierIn(S, a)) <= Cardinality(EarlierIn(S, b))
        /\ Cardinality(EarlierIn(S, b)) = Cardinality(EarlierIn(S, a))
             => EarlierIn(S, b) = EarlierIn(S, a)
    BY <1>2, <2>1, FS_Subset
  <2>4. Rank(S, a) <= Rank(S, b) /\ Rank(S, a) # Rank(S, b)
    BY <2>2, <2>3 DEF Rank
  <2> QED
    BY <1>2, <2>4
<1>5. ASSUME NEW a \in S, NEW b \in S, Rank(S, a) = Rank(S, b) PROVE a = b
  <2>1. Rank(S, a) \in Nat /\ ~(Rank(S, a) < Rank(S, b)) /\ ~(Rank(S, b) < Rank(S, a))
    BY <1>2, <1>5
  <2>2. ~Earlier(a, b) /\ ~Earlier(b, a)
    BY <1>4, <2>1
  <2> QED
    BY <2>2, EarlierIsStrict
<1> QED
  BY <1>1, <1>3, <1>4, <1>5

(* A set in order holds each finding at its place.                         *)
LEMMA OrderFacts ==
    ASSUME NEW S, Sortable(S)
    PROVE  /\ InOrder(S) \in Seq(S) /\ Len(InOrder(S)) = Cardinality(S)
           /\ DOMAIN InOrder(S) = 1 .. Cardinality(S)
           /\ \A k \in 1 .. Cardinality(S) :
                 InOrder(S)[k] \in S /\ Rank(S, InOrder(S)[k]) = k - 1
           /\ \A a \in S :
                 Rank(S, a) + 1 \in 1 .. Cardinality(S) /\ InOrder(S)[Rank(S, a) + 1] = a
<1> DEFINE N == Cardinality(S)
           L == InOrder(S)
           f == [a \in S |-> Rank(S, a) + 1]
<1>1. /\ N \in Nat
      /\ \A a \in S : Rank(S, a) \in 0 .. N - 1
      /\ \A a, b \in S : Rank(S, a) = Rank(S, b) => a = b
  BY RankOrders
<1>2. f \in Injection(S, 1 .. N)
  <2>1. f \in [S -> 1 .. N]
    BY <1>1
  <2>2. \A a, b \in S : f[a] = f[b] => a = b
    BY <1>1
  <2> QED
    BY <2>1, <2>2 DEF Injection, IsInjective
<1>3. IsFiniteSet(1 .. N) /\ Cardinality(1 .. N) = N
  <2>1. 1 \in Int /\ N \in Int
    BY <1>1
  <2> HIDE DEF N
  <2>2. /\ IsFiniteSet(1 .. N)
        /\ Cardinality(1 .. N) = IF 1 > N THEN 0 ELSE N - 1 + 1
    BY <2>1, FS_Interval
  <2> QED
    BY <1>1, <2>2
<1>4. f \in Surjection(S, 1 .. N)
  <2> HIDE DEF f
  <2>1. IsFiniteSet(S) /\ Cardinality(S) = Cardinality(1 .. N)
    BY <1>3 DEF Sortable
  <2> QED
    BY <1>2, <1>3, <2>1, FS_Injection
<1>5. ASSUME NEW k \in 1 .. N PROVE \E a \in S : Rank(S, a) = k - 1
  <2>1. PICK a \in S : f[a] = k
    BY <1>4 DEF Surjection
  <2>2. Rank(S, a) = k - 1
    BY <1>1, <2>1
  <2> QED
    BY <2>2
<1>6. L = [k \in 1 .. N |-> CHOOSE a \in S : Rank(S, a) = k - 1]
  BY InOrderIs
<1> HIDE DEF f, N, L
<1>7. \A k \in 1 .. N : L[k] \in S /\ Rank(S, L[k]) = k - 1
  BY <1>5, <1>6
<1>8. DOMAIN L = 1 .. N /\ L \in Seq(S) /\ Len(L) = N
  <2>1. L \in [1 .. N -> S]
    BY <1>6, <1>7
  <2> QED
    BY <1>1, <2>1
<1>9. ASSUME NEW a \in S PROVE Rank(S, a) + 1 \in 1 .. N /\ L[Rank(S, a) + 1] = a
  <2> DEFINE k == Rank(S, a) + 1
  <2>1. k \in 1 .. N /\ k - 1 = Rank(S, a)
    BY <1>1
  <2> HIDE DEF k
  <2>2. L[k] \in S /\ Rank(S, L[k]) = Rank(S, a)
    BY <1>7, <2>1
  <2>3. L[k] = a
    BY <1>1, <2>2
  <2> QED
    BY <2>1, <2>3 DEF k
<1> QED
  BY <1>7, <1>8, <1>9 DEF N, L

LEMMA SetOfOrder ==
    ASSUME NEW S, Sortable(S)
    PROVE  ToSet(InOrder(S)) = S
<1> DEFINE L == InOrder(S)
<1>1. /\ DOMAIN L = 1 .. Cardinality(S)
      /\ \A k \in DOMAIN L : L[k] \in S
      /\ \A a \in S : \E k \in DOMAIN L : L[k] = a
  BY OrderFacts
<1> HIDE DEF L
<1>2. {L[k] : k \in DOMAIN L} = S
  BY <1>1
<1> QED
  BY <1>2 DEF ToSet, L

LEMMA PartIsSortable ==
    ASSUME NEW S, NEW P, Sortable(S), P \subseteq S
    PROVE  Sortable(P) /\ Cardinality(P) <= Cardinality(S)
<1>1. P \in SUBSET S /\ IsFiniteSet(S)
  BY DEF Sortable
<1>2. IsFiniteSet(P) /\ Cardinality(P) <= Cardinality(S)
  BY <1>1, FS_Subset
<1> QED
  BY <1>2 DEF Sortable

IsStartOf(some, whole, time) ==
    some = Restrict(whole, {k \in DOMAIN whole : whole[k].confirm <= time})

(* What was confirmed by a time comes first, in its own order, and the     *)
(* rest follows in its own.                                                *)
LEMMA OrderSplits ==
    ASSUME NEW S, Sortable(S), NEW time \in Int,
           NEW P, P = {f \in S : f.confirm <= time}
    PROVE  /\ IsStartOf(InOrder(P), InOrder(S), time)
           /\ InOrder(S) = InOrder(P) \o InOrder(S \ P)
<1> DEFINE R == S \ P
           A == InOrder(S)
           B == InOrder(P)
           C == InOrder(R)
<1>1. /\ Sortable(P) /\ Sortable(R) /\ IsFiniteSet(P) /\ IsFiniteSet(R)
      /\ \A f \in S : f.confirm \in Nat
  <2>1. P \subseteq S /\ R \subseteq S
    OBVIOUS
  <2> QED
    BY <2>1, PartIsSortable DEF Sortable
<1>2. Cardinality(P) \in Nat /\ Cardinality(R) \in Nat /\ Cardinality(S) = Cardinality(P) + Cardinality(R)
  <2>1. P \cup R = S /\ P \cap R = {}
    OBVIOUS
  <2>2. Cardinality(P \cup R) = Cardinality(P) + Cardinality(R) - Cardinality(P \cap R)
    BY <1>1, FS_Union
  <2>3. Cardinality(P) \in Nat /\ Cardinality(R) \in Nat
    BY <1>1, FS_CardinalityType
  <2>4. Cardinality(P \cup R) = Cardinality(S) /\ Cardinality(P \cap R) = 0
    <3>1. Cardinality({}) = 0
      BY FS_EmptySet
    <3> QED
      BY <2>1, <3>1, Zenon
  <2> DEFINE x == Cardinality(S)
             y == Cardinality(P)
             z == Cardinality(R)
             u == Cardinality(P \cup R)
             v == Cardinality(P \cap R)
  <2>5. u = y + z - v /\ y \in Nat /\ z \in Nat /\ u = x /\ v = 0
    BY <2>2, <2>3, <2>4
  <2> HIDE DEF x, y, z, u, v
  <2>6. y \in Nat /\ z \in Nat /\ x = y + z
    BY <2>5
  <2> QED
    BY <2>6 DEF x, y, z
<1>3. \A a \in P, b \in R : Earlier(a, b) /\ ~Earlier(b, a)
  BY <1>1 DEF Earlier
<1>4. ASSUME NEW a \in P PROVE Rank(S, a) = Rank(P, a)
  <2>1. EarlierIn(S, a) = EarlierIn(P, a)
    BY <1>3 DEF EarlierIn
  <2> QED
    BY <2>1 DEF Rank
<1>5. ASSUME NEW a \in R PROVE Rank(S, a) = Cardinality(P) + Rank(R, a)
  <2> DEFINE E == EarlierIn(R, a)
  <2>1. EarlierIn(S, a) = P \cup E /\ P \cap E = {} /\ E \in SUBSET R
    BY <1>3 DEF EarlierIn
  <2>2. IsFiniteSet(E)
    BY <1>1, <2>1, FS_Subset
  <2> HIDE DEF E
  <2>3. Cardinality(P \cup E) = Cardinality(P) + Cardinality(E) - Cardinality(P \cap E)
    BY <1>1, <2>2, FS_Union
  <2>4. Cardinality(P \cap E) = 0 /\ Cardinality(E) \in Nat
    BY <2>1, <2>2, FS_EmptySet, FS_CardinalityType
  <2>5. Cardinality(EarlierIn(S, a)) = Cardinality(P) + Cardinality(E)
    BY <1>2, <2>1, <2>3, <2>4
  <2> QED
    BY <2>5 DEF Rank, E
<1>6. /\ A \in Seq(S) /\ Len(A) = Cardinality(S) /\ DOMAIN A = 1 .. Cardinality(S)
      /\ \A a \in S : A[Rank(S, a) + 1] = a
      /\ B \in Seq(P) /\ Len(B) = Cardinality(P) /\ DOMAIN B = 1 .. Cardinality(P)
      /\ \A k \in 1 .. Cardinality(P) : B[k] \in P /\ Rank(P, B[k]) = k - 1
      /\ C \in Seq(R) /\ Len(C) = Cardinality(R) /\ DOMAIN C = 1 .. Cardinality(R)
      /\ \A k \in 1 .. Cardinality(R) : C[k] \in R /\ Rank(R, C[k]) = k - 1
  BY <1>1, OrderFacts
<1> HIDE DEF A, B, C
<1>7. ASSUME NEW k \in 1 .. Cardinality(P) PROVE A[k] = B[k]
  <2>1. B[k] \in P /\ B[k] \in S /\ Rank(P, B[k]) = k - 1
    BY <1>6
  <2>2. Rank(S, B[k]) + 1 = k
    BY <1>2, <1>4, <2>1
  <2> QED
    BY <1>6, <2>1, <2>2
<1>8. ASSUME NEW k \in 1 .. Cardinality(R) PROVE A[Cardinality(P) + k] = C[k]
  <2>1. C[k] \in R /\ C[k] \in S /\ Rank(R, C[k]) = k - 1
    BY <1>6
  <2>2. Rank(S, C[k]) + 1 = Cardinality(P) + k
    BY <1>2, <1>5, <2>1
  <2> QED
    BY <1>6, <2>1, <2>2
<1>9. ASSUME NEW k \in 1 .. Cardinality(S)
      PROVE  k \in 1 .. Cardinality(P)
               \/ (k - Cardinality(P) \in 1 .. Cardinality(R)
                     /\ Cardinality(P) + (k - Cardinality(P)) = k)
  BY <1>2
<1>10. A = B \o C
  <2>1. Len(B \o C) = Cardinality(S) /\ B \o C \in Seq(S)
    <3>1. P \subseteq S /\ R \subseteq S
      OBVIOUS
    <3>2. B \in Seq(S) /\ C \in Seq(S)
      BY <1>6, <3>1
    <3>3. B \o C \in Seq(S) /\ Len(B \o C) = Len(B) + Len(C)
      BY <3>2, ConcatProperties
    <3> QED
      BY <1>2, <1>6, <3>3
  <2>2. ASSUME NEW k \in 1 .. Cardinality(S) PROVE A[k] = (B \o C)[k]
    <3>1. CASE k \in 1 .. Cardinality(P)
      <4>1. (B \o C)[k] = B[k]
        BY <1>2, <1>6, <3>1
      <4> QED
        BY <1>7, <3>1, <4>1
    <3>2. CASE k \notin 1 .. Cardinality(P)
      <4> DEFINE j == k - Cardinality(P)
      <4>1. j \in 1 .. Cardinality(R) /\ Cardinality(P) + j = k /\ k > Len(B) /\ k <= Len(B) + Len(C)
        BY <1>2, <1>6, <1>9, <3>2
      <4>2. (B \o C)[k] = C[k - Len(B)]
        BY <1>2, <1>6, <4>1
      <4>3. k - Len(B) = j
        BY <1>6
      <4> HIDE DEF j
      <4> QED
        BY <1>8, <4>1, <4>2, <4>3
    <3> QED
      BY <3>1, <3>2
  <2>3. A \in Seq(S) /\ Len(A) = Cardinality(S)
    BY <1>6
  <2> QED
    BY <2>1, <2>2, <2>3, SeqEqual
<1>11. {k \in DOMAIN A : A[k].confirm <= time} = 1 .. Cardinality(P)
  <2>1. ASSUME NEW k \in 1 .. Cardinality(P) PROVE k \in 1 .. Cardinality(S) /\ A[k].confirm <= time
    <3>1. A[k] \in P
      BY <1>6, <1>7
    <3> QED
      BY <1>2, <3>1
  <2>2. ASSUME NEW k \in 1 .. Cardinality(S), k \notin 1 .. Cardinality(P)
        PROVE  ~(A[k].confirm <= time)
    <3> DEFINE j == k - Cardinality(P)
    <3>1. j \in 1 .. Cardinality(R) /\ Cardinality(P) + j = k
      BY <1>9, <2>2
    <3> HIDE DEF j
    <3>2. A[k] = C[j] /\ C[j] \in R
      BY <1>6, <1>8, <3>1
    <3> QED
      BY <3>2
  <2> QED
    BY <1>6, <2>1, <2>2
<1>12. B = Restrict(A, {k \in DOMAIN A : A[k].confirm <= time})
  <2>1. Restrict(A, 1 .. Cardinality(P)) = [k \in 1 .. Cardinality(P) |-> A[k]]
    BY DEF Restrict
  <2>2. B = [k \in 1 .. Cardinality(P) |-> B[k]]
    BY <1>6
  <2> QED
    BY <1>7, <1>11, <2>1, <2>2
<1> QED
  BY <1>10, <1>12 DEF A, B, C, IsStartOf

-----------------------------------------------------------------------------
(* What the whole source says at a time: the detectors *)

(* The arguments of InOrder in detect_as_of and in detect.                 *)
FoundBy(bs, time) ==
    IF Positional THEN Placed(bs, VisibleBarsAt(bs, time))
    ELSE Scanned(CausalPrefix(bs, time), {seed \in Seeds(bs) : seed.confirm <= time})

FoundAll(bs) ==
    IF Positional THEN Placed(bs, CompleteBars(bs))
    ELSE Scanned(CausalPrefix(bs, EndTime(bs)), Seeds(bs))

LEMMA DetectorsOrder ==
    ASSUME NEW bs, NEW time
    PROVE  DetectAsOf(bs, time) = InOrder(FoundBy(bs, time)) /\ DetectBatch(bs) = InOrder(FoundAll(bs))
  BY Zenon DEF DetectAsOf, DetectBatch, FoundBy, FoundAll, VisibleBarsAt, CompleteBars, EndTime

SameBySoFar(some, all, time) == \A x : x \in some <=> x \in all /\ x.confirm <= time

(* The seeds with which the breaks of each part are looked for.            *)
SeedsFor(bs) ==
    [n \in 0 .. Len(bs) |->
        IF detector = "PIVOT_BREAK" THEN PivotsOf(Part(bs, n)) ELSE TurnsOf(Part(bs, n))]

LEMMA SeedsForGrow ==
    ASSUME NEW bs \in Seq(Bar)
    PROVE  FamilyOK("BREAK", SeedsFor(bs), bs)
<1>1. Len(bs) \in Nat
  OBVIOUS
<1> SUFFICES ASSUME NEW i \in 0 .. Len(bs), NEW j \in 0 .. Len(bs), i <= j
             PROVE  SeedsGrow(SeedsFor(bs)[i], Part(bs, i), SeedsFor(bs)[j], Part(bs, j))
  BY DEF FamilyOK
<1>2. j \in i .. Len(bs) /\ \A k \in 1 .. i : k \in 1 .. j
  OBVIOUS
<1>3. CASE detector = "PIVOT_BREAK"
  <2>1. SeedsFor(bs)[i] = PivotsOf(Part(bs, i)) /\ SeedsFor(bs)[j] = PivotsOf(Part(bs, j))
    BY <1>3 DEF SeedsFor
  <2>2. Grows(Part(bs, i), Part(bs, j))
    <3> DEFINE a == Part(bs, i)
               b == Part(bs, j)
    <3>1. /\ a \in Seq(Bar) /\ Len(a) = i /\ \A k \in 1 .. i : a[k] = bs[k]
          /\ b \in Seq(Bar) /\ Len(b) = j /\ \A k \in 1 .. j : b[k] = bs[k]
      BY CutFacts
    <3> HIDE DEF a, b
    <3>2. Grows(a, b)
      BY <1>2, <3>1 DEF Grows
    <3> QED
      BY <3>2 DEF a, b
  <2> QED
    BY <2>1, <2>2, PivotSeedsGrow
<1>4. CASE detector # "PIVOT_BREAK"
  <2>1. SeedsFor(bs)[i] = TurnsOf(Part(bs, i)) /\ SeedsFor(bs)[j] = TurnsOf(Part(bs, j))
    BY <1>4 DEF SeedsFor
  <2> QED
    BY <1>2, <2>1, TurnSeedsGrow
<1> QED
  BY <1>3, <1>4

(* What a time sees of a source: a part of what its end sees.              *)
LEMMA PartsAreSeen ==
    ASSUME NEW bs \in Seq(Bar), NEW time \in Nat,
           NEW long, long = CausalPrefix(bs, EndTime(bs)),
           NEW m, m = Len(CausalPrefix(bs, time))
    PROVE  /\ long \in Seq(Bar) /\ m \in 0 .. Len(long) /\ SeesBars(long, m, time)
           /\ CausalPrefix(bs, time) = Part(long, m) /\ long = Part(long, Len(long))
<1> DEFINE short == CausalPrefix(bs, time)
<1>1. /\ short \in Seq(Bar) /\ long \in Seq(Bar) /\ Grows(short, long)
      /\ \A i \in 1 .. Len(long) : PrefixTime(long, i) <= time <=> i <= Len(short)
  BY PrefixesNest
<1> HIDE DEF short
<1>2. m = Len(short)
  BY DEF short
<1>3. Len(short) \in Nat /\ Len(short) \in 0 .. Len(short) /\ Len(short) \in 0 .. Len(long)
  BY <1>1 DEF Grows
<1>4. Part(long, m) = Part(short, m) /\ Part(short, m) = short /\ Part(long, Len(long)) = long
  BY <1>1, <1>2, <1>3, PartsAgree, WholeCut
<1> QED
  BY <1>1, <1>2, <1>3, <1>4 DEF SeesBars, short

LEMMA SeedsFacts ==
    ASSUME NEW bs \in Seq(Bar)
    PROVE  /\ Seeds(bs) = Pivots(bs, CompleteBars(bs)) /\ Seeds(bs) \in SUBSET PivotsOf(bs)
           /\ IsFiniteSet(Seeds(bs)) /\ \A sd \in Seeds(bs) : sd.confirm \in Nat
<1>1. Seeds(bs) = Pivots(bs, CompleteBars(bs))
  BY DEF Seeds, CompleteBars
<1>2. CompleteBars(bs) \in SUBSET DOMAIN bs
  BY DEF CompleteBars
<1>3. Seeds(bs) \in SUBSET PivotsOf(bs)
  BY <1>1, <1>2, PivotsAmong
<1> QED
  BY <1>1, <1>3, PivotsDiffer

(* A detector finds by a time what it finds in the end with a confirm time *)
(* that has come.                                                          *)
LEMMA FoundSoFar ==
    ASSUME NEW bs \in Seq(Bar), NEW time \in Nat, detector \in Detector, tie \in {1, -1}
    PROVE  SameBySoFar(FoundBy(bs, time), FoundAll(bs), time)
<1> DEFINE long == CausalPrefix(bs, EndTime(bs))
           short == CausalPrefix(bs, time)
           m == Len(short)
           N == Len(long)
           known == {sd \in Seeds(bs) : sd.confirm <= time}
<1>1. /\ long \in Seq(Bar) /\ m \in 0 .. N /\ SeesBars(long, m, time)
      /\ short = Part(long, m) /\ long = Part(long, N)
  BY PartsAreSeen
<1>2. N \in Nat /\ N \in 0 .. N
  BY <1>1
<1>3. /\ Positional => /\ FoundBy(bs, time) = Placed(bs, VisibleBarsAt(bs, time))
                       /\ FoundAll(bs) = Placed(bs, CompleteBars(bs))
      /\ ~Positional => /\ FoundBy(bs, time) = Scanned(short, known)
                        /\ FoundAll(bs) = Scanned(long, Seeds(bs))
  BY DEF FoundBy, FoundAll
<1> HIDE DEF long, short, m, N, known
<1>4. CASE detector = "PIVOT"
  <2>1. /\ FoundBy(bs, time) = Pivots(bs, VisibleBarsAt(bs, time))
        /\ FoundAll(bs) = Pivots(bs, CompleteBars(bs))
    BY <1>3, <1>4 DEF Positional, Placed
  <2> QED
    BY <2>1, PivotsSoFar DEF SameBySoFar
<1>5. CASE detector = "PERIODIC"
  <2>1. /\ FoundBy(bs, time) = PeriodicExtremes(bs, VisibleBarsAt(bs, time))
        /\ FoundAll(bs) = PeriodicExtremes(bs, CompleteBars(bs))
    BY <1>3, <1>5 DEF Positional, Placed
  <2> QED
    BY <2>1, PeriodsSoFar DEF SameBySoFar
<1>6. CASE detector = "ATR"
  <2>1. FoundBy(bs, time) = TurnsOf(short) /\ FoundAll(bs) = TurnsOf(long)
    BY <1>3, <1>6 DEF Positional, Scanned, TurnsOf
  <2>2. \A x : x \in TurnsOf(Part(long, m)) <=> x \in TurnsOf(long) /\ x.confirm <= time
    BY <1>1, TurnsInParts DEF N
  <2> QED
    BY <1>1, <2>1, <2>2 DEF SameBySoFar
<1>7. CASE detector \in {"PIVOT_BREAK", "ATR_BREAK"}
  <2> DEFINE family == SeedsFor(long)
  <2>1. \A n \in 0 .. N : family[n] = IF detector = "PIVOT_BREAK" THEN PivotsOf(Part(long, n))
                                      ELSE TurnsOf(Part(long, n))
    BY DEF SeedsFor, N
  <2>2. FamilyOK("BREAK", family, long)
    BY <1>1, SeedsForGrow
  <2> HIDE DEF family
  <2>3. FoundBy(bs, time) = BreaksIn(long, family, tie, m) /\ FoundAll(bs) = BreaksIn(long, family, tie, N)
    BY <1>1, <1>2, <1>3, <1>7, <2>1 DEF Positional, Scanned, BreaksIn, PivotsOf, TurnsOf
  <2>4. \A x : x \in BreaksIn(long, family, tie, m) <=>
                  x \in BreaksIn(long, family, tie, N) /\ x.confirm <= time
    BY <1>1, <2>2, BreaksInParts DEF N
  <2> QED
    BY <2>3, <2>4 DEF SameBySoFar
<1>8. CASE detector = "REACTION"
  <2>1. FoundBy(bs, time) = LevelsIn(long, known, m) /\ FoundAll(bs) = LevelsIn(long, Seeds(bs), N)
    BY <1>1, <1>3, <1>8 DEF Positional, Scanned, LevelsIn
  <2>2. \A sd \in Seeds(bs) : sd.confirm \in Nat
    BY SeedsFacts
  <2>3. \A x : x \in LevelsIn(long, known, m) <=> x \in LevelsIn(long, Seeds(bs), m)
    BY <1>1, <2>2, LateSeedsAreIdle DEF known, N
  <2>4. \A x : x \in LevelsIn(long, Seeds(bs), m) <=>
                  x \in LevelsIn(long, Seeds(bs), N) /\ x.confirm <= time
    BY <1>1, <2>2, LevelsInParts DEF N
  <2> QED
    BY <2>1, <2>3, <2>4 DEF SameBySoFar
<1> QED
  BY <1>4, <1>5, <1>6, <1>7, <1>8 DEF Detector

(* No two findings of a detector tie on everything, so that their order is *)
(* theirs alone.                                                           *)
LEMMA FoundIsSortable ==
    ASSUME NEW bs \in Seq(Bar), detector \in Detector, tie \in {1, -1}
    PROVE  Sortable(FoundAll(bs))
<1> DEFINE end == EndTime(bs)
           long == CausalPrefix(bs, end)
           N == Len(long)
           S == FoundAll(bs)
<1>1. end \in Nat
  BY EndTimeFacts
<1> HIDE DEF end
<1>2. long \in Seq(Bar) /\ long = Part(long, N)
  BY <1>1, PartsAreSeen DEF end
<1>3. N \in Nat /\ N \in 0 .. N
  BY <1>2
<1>4. S = IF Positional THEN Placed(bs, CompleteBars(bs)) ELSE Scanned(long, Seeds(bs))
  BY DEF FoundAll, end
<1> HIDE DEF long, N, S
<1>5. CompleteBars(bs) \in SUBSET DOMAIN bs
  BY DEF CompleteBars
<1>6. CASE detector \in {"PIVOT", "PERIODIC", "ATR"}
  <2>1. \A f : Key(f) = DigestOf(f)
    BY <1>6 DEF Key
  <2>2. /\ IsFiniteSet(S) /\ \A x \in S : x.confirm \in Nat /\ DigestOf(x) \in Int
        /\ \A x, y \in S : DigestOf(x) = DigestOf(y) => x = y
    <3>1. CASE detector = "PIVOT"
      <4>1. S = Seeds(bs)
        BY <1>4, <3>1, SeedsFacts DEF Positional, Placed
      <4> QED
        BY <4>1, SeedsFacts, PivotsDiffer
    <3>2. CASE detector = "PERIODIC"
      <4>1. S = PeriodicExtremes(bs, CompleteBars(bs))
        BY <1>4, <3>2 DEF Positional, Placed
      <4> QED
        BY <1>5, <4>1, PeriodsDiffer
    <3>3. CASE detector = "ATR"
      <4>1. S = TurnsOf(long)
        BY <1>4, <3>3 DEF Positional, Scanned, TurnsOf
      <4> QED
        BY <1>2, <4>1, TurnsDiffer
    <3> QED
      BY <1>6, <3>1, <3>2, <3>3
  <2> QED
    BY <2>1, <2>2 DEF Sortable, S
<1>7. CASE detector \in {"PIVOT_BREAK", "ATR_BREAK"}
  <2> DEFINE family == SeedsFor(long)
  <2>1. family[N] = IF detector = "PIVOT_BREAK" THEN PivotsOf(Part(long, N)) ELSE TurnsOf(Part(long, N))
    BY <1>3 DEF SeedsFor, N
  <2>2. FamilyOK("BREAK", family, long)
    BY <1>2, SeedsForGrow
  <2> HIDE DEF family
  <2>3. S = BreaksIn(long, family, tie, N)
    BY <1>2, <1>4, <1>7, <2>1 DEF Positional, Scanned, BreaksIn, PivotsOf, TurnsOf
  <2>4. \A f : Key(f) = DigestOf(f.pending)
    BY <1>7 DEF Key
  <2> QED
    BY <1>2, <2>2, <2>3, <2>4, BreaksDiffer DEF Sortable, S, N
<1>8. CASE detector = "REACTION"
  <2>1. S = LevelsIn(long, Seeds(bs), N)
    BY <1>2, <1>4, <1>8 DEF Positional, Scanned, LevelsIn
  <2>2. \A f : Key(f) = DigestOf(f.seed)
    BY <1>8 DEF Key
  <2>3. /\ IsFiniteSet(Seeds(bs)) /\ \A sd \in Seeds(bs) : sd.confirm \in Nat
        /\ Seeds(bs) \in SUBSET PivotsOf(bs)
    BY SeedsFacts
  <2>4. /\ \A x \in Seeds(bs) : DigestOf(x) \in Int
        /\ \A x, y \in Seeds(bs) : DigestOf(x) = DigestOf(y) => x = y
    BY <2>3, PivotsDiffer
  <2>5. IsFiniteSet(S) /\ \A x, y \in S : x.seed = y.seed => x = y
    BY <1>2, <2>1, <2>3, LevelsDiffer
  <2>6. \A x \in S : x.seed \in Seeds(bs) /\ x.confirm \in Nat
    BY <1>2, <1>3, <2>1, <2>3, LevelsGoOn DEF N
  <2> QED
    BY <2>2, <2>4, <2>5, <2>6 DEF Sortable, S
<1> QED
  BY <1>6, <1>7, <1>8 DEF Detector

-----------------------------------------------------------------------------
(* CandidateHistory *)

SoFar(time) == {f \in FoundAll(source) : f.confirm <= time}

HistoryInv ==
    /\ source \in Seq(Bar) /\ detector \in Detector /\ tie \in {1, -1}
    /\ asked \in Int
    /\ \A time \in ReplayTimes \cup DefaultSchedule : answer[time] = DetectAsOf(source, time)
    /\ outcome # "RAISED" => ledger = InOrder(SoFar(asked))

(* A step that changes neither the source nor the detector changes nothing *)
(* of what is found and in which order.                                    *)
LEMMA SameCall ==
    ASSUME UNCHANGED <<source, detector, tie>>
    PROVE  /\ FoundAll(source)' = FoundAll(source)
           /\ DefaultSchedule' = DefaultSchedule
           /\ \A S : InOrder(S)' = InOrder(S)
           /\ \A time : DetectAsOf(source, time)' = DetectAsOf(source, time)
<1>1. source' = source /\ detector' = detector /\ tie' = tie
  OBVIOUS
<1>2. FoundAll(source)' = FoundAll(source)
  BY <1>1 DEF FoundAll, Positional, Placed, Scanned
<1>3. DefaultSchedule' = DefaultSchedule
  BY <1>1 DEF DefaultSchedule
<1>4. \A S : InOrder(S)' = InOrder(S)
  BY <1>1 DEF InOrder
<1>5. \A time : DetectAsOf(source, time)' = DetectAsOf(source, time)
  BY <1>1 DEF DetectAsOf, InOrder, Positional, Placed, Scanned
<1> QED
  BY <1>2, <1>3, <1>4, <1>5

LEMMA TimesAreNat ==
    ASSUME source \in Seq(Bar)
    PROVE  ReplayTimes \cup DefaultSchedule \subseteq Nat
<1>1. \A i \in DOMAIN source : source[i].available \in Nat
  BY BarFacts
<1>2. \A seed \in Seeds(source) : seed.confirm \in Nat
  BY SeedsFacts
<1> QED
  BY <1>1, <1>2, SwingHistoryAssumption DEF DefaultSchedule

(* What is found by a time is sortable, and an answer lists it in order.   *)
LEMMA SoFarFacts ==
    ASSUME HistoryInv, NEW time \in Nat
    PROVE  /\ FoundBy(source, time) = SoFar(time)
           /\ Sortable(FoundAll(source)) /\ Sortable(SoFar(time))
           /\ DetectAsOf(source, time) = InOrder(SoFar(time))
<1>1. source \in Seq(Bar) /\ detector \in Detector /\ tie \in {1, -1}
  BY DEF HistoryInv
<1>2. SameBySoFar(FoundBy(source, time), FoundAll(source), time)
  BY <1>1, FoundSoFar
<1>3. FoundBy(source, time) = SoFar(time)
  <2>1. \A x : x \in FoundBy(source, time) <=> x \in SoFar(time)
    BY <1>2 DEF SameBySoFar, SoFar
  <2> DEFINE a == FoundBy(source, time)
             b == SoFar(time)
  <2> HIDE DEF a, b
  <2>2. a = b
    <3>1. \A x : x \in a <=> x \in b
      BY <2>1 DEF a, b
    <3> QED
      BY <3>1
  <2> QED
    BY <2>2 DEF a, b
<1>4. Sortable(FoundAll(source))
  BY <1>1, FoundIsSortable
<1>5. Sortable(SoFar(time))
  BY <1>4, PartIsSortable DEF SoFar
<1> QED
  BY <1>3, <1>4, <1>5, DetectorsOrder

LEMMA InitHistoryInv == InitHistory => HistoryInv
<1> SUFFICES ASSUME InitHistory PROVE HistoryInv
  OBVIOUS
<1>1. /\ source \in Seq(Bar) /\ detector \in Detector /\ tie \in {1, -1}
      /\ asked = -1 /\ asked \in Int /\ ledger = <<>>
  BY SwingHistoryAssumption DEF InitHistory
<1>2. \A time \in ReplayTimes \cup DefaultSchedule : answer[time] = DetectAsOf(source, time)
  BY DEF InitHistory
<1>3. Sortable(FoundAll(source))
  BY <1>1, FoundIsSortable
<1>4. SoFar(asked) = {}
  <2>1. \A f \in FoundAll(source) : f.confirm \in Nat
    BY <1>3 DEF Sortable
  <2>2. \A f \in FoundAll(source) : ~(f.confirm <= asked)
    BY <1>1, <2>1
  <2> QED
    BY <2>2 DEF SoFar
<1>5. InOrder({}) = <<>>
  <2>1. Sortable({})
    BY <1>3, PartIsSortable
  <2>2. InOrder({}) \in Seq({}) /\ Len(InOrder({})) = 0
    BY <2>1, OrderFacts, FS_EmptySet
  <2> DEFINE none == InOrder({})
  <2> HIDE DEF none
  <2>3. none \in Seq({}) /\ Len(none) = 0
    BY <2>2 DEF none
  <2>4. none = <<>>
    BY <2>3
  <2> QED
    BY <2>4 DEF none
<1> QED
  BY <1>1, <1>2, <1>4, <1>5 DEF HistoryInv

(* What a call finds new was confirmed since the last one, and comes after *)
(* what was known then.                                                    *)
LEMMA NewIsRecent ==
    ASSUME HistoryInv, NEW time \in ReplayTimes \cup DefaultSchedule, time > asked,
           outcome # "RAISED", NEW new, new = ToSet(answer[time]) \ ToSet(ledger)
    PROVE  /\ answer[time] = InOrder(SoFar(time)) /\ ToSet(answer[time]) = SoFar(time)
           /\ new = {f \in SoFar(time) : f.confirm > asked}
           /\ ledger \o InOrder(new) = InOrder(SoFar(time))
           /\ \A f \in SoFar(time) : f.confirm \in Nat /\ f.confirm <= time
<1>1. source \in Seq(Bar) /\ asked \in Int /\ ledger = InOrder(SoFar(asked))
  BY DEF HistoryInv
<1>2. time \in Nat
  BY <1>1, TimesAreNat
<1>3. /\ Sortable(FoundAll(source)) /\ Sortable(SoFar(time))
      /\ answer[time] = InOrder(SoFar(time))
  BY <1>2, SoFarFacts DEF HistoryInv
<1>4. \A f \in FoundAll(source) : f.confirm \in Nat
  BY <1>3 DEF Sortable
<1>5. SoFar(asked) = {f \in SoFar(time) : f.confirm <= asked}
  BY <1>1, <1>2, <1>4 DEF SoFar
<1>6. SoFar(asked) \subseteq FoundAll(source)
  BY DEF SoFar
<1>7. ToSet(ledger) = SoFar(asked) /\ ToSet(answer[time]) = SoFar(time)
  BY <1>1, <1>3, <1>6, PartIsSortable, SetOfOrder
<1>8. InOrder(SoFar(time)) = InOrder(SoFar(asked)) \o InOrder(SoFar(time) \ SoFar(asked))
  BY <1>1, <1>3, <1>5, OrderSplits
<1>9. new = SoFar(time) \ SoFar(asked)
  BY <1>7
<1>10. \A f \in SoFar(time) : f.confirm \in Nat /\ f.confirm <= time
  BY <1>4 DEF SoFar
<1>11. new = {f \in SoFar(time) : f.confirm > asked}
  <2>1. \A f \in SoFar(time) : f \in SoFar(asked) <=> ~(f.confirm > asked)
    BY <1>1, <1>5, <1>10
  <2>2. \A f : f \in new <=> f \in SoFar(time) /\ f.confirm > asked
    BY <1>9, <2>1, Zenon
  <2> QED
    BY <2>2
<1> QED
  BY <1>1, <1>3, <1>7, <1>8, <1>9, <1>10, <1>11

LEMMA CallKeeps ==
    ASSUME HistoryInv, NEW time \in ReplayTimes \cup DefaultSchedule, Call(time)
    PROVE  HistoryInv'
<1> DEFINE new == ToSet(answer[time]) \ ToSet(ledger)
<1>1. /\ source \in Seq(Bar) /\ detector \in Detector /\ tie \in {1, -1} /\ asked \in Int
      /\ \A t \in ReplayTimes \cup DefaultSchedule : answer[t] = DetectAsOf(source, t)
  BY DEF HistoryInv
<1>2. /\ outcome = "RUNNING" /\ time > asked /\ asked' = time
      /\ UNCHANGED <<source, detector, tie, answer, mode>>
      /\ outcome' # "RAISED" => ledger' = Delivered(answer[time], new)
  BY DEF Call
<1>3. /\ answer[time] = InOrder(SoFar(time))
      /\ ledger \o InOrder(new) = InOrder(SoFar(time))
  BY <1>2, NewIsRecent
<1>4. Delivered(answer[time], new) = InOrder(SoFar(time))
  BY <1>3 DEF Delivered
<1> HIDE DEF new
<1>5. /\ FoundAll(source)' = FoundAll(source) /\ DefaultSchedule' = DefaultSchedule
      /\ \A S : InOrder(S)' = InOrder(S)
      /\ \A t : DetectAsOf(source, t)' = DetectAsOf(source, t)
  BY <1>2, SameCall
<1>6. time \in Int
  BY <1>1, TimesAreNat
<1>7. (\A t \in ReplayTimes \cup DefaultSchedule : answer[t] = DetectAsOf(source, t))'
  BY <1>1, <1>2, <1>5
<1>8. outcome' # "RAISED" => (ledger = InOrder(SoFar(asked)))'
  BY <1>2, <1>4, <1>5 DEF SoFar
<1> QED
  BY <1>1, <1>2, <1>6, <1>7, <1>8 DEF HistoryInv

(* A step is a call, the end of the schedule, or none.                     *)
LEMMA HistorySteps ==
    ASSUME HistoryInv, [NextHistory]_historyVars
    PROVE  \/ \E time \in ReplayTimes \cup DefaultSchedule : Call(time)
           \/ /\ UNCHANGED <<source, detector, tie, answer, mode, asked, ledger>>
              /\ outcome' = outcome \/ outcome = "RUNNING"
<1>1. CASE DefaultStep
  BY <1>1 DEF DefaultStep
<1>2. CASE ExplicitStep
  BY <1>2 DEF ExplicitStep
<1>3. CASE AsOfStep
  BY <1>3 DEF AsOfStep
<1>4. CASE FinishReplay
  BY <1>4 DEF FinishReplay
<1>5. CASE UNCHANGED historyVars
  BY <1>5 DEF historyVars
<1> QED
  BY <1>1, <1>2, <1>3, <1>4, <1>5 DEF NextHistory

LEMMA HistoryKeeps == HistoryInv /\ [NextHistory]_historyVars => HistoryInv'
<1> SUFFICES ASSUME HistoryInv, [NextHistory]_historyVars PROVE HistoryInv'
  OBVIOUS
<1>1. CASE \E time \in ReplayTimes \cup DefaultSchedule : Call(time)
  BY <1>1, CallKeeps
<1>2. CASE /\ UNCHANGED <<source, detector, tie, answer, mode, asked, ledger>>
           /\ outcome' = outcome \/ outcome = "RUNNING"
  <2>1. /\ FoundAll(source)' = FoundAll(source) /\ DefaultSchedule' = DefaultSchedule
        /\ \A S : InOrder(S)' = InOrder(S)
        /\ \A t : DetectAsOf(source, t)' = DetectAsOf(source, t)
    BY <1>2, SameCall
  <2>2. /\ source \in Seq(Bar) /\ detector \in Detector /\ tie \in {1, -1} /\ asked \in Int
        /\ \A t \in ReplayTimes \cup DefaultSchedule : answer[t] = DetectAsOf(source, t)
        /\ outcome # "RAISED" => ledger = InOrder(SoFar(asked))
    BY DEF HistoryInv
  <2>3. (\A t \in ReplayTimes \cup DefaultSchedule : answer[t] = DetectAsOf(source, t))'
    BY <1>2, <2>1, <2>2
  <2>4. outcome' # "RAISED" => (ledger = InOrder(SoFar(asked)))'
    BY <1>2, <2>1, <2>2 DEF SoFar
  <2> QED
    BY <1>2, <2>2, <2>3, <2>4 DEF HistoryInv
<1> QED
  BY <1>1, <1>2, HistorySteps

LEMMA HistoryInvHolds == HistorySpec => []HistoryInv
<1> QED
  BY InitHistoryInv, HistoryKeeps, PTL DEF HistorySpec

(* Whatever the source, the detector and the times it is called at, what   *)
(* detect_as_of returned last (or a replay has delivered) is the part of   *)
(* the batch result confirmed by that time, in the batch's order.          *)
THEOREM AsOfIsAlwaysBatchSoFar == HistorySpec => []AsOfIsBatchSoFar
<1>1. HistoryInv => AsOfIsBatchSoFar
  <2> SUFFICES ASSUME HistoryInv, outcome # "RAISED"
               PROVE  ledger = Restrict(DetectBatch(source),
                                        {k \in DOMAIN DetectBatch(source) :
                                            DetectBatch(source)[k].confirm <= asked})
    BY DEF AsOfIsBatchSoFar
  <2>1. /\ source \in Seq(Bar) /\ detector \in Detector /\ tie \in {1, -1}
        /\ asked \in Int /\ ledger = InOrder(SoFar(asked))
    BY DEF HistoryInv
  <2>2. Sortable(FoundAll(source))
    BY <2>1, FoundIsSortable
  <2> DEFINE all == FoundAll(source)
             part == SoFar(asked)
  <2>3. part = {f \in all : f.confirm <= asked}
    BY DEF SoFar
  <2>4. DetectBatch(source) = InOrder(all)
    BY DetectorsOrder
  <2> HIDE DEF all, part
  <2>5. IsStartOf(InOrder(part), InOrder(all), asked)
    BY <2>1, <2>2, <2>3, OrderSplits DEF all
  <2> QED
    BY <2>1, <2>4, <2>5 DEF part, IsStartOf
<1> QED
  BY <1>1, HistoryInvHolds, PTL

(* A replay is refused by a call that comes after the confirm time of      *)
(* something not seen before, and by no other (unless the detector itself  *)
(* refuses the source).                                                    *)
THEOREM RefusedIsAlwaysSkipping == HistorySpec => RefusedOnlyWhenSkipping
<1>1. HistoryInv /\ [NextHistory]_historyVars =>
         [asked' # asked =>
            (outcome' = "RAISED" <=>
                \/ DetectorRefused(asked')
                \/ /\ mode # "CALLS"
                   /\ \E f \in ToSet(answer[asked']) :
                         asked < f.confirm /\ f.confirm < asked')]_historyVars
  <2> SUFFICES ASSUME HistoryInv, [NextHistory]_historyVars, asked' # asked
               PROVE  outcome' = "RAISED" <=>
                         \/ DetectorRefused(asked')
                         \/ /\ mode # "CALLS"
                            /\ \E f \in ToSet(answer[asked']) :
                                  asked < f.confirm /\ f.confirm < asked'
    OBVIOUS
  <2>1. PICK time \in ReplayTimes \cup DefaultSchedule : Call(time)
    BY HistorySteps
  <2> DEFINE new == ToSet(answer[time]) \ ToSet(ledger)
  <2>2. /\ outcome = "RUNNING" /\ time > asked /\ asked' = time
        /\ outcome' = "RAISED" <=> DetectorRefused(time) \/ (mode # "CALLS" /\ ~OnTime(new, time))
    BY <2>1 DEF Call
  <2>3. /\ ToSet(answer[time]) = SoFar(time)
        /\ new = {f \in SoFar(time) : f.confirm > asked}
        /\ \A f \in SoFar(time) : f.confirm \in Nat /\ f.confirm <= time
    BY <2>2, NewIsRecent
  <2>4. asked \in Int /\ time \in Nat
    BY TimesAreNat DEF HistoryInv
  <2> HIDE DEF new
  <2>5. ~OnTime(new, time) <=> \E f \in SoFar(time) : asked < f.confirm /\ f.confirm < time
    BY <2>3, <2>4 DEF OnTime
  <2> QED
    BY <2>2, <2>3, <2>5
<1> QED
  BY <1>1, HistoryInvHolds, PTL DEF HistorySpec, RefusedOnlyWhenSkipping
=============================================================================
