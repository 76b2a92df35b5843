--------------------------- MODULE LevelPoolProofs ---------------------------
(***************************************************************************)
(* Theorems about LevelPool, for every pool of levels, every tolerance and *)
(* every schedule.                                                         *)
(***************************************************************************)
EXTENDS LevelPool, SharedProofs, FiniteSetTheorems

USE LevelPoolAssumption

-----------------------------------------------------------------------------
(* Levels *)

(* The pools of which the input is accepted: of confirmed levels.          *)
Confirmed == pool \in Pools /\ \A l \in Level : pool[l].confirm # NoTime

LEMMA LevelFacts ==
    ASSUME Confirmed, NEW l \in Level
    PROVE  /\ pool[l].low \in Nat /\ pool[l].high \in Nat /\ pool[l].low <= pool[l].high
           /\ pool[l].origin \in Nat /\ pool[l].confirm \in Nat
           /\ pool[l].origin <= pool[l].confirm
           /\ pool[l].side \in {"UPPER", "LOWER"}
  BY DEF Confirmed, LevelAccepts

(* Some time is as late as every confirmation.                             *)
LEMMA ConfirmsAreBounded ==
    ASSUME Confirmed
    PROVE  \E b \in Nat : \A l \in Level : pool[l].confirm <= b
<1> DEFINE S == {n \in Nat : \E b \in Nat : \A l \in Level : l <= n => pool[l].confirm <= b}
<1>0. LevelCount \in Nat
  OBVIOUS
<1>1. 0 \in S
  BY DEF Level
<1>2. ASSUME NEW n \in Nat, n \in S PROVE n + 1 \in S
  <2>1. PICK b \in Nat : \A l \in Level : l <= n => pool[l].confirm <= b
    BY <1>2
  <2>2. CASE n + 1 \in Level
    <3>1. pool[n + 1].confirm \in Nat
      BY <2>2, LevelFacts
    <3> DEFINE c == IF b <= pool[n + 1].confirm THEN pool[n + 1].confirm ELSE b
    <3>2. c \in Nat /\ b <= c /\ pool[n + 1].confirm <= c
      BY <3>1
    <3> HIDE DEF c
    <3>3. ASSUME NEW l \in Level, l <= n + 1 PROVE pool[l].confirm <= c
      <4>1. pool[l].confirm \in Nat /\ l \in Nat
        BY LevelFacts DEF Level
      <4>2. CASE l = n + 1
        BY <4>2, <3>2
      <4>3. CASE l # n + 1
        <5>1. l <= n
          BY <4>1, <4>3, <3>3
        <5> QED
          BY <5>1, <4>1, <2>1, <3>2
      <4> QED
        BY <4>2, <4>3
    <3> QED
      BY <3>2, <3>3
  <2>3. CASE n + 1 \notin Level
    <3>1. \A l \in Level : l <= n + 1 => l <= n
      BY <2>3 DEF Level
    <3> QED
      BY <2>1, <3>1
  <2> QED
    BY <2>2, <2>3
<1>3. LevelCount \in S
  <2> HIDE DEF S
  <2> QED
    BY <1>0, <1>1, <1>2, NatSetInduction
<1>4. PICK b \in Nat : \A l \in Level : l <= LevelCount => pool[l].confirm <= b
  BY <1>3
<1> QED
  BY <1>0, <1>4 DEF Level

-----------------------------------------------------------------------------
(* Snapshots *)

BlocksAt(time) == ComponentsOf(LevelCount, Visible(time), LinksOf(Visible(time)))
ClustersAt(time) == BuildAsOf(time).clusters

LEMMA LinksAreGraph ==
    ASSUME Confirmed, NEW S \in SUBSET Level
    PROVE  IsGraph(S, LinksOf(S))
<1>1. ASSUME NEW a \in S, NEW b \in S, Near(a, b) PROVE Near(b, a)
  <2>1. /\ pool[a].low \in Nat /\ pool[a].high \in Nat /\ pool[a].low <= pool[a].high
        /\ pool[b].low \in Nat /\ pool[b].high \in Nat /\ pool[b].low <= pool[b].high
    BY LevelFacts
  <2>2. RangeGap(pool[a], pool[b]) = RangeGap(pool[b], pool[a])
    BY <2>1 DEF RangeGap
  <2> QED
    BY <1>1, <2>2 DEF Near
<1>2. LinksOf(S) \subseteq S \X S
  BY DEF LinksOf
<1>3. \A a, b \in S : <<a, b>> \in LinksOf(S) <=> Near(a, b)
  BY DEF LinksOf
<1> QED
  BY <1>1, <1>2, <1>3 DEF IsGraph

LEMMA BlocksAreLinked ==
    ASSUME Confirmed, NEW time
    PROVE  IsSingleLinkage(BlocksAt(time), Visible(time), LinksOf(Visible(time)))
<1>1. LevelCount \in Nat /\ Visible(time) \in SUBSET (1 .. LevelCount)
  BY DEF Visible, Level
<1>2. IsGraph(Visible(time), LinksOf(Visible(time)))
  BY LinksAreGraph DEF Visible
<1> QED
  BY <1>1, <1>2, ComponentsAreSingleLinkage DEF BlocksAt

LEMMA BuildIs ==
    ASSUME NEW time
    PROVE  /\ BuildAsOf(time) = [clusters |-> {ClusterOf(block) : block \in BlocksAt(time)},
                                 explanations |-> {ExplanationOf(block) : block \in BlocksAt(time)},
                                 report |-> ReportOf(Visible(time), ClustersAt(time))]
           /\ ClustersAt(time) = {ClusterOf(block) : block \in BlocksAt(time)}
  BY DEF BuildAsOf, BlocksAt, ClustersAt

LEMMA ClusterOfMembers ==
    ASSUME NEW block
    PROVE  ClusterOf(block).members = block
  BY DEF ClusterOf

(* What a cluster of a snapshot is.                                        *)
LEMMA ClusterFacts ==
    ASSUME Confirmed, NEW time, NEW c \in ClustersAt(time)
    PROVE  /\ c.members \in BlocksAt(time) /\ c = ClusterOf(c.members)
           /\ c.members # {} /\ c.members \subseteq Visible(time) /\ c.members \subseteq Level
           /\ \E l \in c.members : c.confirm = pool[l].confirm
           /\ \A l \in c.members : pool[l].confirm <= c.confirm
           /\ \E l \in c.members : c.origin = pool[l].origin
           /\ \A l \in c.members : c.origin <= pool[l].origin
           /\ \E l \in c.members : c.side = pool[l].side
<1>1. c.members \in BlocksAt(time) /\ c = ClusterOf(c.members)
  BY BuildIs, ClusterOfMembers
<1>2. c.members # {} /\ c.members \subseteq Visible(time)
  <2>1. UNION BlocksAt(time) = Visible(time) /\ {} \notin BlocksAt(time)
    BY BlocksAreLinked DEF IsSingleLinkage
  <2> QED
    BY <1>1, <2>1
<1>3. c.members \subseteq Level
  BY <1>2 DEF Visible
<1> DEFINE confirms == {pool[l].confirm : l \in c.members}
           origins == {pool[l].origin : l \in c.members}
<1>4. confirms \in SUBSET Nat /\ origins \in SUBSET Nat /\ confirms # {} /\ origins # {}
  BY <1>2, <1>3, LevelFacts
<1>5. PICK b \in Nat : \A l \in Level : pool[l].confirm <= b
  BY ConfirmsAreBounded
<1>6. \A x \in confirms : x <= b
  BY <1>3, <1>5
<1>7. c.confirm = Max(confirms) /\ c.origin = Min(origins) /\ c.side = pool[Min(c.members)].side
  BY <1>1 DEF ClusterOf
<1> HIDE DEF confirms, origins
<1>8. c.confirm \in confirms /\ \A x \in confirms : x <= c.confirm
  BY <1>4, <1>6, <1>7, MaxFacts
<1>9. c.origin \in origins /\ \A x \in origins : c.origin <= x
  BY <1>4, <1>7, MinFacts
<1>10. Min(c.members) \in c.members
  <2>1. c.members \in SUBSET Nat
    BY <1>3 DEF Level
  <2> QED
    BY <1>2, <2>1, MinFacts
<1> QED
  BY <1>1, <1>2, <1>3, <1>7, <1>8, <1>9, <1>10 DEF confirms, origins

(* The clusters of a snapshot partition what is visible.                   *)
LEMMA ClustersPartition ==
    ASSUME Confirmed, NEW time
    PROVE  /\ \A c, d \in ClustersAt(time) : c = d \/ c.members \cap d.members = {}
           /\ \A l \in Visible(time) : \E c \in ClustersAt(time) : l \in c.members
           /\ {c.members : c \in ClustersAt(time)} = BlocksAt(time)
           /\ UNION {c.members : c \in ClustersAt(time)} = Visible(time)
<1>1. {c.members : c \in ClustersAt(time)} = BlocksAt(time)
  <2>1. \A b \in BlocksAt(time) : ClusterOf(b) \in ClustersAt(time) /\ ClusterOf(b).members = b
    BY BuildIs, ClusterOfMembers
  <2>2. \A c \in ClustersAt(time) : c.members \in BlocksAt(time)
    BY ClusterFacts
  <2> QED
    BY <2>1, <2>2
<1>2. UNION BlocksAt(time) = Visible(time)
  BY BlocksAreLinked DEF IsSingleLinkage
<1>3. \A A, B \in BlocksAt(time) : A = B \/ A \cap B = {}
  BY BlocksAreLinked DEF IsSingleLinkage
<1>4. ASSUME NEW c \in ClustersAt(time), NEW d \in ClustersAt(time), c.members = d.members
      PROVE  c = d
  <2>1. c = ClusterOf(c.members) /\ d = ClusterOf(d.members)
    BY ClusterFacts
  <2> QED
    BY <2>1, <1>4
<1>5. \A c \in ClustersAt(time) : c.members \in BlocksAt(time)
  BY ClusterFacts
<1>6. \A l \in Visible(time) : \E c \in ClustersAt(time) : l \in c.members
  BY <1>1, <1>2
<1> QED
  BY <1>1, <1>2, <1>3, <1>4, <1>5, <1>6

(* Every cluster of one time is inside one of a later time, and what is    *)
(* visible at both times of a later cluster, if all of it, is the same     *)
(* cluster at the earlier.                                                 *)
LEMMA ClustersGrow ==
    ASSUME Confirmed, NEW early, NEW late, Visible(early) \subseteq Visible(late)
    PROVE  /\ \A c \in ClustersAt(early) : \E d \in ClustersAt(late) : c.members \subseteq d.members
           /\ \A d \in ClustersAt(late) : d.members \subseteq Visible(early) => d \in ClustersAt(early)
<1>1. /\ IsSingleLinkage(BlocksAt(early), Visible(early), LinksOf(Visible(early)))
      /\ IsSingleLinkage(BlocksAt(late), Visible(late), LinksOf(Visible(late)))
  BY BlocksAreLinked
<1>2. \A a, b \in Visible(early) :
         <<a, b>> \in LinksOf(Visible(early)) <=> <<a, b>> \in LinksOf(Visible(late))
  BY DEF LinksOf
<1>3. ASSUME NEW A \in BlocksAt(early), NEW B \in BlocksAt(late), A \cap B # {}
      PROVE  A \subseteq B
  BY <1>1, <1>2, <1>3, SingleLinkagesGrow
<1>4. ASSUME NEW c \in ClustersAt(early)
      PROVE  \E d \in ClustersAt(late) : c.members \subseteq d.members
  <2>1. c.members \in BlocksAt(early) /\ c.members # {} /\ c.members \subseteq Visible(late)
    BY ClusterFacts
  <2>2. PICK l \in c.members : TRUE
    BY <2>1
  <2>3. PICK d \in ClustersAt(late) : l \in d.members
    BY <2>1, ClustersPartition
  <2>4. d.members \in BlocksAt(late)
    BY ClusterFacts
  <2> QED
    BY <1>3, <2>1, <2>3, <2>4
<1>5. ASSUME NEW d \in ClustersAt(late), d.members \subseteq Visible(early)
      PROVE  d \in ClustersAt(early)
  <2>1. d.members \in BlocksAt(late) /\ d.members # {} /\ d = ClusterOf(d.members)
    BY ClusterFacts
  <2>2. PICK l \in d.members : TRUE
    BY <2>1
  <2>3. PICK c \in ClustersAt(early) : l \in c.members
    BY <1>5, ClustersPartition
  <2>4. c.members \in BlocksAt(early) /\ c = ClusterOf(c.members)
    BY ClusterFacts
  <2>5. d.members \subseteq c.members
    <3>1. c.members \cap d.members # {}
      BY <2>3
    <3>2. Visible(early) \subseteq Visible(late)
      OBVIOUS
    <3> QED
      BY <1>1, <1>2, <1>5, <2>1, <2>4, <3>1, <3>2, SingleLinkagesStay
  <2>6. c.members \subseteq d.members
    BY <1>3, <2>1, <2>3, <2>4
  <2>7. c.members = d.members
    BY <2>5, <2>6
  <2>8. c = d
    BY <2>1, <2>4, <2>7
  <2> QED
    BY <2>8
<1> QED
  BY <1>4, <1>5

LEMMA SameVisibleSameBuild ==
    ASSUME NEW early, NEW late, Visible(early) = Visible(late)
    PROVE  BuildAsOf(early) = BuildAsOf(late)
  BY DEF BuildAsOf

LEMMA VisibleFacts ==
    ASSUME Confirmed, NEW time
    PROVE  /\ Visible(time) \subseteq Level
           /\ \A l \in Level : l \in Visible(time) <=> pool[l].confirm <= time
           /\ \A later : time \in Int /\ later \in Int /\ time <= later =>
                 Visible(time) \subseteq Visible(later)
<1>1. /\ Visible(time) \subseteq Level
      /\ \A l \in Level : l \in Visible(time) <=> pool[l].confirm <= time
  BY DEF Visible
<1>2. ASSUME NEW later, time \in Int, later \in Int, time <= later
      PROVE  Visible(time) \subseteq Visible(later)
  <2> SUFFICES ASSUME NEW l \in Visible(time) PROVE l \in Visible(later)
    OBVIOUS
  <2>1. l \in Level /\ pool[l].confirm <= time
    BY DEF Visible
  <2>2. pool[l].confirm \in Nat
    BY <2>1, LevelFacts
  <2>3. pool[l].confirm <= later
    BY <1>2, <2>1, <2>2
  <2> QED
    BY <2>1, <2>3 DEF Visible
<1> QED
  BY <1>1, <1>2

-----------------------------------------------------------------------------
(* What the contracts check of a snapshot *)

(* A cluster has one side: a block cannot be cut between its sides.        *)
LEMMA ClustersHaveOneSide ==
    ASSUME Confirmed, NEW time, NEW c \in ClustersAt(time), NEW l \in c.members
    PROVE  pool[l].side = c.side
<1> DEFINE part == {k \in c.members : pool[k].side = c.side}
<1>1. c.members \in BlocksAt(time) /\ \E k \in c.members : c.side = pool[k].side
  BY ClusterFacts
<1>2. part # {} /\ part \subseteq c.members
  BY <1>1
<1>3. part = c.members
  <2> SUFFICES ASSUME part # c.members PROVE FALSE
    OBVIOUS
  <2>1. part \in (SUBSET c.members) \ {{}, c.members}
    BY <1>2
  <2>2. PICK a \in part, b \in c.members \ part : <<a, b>> \in LinksOf(Visible(time))
    <3> HIDE DEF part
    <3>1. IsSingleLinkage(BlocksAt(time), Visible(time), LinksOf(Visible(time)))
      BY BlocksAreLinked
    <3> QED
      BY <1>1, <2>1, <3>1 DEF IsSingleLinkage
  <2>3. Near(a, b)
    BY <2>2 DEF LinksOf
  <2>4. pool[a].side = pool[b].side
    BY <2>3 DEF Near
  <2> QED
    BY <2>2, <2>4
<1> QED
  BY <1>3

LEMMA VisibleIsFinite ==
    ASSUME NEW S \in SUBSET Level
    PROVE  IsFiniteSet(S) /\ Cardinality(S) \in Nat
<1>1. IsFiniteSet(Level)
  <2>1. 1 \in Int /\ LevelCount \in Int
    OBVIOUS
  <2> QED
    BY <2>1, FS_Interval DEF Level
<1> QED
  BY <1>1, FS_Subset, FS_CardinalityType

LEMMA ClustersAreFinite ==
    ASSUME Confirmed, NEW time
    PROVE  IsFiniteSet(ClustersAt(time)) /\ Cardinality(ClustersAt(time)) \in Nat
<1> DEFINE f == [block \in BlocksAt(time) |-> ClusterOf(block)]
<1>1. BlocksAt(time) \in SUBSET SUBSET Level
  <2>1. UNION BlocksAt(time) = Visible(time)
    BY BlocksAreLinked DEF IsSingleLinkage
  <2> QED
    BY <2>1 DEF Visible
<1>2. IsFiniteSet(BlocksAt(time))
  <2>1. IsFiniteSet(SUBSET Level)
    BY VisibleIsFinite, FS_SUBSET
  <2> QED
    BY <1>1, <2>1, FS_Subset
<1>3. f \in Surjection(BlocksAt(time), ClustersAt(time))
  <2>1. ClustersAt(time) = {ClusterOf(block) : block \in BlocksAt(time)}
    BY BuildIs
  <2> QED
    BY <2>1 DEF Surjection
<1> QED
  BY <1>2, <1>3, FS_Surjection, FS_CardinalityType

(* A group per family, and a family per group.                             *)
LEMMA GroupsAreCounted ==
    ASSUME NEW members \in SUBSET Level
    PROVE  /\ Cardinality(GroupsOf(members)) = Cardinality({g.family : g \in GroupsOf(members)})
           /\ UNION {g.members : g \in GroupsOf(members)} = members
           /\ \A g, h \in GroupsOf(members) : g = h \/ g.members \cap h.members = {}
<1> DEFINE families == {FamilyOf(l) : l \in members}
           group(family) ==
             [family |-> family, members |-> {l \in members : FamilyOf(l) = family},
              explicit |-> \A l \in members : FamilyOf(l) = family => pool[l].family # NoFamily]
           groups == {group(family) : family \in families}
           f == [family \in families |-> group(family)]
           first == [l \in members |-> FamilyOf(l)]
<1>1. GroupsOf(members) = groups
  BY DEF GroupsOf
<1>2. \A family : group(family).family = family
                  /\ group(family).members = {l \in members : FamilyOf(l) = family}
  OBVIOUS
<1> HIDE DEF group
<1>3. {g.family : g \in groups} = families
  BY <1>2
<1>4. IsFiniteSet(families)
  <2>1. first \in Surjection(members, families)
    BY DEF Surjection
  <2> QED
    BY <2>1, VisibleIsFinite, FS_Surjection
<1>5. Cardinality(groups) = Cardinality(families)
  <2>1. f \in Surjection(families, groups)
    BY DEF Surjection
  <2>2. ASSUME NEW p \in families, NEW q \in families, f[p] = f[q] PROVE p = q
    <3>1. group(p) = group(q)
      BY <2>2
    <3>2. group(p).family = p /\ group(q).family = q
      BY <1>2
    <3> QED
      BY <3>1, <3>2
  <2>3. f \in [families -> groups]
    OBVIOUS
  <2> HIDE DEF f, families, groups
  <2>4. f \in Injection(families, groups)
    BY <2>2, <2>3 DEF Injection, IsInjective
  <2> QED
    BY <1>4, <2>1, <2>4, FS_Surjection
<1>6. UNION {g.members : g \in groups} = members
  <2>1. ASSUME NEW l \in members PROVE \E g \in groups : l \in g.members
    <3>1. group(FamilyOf(l)) \in groups /\ l \in group(FamilyOf(l)).members
      BY <1>2
    <3> QED
      BY <3>1
  <2>2. \A g \in groups : g.members \subseteq members
    BY <1>2
  <2> QED
    BY <2>1, <2>2
<1>7. \A g, h \in groups : g = h \/ g.members \cap h.members = {}
  <2> SUFFICES ASSUME NEW p \in families, NEW q \in families, p # q
               PROVE  group(p).members \cap group(q).members = {}
    OBVIOUS
  <2> QED
    BY <1>2
<1> QED
  BY <1>1, <1>3, <1>5, <1>6, <1>7

LEMMA ReportIsAccepted ==
    ASSUME Confirmed, NEW time
    PROVE  /\ ReportAccepts(ReportOf(Visible(time), ClustersAt(time)))
           /\ ReportOf(Visible(time), ClustersAt(time)).visible = Cardinality(Visible(time))
           /\ ReportOf(Visible(time), ClustersAt(time)).clusters = Cardinality(ClustersAt(time))
<1> DEFINE visible == Visible(time)
           clusters == ClustersAt(time)
           report == ReportOf(visible, clusters)
           upper == {l \in visible : pool[l].side = "UPPER"}
           lower == {l \in visible : pool[l].side = "LOWER"}
           single == {c \in clusters : Cardinality(c.members) = 1}
<1>1. /\ report.visible = Cardinality(visible) /\ report.clusters = Cardinality(clusters)
      /\ report.upper = Cardinality(upper) /\ report.lower = Cardinality(lower)
      /\ report.singletons = Cardinality(single)
      /\ report.merged = Cardinality(clusters \ single)
  BY SMTT(20) DEF ReportOf
<1> HIDE DEF report
<1>2. Cardinality(upper) + Cardinality(lower) = Cardinality(visible)
  <2>1. visible \subseteq Level
    BY DEF Visible
  <2>2. upper \cup lower = visible /\ upper \cap lower = {}
    BY <2>1, LevelFacts
  <2>3. IsFiniteSet(upper) /\ IsFiniteSet(lower)
        /\ Cardinality(upper) \in Nat /\ Cardinality(lower) \in Nat
    BY <2>1, VisibleIsFinite
  <2>4. Cardinality(upper \cup lower)
          = Cardinality(upper) + Cardinality(lower) - Cardinality(upper \cap lower)
    <3> HIDE DEF upper, lower
    <3> QED
      BY <2>3, FS_Union
  <2>5. Cardinality(upper \cap lower) = 0
    BY <2>2, FS_EmptySet
  <2>6. Cardinality(upper \cup lower) = Cardinality(visible)
    BY <2>2
  <2> HIDE DEF upper, lower, visible
  <2> QED
    BY <2>3, <2>4, <2>5, <2>6
<1>3. Cardinality(single) + Cardinality(clusters \ single) = Cardinality(clusters)
  <2>1. IsFiniteSet(clusters) /\ Cardinality(clusters) \in Nat
    BY ClustersAreFinite
  <2>2. clusters \cap single = single
    OBVIOUS
  <2> HIDE DEF single, clusters
  <2>3. Cardinality(clusters \ single) = Cardinality(clusters) - Cardinality(clusters \cap single)
    BY <2>1, FS_Difference
  <2>4. IsFiniteSet(clusters \cap single)
    BY <2>1, FS_Intersection
  <2>5. Cardinality(single) \in Nat
    BY <2>2, <2>4, FS_CardinalityType
  <2>6. Cardinality(clusters \cap single) = Cardinality(single)
    BY <2>2
  <2> QED
    BY <2>1, <2>3, <2>5, <2>6
<1> HIDE DEF upper, lower, single, visible, clusters
<1>4. ReportAccepts(report)
  BY <1>1, <1>2, <1>3 DEF ReportAccepts
<1> QED
  BY <1>1, <1>4 DEF report, visible, clusters

(* No build is refused by the contracts.                                   *)
LEMMA BuildIsAccepted ==
    ASSUME Confirmed, NEW time \in Nat
    PROVE  SnapshotAccepts(BuildAsOf(time), time)
<1> DEFINE built == BuildAsOf(time)
<1>1. /\ built.clusters = ClustersAt(time)
      /\ built.explanations = {ExplanationOf(block) : block \in BlocksAt(time)}
      /\ built.report = ReportOf(Visible(time), ClustersAt(time))
  BY BuildIs DEF ClustersAt
<1>2. ASSUME NEW c \in ClustersAt(time) PROVE ClusterAccepts(c) /\ c.confirm <= time
  <2>1. c.members # {} /\ c.members \subseteq Visible(time) /\ c.members \subseteq Level
    BY ClusterFacts
  <2>2. PICK l \in c.members : c.confirm = pool[l].confirm
    BY ClusterFacts
  <2>3. PICK k \in c.members : c.origin = pool[k].origin
    BY ClusterFacts
  <2>4. pool[k].confirm <= c.confirm
    BY ClusterFacts
  <2>5. /\ pool[k].origin \in Nat /\ pool[k].confirm \in Nat /\ pool[l].confirm \in Nat
        /\ pool[k].origin <= pool[k].confirm
    BY <2>1, LevelFacts
  <2>6. c.confirm >= c.origin
    BY <2>2, <2>3, <2>4, <2>5
  <2>7. c.confirm <= time
    BY <2>1, <2>2 DEF Visible
  <2>8. \A m \in c.members : pool[m].side = c.side /\ pool[m].confirm <= c.confirm
    BY ClusterFacts, ClustersHaveOneSide
  <2> QED
    BY <2>1, <2>6, <2>7, <2>8 DEF ClusterAccepts
<1>3. /\ \A c, d \in ClustersAt(time) : c = d \/ c.members \cap d.members = {}
      /\ UNION {c.members : c \in ClustersAt(time)} = Visible(time)
  BY ClustersPartition
<1>4. {e.cluster : e \in built.explanations} = ClustersAt(time)
  <2>1. \A block : ExplanationOf(block).cluster = ClusterOf(block)
    BY DEF ExplanationOf
  <2>2. ClustersAt(time) = {ClusterOf(block) : block \in BlocksAt(time)}
    BY BuildIs
  <2> HIDE DEF built
  <2> QED
    BY <1>1, <2>1, <2>2
<1>5. ASSUME NEW e \in built.explanations
      PROVE  ExplanationAccepts(e) /\ e.members = e.cluster.members
  <2>1. PICK block \in BlocksAt(time) : e = ExplanationOf(block)
    BY <1>1
  <2>2. block # {} /\ block \in SUBSET Level
    <3>1. UNION BlocksAt(time) = Visible(time) /\ {} \notin BlocksAt(time)
      BY BlocksAreLinked DEF IsSingleLinkage
    <3> QED
      BY <3>1 DEF Visible
  <2>3. /\ e.cluster = ClusterOf(block) /\ e.members = block /\ e.raw = Cardinality(block)
        /\ e.families = Cardinality(GroupsOf(block)) /\ e.groups = GroupsOf(block)
    BY <2>1 DEF ExplanationOf
  <2>4. Cardinality(block) >= 1
    <3>1. IsFiniteSet(block) /\ Cardinality(block) \in Nat
      BY <2>2, VisibleIsFinite
    <3>2. Cardinality(block) # 0
      BY <2>2, <3>1, FS_EmptySet
    <3> QED
      BY <3>1, <3>2
  <2>5. ExplanationAccepts(e)
    <3>1. /\ e.families = Cardinality({g.family : g \in e.groups})
          /\ UNION {g.members : g \in e.groups} = e.members
          /\ \A g, h \in e.groups : g = h \/ g.members \cap h.members = {}
      <4>1. /\ Cardinality(GroupsOf(block)) = Cardinality({g.family : g \in GroupsOf(block)})
            /\ UNION {g.members : g \in GroupsOf(block)} = block
            /\ \A g, h \in GroupsOf(block) : g = h \/ g.members \cap h.members = {}
        BY <2>2, GroupsAreCounted
      <4>2. {g.family : g \in e.groups} = {g.family : g \in GroupsOf(block)}
        BY <2>3
      <4>3. {g.members : g \in e.groups} = {g.members : g \in GroupsOf(block)}
        BY <2>3
      <4> QED
        BY <2>3, <4>1, <4>2, <4>3
    <3> QED
      BY <2>3, <2>4, <3>1 DEF ExplanationAccepts
  <2> QED
    BY <2>3, <2>5, ClusterOfMembers
<1> HIDE DEF built
<1>6. /\ ReportAccepts(built.report)
      /\ built.report.visible = Cardinality(Visible(time))
      /\ built.report.clusters = Cardinality(built.clusters)
  BY <1>1, ReportIsAccepted
<1>7. SnapshotAccepts(built, time)
  BY <1>1, <1>2, <1>3, <1>4, <1>5, <1>6 DEF SnapshotAccepts
<1> QED
  BY <1>7 DEF built

-----------------------------------------------------------------------------
(* Formations *)

(* The clusters of the confirm time before t, if there is one.             *)
Before(t) == UNION {BuildAsOf(u).clusters : u \in
    {u \in ConfirmTimes : u < t /\ \A v \in ConfirmTimes : v < t => v <= u}}

Formation(t, c) ==
    [firstSeen |-> t, cluster |-> c,
     supersedes |-> {old \in Before(t) : old.members \cap c.members # {}}]

(* The formations of the batch up to a time.                               *)
FormedBy(time) == {e \in BatchEvents : e.firstSeen <= time}

LEMMA BatchEventsAre ==
    /\ \A e \in BatchEvents : \E t \in ConfirmTimes : \E c \in ClustersAt(t) :
          c.confirm = t /\ e = Formation(t, c)
    /\ \A t \in ConfirmTimes : \A c \in ClustersAt(t) :
          c.confirm = t => Formation(t, c) \in BatchEvents
<1>1. BatchEvents = UNION {{Formation(t, c) : c \in {c \in ClustersAt(t) : c.confirm = t}}
                             : t \in ConfirmTimes}
  BY DEF BatchEvents, Formation, Before, ClustersAt
<1> QED
  BY <1>1

LEMMA ConfirmTimesAreTimes ==
    ASSUME Confirmed
    PROVE  ConfirmTimes \in SUBSET Nat /\ ConfirmTimes # {}
<1>1. 1 \in Level
  BY DEF Level
<1> QED
  BY <1>1, LevelFacts DEF ConfirmTimes

(* A cluster was formed at the last confirm time of its members.           *)
LEMMA ClusterWasFormed ==
    ASSUME Confirmed, NEW t \in Int, NEW c \in ClustersAt(t)
    PROVE  c.confirm \in ConfirmTimes /\ c.confirm \in Nat /\ c.confirm <= t
           /\ c \in ClustersAt(c.confirm)
<1>1. PICK l \in c.members : c.confirm = pool[l].confirm
  BY ClusterFacts
<1>2. l \in Level /\ l \in Visible(t) /\ c.members \subseteq Level
  BY ClusterFacts
<1>3. c.confirm \in ConfirmTimes /\ c.confirm \in Nat /\ c.confirm <= t
  BY <1>1, <1>2, LevelFacts DEF ConfirmTimes, Visible
<1>4. \A k \in c.members : pool[k].confirm <= c.confirm
  BY ClusterFacts
<1>5. c.members \subseteq Visible(c.confirm)
  BY <1>2, <1>4 DEF Visible
<1>6. Visible(c.confirm) \subseteq Visible(t)
  BY <1>3, VisibleFacts
<1>7. c \in ClustersAt(c.confirm)
  BY <1>5, <1>6, ClustersGrow
<1> QED
  BY <1>3, <1>7

(* Nothing becomes visible between confirm times.                          *)
LEMMA SameBetween ==
    ASSUME Confirmed, NEW a \in Int, NEW b \in Int, a <= b,
           \A v \in ConfirmTimes : v <= b => v <= a
    PROVE  Visible(a) = Visible(b) /\ ClustersAt(a) = ClustersAt(b)
<1>1. Visible(a) = Visible(b)
  <2>1. Visible(a) \subseteq Visible(b)
    BY VisibleFacts
  <2>2. \A l \in Level : pool[l].confirm \in ConfirmTimes
    BY DEF ConfirmTimes
  <2>3. Visible(b) \subseteq Visible(a)
    BY <2>2 DEF Visible
  <2> QED
    BY <2>1, <2>3
<1> QED
  BY <1>1, SameVisibleSameBuild DEF ClustersAt

LEMMA NothingAtFirst ==
    ASSUME Confirmed
    PROVE  Visible(-1) = {} /\ ClustersAt(-1) = {}
<1>1. Visible(-1) = {}
  <2> SUFFICES ASSUME NEW l \in Visible(-1) PROVE FALSE
    OBVIOUS
  <2>1. l \in Level /\ pool[l].confirm <= -1
    BY DEF Visible
  <2> QED
    BY <2>1, LevelFacts
<1>2. \A c \in ClustersAt(-1) : c.members # {} /\ c.members \subseteq Visible(-1)
  BY ClusterFacts
<1> QED
  BY <1>1, <1>2

(* The clusters before t are those of any time after the confirm time      *)
(* before t.                                                               *)
LEMMA BeforeIs ==
    ASSUME Confirmed, NEW a \in Int, NEW t \in Int, a < t, a >= -1,
           \A v \in ConfirmTimes : v < t => v <= a
    PROVE  Before(t) = ClustersAt(a)
<1>0. ConfirmTimes \in SUBSET Nat
  BY ConfirmTimesAreTimes
<1> DEFINE earlier == {v \in ConfirmTimes : v < t}
           last == {u \in ConfirmTimes : u < t /\ \A v \in ConfirmTimes : v < t => v <= u}
<1>1. CASE earlier = {}
  <2>1. Before(t) = {}
    BY <1>1 DEF Before
  <2>2. ClustersAt(a) = ClustersAt(-1)
    <3>1. \A v \in ConfirmTimes : v <= a => v <= -1
      BY <1>0, <1>1
    <3> QED
      BY <3>1, SameBetween
  <2> QED
    BY <2>1, <2>2, NothingAtFirst
<1>2. CASE earlier # {}
  <2>1. PICK u \in earlier : \A v \in earlier : v <= u
    <3>1. a \in Nat
      <4>1. PICK v \in earlier : TRUE
        BY <1>2
      <4>2. v \in Nat /\ v <= a
        BY <1>0
      <4> QED
        BY <4>2
    <3>2. earlier \in SUBSET Nat /\ \A v \in earlier : v <= a
      BY <1>0
    <3> HIDE DEF earlier
    <3> QED
      BY <1>2, <3>1, <3>2, GreatestExists
  <2>2. u \in Nat /\ u \in ConfirmTimes /\ u < t /\ u <= a
    BY <1>0
  <2>3. \A w \in last : w = u
    BY <1>0, <2>1, <2>2
  <2>4. last = {u}
    BY <2>1, <2>2, <2>3
  <2>5. Before(t) = UNION {BuildAsOf(w).clusters : w \in last}
    BY DEF Before
  <2> HIDE DEF last
  <2>6. Before(t) = ClustersAt(u)
    BY <2>4, <2>5 DEF ClustersAt
  <2>7. \A v \in ConfirmTimes : v <= a => v <= u
    BY <1>0, <2>1
  <2>8. ClustersAt(u) = ClustersAt(a)
    BY <2>2, <2>7, SameBetween
  <2> QED
    BY <2>6, <2>8
<1> QED
  BY <1>1, <1>2

(* What a loop at t adds to what it has formed up to a.                    *)
StepForms(a, t) ==
    LET fresh == {c \in ClustersAt(t) : c.confirm = t}
    IN /\ ClustersAt(t) \ {e.cluster : e \in FormedBy(a)} = fresh
       /\ FormedBy(t) = FormedBy(a) \cup {Formation(t, c) : c \in fresh}
       /\ \A c \in fresh : Formation(t, c) =
             [firstSeen |-> t, cluster |-> c,
              supersedes |-> {old \in ClustersAt(a) :
                                 old # c /\ old.members \cap c.members # {}}]

(* Up to a time that no confirm time follows before the next, the batch    *)
(* has formed what a loop adds at the next.                                *)
LEMMA FormationsOfAStep ==
    ASSUME Confirmed, NEW a \in Int, NEW t \in Int, a < t, a >= -1,
           \A v \in ConfirmTimes : v < t => v <= a
    PROVE  StepForms(a, t)
<1> DEFINE fresh == {c \in ClustersAt(t) : c.confirm = t}
<1>0. ConfirmTimes \in SUBSET Nat
  BY ConfirmTimesAreTimes
<1>1. \A s, c : Formation(s, c).firstSeen = s /\ Formation(s, c).cluster = c
  BY DEF Formation
<1>2. ASSUME NEW c \in ClustersAt(t), c.confirm # t
      PROVE  \E e \in FormedBy(a) : e.cluster = c
  <2>1. c.confirm \in ConfirmTimes /\ c.confirm \in Nat /\ c.confirm <= t
        /\ c \in ClustersAt(c.confirm)
    BY ClusterWasFormed
  <2>2. c.confirm <= a
    BY <1>2, <2>1
  <2>3. Formation(c.confirm, c) \in BatchEvents
    BY <2>1, BatchEventsAre
  <2> QED
    BY <1>1, <2>2, <2>3 DEF FormedBy
<1>3. ASSUME NEW c \in ClustersAt(t), c.confirm = t, NEW e \in FormedBy(a), e.cluster = c
      PROVE  FALSE
  <2>1. e \in BatchEvents /\ e.firstSeen <= a
    BY DEF FormedBy
  <2>2. PICK s \in ConfirmTimes : \E d \in ClustersAt(s) : d.confirm = s /\ e = Formation(s, d)
    BY <2>1, BatchEventsAre
  <2>3. s = t
    BY <1>1, <1>3, <2>2
  <2> QED
    BY <1>1, <2>1, <2>2, <2>3
<1>4. ClustersAt(t) \ {e.cluster : e \in FormedBy(a)} = fresh
  BY <1>2, <1>3
<1>5. ASSUME NEW e \in FormedBy(t), e \notin FormedBy(a)
      PROVE  \E c \in fresh : e = Formation(t, c)
  <2>1. e \in BatchEvents /\ e.firstSeen <= t /\ ~(e.firstSeen <= a)
    BY <1>5 DEF FormedBy
  <2>2. PICK s \in ConfirmTimes : \E d \in ClustersAt(s) : d.confirm = s /\ e = Formation(s, d)
    BY <2>1, BatchEventsAre
  <2>3. s = e.firstSeen /\ s \in Nat
    BY <1>0, <1>1, <2>2
  <2>4. s = t
    BY <2>1, <2>3
  <2> QED
    BY <2>2, <2>4
<1>6. \A e \in FormedBy(a) : e \in FormedBy(t)
  <2> SUFFICES ASSUME NEW e \in FormedBy(a) PROVE e \in FormedBy(t)
    OBVIOUS
  <2>1. e \in BatchEvents /\ e.firstSeen <= a
    BY DEF FormedBy
  <2>2. e.firstSeen \in Nat
    BY <1>0, <1>1, <2>1, BatchEventsAre
  <2> QED
    BY <2>1, <2>2 DEF FormedBy
<1>7. \A c \in fresh : Formation(t, c) \in FormedBy(t)
  <2> SUFFICES ASSUME NEW c \in fresh PROVE Formation(t, c) \in FormedBy(t)
    OBVIOUS
  <2>1. t \in ConfirmTimes /\ t <= t
    BY ClusterWasFormed
  <2> QED
    BY <1>1, <2>1, BatchEventsAre DEF FormedBy
<1>8. FormedBy(t) = FormedBy(a) \cup {Formation(t, c) : c \in fresh}
  <2> HIDE DEF fresh
  <2> QED
    BY <1>5, <1>6, <1>7
<1>9. ASSUME NEW c \in fresh
      PROVE  Formation(t, c) =
                    [firstSeen |-> t, cluster |-> c,
                     supersedes |-> {old \in ClustersAt(a) :
                                        old # c /\ old.members \cap c.members # {}}]
  <2>1. Before(t) = ClustersAt(a)
    BY BeforeIs
  <2>2. \A old \in ClustersAt(a) : old # c
    <3>1. \A old \in ClustersAt(a) : old.confirm \in Nat /\ old.confirm <= a
      BY ClusterWasFormed
    <3> QED
      BY <3>1
  <2>3. {old \in Before(t) : old.members \cap c.members # {}}
          = {old \in ClustersAt(a) : old # c /\ old.members \cap c.members # {}}
    BY <2>1, <2>2
  <2> QED
    BY <2>3 DEF Formation
<1> QED
  BY <1>4, <1>8, <1>9 DEF StepForms

(* The contract of the ledger accepts what the batch has formed.           *)
LEMMA FormationsAreAccepted ==
    ASSUME Confirmed, NEW e \in BatchEvents
    PROVE  /\ e.firstSeen = e.cluster.confirm /\ e.firstSeen \in ConfirmTimes
           /\ e.cluster \in ClustersAt(e.firstSeen) /\ e.cluster \notin e.supersedes
           /\ e = Formation(e.cluster.confirm, e.cluster)
           /\ \A old \in e.supersedes :
                 /\ \E f \in BatchEvents : f.cluster = old /\ f.firstSeen < e.firstSeen
                 /\ old.members \cap e.cluster.members # {}
                 /\ \E u \in ConfirmTimes : u < e.firstSeen /\ old \in ClustersAt(u)
<1>0. ConfirmTimes \in SUBSET Nat
  BY ConfirmTimesAreTimes
<1>1. PICK t \in ConfirmTimes : \E d \in ClustersAt(t) : d.confirm = t /\ e = Formation(t, d)
  BY BatchEventsAre
<1>10. PICK c \in ClustersAt(t) : c.confirm = t /\ e = Formation(t, c)
  BY <1>1
<1>2. /\ e.firstSeen = t /\ e.cluster = c
      /\ e.supersedes = {old \in Before(t) : old.members \cap c.members # {}}
  BY <1>10 DEF Formation
<1>3. ASSUME NEW old \in e.supersedes
      PROVE  /\ old # c /\ old.members \cap e.cluster.members # {}
             /\ \E f \in BatchEvents : f.cluster = old /\ f.firstSeen < t
             /\ \E u \in ConfirmTimes : u < t /\ old \in ClustersAt(u)
  <2>1. old \in Before(t) /\ old.members \cap c.members # {}
    BY <1>2
  <2>2. PICK u \in ConfirmTimes : u < t /\ old \in ClustersAt(u)
    BY <2>1 DEF Before, ClustersAt
  <2>3. u \in Nat /\ t \in Nat
    BY <1>0
  <2>4. old.confirm \in ConfirmTimes /\ old.confirm \in Nat /\ old.confirm <= u
        /\ old \in ClustersAt(old.confirm)
    BY <2>2, <2>3, ClusterWasFormed
  <2>5. Formation(old.confirm, old) \in BatchEvents
    BY <2>4, BatchEventsAre
  <2>6. Formation(old.confirm, old).cluster = old
        /\ Formation(old.confirm, old).firstSeen = old.confirm
    BY DEF Formation
  <2>7. old.confirm < t
    BY <2>2, <2>3, <2>4
  <2> QED
    BY <1>10, <1>2, <2>1, <2>2, <2>3, <2>5, <2>6, <2>7
<1> QED
  BY <1>10, <1>2, <1>3

(* What was formed and not superseded is the snapshot: a formed cluster    *)
(* that is gone was superseded when the first level joined it, by the      *)
(* cluster of that time; a cluster that is left has kept its members, and  *)
(* whatever supersedes one adds a level to it.                             *)
LEMMA LedgerTellsSnapshot ==
    ASSUME Confirmed, NEW a \in Nat
    PROVE  {e.cluster : e \in FormedBy(a)} \ UNION {e.supersedes : e \in FormedBy(a)}
             = ClustersAt(a)
<1> DEFINE seen == {e.cluster : e \in FormedBy(a)}
           gone == UNION {e.supersedes : e \in FormedBy(a)}
<1>0. ConfirmTimes \in SUBSET Nat /\ a \in Int
  BY ConfirmTimesAreTimes
<1>1. ASSUME NEW c \in ClustersAt(a) PROVE c \in seen
  <2>1. c.confirm \in ConfirmTimes /\ c.confirm <= a /\ c \in ClustersAt(c.confirm)
    BY <1>0, ClusterWasFormed
  <2>2. Formation(c.confirm, c) \in BatchEvents
    BY <2>1, BatchEventsAre
  <2>3. Formation(c.confirm, c).firstSeen = c.confirm /\ Formation(c.confirm, c).cluster = c
    BY DEF Formation
  <2> QED
    BY <2>1, <2>2, <2>3 DEF FormedBy
<1>2. ASSUME NEW c \in ClustersAt(a), NEW e \in FormedBy(a), c \in e.supersedes
      PROVE  FALSE
  <2> DEFINE d == e.cluster
             t == e.firstSeen
  <2>1. e \in BatchEvents /\ t <= a
    BY DEF FormedBy
  <2>2. /\ t = d.confirm /\ t \in ConfirmTimes /\ d \in ClustersAt(t)
        /\ c.members \cap d.members # {}
        /\ \E u \in ConfirmTimes : u < t /\ c \in ClustersAt(u)
    BY <1>2, <2>1, FormationsAreAccepted
  <2> HIDE DEF d, t
  <2>3. PICK u \in ConfirmTimes : u < t /\ c \in ClustersAt(u)
    BY <2>2
  <2>4. t \in Int /\ u \in Int
    BY <1>0, <2>2
  <2>5. Visible(t) \subseteq Visible(a)
    BY <1>0, <2>1, <2>4, VisibleFacts
  <2>6. PICK D \in ClustersAt(a) : d.members \subseteq D.members
    BY <2>2, <2>5, ClustersGrow
  <2>7. D = c
    BY <2>2, <2>6, ClustersPartition
  <2>8. PICK l \in d.members : d.confirm = pool[l].confirm
    BY <2>2, ClusterFacts
  <2>9. l \in Visible(u)
    <3>1. c.members \subseteq Visible(u)
      BY <2>3, ClusterFacts
    <3> QED
      BY <2>6, <2>7, <2>8, <3>1
  <2>10. t <= u
    BY <2>2, <2>8, <2>9 DEF Visible
  <2> QED
    BY <2>3, <2>4, <2>10
<1>3. ASSUME NEW c \in seen, c \notin ClustersAt(a) PROVE c \in gone
  <2>1. PICK f \in FormedBy(a) : f.cluster = c
    OBVIOUS
  <2>2. f \in BatchEvents /\ f.firstSeen <= a
    BY DEF FormedBy
  <2> DEFINE s == c.confirm
             missing == {t \in ConfirmTimes : s < t /\ t <= a /\ c \notin ClustersAt(t)}
  <2>3. s \in ConfirmTimes /\ s \in Nat /\ s <= a /\ c \in ClustersAt(s)
    BY <1>0, <2>1, <2>2, FormationsAreAccepted
  <2> HIDE DEF s
  <2>4. missing # {}
    <3> DEFINE upto == {t \in ConfirmTimes : t <= a}
    <3>1. PICK t \in upto : \A v \in upto : v <= t
      <4>1. upto \in SUBSET Nat /\ upto # {} /\ \A v \in upto : v <= a
        BY <1>0, <2>3
      <4> HIDE DEF upto
      <4> QED
        BY <4>1, GreatestExists
    <3>2. t \in ConfirmTimes /\ t \in Nat /\ t <= a /\ s <= t
      BY <1>0, <2>3, <3>1
    <3>3. \A v \in ConfirmTimes : v <= a => v <= t
      BY <3>1
    <3>4. ClustersAt(t) = ClustersAt(a)
      BY <1>0, <3>2, <3>3, SameBetween
    <3>5. t # s
      BY <1>3, <2>3, <3>4
    <3>6. t \in missing
      BY <1>3, <2>3, <3>2, <3>4, <3>5
    <3> QED
      BY <3>6
  <2>5. PICK t \in missing : \A v \in missing : t <= v
    <3>1. missing \in SUBSET Nat
      BY <1>0
    <3> HIDE DEF missing
    <3> QED
      BY <2>4, <3>1, LeastExists
  <2>6. t \in ConfirmTimes /\ t \in Nat /\ s < t /\ t <= a /\ c \notin ClustersAt(t)
    BY <1>0
  <2> DEFINE earlier == {v \in ConfirmTimes : v < t}
  <2>7. PICK u \in earlier : \A v \in earlier : v <= u
    <3>1. earlier \in SUBSET Nat /\ \A v \in earlier : v <= t
      <4>1. earlier \in SUBSET Nat
        BY <1>0
      <4>2. ASSUME NEW v \in earlier PROVE v <= t
        <5>1. v < t /\ v \in Nat /\ t \in Nat
          BY <2>6, <4>1
        <5> HIDE DEF earlier, missing
        <5> QED
          BY <5>1
      <4> QED
        BY <4>1, <4>2
    <3>2. s \in earlier
      BY <2>3, <2>6
    <3> HIDE DEF earlier
    <3> QED
      BY <2>6, <3>1, <3>2, GreatestExists
  <2>8. u \in ConfirmTimes /\ u \in Nat /\ u < t /\ s <= u
    BY <1>0, <2>3, <2>6, <2>7
  <2>9. c \in ClustersAt(u)
    <3>1. CASE u = s
      BY <2>3, <3>1
    <3>2. CASE u # s
      <4>1. s < u /\ u <= a
        BY <1>0, <2>3, <2>6, <2>8, <3>2
      <4>2. u \notin missing
        BY <2>5, <2>6, <2>8
      <4> QED
        BY <2>8, <4>1, <4>2
    <3> QED
      BY <3>1, <3>2
  <2>10. Before(t) = ClustersAt(u)
    <3>1. \A v \in ConfirmTimes : v < t => v <= u
      BY <2>7
    <3>2. u \in Int /\ t \in Int /\ u >= -1 /\ u < t
      BY <2>6, <2>8
    <3> QED
      BY <3>1, <3>2, BeforeIs
  <2>11. Visible(u) \subseteq Visible(t)
    BY <2>6, <2>8, VisibleFacts
  <2>12. PICK d \in ClustersAt(t) : c.members \subseteq d.members
    BY <2>9, <2>11, ClustersGrow
  <2>13. c.members # {}
    BY <2>9, ClusterFacts
  <2>14. d.confirm = t
    <3> SUFFICES ASSUME d.confirm # t PROVE FALSE
      OBVIOUS
    <3>1. d.confirm \in ConfirmTimes /\ d.confirm \in Nat /\ d.confirm <= t
          /\ d \in ClustersAt(d.confirm)
      BY <2>6, ClusterWasFormed
    <3>2. d.confirm <= u
      BY <2>6, <2>7, <3>1
    <3>3. d.members \subseteq Visible(d.confirm)
      BY <3>1, ClusterFacts
    <3>4. Visible(d.confirm) \subseteq Visible(u)
      BY <2>8, <3>1, <3>2, VisibleFacts
    <3>5. d \in ClustersAt(u)
      BY <2>11, <3>3, <3>4, ClustersGrow
    <3>6. d = c
      <4>1. d.members \cap c.members # {}
        BY <2>12, <2>13
      <4> QED
        BY <2>9, <3>5, <4>1, ClustersPartition
    <3> QED
      BY <2>6, <3>6
  <2>15. Formation(t, d) \in FormedBy(a)
    <3>1. Formation(t, d) \in BatchEvents
      BY <2>6, <2>14, BatchEventsAre
    <3>2. Formation(t, d).firstSeen = t
      BY DEF Formation
    <3> QED
      BY <2>6, <3>1, <3>2 DEF FormedBy
  <2>16. c \in Formation(t, d).supersedes
    BY <2>9, <2>10, <2>12, <2>13 DEF Formation
  <2> QED
    BY <2>15, <2>16
<1>4. \A c \in ClustersAt(a) : c \notin gone
  BY <1>2
<1> HIDE DEF seen, gone
<1>5. seen \ gone = ClustersAt(a)
  <2>1. \A c \in seen \ gone : c \in ClustersAt(a)
    BY <1>3
  <2> QED
    BY <1>1, <1>4, <2>1
<1> QED
  BY <1>5 DEF seen, gone

-----------------------------------------------------------------------------
(* The pool's clusters do not change while it is replayed                  *)

LEMMA BuildStays ==
    ASSUME UNCHANGED pool
    PROVE  /\ \A t : BuildAsOf(t)' = BuildAsOf(t)
           /\ \A t : Visible(t)' = Visible(t) /\ LinksOf(Visible(t))' = LinksOf(Visible(t))
           /\ \A t : ClustersAt(t)' = ClustersAt(t)
           /\ ConfirmTimes' = ConfirmTimes /\ BatchEvents' = BatchEvents
           /\ Confirmed' = Confirmed
<1>1. \A t : Visible(t)' = Visible(t)
  BY DEF Visible
<1>2. \A m : LinksOf(m)' = LinksOf(m)
  BY DEF LinksOf, Near
<1>3. \A m : ClusterOf(m)' = ClusterOf(m)
  BY DEF ClusterOf
<1>4. \A m : GroupsOf(m)' = GroupsOf(m)
  BY DEF GroupsOf, FamilyOf
<1>5. \A m : ExplanationOf(m)' = ExplanationOf(m)
  BY <1>3, <1>4 DEF ExplanationOf
<1>6. ASSUME NEW m, NEW c PROVE ReportOf(m, c)' = ReportOf(m, c)
  BY SMTT(20) DEF ReportOf, FamilyOf, Near
<1>7. \A t : BuildAsOf(t)' = BuildAsOf(t)
  BY <1>1, <1>2, <1>3, <1>5, <1>6 DEF BuildAsOf
<1>8. \A t : ClustersAt(t)' = ClustersAt(t)
  BY <1>7 DEF ClustersAt
<1>9. ConfirmTimes' = ConfirmTimes /\ Confirmed' = Confirmed
  BY DEF ConfirmTimes, Confirmed
<1>10. BatchEvents' = BatchEvents
  BY <1>7, <1>9 DEF BatchEvents
<1>11. \A t : LinksOf(Visible(t))' = LinksOf(Visible(t))
  BY <1>1, <1>2
<1> QED
  BY <1>1, <1>7, <1>8, <1>9, <1>10, <1>11

-----------------------------------------------------------------------------
(* The history *)

(* What holds of every replay: the snapshot is the build of the last time, *)
(* and the ledger what the batch forms up to it; a schedule that was       *)
(* accepted visits every confirm time.                                     *)
Progress ==
    IF asOf = -1
    THEN snapshot = Nothing /\ previous = {} /\ events = {}
    ELSE /\ status \in {"RUNNING", "DONE"} /\ asOf \in schedule
         /\ snapshot = BuildAsOf(asOf) /\ previous = ClustersAt(asOf)
         /\ events = FormedBy(asOf)

Accepted ==
    status \in {"RUNNING", "DONE"} => Confirmed /\ ConfirmTimes \subseteq schedule

PoolInv ==
    /\ pool \in Pools /\ schedule \in SUBSET Nat /\ asOf \in Nat \cup {-1}
    /\ status \in {"READY", "RUNNING", "DONE", "REFUSED"}
    /\ mode \in {"BATCH", "REPLAY"} /\ (mode = "BATCH" => schedule = ConfirmTimes \ {NoTime})
    /\ Accepted /\ Progress
    /\ status = "DONE" => \A time \in schedule : time <= asOf

LEMMA SamePoolSameHistory ==
    ASSUME UNCHANGED <<pool, asOf>>
    PROVE  /\ BuildAsOf(asOf)' = BuildAsOf(asOf) /\ ClustersAt(asOf)' = ClustersAt(asOf)
           /\ FormedBy(asOf)' = FormedBy(asOf)
<1>1. /\ \A t : BuildAsOf(t)' = BuildAsOf(t) /\ ClustersAt(t)' = ClustersAt(t)
      /\ BatchEvents' = BatchEvents
  BY BuildStays
<1> QED
  BY <1>1 DEF FormedBy

LEMMA InitPoolInv == Init => PoolInv
<1> SUFFICES ASSUME Init PROVE PoolInv
  OBVIOUS
<1>1. schedule \in SUBSET Nat
  <2>1. CASE schedule = ConfirmTimes \ {NoTime}
    <3>1. ConfirmTimes \in SUBSET (Nat \cup {NoTime})
      BY DEF Init, ConfirmTimes
    <3> QED
      BY <2>1, <3>1
  <2>2. CASE schedule \in Schedules
    BY <2>2
  <2> QED
    BY <2>1, <2>2 DEF Init
<1> QED
  BY <1>1 DEF Init, PoolInv, Accepted, Progress

(* Every confirm time forms a cluster, which no time before has.           *)
LEMMA ConfirmTimesForm ==
    ASSUME Confirmed
    PROVE  FirstSeenTimes = ConfirmTimes
<1>1. FirstSeenTimes = {t \in ConfirmTimes : \E c \in ClustersAt(t) :
                           \A u \in ConfirmTimes : u < t => c \notin ClustersAt(u)}
  BY DEF FirstSeenTimes, ClustersAt
<1>2. ASSUME NEW t \in ConfirmTimes
      PROVE  \E c \in ClustersAt(t) : \A u \in ConfirmTimes : u < t => c \notin ClustersAt(u)
  <2>1. PICK l \in Level : pool[l].confirm = t
    BY DEF ConfirmTimes
  <2>2. t \in Nat
    BY ConfirmTimesAreTimes
  <2>3. l \in Visible(t)
    BY <2>1, <2>2 DEF Visible
  <2>4. PICK c \in ClustersAt(t) : l \in c.members
    BY <2>3, ClustersPartition
  <2>5. ASSUME NEW u \in ConfirmTimes, u < t, c \in ClustersAt(u) PROVE FALSE
    <3>1. l \in Visible(u)
      BY <2>4, <2>5, ClusterFacts
    <3>2. u \in Nat
      BY ConfirmTimesAreTimes
    <3> QED
      BY <2>1, <2>2, <2>5, <3>1, <3>2 DEF Visible
  <2> QED
    BY <2>5
<1> QED
  BY <1>1, <1>2

LEMMA StartKeeps ==
    ASSUME PoolInv, Start
    PROVE  PoolInv'
<1>1. UNCHANGED <<pool, mode, schedule, asOf, snapshot, previous, events>> /\ status = "READY"
  BY DEF Start
<1>2. asOf = -1
  BY <1>1 DEF PoolInv, Progress
<1>3. ASSUME status' = "RUNNING" PROVE Confirmed /\ ConfirmTimes \subseteq schedule
  <2>1. InputAccepts /\ ~ScheduleRefused
    BY <1>3 DEF Start
  <2>2. Confirmed
    BY <2>1 DEF Confirmed, InputAccepts, PoolInv
  <2>3. NoTime \notin ConfirmTimes
    BY <2>2 DEF Confirmed, ConfirmTimes
  <2>4. CASE mode = "BATCH"
    BY <2>2, <2>3, <2>4 DEF PoolInv
  <2>5. CASE mode = "REPLAY"
    BY <2>1, <2>2, <2>5, ConfirmTimesForm DEF ScheduleRefused
  <2> QED
    BY <2>2, <2>4, <2>5 DEF PoolInv
<1>4. status' \in {"RUNNING", "REFUSED"}
  BY DEF Start
<1>5. ConfirmTimes' = ConfirmTimes /\ Confirmed' = Confirmed
  BY <1>1, BuildStays
<1>6. Accepted'
  BY <1>1, <1>3, <1>4, <1>5 DEF Accepted
<1>7. Progress'
  BY <1>1, <1>2 DEF PoolInv, Progress
<1> QED
  BY <1>1, <1>4, <1>5, <1>6, <1>7 DEF PoolInv

(* One time of the schedule: nothing raises, and the ledger grows as the   *)
(* batch's.                                                                *)
LEMMA ProcessStep ==
    ASSUME PoolInv, Process
    PROVE  /\ asOf' \in schedule /\ asOf' > asOf
           /\ snapshot' = BuildAsOf(asOf') /\ previous' = ClustersAt(asOf')
           /\ events' = FormedBy(asOf') /\ status' = "RUNNING"
           /\ UNCHANGED <<pool, mode, schedule>>
<1>1. status = "RUNNING" /\ UNCHANGED <<pool, mode, schedule>>
  BY DEF Process
<1>2. Confirmed /\ ConfirmTimes \subseteq schedule
  BY <1>1 DEF PoolInv, Accepted
<1>3. PICK time \in schedule :
        /\ time > asOf /\ \A other \in schedule : other > asOf => time <= other
        /\ LET built == BuildAsOf(time)
               fresh == built.clusters \ Seen
           IN IF ~SnapshotAccepts(built, time) \/ \E c \in fresh : c.confirm # time
              THEN status' = "RAISED" /\ UNCHANGED <<asOf, snapshot, previous, events>>
              ELSE /\ asOf' = time /\ snapshot' = built /\ previous' = Remembered(built)
                   /\ events' = events \cup
                        {[firstSeen |-> time, cluster |-> c, supersedes |-> Superseded(c)]
                           : c \in fresh}
                   /\ UNCHANGED status
  BY DEF Process
<1>4. time \in Nat /\ asOf \in Int /\ asOf >= -1 /\ asOf < time /\ ConfirmTimes \in SUBSET Nat
  <2>1. time > asOf
    BY <1>3
  <2>2. schedule \in SUBSET Nat /\ asOf \in Nat \cup {-1}
    BY DEF PoolInv
  <2>3. ConfirmTimes \in SUBSET Nat
    BY <1>2, ConfirmTimesAreTimes
  <2> QED
    BY <2>1, <2>2, <2>3
<1>5. \A v \in ConfirmTimes : v < time => v <= asOf
  BY <1>2, <1>3, <1>4
<1>6. previous = ClustersAt(asOf) /\ events = FormedBy(asOf)
  <2>1. CASE asOf = -1
    <3>1. previous = {} /\ events = {}
      BY <2>1 DEF PoolInv, Progress
    <3>2. \A e \in BatchEvents : e.firstSeen \in Nat
      BY <1>2, <1>4, FormationsAreAccepted
    <3>3. FormedBy(-1) = {}
      BY <3>2 DEF FormedBy
    <3> QED
      BY <1>2, <2>1, <3>1, <3>3, NothingAtFirst
  <2>2. CASE asOf # -1
    BY <2>2 DEF PoolInv, Progress
  <2> QED
    BY <2>1, <2>2
<1> DEFINE fresh == {c \in ClustersAt(time) : c.confirm = time}
<1>7. /\ ClustersAt(time) \ {e.cluster : e \in FormedBy(asOf)} = fresh
      /\ FormedBy(time) = FormedBy(asOf) \cup {Formation(time, c) : c \in fresh}
      /\ \A c \in fresh : Formation(time, c) =
            [firstSeen |-> time, cluster |-> c,
             supersedes |-> {old \in ClustersAt(asOf) :
                                old # c /\ old.members \cap c.members # {}}]
  <2>1. StepForms(asOf, time)
    BY <1>2, <1>4, <1>5, FormationsOfAStep
  <2> QED
    BY <2>1, Zenon DEF StepForms
<1>8. BuildAsOf(time).clusters \ Seen = fresh
  BY <1>6, <1>7 DEF Seen, ClustersAt
<1>9. \A c \in fresh : Formation(time, c) =
         [firstSeen |-> time, cluster |-> c, supersedes |-> Superseded(c)]
  BY <1>6, <1>7 DEF Superseded
<1>10. SnapshotAccepts(BuildAsOf(time), time) /\ \A c \in fresh : c.confirm = time
  BY <1>2, <1>4, BuildIsAccepted
<1> HIDE DEF fresh
<1>11. /\ asOf' = time /\ snapshot' = BuildAsOf(time)
       /\ previous' = Remembered(BuildAsOf(time)) /\ UNCHANGED status
       /\ events' = events \cup
            {[firstSeen |-> time, cluster |-> c, supersedes |-> Superseded(c)] : c \in fresh}
  BY <1>3, <1>8, <1>10
<1>12. events' = FormedBy(time)
  BY <1>6, <1>7, <1>9, <1>11
<1>13. previous' = ClustersAt(time)
  BY <1>11 DEF Remembered, ClustersAt
<1> QED
  BY <1>1, <1>3, <1>11, <1>12, <1>13

LEMMA ProcessKeeps ==
    ASSUME PoolInv, Process
    PROVE  PoolInv'
<1>1. /\ asOf' \in schedule /\ asOf' > asOf
      /\ snapshot' = BuildAsOf(asOf') /\ previous' = ClustersAt(asOf')
      /\ events' = FormedBy(asOf') /\ status' = "RUNNING"
      /\ UNCHANGED <<pool, mode, schedule>>
  BY ProcessStep
<1>2. status = "RUNNING"
  BY DEF Process
<1>3. /\ Confirmed' = Confirmed /\ ConfirmTimes' = ConfirmTimes /\ BatchEvents' = BatchEvents
      /\ \A t : BuildAsOf(t)' = BuildAsOf(t) /\ ClustersAt(t)' = ClustersAt(t)
  BY <1>1, BuildStays
<1>4. Accepted'
  BY <1>1, <1>2, <1>3 DEF PoolInv, Accepted
<1>5. asOf' \in Nat
  BY <1>1 DEF PoolInv
<1>6. events' = {e \in BatchEvents' : e.firstSeen <= asOf'}
  BY <1>1, <1>3 DEF FormedBy
<1>7. BuildAsOf(asOf)' = BuildAsOf(asOf') /\ ClustersAt(asOf)' = ClustersAt(asOf')
  BY <1>3
<1>8. Progress'
  BY <1>1, <1>5, <1>6, <1>7 DEF Progress, FormedBy
<1> QED
  BY <1>1, <1>3, <1>4, <1>5, <1>8 DEF PoolInv

LEMMA FinishKeeps ==
    ASSUME PoolInv, Finish
    PROVE  PoolInv'
<1>1. /\ status = "RUNNING" /\ \A time \in schedule : time <= asOf
      /\ UNCHANGED <<pool, mode, schedule, asOf, snapshot, previous, events>>
      /\ status' = IF schedule # {} /\ HistoryAccepts THEN "DONE" ELSE "RAISED"
  BY DEF Finish
<1>2. Confirmed /\ ConfirmTimes \subseteq schedule
  BY <1>1 DEF PoolInv, Accepted
<1>3. ConfirmTimes \in SUBSET Nat /\ ConfirmTimes # {} /\ schedule # {}
  BY <1>2, ConfirmTimesAreTimes
<1>4. asOf \in Nat /\ snapshot = BuildAsOf(asOf) /\ events = FormedBy(asOf)
  <2>1. asOf # -1
    BY <1>1, <1>2, <1>3
  <2> QED
    BY <2>1 DEF PoolInv, Progress
<1>5. HistoryAccepts
  <2>1. ASSUME NEW e \in events, NEW f \in events, e.cluster = f.cluster PROVE e = f
    BY <1>2, <1>4, <2>1, FormationsAreAccepted DEF FormedBy
  <2>2. ASSUME NEW e \in events
        PROVE  /\ e.firstSeen = e.cluster.confirm /\ e.firstSeen <= asOf
               /\ e.cluster \notin e.supersedes
               /\ \A old \in e.supersedes :
                     /\ \E f \in events : f.cluster = old /\ f.firstSeen < e.firstSeen
                     /\ old.members \cap e.cluster.members # {}
    <3>1. e \in BatchEvents /\ e.firstSeen <= asOf
      BY <1>4 DEF FormedBy
    <3>2. e.firstSeen \in Nat
      BY <1>2, <1>3, <3>1, FormationsAreAccepted
    <3>3. ASSUME NEW old \in e.supersedes
          PROVE  \E f \in events : f.cluster = old /\ f.firstSeen < e.firstSeen
      <4>1. PICK f \in BatchEvents : f.cluster = old /\ f.firstSeen < e.firstSeen
        BY <1>2, <3>1, FormationsAreAccepted
      <4>2. f.firstSeen \in Nat
        BY <1>2, <1>3, FormationsAreAccepted
      <4>3. f \in events
        BY <1>4, <3>1, <3>2, <4>1, <4>2 DEF FormedBy
      <4> QED
        BY <4>1, <4>3
    <3> QED
      BY <1>2, <3>1, <3>3, FormationsAreAccepted
  <2>3. snapshot.clusters \subseteq Seen
    <3>1. {e.cluster : e \in FormedBy(asOf)} \ UNION {e.supersedes : e \in FormedBy(asOf)}
             = ClustersAt(asOf)
      BY <1>2, <1>4, LedgerTellsSnapshot
    <3> QED
      BY <1>4, <3>1 DEF Seen, ClustersAt
  <2> QED
    BY <2>1, <2>2, <2>3 DEF HistoryAccepts
<1>6. status' = "DONE"
  BY <1>1, <1>3, <1>5
<1>7. Confirmed' = Confirmed /\ ConfirmTimes' = ConfirmTimes
  BY <1>1, BuildStays
<1>8. Accepted'
  BY <1>1, <1>2, <1>7 DEF Accepted
<1>9. Progress'
  BY <1>1, <1>6, SamePoolSameHistory DEF PoolInv, Progress
<1> QED
  BY <1>1, <1>6, <1>7, <1>8, <1>9 DEF PoolInv

LEMMA NextPoolInv == PoolInv /\ [Next]_vars => PoolInv'
<1> SUFFICES ASSUME PoolInv, [Next]_vars PROVE PoolInv'
  OBVIOUS
<1>1. CASE Start
  BY <1>1, StartKeeps
<1>2. CASE Process
  BY <1>2, ProcessKeeps
<1>3. CASE Finish
  BY <1>3, FinishKeeps
<1>4. CASE UNCHANGED vars
  <2>1. UNCHANGED <<pool, mode, schedule, asOf, snapshot, previous, events, status>>
    BY <1>4 DEF vars
  <2>2. Progress'
    BY <2>1, SamePoolSameHistory DEF PoolInv, Progress
  <2>3. Accepted' /\ ConfirmTimes' = ConfirmTimes
    BY <2>1, BuildStays DEF PoolInv, Accepted
  <2> QED
    BY <2>1, <2>2, <2>3 DEF PoolInv
<1> QED
  BY <1>1, <1>2, <1>3, <1>4 DEF Next

LEMMA SpecPoolInv == Spec => []PoolInv
  BY InitPoolInv, NextPoolInv, PTL DEF Spec

-----------------------------------------------------------------------------
(* Theorems *)

(* LevelPool.ClustersAreLinked.                                            *)
THEOREM ClustersAreAlwaysLinked == Spec => []ClustersAreLinked
<1>1. PoolInv => ClustersAreLinked
  <2> SUFFICES ASSUME PoolInv, asOf >= 0
               PROVE  IsSingleLinkage({c.members : c \in snapshot.clusters}, Visible(asOf),
                                      LinksOf(Visible(asOf)))
    BY DEF ClustersAreLinked
  <2>1. status \in {"RUNNING", "DONE"} /\ snapshot = BuildAsOf(asOf)
    <3>1. asOf # -1
      OBVIOUS
    <3> QED
      BY <3>1 DEF PoolInv, Progress
  <2>2. Confirmed
    BY <2>1 DEF PoolInv, Accepted
  <2>3. snapshot.clusters = ClustersAt(asOf)
    BY <2>1 DEF ClustersAt
  <2>4. {c.members : c \in ClustersAt(asOf)} = BlocksAt(asOf)
    BY <2>2, ClustersPartition
  <2>5. IsSingleLinkage(BlocksAt(asOf), Visible(asOf), LinksOf(Visible(asOf)))
    BY <2>2, BlocksAreLinked
  <2> QED
    BY <2>3, <2>4, <2>5
<1> QED
  BY <1>1, SpecPoolInv, PTL

(* LevelPool.LedgerIsSnapshot.                                             *)
THEOREM LedgerIsAlwaysSnapshot == Spec => []LedgerIsSnapshot
<1>1. PoolInv => LedgerIsSnapshot
  <2> SUFFICES ASSUME PoolInv PROVE LedgerIsSnapshot
    OBVIOUS
  <2>1. CASE asOf = -1
    <3>1. snapshot = Nothing /\ events = {}
      BY <2>1 DEF PoolInv, Progress
    <3> QED
      BY <3>1 DEF LedgerIsSnapshot, Seen, Nothing
  <2>2. CASE asOf # -1
    <3>1. /\ status \in {"RUNNING", "DONE"} /\ snapshot = BuildAsOf(asOf)
          /\ events = FormedBy(asOf) /\ asOf \in Nat
      BY <2>2 DEF PoolInv, Progress
    <3>2. Confirmed
      BY <3>1 DEF PoolInv, Accepted
    <3>3. {e.cluster : e \in FormedBy(asOf)} \ UNION {e.supersedes : e \in FormedBy(asOf)}
             = ClustersAt(asOf)
      BY <3>1, <3>2, LedgerTellsSnapshot
    <3> QED
      BY <3>1, <3>3 DEF LedgerIsSnapshot, Seen, ClustersAt
  <2> QED
    BY <2>1, <2>2
<1> QED
  BY <1>1, SpecPoolInv, PTL

(* LevelPool.ReplaysAgree.                                                 *)
THEOREM ReplaysAlwaysAgree == Spec => []ReplaysAgree
<1>1. PoolInv => ReplaysAgree
  <2> SUFFICES ASSUME PoolInv PROVE ReplaysAgree
    OBVIOUS
  <2>1. status # "RAISED"
    BY DEF PoolInv
  <2>2. ASSUME status = "DONE" PROVE events = BatchEvents
    <3>1. Confirmed /\ ConfirmTimes \subseteq schedule /\ \A time \in schedule : time <= asOf
      BY <2>2 DEF PoolInv, Accepted
    <3>2. ConfirmTimes \in SUBSET Nat /\ ConfirmTimes # {}
      BY <3>1, ConfirmTimesAreTimes
    <3>3. asOf # -1
      <4>1. PICK t \in ConfirmTimes : TRUE
        BY <3>2
      <4>2. t \in Nat /\ t <= asOf
        BY <3>1, <3>2, <4>1
      <4> QED
        BY <4>2
    <3>4. events = FormedBy(asOf)
      BY <3>3 DEF PoolInv, Progress
    <3>5. \A e \in BatchEvents : e.firstSeen \in ConfirmTimes
      BY <3>1, FormationsAreAccepted
    <3>6. \A e \in BatchEvents : e.firstSeen <= asOf
      BY <3>1, <3>5
    <3> QED
      BY <3>4, <3>6 DEF FormedBy
  <2> QED
    BY <2>1, <2>2 DEF ReplaysAgree
<1> QED
  BY <1>1, SpecPoolInv, PTL
=============================================================================
