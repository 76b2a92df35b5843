----------------------------- MODULE LevelPool -----------------------------
(***************************************************************************)
(* The level pool (C-005): confirmed levels grouped into structure         *)
(* clusters by price, and the ledger of cluster formations.                *)
(*                                                                         *)
(* LevelPoolClusterer._history_for_schedule runs build_as_of, from         *)
(* nothing, at every time of a schedule; a cluster not seen before is a    *)
(* formation, which supersedes the clusters of the snapshot before that    *)
(* share a member with it.  A cluster id is a digest of the members, so a  *)
(* cluster is identified with its content.  Levels are numbered in the     *)
(* order of their ids, the order _candidate_key sorts them in.             *)
(***************************************************************************)
EXTENDS SingleLink, FiniteSets, FiniteSetsExt

CONSTANTS
    LevelCount,         \* how many levels a pool holds
    Pools,              \* the pools: facts of the levels 1 .. LevelCount
    Schedules,          \* the processing times an explicit replay may pass
    ToleranceMode,      \* ABSOLUTE or NORMALIZED
    AbsoluteTolerance, NormalizationUnit, NormalizedTolerance,  \* or NoDecimal
    NoDecimal, NoFamily, NoTime

Level == 1 .. LevelCount

(* LevelPoolConfig.__post_init__ *)
ConfigAccepts ==
    \/ /\ ToleranceMode = "ABSOLUTE" /\ AbsoluteTolerance \in Nat
       /\ NormalizationUnit = NoDecimal /\ NormalizedTolerance = NoDecimal
    \/ /\ ToleranceMode = "NORMALIZED" /\ AbsoluteTolerance = NoDecimal
       /\ NormalizationUnit \in Nat \ {0} /\ NormalizedTolerance \in Nat

EffectiveTolerance ==
    IF ToleranceMode = "ABSOLUTE" THEN AbsoluteTolerance
    ELSE NormalizationUnit * NormalizedTolerance

(* LevelCandidate.__post_init__: a forming level has no confirm time. *)
LevelAccepts(level) ==
    /\ level.low <= level.high /\ level.side \in {"UPPER", "LOWER"}
    /\ level.confirm # NoTime => level.confirm >= level.origin

ASSUME LevelPoolAssumption ==
    /\ LevelCount \in Nat \ {0} /\ ConfigAccepts
    /\ \A pool \in Pools : \A l \in Level :
          /\ LevelAccepts(pool[l])
          /\ pool[l].low \in Nat /\ pool[l].high \in Nat /\ pool[l].origin \in Nat
          /\ pool[l].confirm \in Nat \cup {NoTime}
    /\ \A schedule \in Schedules : schedule \subseteq Nat

VARIABLES
    pool,       \* LevelPoolInput: the levels and the families assigned to them
    mode,       \* BATCH, or REPLAY on a schedule of the caller's
    schedule,   \* the times at which the pool is built
    asOf,       \* the last of them, -1 before any
    snapshot,   \* the last build_as_of, Nothing before any
    previous,   \* its clusters, as the loop remembers them
    events,     \* the formations so far
    status      \* RUNNING, DONE, REFUSED (an input error) or RAISED

vars == <<pool, mode, schedule, asOf, snapshot, previous, events, status>>

Nothing == [clusters |-> {}, explanations |-> {}, report |-> {}]

-----------------------------------------------------------------------------

(* families.py dependency_family_id: a level without an assignment is a    *)
(* family of its own.                                                      *)
FamilyOf(l) ==
    IF pool[l].family = NoFamily THEN <<"candidate", l>> ELSE <<"family", pool[l].family>>

(* LevelPoolInput.__post_init__: confirmed levels only, no family on both  *)
(* sides.                                                                  *)
InputAccepts ==
    /\ \A l \in Level : pool[l].confirm # NoTime
    /\ \A l, k \in Level :
          pool[l].family # NoFamily /\ pool[k].family = pool[l].family
              => pool[k].side = pool[l].side

(* Mutant of Visible: by origin, as if a level were known at once. *)
Originated(time) == {l \in Level : pool[l].origin <= time}

Visible(time) == {l \in Level : pool[l].confirm <= time}

Near(l, k) ==
    /\ pool[l].side = pool[k].side
    /\ RangeGap(pool[l], pool[k]) <= EffectiveTolerance

(* The pairs of members that _components joins. *)
LinksOf(members) == {pair \in members \X members : Near(pair[1], pair[2])}

(* _build_cluster; its id stands for all of it. *)
ClusterOf(members) ==
    [members |-> members,
     side |-> pool[Min(members)].side,
     low |-> Min({pool[l].low : l \in members}),
     high |-> Max({pool[l].high : l \in members}),
     origin |-> Min({pool[l].origin : l \in members}),
     confirm |-> Max({pool[l].confirm : l \in members})]

(* build_dependency_groups *)
GroupsOf(members) ==
    {[family |-> family,
      members |-> {l \in members : FamilyOf(l) = family},
      explicit |-> \A l \in members : FamilyOf(l) = family => pool[l].family # NoFamily]
        : family \in {FamilyOf(l) : l \in members}}

ExplanationOf(members) ==
    [cluster |-> ClusterOf(members), members |-> members, raw |-> Cardinality(members),
     families |-> Cardinality(GroupsOf(members)), groups |-> GroupsOf(members)]

(* _build_report: the counts the snapshot and the report check. *)
ReportOf(visible, clusters) ==
    LET count(P(_)) == Cardinality({l \in visible : P(l)})
        single == {c \in clusters : Cardinality(c.members) = 1}
        families == {FamilyOf(l) : l \in visible}
        inCluster(family) == {c \in clusters : \E l \in c.members : FamilyOf(l) = family}
    IN [visible |-> Cardinality(visible),
        upper |-> count(LAMBDA l : pool[l].side = "UPPER"),
        lower |-> count(LAMBDA l : pool[l].side = "LOWER"),
        clusters |-> Cardinality(clusters),
        singletons |-> Cardinality(single),
        merged |-> Cardinality(clusters \ single),
        edges |-> Cardinality({e \in visible \X visible : e[1] < e[2] /\ Near(e[1], e[2])}),
        explicit |-> count(LAMBDA l : pool[l].family # NoFamily),
        implicit |-> count(LAMBDA l : pool[l].family = NoFamily),
        families |-> Cardinality(families),
        split |-> Cardinality({f \in families : Cardinality(inCluster(f)) > 1})]

(* build_as_of *)
BuildAsOf(time) ==
    LET visible == Visible(time)
        blocks == ComponentsOf(LevelCount, visible, LinksOf(visible))
        clusters == {ClusterOf(block) : block \in blocks}
    IN [clusters |-> clusters,
        explanations |-> {ExplanationOf(block) : block \in blocks},
        report |-> ReportOf(visible, clusters)]

-----------------------------------------------------------------------------

(* StructureCluster.__post_init__ *)
ClusterAccepts(cluster) ==
    /\ cluster.members # {} /\ cluster.confirm >= cluster.origin
    /\ \A l \in cluster.members :
          pool[l].side = cluster.side /\ pool[l].confirm <= cluster.confirm

(* DependencyGroup and ClusterExplanation.__post_init__ *)
ExplanationAccepts(explanation) ==
    /\ explanation.raw = Cardinality(explanation.members) /\ explanation.raw >= 1
    /\ explanation.families = Cardinality({g.family : g \in explanation.groups})
    /\ UNION {g.members : g \in explanation.groups} = explanation.members
    /\ \A g, h \in explanation.groups : g = h \/ g.members \cap h.members = {}

(* LevelPoolReport.__post_init__ *)
ReportAccepts(report) ==
    /\ report.upper + report.lower = report.visible
    /\ report.singletons + report.merged = report.clusters

(* LevelPoolSnapshot.__post_init__: the clusters partition what is visible.*)
SnapshotAccepts(built, time) ==
    /\ \A c \in built.clusters : ClusterAccepts(c) /\ c.confirm <= time
    /\ \A c, d \in built.clusters : c = d \/ c.members \cap d.members = {}
    /\ UNION {c.members : c \in built.clusters} = Visible(time)
    /\ {e.cluster : e \in built.explanations} = built.clusters
    /\ \A e \in built.explanations : ExplanationAccepts(e) /\ e.members = e.cluster.members
    /\ ReportAccepts(built.report)
    /\ built.report.visible = Cardinality(Visible(time))
    /\ built.report.clusters = Cardinality(built.clusters)
-----------------------------------------------------------------------------

ConfirmTimes == {pool[l].confirm : l \in Level}

(* build_batch: the formations on the default schedule, all at once. *)
FirstSeenTimes ==
    LET clustersAt == [t \in ConfirmTimes |-> BuildAsOf(t).clusters]
    IN {t \in ConfirmTimes : \E c \in clustersAt[t] :
            \A u \in ConfirmTimes : u < t => c \notin clustersAt[u]}

Init ==
    /\ pool \in Pools
    /\ \/ mode = "BATCH" /\ schedule = ConfirmTimes \ {NoTime}
       \/ mode = "REPLAY" /\ schedule \in Schedules
    /\ asOf = -1 /\ snapshot = Nothing /\ previous = {} /\ events = {}
    /\ status = "READY"

(* Mutant of ScheduleRefused: any schedule will do. *)
AnySchedule == FALSE

(* replay_history: an explicit schedule must visit every time at which the *)
(* batch forms a cluster.                                                  *)
ScheduleRefused == mode = "REPLAY" /\ ~(FirstSeenTimes \subseteq schedule)

(* LevelPoolInput is built and the schedule is checked. *)
Start ==
    /\ status = "READY"
    /\ status' = IF ~InputAccepts \/ ScheduleRefused THEN "REFUSED" ELSE "RUNNING"
    /\ UNCHANGED <<pool, mode, schedule, asOf, snapshot, previous, events>>

Seen == {event.cluster : event \in events}

Superseded(cluster) ==
    {old \in previous : old # cluster /\ old.members \cap cluster.members # {}}

(* Mutant of Remembered: the loop forgets to move on. *)
NotRemembered(built) == previous

Remembered(built) == built.clusters

(* One time of the schedule. *)
Process ==
    /\ status = "RUNNING"
    /\ \E time \in schedule :
          /\ time > asOf /\ \A other \in schedule : other > asOf => time <= other
          /\ LET built == BuildAsOf(time)
                 fresh == built.clusters \ Seen
             IN IF ~SnapshotAccepts(built, time) \/ \E c \in fresh : c.confirm # time
                THEN status' = "RAISED" /\ UNCHANGED <<asOf, snapshot, previous, events>>
                ELSE /\ asOf' = time /\ snapshot' = built /\ previous' = Remembered(built)
                     /\ events' = events \cup
                          {[firstSeen |-> time, cluster |-> c, supersedes |-> Superseded(c)]
                             : c \in fresh}
                     /\ UNCHANGED status
    /\ UNCHANGED <<pool, mode, schedule>>

(* ClusterFormationEvent and LevelPoolHistory.__post_init__ *)
HistoryAccepts ==
    /\ \A e, f \in events : e.cluster = f.cluster => e = f
    /\ \A e \in events :
          /\ e.firstSeen = e.cluster.confirm /\ e.firstSeen <= asOf
          /\ e.cluster \notin e.supersedes
          /\ \A old \in e.supersedes :
                /\ \E f \in events : f.cluster = old /\ f.firstSeen < e.firstSeen
                /\ old.members \cap e.cluster.members # {}
    /\ snapshot.clusters \subseteq Seen

(* The schedule is exhausted and the history is built. *)
Finish ==
    /\ status = "RUNNING" /\ \A time \in schedule : time <= asOf
    /\ status' = IF schedule # {} /\ HistoryAccepts THEN "DONE" ELSE "RAISED"
    /\ UNCHANGED <<pool, mode, schedule, asOf, snapshot, previous, events>>

Next == Start \/ Process \/ Finish

Spec == Init /\ [][Next]_vars

-----------------------------------------------------------------------------

(* The clusters of a snapshot are the single linkage of what was confirmed *)
(* by then, whatever the ids of the levels: no two levels of one side      *)
(* within the tolerance are in different clusters, and every cluster hangs *)
(* together by such pairs (union-find over pairs in id order,              *)
(* clustering.py:88).                                                      *)
ClustersAreLinked ==
    asOf >= 0 => IsSingleLinkage({c.members : c \in snapshot.clusters}, Visible(asOf), LinksOf(Visible(asOf)))

(* The ledger alone tells the snapshot: the clusters formed and not        *)
(* superseded are those of the last snapshot, although each formation was  *)
(* compared with one snapshot only (clustering.py:485-514).                *)
LedgerIsSnapshot ==
    Seen \ UNION {event.supersedes : event \in events} = snapshot.clusters

(* What a batch forms, without the loop: a cluster forms at the last       *)
(* confirm time of its members, from the clusters of the confirm time      *)
(* before.                                                                 *)
BatchEvents ==
    LET before(t) == UNION {BuildAsOf(u).clusters : u \in
            {u \in ConfirmTimes : u < t /\ \A v \in ConfirmTimes : v < t => v <= u}}
    IN UNION {{[firstSeen |-> t, cluster |-> c,
                supersedes |-> {old \in before(t) : old.members \cap c.members # {}}]
                  : c \in {c \in BuildAsOf(t).clusters : c.confirm = t}} : t \in ConfirmTimes}

(* A replay on any schedule that is accepted delivers the batch's          *)
(* formations, and neither loop nor contract ever raises (replay.py:46,    *)
(* clustering.py:490, contracts.py:1493).                                  *)
ReplaysAgree ==
    /\ status # "RAISED"
    /\ status = "DONE" => events = BatchEvents
=============================================================================
