--------------------------- MODULE ResonanceScores ---------------------------
(***************************************************************************)
(* Resonance scoring (C-007B, msa/research/resonance/scoring.py): the      *)
(* evidence of a frame grouped into price zones, and what each zone        *)
(* scores.  The scorer keeps nothing.                                      *)
(*                                                                         *)
(* Decimals are integers in units of their own: a factor f is written as   *)
(* f times the unit of its kind, so a raw contribution, a product of one   *)
(* factor of each kind, comes in one unit, and so do the sums of them.     *)
(* Freshness is in units of 1 / freshnessHorizon, a component score in     *)
(* units of 1 / creditUnit of a contribution, a selection score in units   *)
(* of 1 / distanceHorizon of a quality.  Tolerance and distance horizon    *)
(* are absolute, as ABSOLUTE mode gives them.                              *)
(***************************************************************************)
EXTENDS ResonanceFrames

CONSTANT Scoring    \* ResonanceScoringConfig

Positive == Nat \ {0}
Relations == {"ALIGNED", "NEUTRAL", "TURNING", "OPPOSED", "UNKNOWN"}

(* ResonanceFactorTable and ResonanceScoringConfig.__post_init__: nothing  *)
(* is negative, and a floor or a credit is at most one.                    *)
ConfigAccepts ==
    /\ Scoring.tolerance \in Positive /\ Scoring.distanceHorizon \in Positive
    /\ Scoring.freshnessHorizon \in Positive
    /\ Scoring.freshnessFloor \in 0 .. Scoring.freshnessHorizon
    /\ Scoring.touchUnit \in Positive /\ Scoring.touchFloor \in 0 .. Scoring.touchUnit
    /\ Scoring.touchPenalty \in Nat
    /\ Scoring.creditUnit \in Positive /\ Scoring.repeatCredit \in 0 .. Scoring.creditUnit
    /\ Scoring.contextWeight \in [Context -> Positive]
    /\ Scoring.tierWeight \in [{"CANDIDATE", "CONFIRMED"} -> Nat]
    /\ Scoring.lifecycleWeight \in [Effective -> Nat]
    /\ Scoring.directionFactor \in [Relations -> Nat]
    /\ Scoring.sourceBonus \in Nat /\ Scoring.sourceBonusCap \in Nat
    /\ Scoring.contextBonus \in Nat /\ Scoring.contextBonusCap \in Nat
    /\ Scoring.minimumEvidence \in Positive /\ Scoring.minimumContexts \in Positive

ASSUME ScoringAssumption == ConfigAccepts

-----------------------------------------------------------------------------
(* Zones *)

Near(a, b) ==
    RangeGap([low |-> LowOf[a], high |-> HighOf[a]], [low |-> LowOf[b], high |-> HighOf[b]])
        <= Scoring.tolerance

Dependent(a, b) == FamiliesOf[a] \cap FamiliesOf[b] # {}

NearPairs(members) == {pair \in members \X members : Near(pair[1], pair[2])}
DependentPairs(members) == {pair \in members \X members : Dependent(pair[1], pair[2])}

(* The price components of the members, and the dependency components.     *)
NearBlocks(members) == ComponentsOf(SubjectCount, members, NearPairs(members))
DependentBlocks(members) == ComponentsOf(SubjectCount, members, DependentPairs(members))

SubjectsOn(frame, side) == {e.subject : e \in {e \in frame.evidence : e.side = side}}
EvidenceFor(frame, subject) == CHOOSE e \in frame.evidence : e.subject = subject

(* A zone key binds the side, the members and their ranges. *)
ZoneKeys == [side : {"UPPER", "LOWER"}, members : (SUBSET Subject) \ {{}}]

ZoneLow == [key \in ZoneKeys |-> Min({LowOf[s] : s \in key.members})]
ZoneHigh == [key \in ZoneKeys |-> Max({HighOf[s] : s \in key.members})]
ContextsOf(members) == {ContextOf[s] : s \in members}
SourceTypes(members) == UNION {SourcesOf[s] : s \in members}

ZoneClass ==
    [key \in ZoneKeys |->
        IF Cardinality(key.members) = 1 THEN "SINGLE"
        ELSE IF /\ Cardinality(key.members) >= Scoring.minimumEvidence
                /\ Cardinality(ContextsOf(key.members)) >= Scoring.minimumContexts
             THEN "MULTI_CONTEXT_RESONANCE" ELSE "LOCAL_CLUSTER"]

(* _price_components, one side at a time *)
KeysOf(frame) ==
    UNION {{[side |-> side, members |-> block] : block \in NearBlocks(SubjectsOn(frame, side))}
             : side \in {"UPPER", "LOWER"}}

-----------------------------------------------------------------------------
(* What evidence contributes *)

Relation(side, direction) ==
    CASE direction = "RANGE" -> "NEUTRAL"
      [] direction \in {"TURNING", "UNKNOWN"} -> direction
      [] direction = "DOWN" -> IF side = "UPPER" THEN "ALIGNED" ELSE "OPPOSED"
      [] direction = "UP" -> IF side = "UPPER" THEN "OPPOSED" ELSE "ALIGNED"

(* Mutant of Freshness: it grows with age. *)
Staleness(age) == Larger(Scoring.freshnessFloor, Smaller(age, Scoring.freshnessHorizon))

Freshness(age) == Larger(Scoring.freshnessFloor, Scoring.freshnessHorizon - age)

ExtraTouches(evidence) == Larger(0, evidence.touches - 1)

TouchFactor(evidence) ==
    Larger(Scoring.touchFloor, Scoring.touchUnit - ExtraTouches(evidence) * Scoring.touchPenalty)

RawContribution(evidence, asOf) ==
    Scoring.contextWeight[evidence.context] * Scoring.tierWeight[evidence.tier]
      * Scoring.lifecycleWeight[evidence.state] * Freshness(asOf - evidence.confirm)
      * TouchFactor(evidence) * Scoring.directionFactor[Relation(evidence.side, evidence.direction)]

(* Evidence that shares a structure family counts once in full, its best,  *)
(* and the rest for a credit.                                              *)
DependencyComponent(members, raw) ==
    LET primary == Max({raw[s] : s \in members})
        repeated == SumFunction([s \in members |-> raw[s]]) - primary
    IN [members |-> members, primary |-> primary, repeated |-> repeated,
        shared |-> UNION {FamiliesOf[p[1]] \cap FamiliesOf[p[2]] :
                            p \in {p \in members \X members : p[1] < p[2]}},
        adjusted |-> primary * Scoring.creditUnit + Scoring.repeatCredit * repeated]

Bonus(count, perExtra, cap) == Smaller(cap, Larger(0, count - 1) * perExtra)

(* _price_relation_and_distance *)
PriceRelation(key, price) ==
    CASE ZoneLow[key] <= price /\ price <= ZoneHigh[key] -> "CONTAINS_PRICE"
      [] key.side = "UPPER" /\ ZoneLow[key] > price -> "EXPECTED_SIDE"
      [] key.side = "LOWER" /\ ZoneHigh[key] < price -> "EXPECTED_SIDE"
      [] OTHER -> "OPPOSITE_SIDE"

PriceDistance(key, price) ==
    RangeGap([low |-> price, high |-> price], [low |-> ZoneLow[key], high |-> ZoneHigh[key]])

(* Two members apart by more than the tolerance, held together by others. *)
ChainBridged(members) ==
    \E a, b \in members : Cardinality(members) > 2 /\ ~Near(a, b)

(* _draft, from the contributions of the members *)
ZoneFrom(frame, key, raw, components) ==
    LET confirms == {EvidenceFor(frame, s).confirm : s \in key.members}
        quality == SumFunction([c \in components |-> c.adjusted])
                     + Bonus(Cardinality(SourceTypes(key.members)),
                             Scoring.sourceBonus, Scoring.sourceBonusCap)
                     + Bonus(Cardinality(ContextsOf(key.members)),
                             Scoring.contextBonus, Scoring.contextBonusCap)
        distance == PriceDistance(key, frame.bar.close)
        relation == PriceRelation(key, frame.bar.close)
    IN [key |-> key, class |-> ZoneClass[key], raw |-> raw, components |-> components,
        confirms |-> {Min(confirms), Max(confirms)}, quality |-> quality,
        relation |-> relation, distance |-> distance,
        selection |-> quality * Larger(0, Scoring.distanceHorizon - distance)
                        * Scoring.placement[relation],
        chainBridged |-> ChainBridged(key.members)]

Draft(frame, key, raw) ==
    ZoneFrom(frame, key, raw,
             {DependencyComponent(block, raw) : block \in DependentBlocks(key.members)})

ZoneOf(frame, key) ==
    Draft(frame, key, [s \in key.members |-> RawContribution(EvidenceFor(frame, s), frame.asOf)])

(* ResonanceDependencyComponent.__post_init__ *)
ComponentAccepts(component, raw) ==
    /\ \E s \in component.members : raw[s] = component.primary
    /\ Cardinality(component.members) = 1 => component.repeated = 0 /\ component.shared = {}

(* ResonanceZoneExplanation.__post_init__ *)
ExplanationAccepts(zone) ==
    /\ DOMAIN zone.raw = zone.key.members /\ \A s \in zone.key.members : zone.raw[s] >= 0
    /\ zone.chainBridged => Cardinality(zone.key.members) > 2

(* ResonanceZone.__post_init__: the components partition the members. *)
ZoneAccepts(zone) ==
    /\ UNION {c.members : c \in zone.components} = zone.key.members
    /\ MapThenSumSet(LAMBDA c : Cardinality(c.members), zone.components)
          = Cardinality(zone.key.members)
    /\ \A c \in zone.components : ComponentAccepts(c, zone.raw)
    /\ ExplanationAccepts(zone)

(* _validate_zone_against_frame scores the members again, and finds them   *)
(* one component of the frame's evidence.                                  *)
AgreesWithFrame(frame, zone) ==
    /\ zone.key.members \subseteq SubjectsOn(frame, zone.key.side)
    /\ Cardinality(NearBlocks(zone.key.members)) = 1
    /\ zone = ZoneOf(frame, zone.key)

-----------------------------------------------------------------------------
(* Score frames *)

(* _draft_rank_key, without the digests that decide between equals *)
Outranks(a, b) ==
    LET key(zone) == <<zone.selection, zone.quality,
                       Cardinality(ContextsOf(zone.key.members)),
                       Cardinality(SourceTypes(zone.key.members)),
                       -zone.distance, Max(zone.confirms)>>
    IN \E i \in 1 .. 6 : key(a)[i] > key(b)[i] /\ \A j \in 1 .. i - 1 : key(a)[j] = key(b)[j]

RankOf(zones, zone) ==
    1 + Cardinality({z \in zones : z.key.side = zone.key.side /\ Outranks(z, zone)})

BestSelection(zones) == IF zones = {} THEN -1 ELSE Max({z.selection : z \in zones})

(* score_frame, from the zones of the frame *)
ScoreFrom(frame, zones) ==
    [frame |-> frame, zones |-> zones,
     ranks |-> [z \in zones |-> RankOf(zones, z)],
     report |-> [zones |-> Cardinality(zones),
                 classes |-> [class \in {"SINGLE", "LOCAL_CLUSTER", "MULTI_CONTEXT_RESONANCE"} |->
                                Cardinality({z \in zones : z.class = class})],
                 bridged |-> Cardinality({z \in zones : z.chainBridged}),
                 best |-> [side \in {"UPPER", "LOWER"} |->
                             BestSelection({z \in zones : z.key.side = side})]]]

ScoreOf(frame) == ScoreFrom(frame, {ZoneOf(frame, key) : key \in KeysOf(frame)})

(* ResonanceScoreFrame.__post_init__: every evidence is in one zone, and   *)
(* evidence of one side within the tolerance in the same.                  *)
ScoreAccepts(score) ==
    LET frame == score.frame
        zoneOf(e) == {z \in score.zones : z.key.side = e.side /\ e.subject \in z.key.members}
    IN /\ \A z \in score.zones : ZoneAccepts(z) /\ AgreesWithFrame(frame, z)
       /\ UNION {z.key.members : z \in score.zones} = {e.subject : e \in frame.evidence}
       /\ \A e \in frame.evidence : Cardinality(zoneOf(e)) = 1
       /\ \A e, f \in frame.evidence :
             e.side = f.side /\ Near(e.subject, f.subject) => zoneOf(e) = zoneOf(f)
       /\ \A y, z \in score.zones :
             y.key.side = z.key.side /\ Outranks(y, z) => score.ranks[y] < score.ranks[z]

(* ResonanceScoreHistory: the scores of these very frames, in order. *)
ScoresAccept(scores, frames) ==
    /\ Len(scores) = Len(frames) /\ Len(scores) > 0
    /\ \A i \in 1 .. Len(frames) : scores[i].frame = frames[i]
=============================================================================
