----------------------------- MODULE ActiveBox -----------------------------
(***************************************************************************)
(* The active box selector (msa/research/active_box/engine.py), its policy *)
(* (policy.py) and the validators of the frames and histories it returns   *)
(* (contracts.py).                                                         *)
(*                                                                         *)
(* build_batch feeds each score frame and the active box of the frame      *)
(* before to select_frame; a replay does the same on a longer history.     *)
(* The selector keeps nothing, so a caller may also pass any box it was    *)
(* handed before: Calls allows that, and ActiveBoxSelectionHistory has to  *)
(* tell.  Scores are the environment.  A box key binds creation time, zone *)
(* keys and selection price, so the record of these four stands for it;    *)
(* observed zone snapshots are those of the frame a snapshot was seen in.  *)
(*                                                                         *)
(* A stable zone key fixes the zone's side, price range and members, hence *)
(* its resonance class; quality varies from frame to frame.  Scores are    *)
(* compared after scaling by the distance horizon, so they are integers.   *)
(***************************************************************************)
EXTENDS Integers, Sequences

CONSTANTS
    ZoneKey,        \* stable zone keys
    ZoneSets,       \* the sets of zones a frame may score
    None,           \* no zone
    SideOf, LowOf, HighOf, ClassOf,     \* what a key fixes
    DigestOf,       \* the order of the keys as texts
    QualitiesOf,    \* the quality scores a zone may have
    Price,          \* reference prices
    Tolerance,      \* zones of one side within it are one zone
    Horizon,        \* distance at which a zone scores nothing
    AllowedClasses, MinimumQuality, MinimumSelection,
    MarginMode, Margin, Fraction, Unit,     \* Fraction is counted in 1/Unit
    Improvement,    \* minimum improvement of the selection score
    LastTime        \* bound: the number of frames

ASSUME ZoneAssumption ==
    /\ None \notin ZoneKey
    /\ SideOf \in [ZoneKey -> {"LOWER", "UPPER"}]
    /\ LowOf \in [ZoneKey -> Int] /\ HighOf \in [ZoneKey -> Int]
    /\ \A k \in ZoneKey : LowOf[k] <= HighOf[k]
    /\ DigestOf \in [ZoneKey -> Int]
    /\ \A j, k \in ZoneKey : DigestOf[j] = DigestOf[k] => j = k
    /\ \A k \in ZoneKey : QualitiesOf[k] \subseteq Nat
    /\ Price \subseteq Nat

ASSUME ZoneSetsAssumption == ZoneSets \subseteq SUBSET ZoneKey

ASSUME PolicyAssumption ==
    /\ Tolerance \in Nat \ {0} /\ Horizon \in Nat \ {0}
    /\ MinimumQuality \in Nat /\ MinimumSelection \in Nat /\ Improvement \in Nat
    /\ MarginMode \in {"ABSOLUTE", "REFERENCE_FRACTION"}
    /\ Margin \in Nat /\ Fraction \in Nat /\ Unit \in Nat \ {0}

ASSUME LastTimeAssumption == LastTime \in Nat

VARIABLES
    now,            \* as-of time of the last frame
    score,          \* its score frame
    box,            \* its active box snapshot, or NoBox
    events,         \* the event ledger
    handed,         \* every active box snapshot ever returned
    chained,        \* every call was given what the batch would give it
    accepted,       \* ActiveBoxSelectionHistory accepts the frames
    raised          \* a call failed on valid input

vars == <<now, score, box, events, handed, chained, accepted, raised>>

-----------------------------------------------------------------------------
(* Score frames *)

(* Zones of one side are single-link clusters: they lie further apart than *)
(* the tolerance.                                                          *)
Apart(j, k) == LowOf[j] - HighOf[k] > Tolerance \/ LowOf[k] - HighOf[j] > Tolerance

Separated(keys) == \A j, k \in keys : j # k /\ SideOf[j] = SideOf[k] => Apart(j, k)

(* A frame: the reference price and the quality score of each zone. *)
ScoreFrame ==
    UNION {[price : Price, quality : {q \in [keys -> UNION {QualitiesOf[k] : k \in keys}] :
                                          \A k \in keys : q[k] \in QualitiesOf[k]}] :
              keys \in {s \in ZoneSets : Separated(s)}}

Zones(frame) == DOMAIN frame.quality
SideZones(frame, side) == {k \in Zones(frame) : SideOf[k] = side}

(* Mutant of ExpectedSide: a zone that contains the price still counts. *)
NotBeyond(key, price) ==
    IF SideOf[key] = "UPPER" THEN HighOf[key] > price ELSE LowOf[key] < price

ExpectedSide(key, price) ==
    IF SideOf[key] = "UPPER" THEN LowOf[key] > price ELSE HighOf[key] < price

Distance(key, price) ==
    IF price < LowOf[key] THEN LowOf[key] - price
    ELSE IF price > HighOf[key] THEN price - HighOf[key] ELSE 0

DistanceFactor(key, price) ==
    IF Distance(key, price) < Horizon THEN Horizon - Distance(key, price) ELSE 0

SelectionScore(frame, key) == frame.quality[key] * DistanceFactor(key, frame.price)

-----------------------------------------------------------------------------
(* Eligibility, order and hysteresis *)

Eligible(frame, key) ==
    /\ ExpectedSide(key, frame.price)
    /\ ClassOf[key] \in AllowedClasses
    /\ frame.quality[key] >= MinimumQuality
    /\ SelectionScore(frame, key) >= MinimumSelection
    /\ DistanceFactor(key, frame.price) > 0

EligibleZones(frame, side) == {k \in SideZones(frame, side) : Eligible(frame, k)}

(* The key of selection_key.  Quality, diversity and recency stand between *)
(* selection score and digest; NoTies shows that distance alone decides.   *)
Precedes(frame, j, k) ==
    \/ Distance(j, frame.price) < Distance(k, frame.price)
    \/ /\ Distance(j, frame.price) = Distance(k, frame.price)
       /\ \/ SelectionScore(frame, j) > SelectionScore(frame, k)
          \/ /\ SelectionScore(frame, j) = SelectionScore(frame, k)
             /\ DigestOf[j] < DigestOf[k]

First(frame, keys) == CHOOSE j \in keys : \A k \in keys \ {j} : Precedes(frame, j, k)

EffectiveMargin(price) == IF MarginMode = "ABSOLUTE" THEN Margin * Unit ELSE price * Fraction

(* Mutant of Beats: the margin is doubled. *)
BeatsFarther(frame, challenger, current) ==
    LET gain == Distance(current, frame.price) - Distance(challenger, frame.price)
    IN gain * Unit > 2 * EffectiveMargin(frame.price)

Beats(frame, challenger, current) ==
    LET gain == Distance(current, frame.price) - Distance(challenger, frame.price)
    IN \/ gain * Unit > EffectiveMargin(frame.price)
       \/ /\ gain >= 0
          /\ SelectionScore(frame, challenger) - SelectionScore(frame, current) > Improvement

Challenger(frame, side, current) == First(frame, EligibleZones(frame, side) \ {current})

(* Mutant of Selected: the challenger is judged even when current leads. *)
JudgeAlways(frame, side, current) ==
    LET eligible == EligibleZones(frame, side)
    IN IF eligible = {} THEN None
       ELSE IF current \notin eligible THEN First(frame, eligible)
       ELSE IF eligible = {current} THEN current
       ELSE IF Distance(Challenger(frame, side, current), frame.price) # Distance(current, frame.price)
            THEN Challenger(frame, side, current) ELSE current

(* build_side_decision: the zone selected for one side. *)
Selected(frame, side, current) ==
    LET eligible == EligibleZones(frame, side)
    IN IF eligible = {} THEN None
       ELSE IF current \notin eligible THEN First(frame, eligible)
       ELSE IF eligible = {current} \/ First(frame, eligible) = current THEN current
       ELSE IF Beats(frame, Challenger(frame, side, current), current)
            THEN Challenger(frame, side, current) ELSE current

-----------------------------------------------------------------------------
(* State: snapshots, events and the selector's variables *)

Episode == [created : Nat, lower : ZoneKey, upper : ZoneKey, price : Price]
Snapshot == [episode : Episode, asOf : Nat]
NoBox == [episode |-> None, asOf |-> 0]

(* seen is the as-of time of the active snapshot an event starts or ends. *)
Event ==
    [type : {"CREATED"}, reason : {"INITIAL_PAIR", "PAIR_CHANGED"}, confirm : Nat,
     episode : Episode, seen : Nat]
      \cup
    [type : {"FROZEN"}, reason : {"PAIR_CHANGED", "PAIR_UNAVAILABLE"}, confirm : Nat,
     episode : Episode, seen : Nat]

TypeOK ==
    /\ now \in 0 .. LastTime
    /\ score \in ScoreFrame
    /\ box \in Snapshot \cup {NoBox}
    /\ events \in Seq(Event)
    /\ handed \in SUBSET Snapshot
    /\ chained \in BOOLEAN /\ accepted \in BOOLEAN /\ raised \in BOOLEAN

Init ==
    /\ now = 0
    /\ score \in {f \in ScoreFrame : Zones(f) = {}}
    /\ box = NoBox /\ events = <<>> /\ handed = {}
    /\ chained = TRUE /\ accepted = TRUE /\ raised = FALSE

-----------------------------------------------------------------------------
(* Snapshots and events *)

InnerEdgesHold(lower, upper, price) == HighOf[lower] <= price /\ price <= LowOf[upper]

Created(lower, upper, frame, time) ==
    [episode |-> [created |-> time, lower |-> lower, upper |-> upper, price |-> frame.price],
     asOf |-> time]

Observed(previous, time) == [previous EXCEPT !.asOf = time]

CreatedEvent(reason, snapshot, time) ==
    [type |-> "CREATED", reason |-> reason, confirm |-> time,
     episode |-> snapshot.episode, seen |-> snapshot.asOf]

FrozenEvent(reason, snapshot, time) ==
    [type |-> "FROZEN", reason |-> reason, confirm |-> time,
     episode |-> snapshot.episode, seen |-> snapshot.asOf]

Keys(snapshot) ==
    IF snapshot = NoBox THEN [lower |-> None, upper |-> None]
    ELSE [lower |-> snapshot.episode.lower, upper |-> snapshot.episode.upper]

Complete(pair) == pair.lower # None /\ pair.upper # None

SelectedPair(frame, previous) ==
    [lower |-> Selected(frame, "LOWER", Keys(previous).lower),
     upper |-> Selected(frame, "UPPER", Keys(previous).upper)]

(* The active box select_frame returns. *)
BoxAfter(frame, previous, time) ==
    LET pair == SelectedPair(frame, previous)
    IN IF ~Complete(pair) THEN NoBox
       ELSE IF pair = Keys(previous) THEN Observed(previous, time)
       ELSE Created(pair.lower, pair.upper, frame, time)

(* Mutant of EventsBetween: a replaced box is not frozen. *)
NoFreeze(previous, next, time) ==
    CASE previous = NoBox /\ next # NoBox -> <<CreatedEvent("INITIAL_PAIR", next, time)>>
      [] previous # NoBox /\ next = NoBox -> <<FrozenEvent("PAIR_UNAVAILABLE", previous, time)>>
      [] previous # NoBox /\ next # NoBox /\ Keys(next) # Keys(previous) ->
             <<CreatedEvent("PAIR_CHANGED", next, time)>>
      [] OTHER -> <<>>

EventsBetween(previous, next, time) ==
    CASE previous = NoBox /\ next # NoBox -> <<CreatedEvent("INITIAL_PAIR", next, time)>>
      [] previous # NoBox /\ next = NoBox -> <<FrozenEvent("PAIR_UNAVAILABLE", previous, time)>>
      [] previous # NoBox /\ next # NoBox /\ Keys(next) # Keys(previous) ->
             <<FrozenEvent("PAIR_CHANGED", previous, time), CreatedEvent("PAIR_CHANGED", next, time)>>
      [] OTHER -> <<>>

EventsAfter(frame, previous, time) == EventsBetween(previous, BoxAfter(frame, previous, time), time)

-----------------------------------------------------------------------------
(* Validators *)

(* The domain box, observe_active_box_snapshot and the selection frame     *)
(* refuse a box whose zones are gone or whose inner edges lose the price.  *)
Refused(frame, previous, time) ==
    LET next == BoxAfter(frame, previous, time)
    IN /\ next # NoBox
       /\ \/ ~InnerEdgesHold(next.episode.lower, next.episode.upper, next.episode.price)
          \/ ~InnerEdgesHold(next.episode.lower, next.episode.upper, frame.price)
          \/ ~({next.episode.lower, next.episode.upper} \subseteq Zones(frame))

(* The ledger each episode must have. *)
LedgerOK(ledger, snapshots) ==
    LET Of(e, type) == {i \in 1 .. Len(ledger) : ledger[i].episode = e /\ ledger[i].type = type}
    IN /\ \A i \in 1 .. Len(ledger) : LET e == ledger[i].episode
            IN /\ \E c \in Of(e, "CREATED") :
                    /\ Of(e, "CREATED") = {c}
                    /\ \A f \in Of(e, "FROZEN") : c < f /\ Of(e, "FROZEN") = {f}
       /\ \A s \in snapshots :
            /\ \E i \in 1 .. Len(ledger) : ledger[i].episode = s.episode
            /\ \A f \in Of(s.episode, "FROZEN") : s.asOf < ledger[f].confirm

(* Mutant of Continues: only the zone keys are compared. *)
ComparesKeys(latest, previous, frame, time) == Keys(previous) = Keys(latest)

(* A frame selected from previous continues a history whose last active    *)
(* box is latest.                                                          *)
Continues(latest, previous, frame, time) ==
    LET pair == SelectedPair(frame, previous)
        next == BoxAfter(frame, previous, time)
    IN /\ Keys(previous) = Keys(latest)
       /\ latest # NoBox =>
            IF ~Complete(pair) THEN previous = latest
            ELSE IF pair = Keys(latest) THEN next = Observed(latest, time)
            ELSE previous = latest /\ next.episode # latest.episode

-----------------------------------------------------------------------------
(* Calls *)

SelectFrame(frame, previous) ==
    LET time == now + 1
        next == BoxAfter(frame, previous, time)
        ledger == events \o EventsAfter(frame, previous, time)
        snapshots == handed \cup ({next} \ {NoBox})
    IN /\ ~raised /\ now < LastTime
       /\ IF Refused(frame, previous, time)
          THEN /\ raised' = TRUE
               /\ UNCHANGED <<now, score, box, events, handed, chained, accepted>>
          ELSE /\ now' = time /\ score' = frame
               /\ box' = next
               /\ events' = ledger /\ handed' = snapshots
               /\ chained' = (chained /\ next = BoxAfter(frame, box, time)
                                /\ EventsAfter(frame, previous, time) = EventsAfter(frame, box, time))
               /\ accepted' = (accepted /\ Continues(box, previous, frame, time) /\ LedgerOK(ledger, snapshots))
               /\ UNCHANGED raised

(* One turn of the loop of build_batch. *)
BatchStep == \E frame \in ScoreFrame : SelectFrame(frame, box)

(* A call of select_frame with any box the caller was handed. *)
CallStep == \E frame \in ScoreFrame, previous \in handed \cup {NoBox} : SelectFrame(frame, previous)

Batch == Init /\ [][BatchStep]_vars
Calls == Init /\ [][CallStep]_vars

-----------------------------------------------------------------------------
(* Properties *)

(* No call fails on valid input: a zone that qualifies lies wholly on its  *)
(* side of the price, so the inner edges of every box hold the price and   *)
(* the domain box, the observation and the selection frame are accepted.   *)
NeverRaises == ~raised

(* The history validator accepts what build_batch returns. *)
BatchAccepted == accepted

(* It accepts nothing else: had the call been given any other box handed   *)
(* out before, or none, instead of the last one, the frame it returns      *)
(* would continue the history exactly when it is the frame of the batch.   *)
Accepts(previous, frame, time) ==
    LET next == BoxAfter(frame, previous, time)
    IN  /\ Continues(box, previous, frame, time)
        /\ LedgerOK(events \o EventsAfter(frame, previous, time),
                    handed \cup ({next} \ {NoBox}))

AcceptsOnlyTheBatch ==
    [][now' # now =>
         \A previous \in handed \cup {NoBox} :
             ~Refused(score', previous, now') =>
                 Accepts(previous, score', now') =
                     (/\ BoxAfter(score', previous, now') = box'
                      /\ events \o EventsAfter(score', previous, now') = events')]_vars

(* The score zones of one side never tie in distance, so the later parts   *)
(* of the selection key, digests among them, never decide.                 *)
NoTies ==
    \A side \in {"LOWER", "UPPER"} : \A j, k \in EligibleZones(score, side) :
        j # k => Distance(j, score.price) # Distance(k, score.price)

(* Hysteresis delays, it never prevents: there is a box exactly when both  *)
(* sides have an eligible zone, and no zone of the box is further behind   *)
(* the nearest eligible one than the margin.                               *)
Lag(side, key) ==
    Distance(key, score.price) - Distance(First(score, EligibleZones(score, side)), score.price)

BoxTracksNearest ==
    /\ box # NoBox <=> EligibleZones(score, "LOWER") # {} /\ EligibleZones(score, "UPPER") # {}
    /\ box # NoBox =>
         /\ Keys(box).lower \in EligibleZones(score, "LOWER")
         /\ Keys(box).upper \in EligibleZones(score, "UPPER")
         /\ Lag("LOWER", Keys(box).lower) * Unit <= EffectiveMargin(score.price)
         /\ Lag("UPPER", Keys(box).upper) * Unit <= EffectiveMargin(score.price)

(* A frame that repeats the scores of the frame before changes nothing: a  *)
(* replacement never sets up the next one.                                 *)
SameScoresKeepBox ==
    [][score' = score /\ now' # now => Keys(box') = Keys(box) /\ events' = events]_vars

(* A box replaced although both of its zones still qualify gives way only  *)
(* to a box strictly inside it.  So selection by hysteresis cannot go back *)
(* and forth between two pairs.                                            *)
ReplacementTightens ==
    [][/\ box # NoBox /\ box' # NoBox /\ Keys(box') # Keys(box)
       /\ Keys(box).lower \in EligibleZones(score', "LOWER")
       /\ Keys(box).upper \in EligibleZones(score', "UPPER")
       => /\ HighOf[Keys(box).lower] <= HighOf[Keys(box').lower]
          /\ LowOf[Keys(box').upper] <= LowOf[Keys(box).upper]
          /\ \/ HighOf[Keys(box).lower] < HighOf[Keys(box').lower]
             \/ LowOf[Keys(box').upper] < LowOf[Keys(box).upper]]_vars

(* Batches keep the promises of box episodes: one open at most, none ever  *)
(* reopened, replaced in one step.                                         *)
Frozen(ledger) == {ledger[i].episode : i \in {n \in 1 .. Len(ledger) : ledger[n].type = "FROZEN"}}
Open(snapshot) == IF snapshot = NoBox THEN {} ELSE {snapshot.episode}

Episodes == INSTANCE BoxEpisodes WITH open <- Open(box), frozen <- Frozen(events)

ImplementsBoxEpisodes == Episodes!Spec
=============================================================================
