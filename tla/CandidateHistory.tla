-------------------------- MODULE CandidateHistory --------------------------
(***************************************************************************)
(* The swing detectors and the level generators over one whole source:     *)
(* detect_as_of (generate_as_of) at ascending processing times, and        *)
(* iter_replay_events (swing/replay.py and levels/replay.py, which differ  *)
(* in the default schedule only), which runs the detector again from       *)
(* nothing at each time of a schedule and raises when a candidate is first *)
(* seen at any other time than its confirm time.                           *)
(***************************************************************************)
EXTENDS LevelRules, SequencesExt

CONSTANTS
    Sources,        \* the bar sequences a LoadResult may hold
    ReplayTimes     \* the processing times a caller may pass

ASSUME SwingHistoryAssumption ==
    /\ \A source \in Sources : IsSource(source) /\ source \in Seq(Bar)
    /\ ReplayTimes \subseteq Nat

VARIABLES
    source,     \* source.bars
    detector,   \* which of the detectors is called
    tie,        \* how the digests of tied candidates happen to compare
    answer,     \* what detect_as_of returns at each time: a function of the source
    mode,       \* who chooses the processing times
    asked,      \* the last processing time, -1 before any
    ledger,     \* the candidates delivered so far, in order
    outcome     \* RUNNING, DONE, or RAISED

historyVars == <<source, detector, tie, answer, mode, asked, ledger, outcome>>

Detector == {"PIVOT", "ATR", "PIVOT_BREAK", "ATR_BREAK", "PERIODIC", "REACTION"}

(* The default schedule of a replay, an explicit one, or detect_as_of      *)
(* called at times of the caller's choosing.                               *)
Mode == {"DEFAULT", "EXPLICIT", "CALLS"}

(* Mutant of DefaultSchedule: when each bar ends. *)
EndSchedule == {source[i].end : i \in DOMAIN source}

(* The seeds of a reaction generator are given with the source: here its   *)
(* pivots, whenever they will be confirmed.                                *)
Seeds(bars) == Pivots(bars, {i \in DOMAIN bars : bars[i].complete})

DefaultSchedule ==
    {source[i].available : i \in DOMAIN source}
        \cup (IF detector = "REACTION" THEN {seed.confirm : seed \in Seeds(source)} ELSE {})

-----------------------------------------------------------------------------

(* result.candidates sorted by confirm time and candidate id. *)
InOrder(findings) ==
    LET digest(f) == DigestOf(CASE detector \in {"PIVOT_BREAK", "ATR_BREAK"} -> f.pending
                                [] detector = "REACTION" -> f.seed
                                [] OTHER -> f)
        before(f) == {g \in findings :
            \/ g.confirm < f.confirm
            \/ g.confirm = f.confirm /\ tie * digest(g) < tie * digest(f)}
    IN [k \in 1 .. Cardinality(findings) |->
            CHOOSE f \in findings : Cardinality(before(f)) = k - 1]

(* What a stateful detector finds in a causal prefix; the seeds of a       *)
(* reaction generator are those confirmed by then.                         *)
Scanned(bars, seeds) ==
    CASE detector = "ATR" -> ToSet(AtrAfter(bars).turns)
      [] detector = "PIVOT_BREAK" ->
            ToSet(BreaksAfter(bars, Pivots(bars, DOMAIN bars), tie))
      [] detector = "ATR_BREAK" ->
            ToSet(BreaksAfter(bars, ToSet(AtrAfter(bars).turns), tie))
      [] detector = "REACTION" -> ReactionLevels(bars, seeds)

(* Pivots and periods are looked for at fixed positions. *)
Positional == detector \in {"PIVOT", "PERIODIC"}

Placed(bars, visible) ==
    IF detector = "PIVOT" THEN Pivots(bars, visible) ELSE PeriodicExtremes(bars, visible)

(* Mutant of DetectAsOf: stateful detectors skip bars they cannot see. *)
DetectVisible(bars, time) ==
    LET seen == SelectSeq(bars, LAMBDA bar : VisibleAt(bar, time))
        seeds == {seed \in Seeds(bars) : seed.confirm <= time}
    IN InOrder(IF Positional THEN Placed(seen, DOMAIN seen) ELSE Scanned(seen, seeds))

DetectAsOf(bars, time) ==
    LET seeds == {seed \in Seeds(bars) : seed.confirm <= time}
    IN InOrder(IF Positional
               THEN Placed(bars, {i \in DOMAIN bars : VisibleAt(bars[i], time)})
               ELSE Scanned(CausalPrefix(bars, time), seeds))

(* An incomplete bar may not be available when pivots are asked for; the   *)
(* stateful detectors stop in front of it.  Periods may end with it.       *)
DetectorRefused(time) ==
    CASE detector = "PIVOT" -> \E i \in DOMAIN source : ~source[i].complete /\ source[i].available <= time
      [] detector = "PERIODIC" -> PeriodicRefused(source)
      [] detector = "REACTION" -> Seeds(source) = {} \/ ReactionRefused(Seeds(source))
      [] OTHER -> FALSE

(* Everything up to the first incomplete bar, or, for positions, every     *)
(* complete bar.                                                           *)
DetectBatch(bars) ==
    LET complete == {i \in DOMAIN bars : bars[i].complete}
        end == Max({0} \cup {bars[i].available : i \in DOMAIN bars})
    IN InOrder(IF Positional THEN Placed(bars, complete)
               ELSE Scanned(CausalPrefix(bars, end), Seeds(bars)))

Complete == \A i \in DOMAIN source : source[i].complete

-----------------------------------------------------------------------------

InitHistory ==
    /\ source \in Sources /\ detector \in Detector /\ tie \in {1, -1}
    /\ answer = [time \in ReplayTimes \cup DefaultSchedule |-> DetectAsOf(source, time)]
    /\ mode \in Mode
    /\ asked = -1 /\ ledger = <<>> /\ outcome = "RUNNING"

(* Mutant of OnTime: the schedule is not checked. *)
AnyTime(new, time) == TRUE

(* replay first appearance must equal candidate.confirm_time *)
OnTime(new, time) == \A f \in new : f.confirm = time

Delivered(result, new) == IF mode = "CALLS" THEN result ELSE ledger \o InOrder(new)

(* One detect_as_of call; a replay delivers what it has not seen before,   *)
(* oldest confirm time first, so it raises before it delivers any of it.   *)
Call(time) ==
    LET result == answer[time]
        new == ToSet(result) \ ToSet(ledger)
    IN /\ outcome = "RUNNING" /\ time > asked
       /\ asked' = time
       /\ IF DetectorRefused(time) \/ (mode # "CALLS" /\ ~OnTime(new, time))
          THEN outcome' = "RAISED" /\ UNCHANGED ledger
          ELSE /\ outcome' = "RUNNING"
               /\ ledger' = Delivered(result, new)
       /\ UNCHANGED <<source, detector, tie, answer, mode>>

DefaultStep ==
    /\ mode = "DEFAULT"
    /\ \E time \in DefaultSchedule :
          /\ \A other \in DefaultSchedule : other > asked => time <= other
          /\ Call(time)

ExplicitStep == mode = "EXPLICIT" /\ \E time \in ReplayTimes : Call(time)

AsOfStep == mode = "CALLS" /\ \E time \in ReplayTimes : Call(time)

(* The schedule is exhausted; an explicit one may end anywhere. *)
FinishReplay ==
    /\ outcome = "RUNNING"
    /\ mode = "DEFAULT" => \A time \in DefaultSchedule : time <= asked
    /\ outcome' = "DONE"
    /\ UNCHANGED <<source, detector, tie, answer, mode, asked, ledger>>

NextHistory == DefaultStep \/ ExplicitStep \/ AsOfStep \/ FinishReplay

(* A replay is a for loop over a finite tuple and runs to its end. *)
HistorySpec == InitHistory /\ [][NextHistory]_historyVars /\ WF_historyVars(DefaultStep \/ FinishReplay)

-----------------------------------------------------------------------------

(* At every time the result is the part of the batch result confirmed by   *)
(* then (docs/research/swing_detector_framework.md, as-of equivalence).    *)
AsOfIsBatchSoFar ==
    Complete /\ outcome # "RAISED" =>
        LET batch == DetectBatch(source)
        IN ledger = Restrict(batch, {k \in DOMAIN batch : batch[k].confirm <= asked})

(* A replay is refused exactly when its schedule jumps over a confirm time *)
(* (or, for pivots, when an incomplete bar becomes available).             *)
RefusedOnlyWhenSkipping ==
    [][asked' # asked =>
          (outcome' = "RAISED" <=>
              \/ DetectorRefused(asked')
              \/ /\ mode # "CALLS"
                 /\ \E f \in ToSet(answer[asked']) :
                       asked < f.confirm /\ f.confirm < asked')]_historyVars

(* A replay on the default schedule of a complete source ends, and has     *)
(* then delivered every candidate of the batch: none waits for a time the  *)
(* schedule does not hold.                                                 *)
DefaultReplayDelivers ==
    mode = "DEFAULT" /\ Complete /\ ~DetectorRefused(0)
        ~> outcome = "DONE" /\ ledger = DetectBatch(source)
=============================================================================
