----------------------------- MODULE LevelRules -----------------------------
(***************************************************************************)
(* The level generators (msa/research/levels) as operators on a sequence   *)
(* of bars: the extremes of finished periods (periodic.py) and zones from  *)
(* which price was rejected repeatedly (reaction.py), each around a swing  *)
(* candidate given as a seed.                                              *)
(***************************************************************************)
EXTENDS SwingRules

CONSTANTS
    EmitHigh, EmitLow,              \* PeriodicExtremeConfig
    TouchTolerance, MinReactions,   \* HistoricalReactionConfig
    MinSeparation, ReactionHorizon, ReactionDistance, MaxPenetration

PeriodicExtremeConfigOK ==
    EmitHigh \in BOOLEAN /\ EmitLow \in BOOLEAN /\ (EmitHigh \/ EmitLow)

HistoricalReactionConfigOK ==
    /\ TouchTolerance \in Nat /\ MaxPenetration \in Nat
    /\ MinReactions \in Nat \ {0, 1}
    /\ MinSeparation \in Nat \ {0} /\ ReactionHorizon \in Nat \ {0}
    /\ ReactionDistance \in Nat \ {0}

ASSUME LevelAssumption == PeriodicExtremeConfigOK /\ HistoricalReactionConfigOK

-----------------------------------------------------------------------------
(* Periodic extremes: a bar is a finished period. *)

PeriodicRefused(bars) ==
    \E i, j \in DOMAIN bars : i < j /\ ~bars[i].complete /\ bars[j].complete

PeriodicExtreme(bars, i, side) ==
    [origin |-> i, side |-> side,
     price |-> IF side = "UPPER" THEN bars[i].high ELSE bars[i].low,
     last |-> i, confirm |-> bars[i].available]

(* Periods are judged one by one: a late one does not hide the next. *)
PeriodicExtremes(bars, visible) ==
    {PeriodicExtreme(bars, i, side) : i \in visible,
        side \in (IF EmitHigh THEN {"UPPER"} ELSE {}) \cup (IF EmitLow THEN {"LOWER"} ELSE {})}

-----------------------------------------------------------------------------
(* Historical reactions. *)

ReactionCandidate(level) == DOMAIN level = {"seed", "reactions", "last", "confirm"}

(* A zone may not reach below zero. *)
ReactionRefused(seeds) == \E seed \in seeds : seed.price - TouchTolerance < 0

TouchesZone(bar, seed) ==
    bar.high >= seed.price - TouchTolerance /\ bar.low <= seed.price + TouchTolerance

Penetrates(bar, seed) ==
    IF seed.side = "UPPER"
    THEN bar.high > seed.price + TouchTolerance + MaxPenetration
    ELSE bar.low < seed.price - TouchTolerance - MaxPenetration

ConfirmsRejection(bar, seed) ==
    IF seed.side = "UPPER"
    THEN bar.close <= seed.price - TouchTolerance - ReactionDistance
    ELSE bar.close >= seed.price + TouchTolerance + ReactionDistance

(* The bar's own availability is compared, not that of its prefix. *)
Eligible(bars, seed, i) == i > seed.origin /\ bars[i].available > seed.confirm

(* touch: the bar of the attempt under way, 0 if there is none. *)
NewReaction == [touch |-> 0, lastSuccess |-> 0, found |-> <<>>]

ReactionTime(bars, seed, i) == Max({seed.confirm, PrefixTime(bars, i)})

Succeed(r, bars, seed, i) ==
    [touch |-> 0, lastSuccess |-> r.touch,
     found |-> Append(r.found, [touch |-> r.touch, bar |-> i,
                                confirm |-> ReactionTime(bars, seed, i)])]

(* Mutant of OutOfTime: the horizon ends a bar early. *)
OutOfTimeEarly(r, i) == i - r.touch >= ReactionHorizon - 1

OutOfTime(r, i) == i - r.touch >= ReactionHorizon

(* The bar that ends an attempt never starts the next one. *)
Watch(r, bars, seed, i) ==
    LET abandoned == [r EXCEPT !.touch = 0]
        inTime == i - r.touch <= ReactionHorizon /\ Eligible(bars, seed, i)
    IN IF inTime /\ Penetrates(bars[i], seed) THEN abandoned
       ELSE IF inTime /\ ConfirmsRejection(bars[i], seed) THEN Succeed(r, bars, seed, i)
       ELSE IF OutOfTime(r, i) THEN abandoned
       ELSE r

Separated(r, i) == r.lastSuccess = 0 \/ i - r.lastSuccess >= MinSeparation

ReactionStep(r, bars, seed, i) ==
    IF Len(r.found) = MinReactions THEN r
    ELSE IF r.touch # 0 THEN Watch(r, bars, seed, i)
    ELSE IF Eligible(bars, seed, i) /\ TouchesZone(bars[i], seed) /\ Separated(r, i)
    THEN [r EXCEPT !.touch = i]
    ELSE r

(* _evaluate_seed on a causal prefix. *)
ReactionAfter(bars, seed) ==
    LET after[i \in 0 .. Len(bars)] ==
            IF i = 0 THEN NewReaction ELSE ReactionStep(after[i - 1], bars, seed, i)
    IN after[Len(bars)]

ReactionLevel(seed, found) ==
    [seed |-> seed, reactions |-> found, last |-> found[Len(found)].bar,
     confirm |-> found[Len(found)].confirm]

ReactionLevels(bars, seeds) ==
    {ReactionLevel(seed, ReactionAfter(bars, seed).found) :
        seed \in {s \in seeds : Len(ReactionAfter(bars, s).found) = MinReactions}}
=============================================================================
