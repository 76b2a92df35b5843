----------------------------- MODULE SwingRules -----------------------------
(***************************************************************************)
(* The swing detectors (msa/research/swing) as operators on a sequence of  *)
(* bars: confirmed pivots (pivot.py), ATR turning points (atr_reversal.py) *)
(* and close-confirmed structure breaks (structure_break.py), which take   *)
(* the candidates of one of the other two as seeds (combined.py).          *)
(*                                                                         *)
(* A candidate is known by the bar it originates from and its side; its    *)
(* identity is a digest, so candidates that tie on everything else come in *)
(* an order the code does not choose.  `order` is 1 or -1 and stands for   *)
(* that accident.                                                          *)
(***************************************************************************)
EXTENDS CanonicalBars, FiniteSetsExt

CONSTANTS
    LeftBars, RightBars,        \* PivotDetectorConfig
    AtrPeriod, Multiplier,      \* AtrReversalDetectorConfig
    BreakBuffer                 \* StructureBreakDetectorConfig

PivotDetectorConfigOK == LeftBars \in Nat \ {0} /\ RightBars \in Nat \ {0}
AtrReversalDetectorConfigOK == AtrPeriod \in Nat \ {0} /\ Multiplier \in Nat \ {0}
StructureBreakDetectorConfigOK == BreakBuffer \in Nat

ASSUME SwingAssumption ==
    /\ PivotDetectorConfigOK
    /\ AtrReversalDetectorConfigOK
    /\ StructureBreakDetectorConfigOK

Side == {"UPPER", "LOWER"}
Opposing(side) == IF side = "UPPER" THEN "LOWER" ELSE "UPPER"

(* last: the bar whose arrival completed the candidate's evidence.         *)
Candidate == [origin : Nat \ {0}, side : Side, price : Int, last : Nat, confirm : Nat]

DigestOf(candidate) == 2 * candidate.origin + (IF candidate.side = "UPPER" THEN 1 ELSE 0)
DigestBefore(a, b, order) == order * DigestOf(a) < order * DigestOf(b)

-----------------------------------------------------------------------------
(* Confirmed pivots. *)

InWindow(i) == i - LeftBars .. i + RightBars

IsHigh(bars, i) == \A j \in InWindow(i) \ {i} : bars[i].high > bars[j].high
IsLow(bars, i) == \A j \in InWindow(i) \ {i} : bars[i].low < bars[j].low

Pivot(bars, i, side) ==
    [origin |-> i, side |-> side,
     price |-> IF side = "UPPER" THEN bars[i].high ELSE bars[i].low,
     last |-> i + RightBars,
     confirm |-> Max({bars[j].available : j \in InWindow(i)})]

(* A window is evaluated only when each of its bars is visible; positions  *)
(* are fixed, so a hidden bar is never skipped over.                       *)
Pivots(bars, visible) ==
    LET centers == {i \in DOMAIN bars : InWindow(i) \subseteq visible}
    IN {Pivot(bars, i, "UPPER") : i \in {c \in centers : IsHigh(bars, c)}}
          \cup {Pivot(bars, i, "LOWER") : i \in {c \in centers : IsLow(bars, c)}}

-----------------------------------------------------------------------------
(* ATR turning points. *)

Distance(a, b) == IF a < b THEN b - a ELSE a - b

TrueRange(bars, i) ==
    IF i = 1 THEN bars[1].high - bars[1].low
    ELSE Max({bars[i].high - bars[i].low,
              Distance(bars[i].high, bars[i - 1].close),
              Distance(bars[i].low, bars[i - 1].close)})

(* The moving average times its period, so that it stays an integer. *)
RangeSum(bars, i) ==
    LET sum[k \in 0 .. AtrPeriod] ==
            IF k = 0 THEN 0 ELSE sum[k - 1] + TrueRange(bars, i - k + 1)
    IN sum[AtrPeriod]

Trend == {"UNKNOWN", "UP", "DOWN"}
AtrState == [trend : Trend, anchor : Nat, extreme : Nat, turns : Seq(Candidate)]
NewAtr == [trend |-> "UNKNOWN", anchor |-> 0, extreme |-> 0, turns |-> <<>>]

(* The retrace from the extreme that existed before this bar.              *)
Reverses(s, bars, i) ==
    LET retrace == IF s.trend = "UP" THEN bars[s.extreme].high - bars[i].low
                   ELSE bars[i].high - bars[s.extreme].low
    IN AtrPeriod * retrace >= Multiplier * RangeSum(bars, i)

(* Mutant of Extends: an equal extreme replaces the earlier one. *)
ExtendsOrEquals(s, bars, i) ==
    IF s.trend = "UP" THEN bars[i].high >= bars[s.extreme].high
    ELSE bars[i].low <= bars[s.extreme].low

Extends(s, bars, i) ==
    IF s.trend = "UP" THEN bars[i].high > bars[s.extreme].high
    ELSE bars[i].low < bars[s.extreme].low

Turn(s, bars, i) ==
    LET side == IF s.trend = "UP" THEN "UPPER" ELSE "LOWER"
    IN [origin |-> s.extreme, side |-> side,
        price |-> IF side = "UPPER" THEN bars[s.extreme].high ELSE bars[s.extreme].low,
        last |-> i, confirm |-> PrefixTime(bars, i)]

Reversed(s, bars, i) ==
    [s EXCEPT !.trend = IF s.trend = "UP" THEN "DOWN" ELSE "UP",
              !.extreme = i,
              !.turns = Append(s.turns, Turn(s, bars, i))]

(* The first close away from the anchor's sets the direction. *)
Directed(s, bars, i) ==
    IF bars[i].close = bars[s.anchor].close THEN s
    ELSE [s EXCEPT !.trend = IF bars[i].close > bars[s.anchor].close THEN "UP" ELSE "DOWN",
                   !.extreme = i]

(* One turn of the loop of AtrReversalDetector._detect on bar i. *)
AtrStep(s, bars, i) ==
    IF i < AtrPeriod THEN s
    ELSE IF s.anchor = 0 THEN [s EXCEPT !.anchor = i]
    ELSE IF s.trend = "UNKNOWN" THEN Directed(s, bars, i)
    ELSE IF Reverses(s, bars, i) THEN Reversed(s, bars, i)
    ELSE IF Extends(s, bars, i) THEN [s EXCEPT !.extreme = i]
    ELSE s

AtrAfter(bars) ==
    LET after[n \in 0 .. Len(bars)] ==
            IF n = 0 THEN NewAtr ELSE AtrStep(after[n - 1], bars, n)
    IN after[Len(bars)]

-----------------------------------------------------------------------------
(* Close-confirmed structure breaks. *)

NoSeed == [origin |-> 0, side |-> "UPPER", price |-> 0, last |-> 0, confirm |-> 0]

Break == [pending : Candidate, reference : Candidate, bar : Nat, confirm : Nat]

BreakState == [known : SUBSET Candidate, pending : [Side -> Candidate \cup {NoSeed}],
               breaks : Seq(Break)]
NewBreak == [known |-> {}, pending |-> [side \in Side |-> NoSeed], breaks |-> <<>>]

(* _SeedFact: a seed counts from the moment the whole prefix up to its     *)
(* last window bar is known.                                               *)
EffectiveTime(seed, bars) == Max({seed.confirm, PrefixTime(bars, seed.last)})

(* _SeedFact.rank *)
Outranks(a, b, bars, order) ==
    LET ea == EffectiveTime(a, bars)
        eb == EffectiveTime(b, bars)
    IN \/ ea > eb
       \/ ea = eb /\ a.confirm > b.confirm
       \/ ea = eb /\ a.confirm = b.confirm /\ DigestBefore(b, a, order)

Best(seeds, bars, order) ==
    CHOOSE seed \in seeds : \A other \in seeds \ {seed} : Outranks(seed, other, bars, order)

(* The best arrival replaces a pending seed it outranks. *)
Latest(current, arrived, bars, order) ==
    LET rivals == arrived \cup ({current} \ {NoSeed})
    IN IF rivals = {} THEN NoSeed ELSE Best(rivals, bars, order)

(* Seeds whose last window bar lies before bar i and that the loop has not *)
(* met yet.                                                                *)
Absorb(s, seeds, bars, i, order) ==
    LET new == {seed \in seeds : seed.last < i} \ s.known
        arrived(side) == {seed \in new : seed.side = side}
    IN [s EXCEPT !.known = s.known \cup new,
                 !.pending = [side \in Side |->
                     Latest(s.pending[side], arrived(side), bars, order)]]

References(s, seed) ==
    {r \in s.known : r.side = Opposing(seed.side) /\ r.origin < seed.origin}

Breaks(bar, seed, reference) ==
    IF seed.side = "UPPER" THEN bar.close <= reference.price - BreakBuffer
    ELSE bar.close >= reference.price + BreakBuffer

BreakTime(seed, reference, bars, i) ==
    Max({seed.confirm, reference.confirm, PrefixTime(bars, i)})

Spent(s, side) == [s EXCEPT !.pending[side] = NoSeed]

(* The confirmation of one side's pending seed by bar i, if there is one.  *)
TryBreak(s, side, bars, i, order) ==
    LET seed == s.pending[side]
        reference == Best(References(s, seed), bars, order)
    IN IF /\ seed # NoSeed
          /\ References(s, seed) # {}
          /\ Breaks(bars[i], seed, reference)
       THEN [Spent(s, side) EXCEPT !.breaks = Append(s.breaks,
                [pending |-> seed, reference |-> reference, bar |-> i,
                 confirm |-> BreakTime(seed, reference, bars, i)])]
       ELSE s

(* Mutant of BreakStep: the bar is tried before its seeds are taken in. *)
BreakThenAbsorb(s, seeds, bars, i, order) ==
    LET upper == TryBreak(s, "UPPER", bars, i, order)
    IN Absorb(TryBreak(upper, "LOWER", bars, i, order), seeds, bars, i, order)

(* One turn of the loop of _detect_structure_confirmations on bar i: seeds *)
(* first, then the upper side, then the lower.                             *)
BreakStep(s, seeds, bars, i, order) ==
    LET absorbed == Absorb(s, seeds, bars, i, order)
        upper == TryBreak(absorbed, "UPPER", bars, i, order)
    IN TryBreak(upper, "LOWER", bars, i, order)

BreaksAfter(bars, seeds, order) ==
    LET after[n \in 0 .. Len(bars)] ==
            IF n = 0 THEN NewBreak
            ELSE BreakStep(after[n - 1], seeds, bars, n, order)
    IN after[Len(bars)].breaks
=============================================================================
