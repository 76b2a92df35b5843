--------------------------- MODULE CandidateScan ---------------------------
(***************************************************************************)
(* The detectors that scan a causal prefix bar by bar, reading the same    *)
(* bars: ATR turning points (swing/atr_reversal.py), structure breaks over *)
(* pivots (swing/structure_break.py) and reactions at pivots               *)
(* (levels/reaction.py).  The source is chosen bar by bar, so every state  *)
(* is the result of a call whose causal prefix ends there.                 *)
(***************************************************************************)
EXTENDS LevelRules

CONSTANT NextBars(_)     \* the bars with which a source may go on

VARIABLES
    order,      \* how the digests of tied seeds happen to compare
    bars,       \* the causal prefix read so far
    atr,        \* trend, anchor, extreme and the turning points so far
    scan,       \* known and pending seeds, and the breaks found
    reaction    \* for each pivot confirmed so far, the attempts at its zone

vars == <<order, bars, atr, scan, reaction>>

(* A pivot in the middle of its window still looks at no bar: the bars up  *)
(* to its confirmation are not eligible, so its scan may start there.      *)
ReactionOf(seed) == IF seed \in DOMAIN reaction THEN reaction[seed] ELSE NewReaction

Init ==
    /\ order \in {1, -1} /\ bars = <<>>
    /\ atr = NewAtr /\ scan = NewBreak /\ reaction = <<>>

ReadBar(bar) ==
    /\ bar \in Bar /\ (bars # <<>> => bars[Len(bars)].end <= bar.timestamp)
    /\ bars' = Append(bars, bar)
    /\ LET i == Len(bars')
           seeds == Pivots(bars', DOMAIN bars')
       IN /\ atr' = AtrStep(atr, bars', i)
          /\ scan' = BreakStep(scan, seeds, bars', i, order)
          /\ reaction' = [seed \in seeds |-> ReactionStep(ReactionOf(seed), bars', seed, i)]
    /\ UNCHANGED order

Next == \E bar \in NextBars(bars) : ReadBar(bar)

Spec == Init /\ [][Next]_vars

-----------------------------------------------------------------------------
(* ATR turning points. *)

Turns == DOMAIN atr.turns

(* Highs and lows alternate: two turning points of one side are never      *)
(* confirmed in a row, however the bars fall.                              *)
TurnsAlternate ==
    \A k \in Turns : k > 1 => atr.turns[k].side = Opposing(atr.turns[k - 1].side)

(* The leg a turning point ends starts on the bar that confirmed the turn  *)
(* before it, or on the bar that set the first direction.                  *)
FirstDirected ==
    CHOOSE i \in AtrPeriod + 1 .. Len(bars) :
        /\ bars[i].close # bars[AtrPeriod].close
        /\ \A j \in AtrPeriod + 1 .. i - 1 : bars[j].close = bars[AtrPeriod].close

LegStart(k) == IF k = 1 THEN FirstDirected ELSE atr.turns[k - 1].last

(* A turning point is the extreme of its whole leg before the confirming   *)
(* bar, and of equal extremes the first: what the running update computes. *)
TurnIsLegExtreme ==
    \A k \in Turns :
        LET turn == atr.turns[k]
            leg == LegStart(k) .. turn.last - 1
            at(i) == IF turn.side = "UPPER" THEN bars[i].high ELSE - bars[i].low
        IN /\ turn.origin \in leg
           /\ \A i \in leg : \/ at(i) < at(turn.origin)
                             \/ at(i) = at(turn.origin) /\ turn.origin <= i

(* No bar inside a leg retraced far enough from what was then the extreme: *)
(* a turn is confirmed by the first bar that could confirm it.             *)
ConfirmedByFirstRetrace ==
    \A k \in Turns :
        LET turn == atr.turns[k]
            extremeBefore(i) ==
                IF turn.side = "UPPER"
                THEN Max({bars[j].high : j \in LegStart(k) .. i - 1}) - bars[i].low
                ELSE bars[i].high - Min({bars[j].low : j \in LegStart(k) .. i - 1})
            confirms(i) == AtrPeriod * extremeBefore(i) >= Multiplier * RangeSum(bars, i)
        IN /\ confirms(turn.last)
           /\ \A i \in LegStart(k) + 1 .. turn.last - 1 : ~confirms(i)

(* Turning points alternate, and each is decided by the extreme bar of its *)
(* leg and by the first bar that retraces far enough from it, by no other. *)
TurnRestsOnItsLeg == TurnsAlternate /\ TurnIsLegExtreme /\ ConfirmedByFirstRetrace

-----------------------------------------------------------------------------
(* Structure breaks. *)

Found == DOMAIN scan.breaks

(* No seed confirms twice, and a side that was broken waits for a seed not *)
(* known at the time: an older unbroken one is not taken up again.         *)
EachSeedBreaksOnce ==
    \A j, k \in Found : j # k =>
        /\ scan.breaks[j].pending # scan.breaks[k].pending
        /\ scan.breaks[j].pending.side = scan.breaks[k].pending.side /\ j < k =>
              scan.breaks[k].pending.last >= scan.breaks[j].bar

(* What a break rests on was all known strictly before its bar, in the     *)
(* order reference, pending, break; nothing in it is younger than its      *)
(* confirm time.                                                           *)
BreakRestsOnThePast ==
    \A k \in Found :
        LET b == scan.breaks[k]
        IN /\ b.reference.origin < b.pending.origin
           /\ b.pending.last < b.bar /\ b.reference.last < b.bar
           /\ b.confirm = PrefixTime(bars, b.bar)

(* A seed is still pending only if no close since it and its present       *)
(* reference became known reached the threshold, whatever was known first. *)
NoneMissed ==
    \A side \in Side :
        LET seed == scan.pending[side]
            reference == Best(References(scan, seed), bars, order)
        IN seed # NoSeed /\ References(scan, seed) # {} =>
              \A i \in Max({seed.last, reference.last}) + 1 .. Len(bars) :
                  ~Breaks(bars[i], seed, reference)

(* Each break is that of a fresh seed on facts known before its bar, and   *)
(* no seed that could break is passed over.                                *)
BreaksAreExact == EachSeedBreaksOnce /\ BreakRestsOnThePast /\ NoneMissed

-----------------------------------------------------------------------------
(* Reactions. *)

(* What an attempt that touched on bar t comes to: the first eligible bar  *)
(* within the horizon that penetrates the zone or closes away from it.     *)
Decides(source, seed, i) ==
    /\ Eligible(source, seed, i)
    /\ Penetrates(source[i], seed) \/ ConfirmsRejection(source[i], seed)

Deciding(source, seed, t) ==
    {i \in t + 1 .. t + ReactionHorizon : i \in DOMAIN source /\ Decides(source, seed, i)}

AttemptEnd(source, seed, t) ==
    IF Deciding(source, seed, t) = {} THEN t + ReactionHorizon
    ELSE Min(Deciding(source, seed, t))

Holds(source, seed, t) ==
    /\ Deciding(source, seed, t) # {}
    /\ ~Penetrates(source[AttemptEnd(source, seed, t)], seed)

(* The bars from p on that may start an attempt when bar l was the last to *)
(* be rejected, 0 if none was.                                             *)
Openings(source, seed, p, l) ==
    {t \in p .. Len(source) :
        /\ Eligible(source, seed, t)
        /\ TouchesZone(source[t], seed)
        /\ l = 0 \/ t - l >= MinSeparation}

(* The touches that were rejected, read attempt by attempt: each attempt   *)
(* starts on the first opening after the one before it ended.              *)
RejectedTouches(source, seed) ==
    LET n == Len(source)
        from[p \in 1 .. n + 1] ==
            [l \in 0 .. n |->
                LET t == Min(Openings(source, seed, p, l))
                    p2 == Min({AttemptEnd(source, seed, t) + 1, n + 1})
                IN IF Openings(source, seed, p, l) = {} THEN <<>>
                   ELSE IF Holds(source, seed, t) THEN <<t>> \o from[p2][t]
                   ELSE from[p2][l]]
    IN from[1][0]

(* The reactions found at a zone are the first MinReactions rejected       *)
(* touches of this reading, although the scan decides bar by bar, and each *)
(* is known only when all bars up to its last one and the seed were.       *)
ReactionsMatchReading ==
    \A seed \in DOMAIN reaction :
        LET found == reaction[seed].found
            rejected == RejectedTouches(bars, seed)
        IN /\ Len(found) = Min({MinReactions, Len(rejected)})
           /\ \A k \in DOMAIN found :
                 /\ found[k].touch = rejected[k]
                 /\ found[k].bar = AttemptEnd(bars, seed, rejected[k])
                 /\ \A i \in 1 .. found[k].bar : found[k].confirm >= bars[i].available
                 /\ found[k].confirm >= seed.confirm
=============================================================================
