------------------------------ MODULE MCMsaCore ------------------------------
(***************************************************************************)
(* A small instance of CausalAudit: three upper boundaries of which the    *)
(* third links the other two, and a lower one.  Lifecycle snapshots come   *)
(* at 2, 4 and 6, bars between and with them; odd times are left to        *)
(* replays.                                                                *)
(***************************************************************************)
EXTENDS CausalAudit

MCContext == {"SLOW", "FAST"}
MCLow == <<7, 9, 8, 3>>
MCHigh == <<7, 9, 8, 4>>
MCSide == <<"UPPER", "UPPER", "UPPER", "LOWER">>
MCContextOf == <<"SLOW", "FAST", "FAST", "SLOW">>
MCSources == <<{"SWING"}, {"SWING"}, {"LEVEL"}, {"SWING"}>>
MCFamilies == <<{1}, {2}, {1}, {3}>>

MCScoring ==
    [tolerance |-> 1, distanceHorizon |-> 6,
     contextWeight |-> [SLOW |-> 2, FAST |-> 1],
     tierWeight |-> [CANDIDATE |-> 1, CONFIRMED |-> 2],
     lifecycleWeight |-> [FRESH |-> 2, TESTED |-> 2, WEAKENED |-> 1, FLIPPED |-> 2],
     freshnessHorizon |-> 4, freshnessFloor |-> 1,
     touchUnit |-> 2, touchFloor |-> 1, touchPenalty |-> 1,
     directionFactor |-> [ALIGNED |-> 2, NEUTRAL |-> 1, TURNING |-> 1, OPPOSED |-> 0, UNKNOWN |-> 1],
     repeatCredit |-> 1, creditUnit |-> 2,
     sourceBonus |-> 4, sourceBonusCap |-> 4, contextBonus |-> 8, contextBonusCap |-> 8,
     minimumEvidence |-> 2, minimumContexts |-> 2,
     placement |-> [EXPECTED_SIDE |-> 1, CONTAINS_PRICE |-> 0, OPPOSITE_SIDE |-> 0]]

(* Lives of a subject in the three snapshots. *)
State(state, confirm, touches) == [state |-> state, confirm |-> confirm, touches |-> touches]
Unborn == State("UNBORN", 0, 0)
Fresh == State("FRESH", 2, 0)
Tested == State("TESTED", 4, 1)

Fading == <<Fresh, Fresh, Fresh>>
Holding == <<Fresh, Tested, Tested>>
Weakening == <<Fresh, Tested, State("WEAKENED", 6, 2)>>
Late == <<Unborn, State("FRESH", 4, 0), State("FRESH", 4, 0)>>
Falling == <<Fresh, State("BROKEN", 4, 1), State("RETIRED", 6, 1)>>
Turning == <<Fresh, State("BROKEN", 4, 1), State("FLIPPED", 6, 1)>>

Lives == {Fading, Turning} \X {Holding, Late} \X {Weakening, Falling, Late} \X {Fading, Holding, Turning}

SnapshotAt(lives, k) == [s \in {s \in 1 .. 4 : lives[s][k] # Unborn} |-> lives[s][k]]

Bar(timestamp, available, low, high, close) ==
    [timestamp |-> timestamp, available |-> available, low |-> low, high |-> high,
     close |-> close, complete |-> TRUE]

(* The market climbs through the upper boundaries; a bar is late; two bars *)
(* become available together; it swings from boundary to boundary; there   *)
(* are too few bars for an ATR.                                            *)
Climbing == {Bar(0, 2, 4, 6, 5), Bar(2, 4, 5, 10, 10), Bar(4, 6, 9, 12, 11)}
Delayed == {Bar(0, 3, 5, 6, 5), Bar(2, 6, 5, 9, 8), Bar(3, 4, 6, 7, 6)}
Together == {Bar(0, 2, 5, 5, 5), Bar(2, 5, 6, 10, 10), Bar(3, 5, 6, 8, 6)}
Swinging == {Bar(0, 1, 5, 6, 6), Bar(1, 2, 5, 6, 5), Bar(2, 3, 4, 8, 6),
             Bar(3, 5, 3, 7, 6), Bar(5, 6, 5, 9, 6), Bar(6, 7, 4, 6, 5)}
Scarce == {Bar(3, 4, 5, 10, 9), Bar(4, 6, 6, 11, 10)}

MCBars == {Climbing, Delayed, Together, Swinging}

Broken(lives) == [s \in {s \in 1 .. 4 : lives[s] \in {Falling, Turning}} |-> 4]

MCInputs ==
    LET along(first, second, third) == [t \in {2, 4, 6} |-> <<first, second, third>>[t \div 2]]
        steady(direction) == along(direction, direction, direction)
        inputOf(lives, directions, bars) ==
            [lifecycle |-> [t \in {2, 4, 6} |-> SnapshotAt(lives, t \div 2)],
             directions |-> directions, bars |-> bars, breaks |-> Broken(lives)]
        ordinary == {inputOf(lives, [SLOW |-> steady(d), FAST |-> steady("RANGE")], bars) :
                        lives \in Lives, d \in {"RANGE", "TURNING"}, bars \in MCBars}
        turning == {inputOf(<<Fading, Holding, Late, last>>, [SLOW |-> slow, FAST |-> steady("UP")], bars) :
                        last \in {Fading, Turning}, bars \in {Climbing, Swinging, Scarce},
                        slow \in {along("UP", "TURNING", "UP"), along("UP", "TURNING", "DOWN"),
                                  along("RANGE", "UP", "UP")}}
        partial == {inputOf(<<Fading, Holding, Late, Fading>>,
                            [SLOW |-> [t \in times |-> "RANGE"], FAST |-> steady("UP")], bars) :
                        times \in {{2, 4}, {4, 6}}, bars \in MCBars}
    IN ordinary \cup turning \cup partial \cup {[i EXCEPT !.bars = {}] : i \in partial}
         \cup {[i EXCEPT !.bars = {[b EXCEPT !.complete = FALSE] : b \in i.bars}] : i \in partial}

MCMetrics ==
    [atrPeriod |-> 2, turnBars |-> 1, breakBars |-> 1, breakContinuation |-> 1, trendBars |-> 2,
     reactionBars |-> 1, matchDistance |-> 1, minPairs |-> 1]
MCOriginOf == <<-1, 0, 1, 0>>
MCDirectionOrigin == [t \in {2, 4, 6} |-> t - 2]

MCExtraTimes == {{}, {3}, {5, 7}, {7, 9}, {1}}
=============================================================================
