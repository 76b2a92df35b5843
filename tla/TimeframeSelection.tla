------------------------- MODULE TimeframeSelection -------------------------
(***************************************************************************)
(* The pure rules of the timeframe state engine                            *)
(* (msa/research/timeframe_state): which boundaries of one lifecycle       *)
(* snapshot form the candidate and the confirmed pair (LATEST_CAUSAL), and *)
(* how the direction follows from the confirmed pairs.  An optional        *)
(* boundary is a set with at most one element.                             *)
(***************************************************************************)
EXTENDS Integers

CONSTANTS
    Subject,        \* subjects of the target context, as comparable ids
    SideOf,         \* the side a subject was born on
    LowOf, HighOf,  \* its price range
    ConfirmTimeOf,  \* its structural confirm time
    PhasesOf        \* bound: the lifecycle states a subject may show

ASSUME SubjectAssumption ==
    /\ Subject \subseteq Nat
    /\ SideOf \in [Subject -> {"UPPER", "LOWER"}]
    /\ LowOf \in [Subject -> Int] /\ HighOf \in [Subject -> Int]
    /\ \A s \in Subject : LowOf[s] <= HighOf[s]
    /\ ConfirmTimeOf \in [Subject -> Nat]

CandidatePhase == {"FRESH", "TESTED", "WEAKENED", "FLIPPED"}
ConfirmedPhase == {"TESTED", "WEAKENED", "FLIPPED"}

Phase == CandidatePhase \cup {"BROKEN", "RETIRED"}

ASSUME PhaseAssumption == PhasesOf \in [Subject -> SUBSET Phase]

Boundary == [subject : Subject, phase : Phase, confirm : Nat]
Pair == [upper : SUBSET Boundary, lower : SUBSET Boundary]
NoPair == [upper |-> {}, lower |-> {}]
Direction == {"UNKNOWN", "RANGE", "UP", "DOWN", "TURNING"}

-----------------------------------------------------------------------------
(* Selection *)

(* A flipped subject bounds from the other side. *)
EffectiveSide(b) ==
    IF b.phase # "FLIPPED" THEN SideOf[b.subject]
    ELSE IF SideOf[b.subject] = "UPPER" THEN "LOWER" ELSE "UPPER"

(* BoundarySelectionKey: state confirm time, structural confirm time, id.  *)
Newer(a, b) ==
    \/ a.confirm > b.confirm
    \/ a.confirm = b.confirm /\ ConfirmTimeOf[a.subject] > ConfirmTimeOf[b.subject]
    \/ /\ a.confirm = b.confirm /\ ConfirmTimeOf[a.subject] = ConfirmTimeOf[b.subject]
       /\ a.subject > b.subject

Winner(values, side) ==
    {b \in values :
        /\ EffectiveSide(b) = side
        /\ \A other \in values : EffectiveSide(other) = side /\ other # b => Newer(b, other)}

(* Mutant of Crosses: overlapping zones do not count. *)
LiesBeyond(upper, lower) ==
    \E u \in upper, l \in lower : LowOf[l.subject] > HighOf[u.subject]

Crosses(upper, lower) ==
    \E u \in upper, l \in lower : HighOf[l.subject] > LowOf[u.subject]

(* A crossed pair keeps its newer side and does not search for another. *)
ResolvePair(values) ==
    LET upper == Winner(values, "UPPER")
        lower == Winner(values, "LOWER")
        crossing == Crosses(upper, lower)
        upperNewer == \E u \in upper, l \in lower : Newer(u, l)
    IN [upper |-> IF crossing /\ ~upperNewer THEN {} ELSE upper,
        lower |-> IF crossing /\ upperNewer THEN {} ELSE lower]

CandidatePair(source) == ResolvePair({b \in source : b.phase \in CandidatePhase})

ConfirmedPair(source) == ResolvePair({b \in source : b.phase \in ConfirmedPhase})

Complete(pair) == pair.upper # {} /\ pair.lower # {}

(* Only a complete pair has an identity. *)
Identity(pair) == IF Complete(pair) THEN pair ELSE NoPair

-----------------------------------------------------------------------------
(* Direction *)

SamePosition(p, q) ==
    /\ {b.subject : b \in p.upper} = {b.subject : b \in q.upper}
    /\ {b.subject : b \in p.lower} = {b.subject : b \in q.lower}

(* Midpoints are compared doubled. *)
DoubledMidpoint(b) == LowOf[b.subject] + HighOf[b.subject]
Above(p, q) == \A a \in p, b \in q : DoubledMidpoint(a) > DoubledMidpoint(b)

Rose(p, q) == Above(p.upper, q.upper) /\ Above(p.lower, q.lower)

RawDirection(current, last) ==
    IF Rose(current, last) THEN "UP" ELSE IF Rose(last, current) THEN "DOWN" ELSE "RANGE"

Reverses(previous, raw) == <<previous, raw>> \in {<<"UP", "DOWN">>, <<"DOWN", "UP">>}

(* What _direction_transition returns, less the wording of its rationale. *)
Kept(direction) == [direction |-> direction, raw |-> direction, moved |-> FALSE]
Moved(direction, raw) == [direction |-> direction, raw |-> raw, moved |-> TRUE]

(* Mutant of Transition: a reversal is taken over at once. *)
TakeRaw(previous, last, before, current) ==
    IF ~Complete(current)
    THEN IF ~Complete(last) THEN Kept("UNKNOWN")
         ELSE IF Complete(before) THEN Moved("TURNING", "TURNING") ELSE Kept(previous)
    ELSE IF ~Complete(last) THEN Moved("RANGE", "RANGE")
    ELSE IF Complete(before) /\ SamePosition(current, last) THEN Kept(previous)
    ELSE Moved(RawDirection(current, last), RawDirection(current, last))

(* last is the last complete pair ever, before the pair of the previous    *)
(* snapshot.  A pair that comes back after a loss is never at the same     *)
(* position and never a reversal.                                          *)
Transition(previous, last, before, current) ==
    IF ~Complete(current)
    THEN IF ~Complete(last) THEN Kept("UNKNOWN")
         ELSE IF Complete(before) THEN Moved("TURNING", "TURNING") ELSE Kept(previous)
    ELSE IF ~Complete(last) THEN Moved("RANGE", "RANGE")
    ELSE IF Complete(before) /\ SamePosition(current, last) THEN Kept(previous)
    ELSE LET raw == RawDirection(current, last)
         IN Moved(IF Complete(before) /\ Reverses(previous, raw) THEN "TURNING" ELSE raw, raw)
=============================================================================
