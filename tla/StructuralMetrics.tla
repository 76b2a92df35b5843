------------------------- MODULE StructuralMetrics -------------------------
(***************************************************************************)
(* The structural metrics (C-008B, msa/validation/metrics): what happened  *)
(* after a structure was confirmed, a direction changed, a boundary broke  *)
(* or a box was touched, as far as is known at a cutoff.  An evaluation    *)
(* keeps nothing; it reads a run, the record of                            *)
(*   run.data                  the source of the run, with data.breaks,    *)
(*                             subject -> confirm time of its break        *)
(*   run.times                 the times of its frames                     *)
(*   run.frames, run.scores    the frames and their scores                 *)
(*   run.ledger                the events of the active box, whose confirm *)
(*                             is the number of a frame                    *)
(*                                                                         *)
(* A rational is a pair <<numerator, denominator>>; a record stands for    *)
(* the digest that names it.  Sums and means are left out: they are        *)
(* functions of the observations they are taken over.                      *)
(***************************************************************************)
EXTENDS ResonanceScores

CONSTANTS
    Metrics,            \* StructuralMetricConfig
    OriginOf,           \* origin time of each subject's boundary
    DirectionOrigin     \* snapshot time -> origin of a direction first seen then

(* StructuralMetricConfig.__post_init__ *)
MetricConfigAccepts ==
    /\ \A field \in {"atrPeriod", "turnBars", "breakBars", "trendBars", "reactionBars", "minPairs"} :
          Metrics[field] \in Nat \ {0}
    /\ Metrics.breakContinuation \in Nat /\ Metrics.matchDistance \in Nat

ASSUME MetricsAssumption == MetricConfigAccepts

Absent == <<>>      \* None, where the code may have no number
Magnitude(n) == Larger(n, -n)

-----------------------------------------------------------------------------
(* Reference bars *)

BarsOf(data) == SetToSortSeq(data.bars, LAMBDA a, b : a.timestamp < b.timestamp)

(* validate_reference_bars: a late bar is not put right, it is refused.    *)
BarsAccepted(bars) == \A i \in 2 .. Len(bars) : bars[i - 1].available < bars[i].available

(* How many bars are available by a time: also the number of the last one. *)
Known(bars, time) == Cardinality({i \in DOMAIN bars : bars[i].available <= time})

TrueRange(bars, i) ==
    IF i = 1 THEN bars[1].high - bars[1].low
    ELSE Max({bars[i].high - bars[i].low, Magnitude(bars[i].high - bars[i - 1].close),
              Magnitude(bars[i].low - bars[i - 1].close)})

(* causal_wilder_atr *)
WilderAtr(bars, n) ==
    LET period == Metrics.atrPeriod
        smoothed(atr, i) ==
            <<atr[1] * (period - 1) + TrueRange(bars, period + i) * atr[2], atr[2] * period>>
        mean == <<MapThenSumSet(LAMBDA i : TrueRange(bars, i), 1 .. period), period>>
    IN FoldLeft(smoothed, mean, [i \in 1 .. n - period |-> i])

(* causal_atr_at_or_before *)
CausalAtr(bars, time) ==
    IF Known(bars, time) < Metrics.atrPeriod THEN Absent ELSE WilderAtr(bars, Known(bars, time))

Divides(atr) == atr # Absent /\ atr[1] > 0

(* bars_after *)
BarsAfter(bars, time, cutoff) == Known(bars, time) + 1 .. Known(bars, cutoff)

(* Mutant of FirstBarsAfter: the window grows with the cutoff. *)
AllBarsAfter(bars, time, cutoff, n) == BarsAfter(bars, time, cutoff)

FirstBarsAfter(bars, time, cutoff, n) ==
    {i \in BarsAfter(bars, time, cutoff) : i <= Known(bars, time) + n}

EndOf(bars, window, cutoff) == IF window = {} THEN cutoff ELSE bars[Max(window)].available

Highest(bars, window) == Max({bars[i].high : i \in window})
Lowest(bars, window) == Min({bars[i].low : i \in window})

-----------------------------------------------------------------------------
(* Events, each with the time it became known and the frame or snapshot    *)
(* that first showed it                                                    *)

StructureEvent(bars, frame, evidence) ==
    [kind |-> "STRUCTURE_CONFIRMATION", confirm |-> evidence.confirm, observed |-> frame.asOf,
     evidence |-> evidence, atr |-> CausalAtr(bars, evidence.confirm),
     origin |-> OriginOf[evidence.subject],
     twiceAnchor |-> LowOf[evidence.subject] + HighOf[evidence.subject]]

Evident(frame) == {e.subject : e \in frame.evidence}

(* _structure_events: a subject counts when a frame first holds evidence   *)
(* of it.                                                                  *)
StructureEvents(run, bars, cutoff) ==
    LET visible == {i \in DOMAIN run.frames : run.frames[i].asOf <= cutoff}
        first(s) == run.frames[Min({i \in visible : s \in Evident(run.frames[i])})]
    IN {StructureEvent(bars, first(s), EvidenceFor(first(s), s)) :
          s \in UNION {Evident(run.frames[i]) : i \in visible}}

Stable == {"UP", "DOWN"}

DirectionBefore(history, time) ==
    LET earlier == {t \in DOMAIN history : t < time}
    IN IF earlier = {} THEN "NONE" ELSE history[Max(earlier)]

(* _timeframe_events *)
TurnCandidates(data, bars, cutoff) ==
    UNION {LET history == data.directions[c]
           IN {[kind |-> "TURN_CANDIDATE", confirm |-> t, observed |-> t, context |-> c,
                prior |-> DirectionBefore(history, t), atr |-> CausalAtr(bars, t)] :
                 t \in {t \in DOMAIN history : /\ t <= cutoff /\ history[t] = "TURNING"
                                              /\ DirectionBefore(history, t) \in Stable}} : c \in Context}

DirectionEpisodes(data, bars, cutoff) ==
    UNION {LET history == data.directions[c]
           IN {[kind |-> "DIRECTION_EPISODE", confirm |-> t, observed |-> t, context |-> c,
                direction |-> history[t], origin |-> DirectionOrigin[t], atr |-> CausalAtr(bars, t)] :
                 t \in {t \in DOMAIN history : /\ t <= cutoff /\ history[t] \in Stable
                                              /\ DirectionBefore(history, t) # history[t]}} : c \in Context}

FirstSnapshot(data, time) == Min({t \in DOMAIN data.lifecycle : time <= t})

(* Mutant of StateWhenBroken: the state of the last snapshot. *)
LastState(data, subject) == data.lifecycle[Max(DOMAIN data.lifecycle)][subject]

(* The state the break event is bound to.                                  *)
StateWhenBroken(data, subject) == data.lifecycle[FirstSnapshot(data, data.breaks[subject])][subject]

(* _break_events *)
BreakEvents(data, bars, cutoff) ==
    {[kind |-> "BREAK_CONFIRMATION", confirm |-> data.breaks[s],
      observed |-> FirstSnapshot(data, data.breaks[s]), subject |-> s,
      state |-> StateWhenBroken(data, s), side |-> SideOf[s],
      anchor |-> IF SideOf[s] = "UPPER" THEN HighOf[s] ELSE LowOf[s],
      atr |-> CausalAtr(bars, data.breaks[s])] :
        s \in {s \in DOMAIN data.breaks :
                 \E t \in DOMAIN data.lifecycle : data.breaks[s] <= t /\ t <= cutoff}}

(* _active_box_events *)
CreatedBy(run, cutoff) ==
    {n \in DOMAIN run.ledger : run.ledger[n].type = "CREATED" /\ run.times[run.ledger[n].confirm] <= cutoff}

ZoneWhen(run, frame, key) == CHOOSE zone \in run.scores[frame].zones : zone.key = key

BoxEvent(run, bars, event) ==
    LET created == run.times[event.confirm]
    IN [kind |-> "BOX_EPISODE_CREATED", confirm |-> created, observed |-> created,
        box |-> event.episode, price |-> event.episode.price, atr |-> CausalAtr(bars, created),
        lower |-> ZoneWhen(run, event.confirm, event.episode.lower),
        upper |-> ZoneWhen(run, event.confirm, event.episode.upper)]

BoxEvents(run, bars, cutoff) ==
    {BoxEvent(run, bars, run.ledger[n]) : n \in CreatedBy(run, cutoff)}

FreezeTimes(run, episode) ==
    {run.times[run.ledger[n].confirm] :
        n \in {n \in DOMAIN run.ledger : run.ledger[n].type = "FROZEN" /\ run.ledger[n].episode = episode}}

(* Bars that reach a zone while its box is active.  The bar a box is       *)
(* frozen with comes too late, and so does the bar it was created with.    *)
Touches(bars, key, created, frozen, cutoff) ==
    {i \in BarsAfter(bars, created, cutoff) :
        /\ \A time \in frozen : bars[i].available < time
        /\ bars[i].low <= ZoneHigh[key] /\ bars[i].high >= ZoneLow[key]}

TouchEvent(bars, episode, zone, creationAtr, index) ==
    [kind |-> "BOUNDARY_FIRST_TOUCH", confirm |-> bars[index].available,
     observed |-> bars[index].available, box |-> episode, zone |-> zone, side |-> zone.key.side,
     bar |-> index, anchor |-> IF zone.key.side = "LOWER" THEN ZoneHigh[zone.key] ELSE ZoneLow[zone.key],
     atr |-> CausalAtr(bars, bars[index].available),
     distance |-> IF Divides(creationAtr) THEN <<zone.distance * creationAtr[2], creationAtr[1]>>
                  ELSE Absent]

TouchEvents(run, bars, cutoff, boxEvents) ==
    {TouchEvent(bars, touch[1].box, touch[2], touch[1].atr, Min(touch[3])) :
        touch \in {touch \in UNION {{<<b, zone, Touches(bars, zone.key, b.confirm, FreezeTimes(run, b.box), cutoff)>> :
                                       zone \in {b.lower, b.upper}} : b \in boxEvents} : touch[3] # {}}}

(* _extract_events; the order of events is that of their confirm times,    *)
(* and of digests between equals.                                          *)
EventsOf(run, bars, cutoff) ==
    StructureEvents(run, bars, cutoff) \cup TurnCandidates(run.data, bars, cutoff)
      \cup DirectionEpisodes(run.data, bars, cutoff) \cup BreakEvents(run.data, bars, cutoff)
      \cup BoxEvents(run, bars, cutoff) \cup TouchEvents(run, bars, cutoff, BoxEvents(run, bars, cutoff))

-----------------------------------------------------------------------------
(* Observations *)

Censored(end, window) == [status |-> "CENSORED_RIGHT", end |-> end, bars |-> window, value |-> Absent]
Unavailable(end, window) == [status |-> "UNAVAILABLE_INPUT", end |-> end, bars |-> window, value |-> Absent]
Matured(end, window, value) == [status |-> "MATURED", end |-> end, bars |-> window, value |-> value]
Truth(condition) == <<IF condition THEN 1 ELSE 0, 1>>

(* _confirmation_delay_bars *)
DelayBars(bars, event) ==
    LET counted == Known(bars, event.origin) + 1 .. Known(bars, event.confirm)
    IN IF event.origin < bars[1].timestamp THEN Unavailable(event.confirm, counted)
       ELSE Matured(event.confirm, counted, <<Cardinality(counted), 1>>)

(* _confirmation_delay_atr *)
DelayAtr(bars, event) ==
    LET last == Known(bars, event.confirm)
    IN IF last = 0 \/ ~Divides(event.atr) THEN Unavailable(event.confirm, {last} \ {0})
       ELSE Matured(event.confirm, {last},
                    <<Magnitude(2 * bars[last].close - event.twiceAnchor) * event.atr[2], 2 * event.atr[1]>>)

(* _false_turn *)
FalseTurn(history, bars, event, window, cutoff) ==
    LET end == EndOf(bars, window, cutoff)
        resolved == {t \in DOMAIN history : event.confirm < t /\ t <= end /\ history[t] \in Stable}
    IN IF Cardinality(window) < Metrics.turnBars \/ resolved = {} THEN Censored(end, window)
       ELSE Matured(Min(resolved), window, Truth(history[Min(resolved)] = event.prior))

(* _continued_break *)
ContinuedBreak(bars, event, window, cutoff) ==
    LET end == EndOf(bars, window, cutoff)
        favorable == IF event.side = "UPPER" THEN Highest(bars, window) - HighOf[event.subject]
                     ELSE LowOf[event.subject] - Lowest(bars, window)
    IN IF Cardinality(window) < Metrics.breakBars THEN Censored(end, window)
       ELSE IF event.atr = Absent THEN Unavailable(end, window)
       ELSE Matured(end, window,
                    Truth(favorable * event.atr[2] >= Metrics.breakContinuation * event.atr[1]))

(* _trend_capture, once the end of the episode is known *)
Captured(bars, event, window, end) ==
    LET gain(i) == IF event.direction = "UP" THEN Highest(bars, window) - bars[i].close
                   ELSE bars[i].close - Lowest(bars, window)
        origin == Known(bars, event.origin)
        last == Known(bars, event.confirm)
    IN IF origin = 0 \/ last = 0 \/ window = {} \/ gain(origin) <= 0 THEN Unavailable(end, window)
       ELSE Matured(end, window, <<Smaller(Larger(gain(last), 0), gain(origin)), gain(origin)>>)

(* _trend_capture: an episode ends with the opposite direction or with the *)
(* horizon, whichever comes first.                                         *)
TrendCapture(history, bars, event, cutoff) ==
    LET future == BarsAfter(bars, event.confirm, cutoff)
        opposite == {t \in DOMAIN history :
                       event.confirm < t /\ t <= cutoff /\ history[t] \in Stable \ {event.direction}}
        horizon == {i \in future : i = Known(bars, event.confirm) + Metrics.trendBars}
        ends == opposite \cup {bars[i].available : i \in horizon}
    IN IF ends = {} THEN Censored(EndOf(bars, future, cutoff), future)
       ELSE Captured(bars, event, BarsAfter(bars, event.confirm, Min(ends)), Min(ends))

(* _touch_excursions *)
Favorable(bars, event, window) ==
    Larger(0, IF event.side = "LOWER" THEN Highest(bars, window) - event.anchor
              ELSE event.anchor - Lowest(bars, window))
Adverse(bars, event, window) ==
    Larger(0, IF event.side = "LOWER" THEN event.anchor - Lowest(bars, window)
              ELSE Highest(bars, window) - event.anchor)

Excursion(bars, event, window, cutoff, value) ==
    LET end == EndOf(bars, window, cutoff)
    IN IF Cardinality(window) < Metrics.reactionBars THEN Censored(end, window)
       ELSE Matured(end, window, <<value, 1>>)

(* _touch_reaction *)
TouchReaction(bars, event, window, cutoff) ==
    LET end == EndOf(bars, window, cutoff)
    IN IF Cardinality(window) < Metrics.reactionBars THEN Censored(end, window)
       ELSE IF ~Divides(event.atr) THEN Unavailable(end, window)
       ELSE Matured(end, window,
               <<(Favorable(bars, event, window) - Adverse(bars, event, window)) * event.atr[2],
                 event.atr[1]>>)

(* _box_churn: every box but the first *)
BoxChurn(events, event) ==
    Matured(event.confirm, {},
            Truth(\E e \in events : e.kind = "BOX_EPISODE_CREATED" /\ e.confirm < event.confirm))

Observation(metric, event, outcome) ==
    [metric |-> metric, event |-> event, outcome |-> outcome,
     start |-> IF event.kind = "STRUCTURE_CONFIRMATION" THEN event.origin ELSE event.confirm]

TouchOutcomes(bars, event, window, cutoff) ==
    {Observation("MFE", event, Excursion(bars, event, window, cutoff, Favorable(bars, event, window))),
     Observation("MAE", event, Excursion(bars, event, window, cutoff, Adverse(bars, event, window))),
     Observation("FIRST_TOUCH_REACTION", event, TouchReaction(bars, event, window, cutoff))}

(* default_metric_formula_registry: what is observed of each event *)
ObservationsOf(data, bars, events, event, cutoff) ==
    LET first(n) == FirstBarsAfter(bars, event.confirm, cutoff, n)
    IN CASE event.kind = "STRUCTURE_CONFIRMATION" ->
                {Observation("CONFIRMATION_DELAY_BARS", event, DelayBars(bars, event)),
                 Observation("CONFIRMATION_DELAY_ATR", event, DelayAtr(bars, event))}
         [] event.kind = "TURN_CANDIDATE" ->
                {Observation("FALSE_TURN_RATE", event,
                    FalseTurn(data.directions[event.context], bars, event, first(Metrics.turnBars), cutoff))}
         [] event.kind = "BREAK_CONFIRMATION" ->
                {Observation("CONTINUED_BREAK_RATE", event,
                    ContinuedBreak(bars, event, first(Metrics.breakBars), cutoff))}
         [] event.kind = "DIRECTION_EPISODE" ->
                {Observation("TREND_CAPTURE_RATIO", event,
                    TrendCapture(data.directions[event.context], bars, event, cutoff))}
         [] event.kind = "BOX_EPISODE_CREATED" -> {Observation("BOX_CHURN", event, BoxChurn(events, event))}
         [] event.kind = "BOUNDARY_FIRST_TOUCH" ->
                TouchOutcomes(bars, event, first(Metrics.reactionBars), cutoff)

-----------------------------------------------------------------------------
(* Resonance lift: touches of resonance zones against touches of others *)

Gap(a, b) == <<Magnitude(a[1] * b[2] - b[1] * a[2]), a[2] * b[2]>>
Less(a, b) == a[1] * b[2] < b[1] * a[2]

(* Whether c suits a touch better than d; touches as close in distance and *)
(* in bars are told apart by digests, here by the bar.                     *)
Closer(touch, c, d) ==
    LET gap(x) == Gap(touch.distance, x.distance)
        steps(x) == Magnitude(touch.bar - x.bar)
    IN \/ Less(gap(c), gap(d))
       \/ /\ ~Less(gap(d), gap(c))
          /\ steps(c) < steps(d) \/ (steps(c) = steps(d) /\ c.bar <= d.bar)

Eligible(touch, controls, pairs) ==
    {c \in controls : /\ c.side = touch.side /\ \A p \in pairs : c \notin p.control
                      /\ Gap(touch.distance, c.distance)[1]
                            <= Metrics.matchDistance * Gap(touch.distance, c.distance)[2]}

Paired(touch, eligible) ==
    [treatment |-> touch,
     control |-> IF eligible = {} THEN {}
                 ELSE {CHOOSE c \in eligible : \A d \in eligible : Closer(touch, c, d)}]

(* match_resonance_outcomes, on touches whose reaction is known: first     *)
(* come, first served, whatever the outcomes.                              *)
MatchedOutcomes(touches) ==
    LET treatments == {e \in touches : e.zone.class = "MULTI_CONTEXT_RESONANCE"}
        inTime == SetToSortSeq(treatments, LAMBDA a, b :
            a.confirm < b.confirm \/ (a.confirm = b.confirm /\ a.side = "LOWER" /\ b.side = "UPPER"))
        pair(pairs, touch) == pairs \cup {Paired(touch, Eligible(touch, touches \ treatments, pairs))}
    IN FoldLeft(pair, {}, inTime)

(* _build_metric_aggregates, but for the sums *)
AggregateOf(observations, lift) ==
    LET count(status) == Cardinality({o \in observations : o.outcome.status = status})
        matured == count("MATURED")
    IN [eligible |-> Cardinality(observations), matured |-> matured,
        censored |-> count("CENSORED_RIGHT"), unavailable |-> count("UNAVAILABLE_INPUT"),
        status |-> CASE lift /\ matured < Metrics.minPairs -> "INSUFFICIENT_SAMPLE"
                     [] observations = {} -> "NO_ELIGIBLE_EVENTS"
                     [] matured = 0 -> "NO_MATURED_OBSERVATIONS"
                     [] OTHER -> "AVAILABLE"]

-----------------------------------------------------------------------------
(* Evaluations *)

ReactionTo(observations, touch) ==
    (CHOOSE o \in observations : o.metric = "FIRST_TOUCH_REACTION" /\ o.event = touch).outcome

(* _pair_observation, of a pair that was matched *)
LiftOf(observations, treatment, control) ==
    LET a == ReactionTo(observations, treatment)
        b == ReactionTo(observations, control)
    IN [metric |-> "RESONANCE_LIFT", event |-> treatment,
        start |-> Smaller(treatment.confirm, control.confirm),
        outcome |-> Matured(Larger(a.end, b.end), a.bars \cup b.bars,
                            <<a.value[1] * b.value[2] - b.value[1] * a.value[2],
                              a.value[2] * b.value[2]>>)]

Reacted(observations) ==
    {o.event : o \in {o \in observations : /\ o.metric = "FIRST_TOUCH_REACTION"
                                          /\ o.outcome.status = "MATURED"
                                          /\ o.event.distance # Absent}}

MetricNames ==
    {"CONFIRMATION_DELAY_BARS", "CONFIRMATION_DELAY_ATR", "FALSE_TURN_RATE", "CONTINUED_BREAK_RATE",
     "TREND_CAPTURE_RATIO", "MFE", "MAE", "BOX_CHURN", "FIRST_TOUCH_REACTION", "RESONANCE_LIFT"}

ReportFrom(events, observations, pairs, lifts) ==
    [events |-> events, observations |-> observations \cup lifts, pairs |-> pairs,
     aggregates |-> [metric \in MetricNames |->
        AggregateOf({o \in observations \cup lifts : o.metric = metric}, metric = "RESONANCE_LIFT")]]

WithPairs(events, observations, pairs) ==
    ReportFrom(events, observations, pairs,
        UNION {{LiftOf(observations, p.treatment, c) : c \in p.control} : p \in pairs})

Observed(events, observations) ==
    WithPairs(events, observations, MatchedOutcomes(Reacted(observations)))

Evaluated(data, bars, events, cutoff) ==
    Observed(events, UNION {ObservationsOf(data, bars, events, e, cutoff) : e \in events})

(* StructuralMetricEvaluator.evaluate *)
EvaluationAt(run, bars, cutoff) == Evaluated(run.data, bars, EventsOf(run, bars, cutoff), cutoff)

(* StructuralMetricEvent, StructuralMetricObservation,                     *)
(* StructuralMetricAggregate and MetricEvaluationReport.__post_init__      *)
EventAccepts(event, cutoff) == event.confirm <= event.observed /\ event.confirm <= cutoff

ObservationAccepts(o, events, cutoff) ==
    /\ o.event \in events /\ o.start <= o.outcome.end /\ o.outcome.end <= cutoff
    /\ o.outcome.status = "MATURED" <=> o.outcome.value # Absent

AggregateAccepts(a) ==
    /\ a.eligible = a.matured + a.censored + a.unavailable
    /\ a.status = "AVAILABLE" => a.matured > 0
    /\ a.status = "NO_ELIGIBLE_EVENTS" => a.eligible = 0
    /\ a.status = "NO_MATURED_OBSERVATIONS" => a.eligible > 0 /\ a.matured = 0

PairsAccepted(pairs, events) ==
    /\ \A p \in pairs : /\ p.treatment \in events /\ p.treatment.kind = "BOUNDARY_FIRST_TOUCH"
                         /\ \A c \in p.control : c \in events /\ c.side = p.treatment.side
    /\ \A p, q \in pairs : p.control \cap q.control # {} => p = q

ReportAccepted(report, cutoff) ==
    /\ \A e \in report.events : EventAccepts(e, cutoff)
    /\ \A o \in report.observations : ObservationAccepts(o, report.events, cutoff)
    /\ \A metric \in MetricNames : AggregateAccepts(report.aggregates[metric])
    /\ PairsAccepted(report.pairs, report.events)
=============================================================================
