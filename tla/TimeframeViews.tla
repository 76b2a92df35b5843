--------------------------- MODULE TimeframeViews ---------------------------
(***************************************************************************)
(* What a TimeframeStateSnapshot says beside its state                     *)
(* (msa/research/timeframe_state/engine.py, contracts.py).  The            *)
(* explanation and the report are written anew for every lifecycle         *)
(* snapshot; the state and the event that formed it are kept as long as    *)
(* nothing changes, with the parents they had then.  The snapshot's        *)
(* constructor compares the four with each other and raises when they      *)
(* differ.  A version of a boundary stands for its lifecycle state, its    *)
(* boundary and its last event, whose ids are made from one another;       *)
(* wording, digests and the configuration are left out.                    *)
(***************************************************************************)
EXTENDS TimeframeState, FiniteSetsExt

(* The explanation and the report count subjects. *)
ASSUME SubjectsAreFinite == IsFiniteSet(Subject)

VARIABLES
    facts,      \* what the selection found in the last lifecycle snapshot read
    latest      \* what the last event and the state's provenance refer to

viewVars == <<vars, facts, latest>>

Subjects(values) == {b.subject : b \in values}

(* One entry for each pair of a snapshot. *)
Both(Of(_)) == [candidate |-> Of("candidate"), confirmed |-> Of("confirmed")]

-----------------------------------------------------------------------------
(* What the engine writes *)

(* _resolve_pair, with the facts of a crossing. *)
PairFacts(values) ==
    LET upper == Winner(values, "UPPER")
        lower == Winner(values, "LOWER")
        kept == ResolvePair(values)
        crossing == Crosses(upper, lower)
        upperNewer == \E u \in upper, l \in lower : Newer(u, l)
        Of(newer, older) == IF ~crossing THEN {} ELSE IF upperNewer THEN newer ELSE older
    IN [rawUpper |-> upper, rawLower |-> lower,
        upper |-> kept.upper, lower |-> kept.lower,
        crossing |-> crossing, retained |-> Of(upper, lower), dropped |-> Of(lower, upper)]

(* _selection: the facts of one lifecycle snapshot. *)
Facts(snapshot) ==
    LET candidate == {b \in snapshot : b.phase \in CandidatePhase}
        confirmed == {b \in snapshot : b.phase \in ConfirmedPhase}
    IN [relevant |-> snapshot,
        eligible |-> [candidate |-> candidate, confirmed |-> confirmed],
        pair |-> [candidate |-> PairFacts(candidate), confirmed |-> PairFacts(confirmed)],
        broken |-> Subjects({b \in snapshot : b.phase = "BROKEN"}),
        retired |-> Subjects({b \in snapshot : b.phase = "RETIRED"})]

(* The slots of a state, in the order of its fields. *)
Slots(candidate, confirmed) ==
    <<candidate.upper, candidate.lower, confirmed.upper, confirmed.lower>>

Chosen(slots) == UNION {slots[i] : i \in DOMAIN slots}

(* The fields an identity shows of a pair: all empty for an incomplete one. *)
PairValues(pair) ==
    IF pair = NoPair THEN [subjects |-> <<>>, versions |-> <<>>, midpoints |-> <<>>]
    ELSE [subjects |-> <<Subjects(pair.upper), Subjects(pair.lower)>>,
          versions |-> <<pair.upper, pair.lower>>,
          midpoints |-> <<{DoubledMidpoint(b) : b \in pair.upper},
                          {DoubledMidpoint(b) : b \in pair.lower}>>]

Explain(shown) ==
    [relevant |-> Subjects(facts.relevant), keys |-> facts.relevant,
     eligible |-> Both(LAMBDA p : Subjects(facts.eligible[p])),
     broken |-> facts.broken, retired |-> facts.retired,
     pair |-> facts.pair,
     selected |-> Slots(facts.pair.candidate, facts.pair.confirmed),
     versions |-> Chosen(Slots(facts.pair.candidate, facts.pair.confirmed)),
     previous |-> PairValues(shown.last), current |-> PairValues(shown.current),
     direction |-> shown.final.direction]

SideCount(values, side) == Cardinality({b \in values : EffectiveSide(b) = side})

Report(direction, history, time) ==
    [time |-> time, relevant |-> Cardinality(facts.relevant),
     eligible |-> Both(LAMBDA p : Cardinality(facts.eligible[p])),
     upper |-> Both(LAMBDA p : SideCount(facts.eligible[p], "UPPER")),
     lower |-> Both(LAMBDA p : Cardinality(facts.eligible[p]) - SideCount(facts.eligible[p], "UPPER")),
     broken |-> Cardinality(facts.broken), retired |-> Cardinality(facts.retired),
     crossing |-> Both(LAMBDA p : facts.pair[p].crossing),
     selected |-> Slots(facts.pair.candidate, facts.pair.confirmed),
     complete |-> Both(LAMBDA p : Complete(facts.pair[p])),
     direction |-> direction, events |-> Len(history),
     earliest |-> Min({history[i].confirm : i \in DOMAIN history}),
     latest |-> Max({history[i].confirm : i \in DOMAIN history})]

(* The semantic fields of a state, and those that changed. *)
Semantic(s) ==
    <<s.direction, s.candidate.upper, s.candidate.lower, s.confirmed.upper, s.confirmed.lower>>

Changed(old, new, history) ==
    {i \in 1 .. 5 : history = <<>> \/ Semantic(old)[i] # Semantic(new)[i]}

(* The event and the provenance of the state it forms. *)
Formed(found, changed, time) ==
    [changed |-> changed, source |-> time,
     selected |-> Slots(found.pair.candidate, found.pair.confirmed),
     versions |-> Chosen(Slots(found.pair.candidate, found.pair.confirmed))]

InitViews ==
    /\ Init
    /\ facts = Facts({}) /\ latest = Formed(Facts({}), {}, -1)

(* Mutant of Note: a boundary is the same as long as its subject is. *)
NoteBySubject ==
    latest' = IF /\ events # <<>> /\ state'.direction = state.direction
                 /\ \A i \in 1 .. 4 : Subjects(Slots(state'.candidate, state'.confirmed)[i])
                                        = Subjects(Slots(state.candidate, state.confirmed)[i])
              THEN latest
              ELSE Formed(facts', Changed(state, state', events), sourceTime')

(* Only a change forms an event and a state. *)
Note ==
    latest' = IF events' = events THEN latest
              ELSE Formed(facts', Changed(state, state', events), sourceTime')

NextViews ==
    /\ Next
    /\ facts' = IF source' = source THEN facts ELSE Facts(source')
    /\ Note

SpecViews == InitViews /\ [][NextViews]_viewVars

-----------------------------------------------------------------------------
(* What the snapshot's constructor requires *)

(* BoundarySelectionExplanation's own checks. *)
ExplanationOK(told) ==
    /\ \A p \in {"candidate", "confirmed"} :
          LET pair == told.pair[p]
          IN IF pair.crossing THEN pair.retained # {} /\ pair.dropped # {}
             ELSE pair.retained = {} /\ pair.dropped = {}
    /\ Len(told.previous.midpoints) = Len(told.previous.subjects)
    /\ Len(told.current.midpoints) = Len(told.current.subjects)

(* TimeframeStateEvent's own checks: its type is that of its changed       *)
(* fields, the first of which is the direction.                            *)
EventOK(event, changed) ==
    /\ changed # {}
    /\ IF event.type = "INITIALIZED"
       THEN event.previous = "NONE" /\ changed = 1 .. 5
       ELSE /\ event.previous # "NONE"
            /\ (1 \in changed) = (event.previous # event.current)
            /\ event.type = IF 1 \notin changed THEN "SELECTION_CHANGED"
                            ELSE IF changed = {1} THEN "DIRECTION_CHANGED" ELSE "STATE_CHANGED"

(* TimeframeStateReport's own checks. *)
ReportOK(report) ==
    /\ report.complete.candidate = (report.selected[1] # {} /\ report.selected[2] # {})
    /\ report.complete.confirmed = (report.selected[3] # {} /\ report.selected[4] # {})
    /\ report.earliest <= report.latest /\ report.latest <= report.time

(* _validate_crossing_view: a crossing keeps exactly one of its two sides. *)
CrossingAgrees(pair) ==
    IF ~pair.crossing
    THEN /\ pair.retained = {} /\ pair.dropped = {}
         /\ pair.upper = pair.rawUpper /\ pair.lower = pair.rawLower
    ELSE LET raw == pair.rawUpper \cup pair.rawLower
         IN /\ pair.rawUpper # {} /\ pair.rawLower # {} /\ pair.rawUpper # pair.rawLower
            /\ Cardinality({s \in {"upper", "lower"} : pair[s] # {}}) = 1
            /\ pair.retained = pair.upper \cup pair.lower
            /\ pair.retained \subseteq raw /\ pair.dropped \subseteq raw
            /\ pair.dropped # pair.retained

(* _validate_raw_selection_ids: winners are eligible versions, and what    *)
(* the state holds on a side is the winner of that side.                   *)
RawAgrees(told, p, held) ==
    LET pair == told.pair[p]
        Fits(raw, kept) == raw # {} =>
            /\ raw \subseteq told.keys /\ Subjects(raw) \subseteq told.eligible[p]
            /\ kept # {} => kept = raw
    IN Fits(pair.rawUpper, held.upper) /\ Fits(pair.rawLower, held.lower)

(* _validate_current_confirmed_pair *)
CurrentPairAgrees(told, held) ==
    IF ~Complete(held)
    THEN told.current.subjects = <<>> /\ told.current.versions = <<>> /\ told.current.midpoints = <<>>
    ELSE /\ told.current = PairValues(held)
         /\ held.upper \cup held.lower \subseteq told.keys \cap told.versions

(* The sets of an explanation, one within the other. *)
SetsAgree(told) ==
    /\ told.relevant = Subjects(told.keys)
    /\ told.eligible.candidate \subseteq told.relevant
    /\ told.eligible.confirmed \subseteq told.eligible.candidate
    /\ (told.broken \cup told.retired) \cap told.eligible.candidate = {}

CountsAgree(told, report) ==
    /\ report.relevant = Cardinality(told.relevant)
    /\ report.broken = Cardinality(told.broken) /\ report.retired = Cardinality(told.retired)
    /\ \A p \in {"candidate", "confirmed"} :
          /\ report.eligible[p] = Cardinality(told.eligible[p])
          /\ report.upper[p] + report.lower[p] = report.eligible[p]
          /\ report.crossing[p] = told.pair[p].crossing

(* The parents the state was formed with are those the explanation names   *)
(* now.                                                                    *)
ParentsAgree(told) == latest.versions = told.versions

(* _validate_snapshot_views: state, explanation, report and last event     *)
(* name the same boundaries and the same direction.                        *)
ViewsAgree(told, report, history) ==
    LET held == Slots(state.candidate, state.confirmed)
        newest == history[Len(history)]
    IN /\ told.selected = held /\ report.selected = held /\ latest.selected = held
       /\ told.direction = state.direction /\ report.direction = state.direction
       /\ newest.current = state.direction
       /\ CrossingAgrees(told.pair.candidate) /\ CrossingAgrees(told.pair.confirmed)
       /\ RawAgrees(told, "candidate", state.candidate)
       /\ RawAgrees(told, "confirmed", state.confirmed)
       /\ CurrentPairAgrees(told, state.confirmed)
       /\ SetsAgree(told) /\ CountsAgree(told, report)
       /\ Chosen(held) \subseteq told.keys /\ told.versions = Chosen(held)
       /\ ParentsAgree(told)
       /\ report.events = Len(history)
       /\ report.complete.candidate = Complete(state.candidate)
       /\ report.complete.confirmed = Complete(state.confirmed)

(* TimeframeStateSnapshot at a time: as_of_time is the time of the         *)
(* lifecycle snapshot read, or of the observation after it.                *)
SnapshotOK(told, report, history, time) ==
    /\ ExplanationOK(told) /\ ReportOK(report)
    /\ \A b \in Chosen(Slots(state.candidate, state.confirmed)) : b.confirm <= time
    /\ ChainOK(history) /\ EventOK(history[Len(history)], latest.changed)
    /\ \A k \in DOMAIN history : history[k].confirm <= time
    /\ history[Len(history)].confirm = time => latest.source = sourceTime
    /\ report.time = time
    /\ report.earliest = history[1].confirm /\ report.latest = history[Len(history)].confirm
    /\ ViewsAgree(told, report, history)

-----------------------------------------------------------------------------
(* Properties *)

(* Every snapshot the engine makes, of a lifecycle snapshot that changed   *)
(* something, of a quiet one and of an extra as-of time, passes its own    *)
(* constructor: state and event, kept from an earlier snapshot, still say  *)
(* what explanation and report, written anew, say.                         *)
SnapshotsAgree ==
    events # <<>> =>
        LET time == Max({sourceTime, asOf})
        IN SnapshotOK(Explain(explanation), Report(state.direction, events, time), events, time)
=============================================================================
