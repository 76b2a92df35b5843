--------------------------- MODULE TimeframeState ---------------------------
(***************************************************************************)
(* The timeframe state engine (msa/research/timeframe_state/engine.py) and *)
(* the history it returns.  _build_prefix reads the lifecycle snapshots    *)
(* one after the other, remembers the last complete confirmed pair and the *)
(* pair of the previous snapshot, and appends one event per change.  A     *)
(* batch publishes every snapshot; a replay publishes on the caller's      *)
(* schedule, which may skip a snapshot without an event and may observe a  *)
(* snapshot again at a later time.  TimeframeStateHistory (contracts.py)   *)
(* re-derives the pairs and directions of what was published with a memory *)
(* of its own and refuses a history that disagrees.                        *)
(*                                                                         *)
(* The lifecycle is the environment: between snapshots its subjects move   *)
(* on as LifecycleRules allows.  Identities and digests are abstracted.    *)
(***************************************************************************)
EXTENDS TimeframeSelection, Sequences, FiniteSets

CONSTANTS
    MaxChanges,     \* bound: subjects that change between two snapshots
    LastTime        \* bound: the latest processing time

ASSUME BoundAssumption == MaxChanges \in Nat /\ LastTime \in Nat

VARIABLES
    mode,           \* how the history is built
    source,         \* the boundaries of the last lifecycle snapshot read
    sourceTime,     \* and its as-of time, -1 before any
    last,           \* last_complete_pair
    before,         \* previous_current_pair
    state,          \* the current TimeframeState
    explanation,    \* how it was selected
    events,         \* the ledger
    asOf,           \* the as-of time of the last published snapshot
    audit,          \* what TimeframeStateHistory remembers of published ones
    accepted        \* whether it accepts them all

engineVars == <<source, sourceTime, last, before, state, explanation, events>>
vars == <<mode, engineVars, asOf, audit, accepted>>

Time == 0 .. LastTime
Transitions == [direction : Direction, raw : Direction, moved : BOOLEAN]
State == [direction : Direction, candidate : Pair, confirmed : Pair]
Explanation == [last : Pair, current : Pair, previous : Direction, final : Transitions]
Event == [type : {"INITIALIZED", "SELECTION_CHANGED", "DIRECTION_CHANGED", "STATE_CHANGED"},
          confirm : Nat, previous : Direction \cup {"NONE"}, current : Direction]
Memory == [last : Pair, before : Pair, direction : Direction]

TypeOK ==
    /\ mode \in {"BATCH", "REPLAY"}
    /\ source \in SUBSET Boundary
    /\ sourceTime \in Time \cup {-1} /\ asOf \in Time \cup {-1}
    /\ last \in Pair /\ before \in Pair
    /\ state \in State /\ explanation \in Explanation
    /\ events \in Seq(Event)
    /\ audit \in Memory /\ accepted \in BOOLEAN

Init ==
    /\ mode \in {"BATCH", "REPLAY"}
    /\ source = {} /\ sourceTime = -1
    /\ last = NoPair /\ before = NoPair
    /\ state = [direction |-> "UNKNOWN", candidate |-> NoPair, confirmed |-> NoPair]
    /\ explanation = [last |-> NoPair, current |-> NoPair, previous |-> "UNKNOWN",
                      final |-> Kept("UNKNOWN")]
    /\ events = <<>> /\ asOf = -1
    /\ audit = [last |-> NoPair, before |-> NoPair, direction |-> "UNKNOWN"]
    /\ accepted = TRUE

-----------------------------------------------------------------------------
(* The lifecycle *)

(* The lifecycle states a subject may show next; a coarse schedule of      *)
(* snapshots passes over some of them.                                     *)
LaterPhase(phase) ==
    CASE phase = "FRESH" -> {"TESTED", "WEAKENED", "BROKEN", "FLIPPED", "RETIRED"}
      [] phase = "TESTED" -> {"TESTED", "WEAKENED", "BROKEN", "FLIPPED", "RETIRED"}
      [] phase = "WEAKENED" -> {"WEAKENED", "BROKEN", "FLIPPED", "RETIRED"}
      [] phase = "BROKEN" -> {"BROKEN", "FLIPPED", "RETIRED"}
      [] OTHER -> {}

Activated(s) == [subject |-> s, phase |-> "FRESH", confirm |-> ConfirmTimeOf[s]]

(* The subjects visible at a time, before they move on. *)
Visible(time) ==
    source \cup {Activated(s) : s \in {v \in Subject :
                    sourceTime < ConfirmTimeOf[v] /\ ConfirmTimeOf[v] <= time}}

(* One more version of a visible boundary, confirmed since it was last     *)
(* seen.                                                                   *)
Versions(b, time) ==
    {[subject |-> b.subject, phase |-> p, confirm |-> c] :
        p \in LaterPhase(b.phase) \cap PhasesOf[b.subject],
        c \in {t \in sourceTime + 1 .. time : t > b.confirm}}

(* The snapshots in which at most MaxChanges subjects have moved on. *)
LifecycleSnapshots(time) ==
    LET moved == {m \in SUBSET Visible(time) : Cardinality(m) <= MaxChanges}
    IN UNION {{(Visible(time) \ m) \cup {next[b] : b \in m} :
                  next \in {f \in [m -> UNION {Versions(b, time) : b \in m}] :
                                \A b \in m : f[b] \in Versions(b, time)}} : m \in moved}

-----------------------------------------------------------------------------
(* The engine *)

EventType(old, new, history) ==
    IF history = <<>> THEN "INITIALIZED"
    ELSE IF old.direction = new.direction THEN "SELECTION_CHANGED"
    ELSE IF <<old.candidate, old.confirmed>> = <<new.candidate, new.confirmed>> THEN "DIRECTION_CHANGED"
    ELSE "STATE_CHANGED"

(* INITIALIZED has no previous direction. *)
Previous(old, history) == IF history = <<>> THEN "NONE" ELSE old.direction

(* Mutant of EventOf: an event carries the time of the snapshot before. *)
StaleEvent(old, new, history, time) ==
    [type |-> EventType(old, new, history), confirm |-> sourceTime,
     previous |-> Previous(old, history), current |-> new.direction]

EventOf(old, new, history, time) ==
    [type |-> EventType(old, new, history), confirm |-> time,
     previous |-> Previous(old, history), current |-> new.direction]

NextEvents(old, new, history, time) ==
    IF history # <<>> /\ new = old THEN history
    ELSE Append(history, EventOf(old, new, history, time))

Remember(pair) ==
    /\ last' = IF Complete(pair) THEN pair ELSE last
    /\ before' = pair

(* One lifecycle snapshot, as the loop of _build_prefix reads it. *)
ReadSnapshot(snapshot, time) ==
    LET pair == Identity(ConfirmedPair(snapshot))
        step == Transition(state.direction, last, before, pair)
        new == [direction |-> step.direction, candidate |-> CandidatePair(snapshot),
                confirmed |-> ConfirmedPair(snapshot)]
    IN /\ source' = snapshot /\ sourceTime' = time
       /\ explanation' = [last |-> last, current |-> pair, previous |-> state.direction,
                          final |-> step]
       /\ state' = new
       /\ events' = NextEvents(state, new, events, time)
       /\ Remember(pair)

-----------------------------------------------------------------------------
(* The history *)

(* _validate_event_chain and the event's own type rule. *)
ChainOK(chain) ==
    /\ chain # <<>> /\ chain[1].type = "INITIALIZED" /\ chain[1].previous = "NONE"
    /\ \A k \in 2 .. Len(chain) :
          /\ chain[k - 1].confirm < chain[k].confirm
          /\ chain[k].previous = chain[k - 1].current
          /\ chain[k].type \in IF chain[k].previous = chain[k].current
                               THEN {"SELECTION_CHANGED"}
                               ELSE {"DIRECTION_CHANGED", "STATE_CHANGED"}

(* What a new event must say of the states before and after it. *)
DescribesChange(event, old, new, time) ==
    /\ event.confirm = time
    /\ event.previous = old.direction /\ event.current = new.direction
    /\ event.type = "SELECTION_CHANGED" =>
          <<old.candidate, old.confirmed>> # <<new.candidate, new.confirmed>>
    /\ event.type = "DIRECTION_CHANGED" =>
          <<old.candidate, old.confirmed>> = <<new.candidate, new.confirmed>>

(* One pass of the loop of TimeframeStateHistory. *)
Accepts(memory, oldEvents, newEvents, old, new, shown, time) ==
    /\ shown.last = memory.last
    /\ shown.previous = memory.direction
    /\ shown.final = Transition(memory.direction, memory.last, memory.before, shown.current)
    /\ shown.final.direction = new.direction
    /\ shown.current = Identity(new.confirmed)
    /\ ChainOK(newEvents)
    /\ Len(newEvents) - Len(oldEvents) \in {0, 1}
    /\ oldEvents = <<>> => newEvents[1].confirm = time
    /\ oldEvents # <<>> =>
          IF Len(newEvents) = Len(oldEvents) THEN new = old
          ELSE new # old /\ DescribesChange(newEvents[Len(newEvents)], old, new, time)

Publish(time) ==
    /\ asOf' = time
    /\ accepted' = Accepts(audit, events, events', state, state', explanation', time)
    /\ audit' = [last |-> IF Complete(explanation'.current) THEN explanation'.current ELSE audit.last,
                 before |-> explanation'.current,
                 direction |-> state'.direction]

Later == {t \in Time : t > sourceTime /\ t > asOf}

PublishSnapshot(snapshot, time) ==
    /\ ReadSnapshot(snapshot, time)
    /\ Publish(time)

(* Mutant of SkipSnapshot: a schedule may miss the time of an event. *)
SkipAny(snapshot, time) ==
    /\ mode = "REPLAY"
    /\ ReadSnapshot(snapshot, time)
    /\ UNCHANGED <<asOf, audit, accepted>>

(* A schedule must hold the time of every event (replay_history). *)
SkipSnapshot(snapshot, time) ==
    /\ mode = "REPLAY"
    /\ ReadSnapshot(snapshot, time)
    /\ events' = events
    /\ UNCHANGED <<asOf, audit, accepted>>

(* build_as_of between two snapshots: _observe keeps the explanation. *)
Observe(time) ==
    /\ mode = "REPLAY" /\ events # <<>>
    /\ UNCHANGED engineVars
    /\ Publish(time)

(* A refused history raises and nothing follows. *)
Next ==
    /\ accepted
    /\ UNCHANGED mode
    /\ \E time \in Later :
          \/ \E snapshot \in LifecycleSnapshots(time) :
                PublishSnapshot(snapshot, time) \/ SkipSnapshot(snapshot, time)
          \/ Observe(time)

Spec == Init /\ [][Next]_vars

-----------------------------------------------------------------------------
(* Properties *)

(* The pairs the engine keeps pass the checks of the domain's              *)
(* TimeframeState whatever the lifecycle does: at most one boundary per    *)
(* slot, on its effective side, in an eligible lifecycle state, confirmed  *)
(* no later than the state that holds it, and never crossed.               *)
PairSound(pair, phases) ==
    /\ \A b \in pair.upper \cup pair.lower : b.phase \in phases /\ b \in source
    /\ \A b \in pair.upper : EffectiveSide(b) = "UPPER" /\ pair.upper = {b}
    /\ \A b \in pair.lower : EffectiveSide(b) = "LOWER" /\ pair.lower = {b}
    /\ \A u \in pair.upper, l \in pair.lower : HighOf[l.subject] <= LowOf[u.subject]

DomainAccepts ==
    /\ PairSound(state.candidate, CandidatePhase)
    /\ PairSound(state.confirmed, ConfirmedPhase)
    /\ \A b \in UNION {state.candidate.upper, state.candidate.lower,
                       state.confirmed.upper, state.confirmed.lower} :
          b.confirm <= events[Len(events)].confirm

(* UP never turns into DOWN, or DOWN into UP, without TURNING or RANGE in  *)
(* between, also across the loss and the return of the confirmed pair.     *)
NoDirectReversal == [][~Reverses(state.direction, state'.direction)]_vars

(* While a pair that once was complete is incomplete the direction is      *)
(* TURNING, and a complete pair always has a direction.                    *)
DirectionMatchesPair ==
    /\ last = NoPair => state.direction = "UNKNOWN"
    /\ last # NoPair => state.direction # "UNKNOWN"
    /\ last # NoPair /\ before = NoPair => state.direction = "TURNING"

(* Every history a batch builds passes TimeframeStateHistory: the engine's *)
(* memory and the validator's never part.                                  *)
BatchAccepted == mode = "BATCH" => accepted

(* A settled explanation says the same when it is read again. *)
Settled(shown) ==
    ~shown.final.moved /\ (Complete(shown.current) => shown.last = shown.current)

(* Nothing but a second look at a snapshot that changed the pair is        *)
(* refused: skipping quiet snapshots and observing settled ones is safe.   *)
OnlyUnsettledRefused ==
    [][~accepted' => UNCHANGED engineVars /\ ~Settled(explanation)]_vars

(* Documented in docs/research/timeframe_state_engine.md, section 34:      *)
(* "Extra As-Of points are allowed and create no event."                   *)
ReplayAccepted == mode = "REPLAY" => accepted

(* The history is an append-only causal ledger. *)
Ledger == INSTANCE CausalLedger WITH ledger <- events
ImplementsCausalLedger == Ledger!Spec
=============================================================================
