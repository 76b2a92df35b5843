------------------------ MODULE TimeframeStateProofs ------------------------
(***************************************************************************)
(* Theorems about TimeframeState, for every set of subjects, every         *)
(* placement of their zones and every bound.                               *)
(***************************************************************************)
EXTENDS TimeframeViews, FiniteSetTheorems, TLAPS

USE SubjectAssumption, PhaseAssumption, BoundAssumption

-----------------------------------------------------------------------------
(* Selection *)

LEMMA WinnerIsUnique ==
    ASSUME NEW values \in SUBSET Boundary, NEW side,
           NEW b \in Winner(values, side)
    PROVE  Winner(values, side) = {b} /\ EffectiveSide(b) = side /\ b \in values
<1>1. ASSUME NEW c \in Winner(values, side), c # b PROVE FALSE
  <2>1. Newer(b, c) /\ Newer(c, b)
    BY <1>1 DEF Winner
  <2>2. /\ b.confirm \in Nat /\ c.confirm \in Nat
        /\ ConfirmTimeOf[b.subject] \in Nat /\ ConfirmTimeOf[c.subject] \in Nat
        /\ b.subject \in Nat /\ c.subject \in Nat
    BY DEF Winner, Boundary
  <2> QED
    BY <2>1, <2>2 DEF Newer
<1> QED
  BY <1>1 DEF Winner

(* What a resolved pair is, whatever the boundaries it is taken from. *)
LEMMA ResolvedPair ==
    ASSUME NEW values \in SUBSET Boundary
    PROVE  LET pair == ResolvePair(values)
           IN /\ pair \in Pair
              /\ \A b \in pair.upper : /\ b \in values /\ EffectiveSide(b) = "UPPER"
                                       /\ pair.upper = {b}
              /\ \A b \in pair.lower : /\ b \in values /\ EffectiveSide(b) = "LOWER"
                                       /\ pair.lower = {b}
              /\ \A u \in pair.upper, l \in pair.lower : HighOf[l.subject] <= LowOf[u.subject]
<1> DEFINE upper == Winner(values, "UPPER")
           lower == Winner(values, "LOWER")
           pair == ResolvePair(values)
<1>1. /\ \A b \in upper : b \in values /\ EffectiveSide(b) = "UPPER" /\ upper = {b}
      /\ \A b \in lower : b \in values /\ EffectiveSide(b) = "LOWER" /\ lower = {b}
  BY WinnerIsUnique
<1>2. upper \in SUBSET Boundary /\ lower \in SUBSET Boundary
  BY DEF Winner
<1>3. /\ pair = [upper |-> pair.upper, lower |-> pair.lower]
      /\ pair.upper \in {{}, upper} /\ pair.lower \in {{}, lower}
      /\ Crosses(upper, lower) => pair.upper = {} \/ pair.lower = {}
  BY DEF ResolvePair
<1>4. ~Crosses(upper, lower) =>
        \A u \in upper, l \in lower : HighOf[l.subject] <= LowOf[u.subject]
  <2> SUFFICES ASSUME ~Crosses(upper, lower), NEW u \in upper, NEW l \in lower
               PROVE  HighOf[l.subject] <= LowOf[u.subject]
    OBVIOUS
  <2>1. ~(HighOf[l.subject] > LowOf[u.subject])
    BY DEF Crosses
  <2>2. HighOf[l.subject] \in Int /\ LowOf[u.subject] \in Int
    BY <1>2 DEF Boundary
  <2> QED
    BY <2>1, <2>2
<1>5. pair \in Pair
  BY <1>2, <1>3 DEF Pair
<1> HIDE DEF upper, lower, pair
<1>6. /\ \A b \in pair.upper : b \in values /\ EffectiveSide(b) = "UPPER" /\ pair.upper = {b}
      /\ \A b \in pair.lower : b \in values /\ EffectiveSide(b) = "LOWER" /\ pair.lower = {b}
  BY <1>1, <1>3
<1>7. \A u \in pair.upper, l \in pair.lower : HighOf[l.subject] <= LowOf[u.subject]
  BY <1>3, <1>4
<1> QED
  BY <1>5, <1>6, <1>7 DEF pair

(* Both pairs of a snapshot are sound. *)
PairOf(pair, snapshot, phases) ==
    /\ pair \in Pair
    /\ \A b \in pair.upper \cup pair.lower : b \in snapshot /\ b.phase \in phases
    /\ \A b \in pair.upper : EffectiveSide(b) = "UPPER" /\ pair.upper = {b}
    /\ \A b \in pair.lower : EffectiveSide(b) = "LOWER" /\ pair.lower = {b}
    /\ \A u \in pair.upper, l \in pair.lower : HighOf[l.subject] <= LowOf[u.subject]

LEMMA PairsAreSound ==
    ASSUME NEW snapshot \in SUBSET Boundary
    PROVE  /\ PairOf(CandidatePair(snapshot), snapshot, CandidatePhase)
           /\ PairOf(ConfirmedPair(snapshot), snapshot, ConfirmedPhase)
<1> DEFINE candidates == {b \in snapshot : b.phase \in CandidatePhase}
           confirmed == {b \in snapshot : b.phase \in ConfirmedPhase}
<1>1. candidates \in SUBSET Boundary /\ confirmed \in SUBSET Boundary
  OBVIOUS
<1>2. PairOf(ResolvePair(candidates), snapshot, CandidatePhase)
  BY <1>1, ResolvedPair DEF PairOf
<1>3. PairOf(ResolvePair(confirmed), snapshot, ConfirmedPhase)
  BY <1>1, ResolvedPair DEF PairOf
<1> QED
  BY <1>2, <1>3 DEF CandidatePair, ConfirmedPair

LEMMA IdentityIsPair ==
    ASSUME NEW pair \in Pair
    PROVE  /\ Identity(pair) \in Pair
           /\ Identity(pair) = NoPair \/ Complete(Identity(pair))
  BY DEF Identity, NoPair, Pair, Complete

LEMMA NoPairIsIncomplete == NoPair \in Pair /\ ~Complete(NoPair)
  BY DEF NoPair, Pair, Complete

-----------------------------------------------------------------------------
(* Direction *)

LEMMA TransitionType ==
    ASSUME NEW previous \in Direction, NEW p, NEW q, NEW r
    PROVE  Transition(previous, p, q, r) \in Transitions
  BY DEF Transition, Kept, Moved, RawDirection, Transitions, Direction

(* What the engine's memory always satisfies, and DirectionMatchesPair     *)
(* needs: the pair of the previous snapshot is the last complete one or    *)
(* none.                                                                   *)
MemoryOK(p, q) ==
    /\ p = NoPair \/ Complete(p)
    /\ q = NoPair \/ (q = p /\ Complete(q))
DirectionOK(direction, p, q) ==
    /\ p = NoPair => direction = "UNKNOWN"
    /\ p # NoPair => direction # "UNKNOWN"
    /\ p # NoPair /\ q = NoPair => direction = "TURNING"

LEMMA TransitionKeepsMemory ==
    ASSUME NEW previous \in Direction, NEW p, NEW q, NEW current,
           MemoryOK(p, q), DirectionOK(previous, p, q),
           current = NoPair \/ Complete(current)
    PROVE  LET direction == Transition(previous, p, q, current).direction
               next == IF Complete(current) THEN current ELSE p
           IN /\ MemoryOK(next, current)
              /\ DirectionOK(direction, next, current)
              /\ ~Reverses(previous, direction)
<1> DEFINE direction == Transition(previous, p, q, current).direction
           next == IF Complete(current) THEN current ELSE p
<1>1. CASE ~Complete(current)
  <2>1. current = NoPair /\ next = p
    BY <1>1
  <2>2. direction = IF ~Complete(p) THEN "UNKNOWN"
                    ELSE IF Complete(q) THEN "TURNING" ELSE previous
    BY <1>1 DEF Transition, Kept, Moved
  <2> QED
    BY <2>1, <2>2, NoPairIsIncomplete DEF MemoryOK, DirectionOK, Reverses
<1>2. CASE Complete(current)
  <2>1. next = current /\ current # NoPair
    BY <1>2, NoPairIsIncomplete
  <2>2. MemoryOK(next, current)
    BY <1>2, <2>1 DEF MemoryOK
  <2>3. CASE ~Complete(p)
    <3>1. direction = "RANGE"
      BY <1>2, <2>3 DEF Transition, Moved
    <3> QED
      BY <2>1, <2>2, <3>1 DEF DirectionOK, Reverses
  <2>4. CASE Complete(p) /\ Complete(q) /\ SamePosition(current, p)
    <3>1. direction = previous
      BY <1>2, <2>4 DEF Transition, Kept
    <3>2. previous # "UNKNOWN"
      BY <2>4, NoPairIsIncomplete DEF DirectionOK
    <3> QED
      BY <2>1, <2>2, <3>1, <3>2 DEF DirectionOK, Reverses
  <2>5. CASE Complete(p) /\ ~(Complete(q) /\ SamePosition(current, p))
    <3> DEFINE raw == RawDirection(current, p)
    <3>1. direction = IF Complete(q) /\ Reverses(previous, raw) THEN "TURNING" ELSE raw
      BY <1>2, <2>5 DEF Transition, Moved
    <3>2. raw \in {"UP", "DOWN", "RANGE"}
      BY DEF RawDirection
    <3>3. ~Complete(q) => previous = "TURNING"
      BY <2>5, NoPairIsIncomplete DEF MemoryOK, DirectionOK
    <3> HIDE DEF raw, direction
    <3>4. direction # "UNKNOWN"
      BY <3>1, <3>2
    <3>5. ~Reverses(previous, direction)
      BY <3>1, <3>3 DEF Reverses
    <3> QED
      BY <2>1, <2>2, <3>4, <3>5 DEF DirectionOK, direction
  <2> QED
    BY <2>3, <2>4, <2>5
<1> QED
  BY <1>1, <1>2

-----------------------------------------------------------------------------
(* The inductive invariant *)

SourceOK == \A b \in source : b.confirm <= sourceTime

SelectedBoundaries == UNION {state.candidate.upper, state.candidate.lower,
                             state.confirmed.upper, state.confirmed.lower}

StateOK ==
    /\ PairOf(state.candidate, source, CandidatePhase)
    /\ PairOf(state.confirmed, source, ConfirmedPhase)
    /\ events = <<>> => SelectedBoundaries = {}

LedgerOK ==
    events # <<>> =>
        /\ ChainOK(events)
        /\ events[Len(events)].confirm <= sourceTime
        /\ events[Len(events)].current = state.direction
        /\ \A b \in SelectedBoundaries : b.confirm <= events[Len(events)].confirm

(* The explanation last given can be read again once it is settled. *)
ExplanationReadable ==
    /\ explanation.current = before
    /\ before = Identity(state.confirmed)
    /\ ~Complete(before) => explanation.last = last
    /\ explanation.final.direction = state.direction
    /\ ~explanation.final.moved => explanation.final = Kept(explanation.previous)

(* The validator's memory is the engine's. *)
SameMemory == audit = [last |-> last, before |-> before, direction |-> state.direction]

Inv ==
    /\ TypeOK /\ SourceOK /\ StateOK /\ LedgerOK
    /\ MemoryOK(last, before) /\ DirectionMatchesPair
    /\ ExplanationReadable /\ SameMemory

LEMMA InitInv == Init => Inv
<1> SUFFICES ASSUME Init PROVE Inv
  OBVIOUS
<1>1. TypeOK
  BY NoPairIsIncomplete
  DEF Init, TypeOK, State, Explanation, Transitions, Memory, Direction, Kept
<1>2. SourceOK /\ LedgerOK
  BY DEF Init, SourceOK, LedgerOK
<1>3. StateOK
  BY NoPairIsIncomplete DEF Init, StateOK, PairOf, SelectedBoundaries, NoPair
<1>4. MemoryOK(last, before) /\ DirectionMatchesPair
  BY DEF Init, MemoryOK, DirectionMatchesPair
<1>5. ExplanationReadable /\ SameMemory
  BY NoPairIsIncomplete DEF Init, ExplanationReadable, SameMemory, Identity, Kept
<1> QED
  BY <1>1, <1>2, <1>3, <1>4, <1>5 DEF Inv

(* The lifecycle shows boundaries confirmed by the time of the snapshot. *)
LEMMA SnapshotsAreCausal ==
    ASSUME TypeOK, SourceOK, NEW time \in Later, NEW snapshot \in LifecycleSnapshots(time)
    PROVE  snapshot \in SUBSET Boundary /\ \A b \in snapshot : b.confirm <= time
<1>1. /\ time \in Nat /\ time > sourceTime /\ sourceTime \in Int /\ sourceTime >= -1
  BY DEF Later, Time, TypeOK
<1>2. ASSUME NEW b \in Visible(time) PROVE b \in Boundary /\ b.confirm <= time
  <2>1. CASE b \in source
    <3>1. b \in Boundary /\ b.confirm <= sourceTime /\ b.confirm \in Nat
      BY <2>1 DEF TypeOK, SourceOK, Boundary
    <3> QED
      BY <1>1, <3>1
  <2>2. ASSUME NEW s \in Subject, ConfirmTimeOf[s] <= time, b = Activated(s)
        PROVE  b \in Boundary /\ b.confirm <= time
    BY <2>2 DEF Activated, Boundary, Phase, CandidatePhase
  <2> QED
    BY <2>1, <2>2 DEF Visible
<1>3. ASSUME NEW b \in Boundary, NEW c \in Versions(b, time)
      PROVE  c \in Boundary /\ c.confirm <= time
  <2>1. PICK p \in PhasesOf[b.subject], t \in sourceTime + 1 .. time :
             c = [subject |-> b.subject, phase |-> p, confirm |-> t]
    BY DEF Versions
  <2>2. b.subject \in Subject
    BY DEF Boundary
  <2>3. p \in Phase
    BY <2>2
  <2>4. t \in Nat /\ t <= time
    BY <1>1
  <2> QED
    BY <2>1, <2>2, <2>3, <2>4 DEF Boundary
<1>4. PICK m \in SUBSET Visible(time) :
        \E next \in {f \in [m -> UNION {Versions(b, time) : b \in m}] :
                         \A b \in m : f[b] \in Versions(b, time)} :
            snapshot = (Visible(time) \ m) \cup {next[b] : b \in m}
  BY DEF LifecycleSnapshots
<1>5. PICK next \in [m -> UNION {Versions(b, time) : b \in m}] :
        /\ \A b \in m : next[b] \in Versions(b, time)
        /\ snapshot = (Visible(time) \ m) \cup {next[b] : b \in m}
  BY <1>4
<1>6. ASSUME NEW c \in snapshot PROVE c \in Boundary /\ c.confirm <= time
  <2>1. CASE c \in Visible(time)
    BY <2>1, <1>2
  <2>2. ASSUME NEW b \in m, c = next[b] PROVE c \in Boundary /\ c.confirm <= time
    BY <2>2, <1>2, <1>3, <1>5
  <2> QED
    BY <1>5, <2>1, <2>2
<1> QED
  BY <1>6

(* An event is added exactly when something changed, and it fits the chain.*)
LEMMA NextEventsFacts ==
    ASSUME NEW history \in Seq(Event), NEW old \in State, NEW new \in State, NEW time \in Nat,
           history # <<>> => /\ ChainOK(history)
                             /\ history[Len(history)].confirm < time
                             /\ history[Len(history)].current = old.direction
    PROVE  LET next == NextEvents(old, new, history, time)
           IN /\ next \in Seq(Event) /\ next # <<>> /\ ChainOK(next)
              /\ next[Len(next)].current = new.direction
              /\ next = history => new = old
              /\ next # history =>
                    /\ Len(next) = Len(history) + 1
                    /\ next[Len(next)] = EventOf(old, new, history, time)
              /\ history = <<>> => next[1].confirm = time
              /\ Len(next) = Len(history) => next = history
              /\ next # history /\ history # <<>> => new # old
<1> DEFINE event == EventOf(old, new, history, time)
           next == NextEvents(old, new, history, time)
<1>1. event \in Event
  BY DEF EventOf, EventType, Previous, Event, State
<1>2. event.confirm = time /\ event.current = new.direction
  BY DEF EventOf
<1>3. history # <<>> =>
        /\ event.previous = old.direction
        /\ event.type \in IF event.previous = event.current THEN {"SELECTION_CHANGED"}
                          ELSE {"DIRECTION_CHANGED", "STATE_CHANGED"}
  BY DEF EventOf, EventType, Previous
<1>4. history = <<>> => event.type = "INITIALIZED" /\ event.previous = "NONE"
  BY DEF EventOf, EventType, Previous
<1>5. CASE history # <<>> /\ new = old
  <2>1. next = history
    BY <1>5 DEF NextEvents
  <2> QED
    BY <1>5, <2>1
<1>6. CASE ~(history # <<>> /\ new = old)
  <2>1. next = Append(history, event)
    BY <1>6 DEF NextEvents
  <2> HIDE DEF event, next
  <2>2. /\ next \in Seq(Event) /\ Len(next) = Len(history) + 1 /\ Len(history) \in Nat
        /\ next[Len(next)] = event
        /\ \A k \in 1 .. Len(history) : next[k] = history[k]
    BY <1>1, <2>1
  <2>3. ChainOK(next)
    <3>1. CASE history = <<>>
      <4>1. Len(history) = 0
        BY <3>1
      <4>2. Len(next) = 1
        BY <2>2, <4>1
      <4>3. next[1] = event
        BY <2>2, <4>2
      <4>4. ASSUME next = <<>> PROVE FALSE
        <5>1. Len(next) = 0
          BY <4>4
        <5> QED
          BY <5>1, <4>2
      <4> QED
        BY <4>2, <4>3, <4>4, <3>1, <1>4 DEF ChainOK
    <3>2. CASE history # <<>>
      <4>1. Len(history) >= 1
        BY <3>2, <2>2
      <4>2. next # <<>> /\ next[1].type = "INITIALIZED" /\ next[1].previous = "NONE"
        BY <3>2, <4>1, <2>2 DEF ChainOK
      <4>3. ASSUME NEW k \in 2 .. Len(next)
            PROVE  /\ next[k - 1].confirm < next[k].confirm
                   /\ next[k].previous = next[k - 1].current
                   /\ next[k].type \in IF next[k].previous = next[k].current
                                       THEN {"SELECTION_CHANGED"}
                                       ELSE {"DIRECTION_CHANGED", "STATE_CHANGED"}
        <5>1. CASE k = Len(next)
          <6>1. next[k] = event /\ next[k - 1] = history[Len(history)]
            BY <5>1, <2>2, <4>1
          <6> QED
            BY <6>1, <3>2, <1>2, <1>3
        <5>2. CASE k # Len(next)
          <6>1. k \in 2 .. Len(history) /\ next[k] = history[k] /\ next[k - 1] = history[k - 1]
            BY <5>2, <2>2
          <6> QED
            BY <6>1, <3>2 DEF ChainOK
        <5> QED
          BY <5>1, <5>2
      <4> QED
        BY <4>2, <4>3 DEF ChainOK
    <3> QED
      BY <3>1, <3>2
  <2>4. next # history /\ next # <<>>
    BY <2>2
  <2>5. history = <<>> => next[1].confirm = time
    BY <2>2, <1>2
  <2>6. history # <<>> => new # old
    BY <1>6
  <2> QED
    BY <2>2, <2>3, <2>4, <2>5, <2>6, <1>2 DEF event, next
<1> QED
  BY <1>5, <1>6

(* What reading a snapshot leaves behind, whether it is published or not.  *)
EngineInv ==
    /\ source \in SUBSET Boundary /\ sourceTime \in Time
    /\ last \in Pair /\ before \in Pair /\ state \in State
    /\ explanation \in Explanation /\ events \in Seq(Event)
    /\ SourceOK /\ StateOK /\ LedgerOK
    /\ MemoryOK(last, before) /\ DirectionMatchesPair
    /\ ExplanationReadable

LEMMA ReadKeepsEngine ==
    ASSUME Inv, NEW time \in Later, NEW snapshot \in LifecycleSnapshots(time),
           ReadSnapshot(snapshot, time)
    PROVE  /\ EngineInv'
           /\ ~Reverses(state.direction, state'.direction)
           /\ events' = events => state' = state /\ last' = last /\ before' = before
<1> DEFINE pair == Identity(ConfirmedPair(snapshot))
           step == Transition(state.direction, last, before, pair)
           new == [direction |-> step.direction, candidate |-> CandidatePair(snapshot),
                   confirmed |-> ConfirmedPair(snapshot)]
<1>1. /\ source' = snapshot /\ sourceTime' = time
      /\ explanation' = [last |-> last, current |-> pair, previous |-> state.direction,
                         final |-> step]
      /\ state' = new
      /\ events' = NextEvents(state, new, events, time)
      /\ last' = IF Complete(pair) THEN pair ELSE last
      /\ before' = pair
  BY DEF ReadSnapshot, Remember
<1>2. snapshot \in SUBSET Boundary /\ \A b \in snapshot : b.confirm <= time
  BY SnapshotsAreCausal DEF Inv
<1>3. /\ PairOf(CandidatePair(snapshot), snapshot, CandidatePhase)
      /\ PairOf(ConfirmedPair(snapshot), snapshot, ConfirmedPhase)
  BY <1>2, PairsAreSound
<1>4. CandidatePair(snapshot) \in Pair /\ ConfirmedPair(snapshot) \in Pair
  BY <1>3 DEF PairOf
<1>5. pair \in Pair /\ (pair = NoPair \/ Complete(pair))
  BY <1>4, IdentityIsPair
<1>6. state \in State /\ last \in Pair /\ before \in Pair /\ events \in Seq(Event)
      /\ state.direction \in Direction
  BY DEF Inv, TypeOK, State
<1>7. step \in Transitions /\ step.direction \in Direction
  BY <1>6, TransitionType DEF Transitions
<1>8. MemoryOK(last, before) /\ DirectionOK(state.direction, last, before)
  BY DEF Inv, DirectionMatchesPair, DirectionOK
<1>9. new \in State
  BY <1>4, <1>7 DEF State
<1>10. time \in Time /\ time \in Nat /\ time > sourceTime /\ sourceTime \in Int
  BY DEF Later, Time, Inv, TypeOK
<1> HIDE DEF pair, step, new
<1>11. /\ MemoryOK(last', before') /\ DirectionOK(step.direction, last', before')
       /\ ~Reverses(state.direction, step.direction)
  BY <1>1, <1>5, <1>6, <1>8, TransitionKeepsMemory DEF step
<1>12. /\ state'.direction = step.direction
       /\ state'.candidate = CandidatePair(snapshot) /\ state'.confirmed = ConfirmedPair(snapshot)
  BY <1>1 DEF new
<1>13. events # <<>> => /\ ChainOK(events)
                        /\ events[Len(events)].confirm < time
                        /\ events[Len(events)].confirm <= time
                        /\ events[Len(events)].current = state.direction
  <2> SUFFICES ASSUME events # <<>>
               PROVE  /\ ChainOK(events)
                      /\ events[Len(events)].confirm < time
                      /\ events[Len(events)].confirm <= time
                      /\ events[Len(events)].current = state.direction
    OBVIOUS
  <2>1. /\ ChainOK(events) /\ events[Len(events)].confirm <= sourceTime
        /\ events[Len(events)].current = state.direction
    BY DEF Inv, LedgerOK
  <2>2. events[Len(events)].confirm \in Nat
    <3>1. Len(events) \in 1 .. Len(events)
      BY <1>6
    <3>2. events[Len(events)] \in Event
      BY <1>6, <3>1
    <3> QED
      BY <3>2 DEF Event
  <2> QED
    BY <1>10, <2>1, <2>2
<1>14. /\ events' \in Seq(Event) /\ events' # <<>> /\ ChainOK(events')
       /\ events'[Len(events')].current = new.direction
       /\ events' = events => new = state
       /\ events' # events => events'[Len(events')] = EventOf(state, new, events, time)
  BY <1>1, <1>6, <1>9, <1>10, <1>13, NextEventsFacts
<1>15. explanation' \in Explanation /\ last' \in Pair /\ before' \in Pair
  BY <1>1, <1>5, <1>6, <1>7 DEF Explanation
<1>16. SourceOK' /\ StateOK'
  <2>1. SourceOK'
    BY <1>1, <1>2 DEF SourceOK
  <2>2. PairOf(state.candidate, source, CandidatePhase)'
    BY <1>1, <1>3, <1>12 DEF PairOf
  <2>3. PairOf(state.confirmed, source, ConfirmedPhase)'
    BY <1>1, <1>3, <1>12 DEF PairOf
  <2> QED
    BY <2>1, <2>2, <2>3, <1>14 DEF StateOK
<1>17. LedgerOK'
  <2>1. \A b \in SelectedBoundaries' : b \in snapshot
    BY <1>3, <1>12 DEF SelectedBoundaries, PairOf
  <2>2. events'[Len(events')].confirm <= time
    <3>1. CASE events' = events
      BY <1>13, <1>14, <3>1
    <3>2. CASE events' # events
      BY <1>14, <3>2, <1>10 DEF EventOf
    <3> QED
      BY <3>1, <3>2
  <2>3. \A b \in SelectedBoundaries' : b.confirm <= events'[Len(events')].confirm
    <3>1. CASE events' = events
      <4>1. SelectedBoundaries' = SelectedBoundaries
        BY <1>1, <1>14, <3>1 DEF SelectedBoundaries
      <4> QED
        BY <4>1, <3>1, <1>14 DEF Inv, LedgerOK
    <3>2. CASE events' # events
      <4>1. events'[Len(events')].confirm = time
        BY <1>14, <3>2 DEF EventOf
      <4> QED
        BY <4>1, <2>1, <1>2
    <3> QED
      BY <3>1, <3>2
  <2> QED
    BY <2>2, <2>3, <1>1, <1>12, <1>14 DEF LedgerOK, new
<1>18. DirectionMatchesPair'
  BY <1>11, <1>12 DEF DirectionMatchesPair, DirectionOK
<1>19. ExplanationReadable'
  <2>1. ~Complete(pair) => last' = last
    BY <1>1
  <2>2. ~step.moved => step = Kept(state.direction)
    <3>1. last = NoPair => state.direction = "UNKNOWN"
      BY <1>8 DEF DirectionOK
    <3>2. ~Complete(last) => last = NoPair
      BY <1>8 DEF MemoryOK
    <3> QED
      BY <3>1, <3>2 DEF step, Transition, Kept, Moved
  <2>3. before' = Identity(state'.confirmed)
    BY <1>1, <1>12 DEF pair
  <2> QED
    BY <1>1, <1>12, <2>1, <2>2, <2>3 DEF ExplanationReadable
<1>20. events' = events => state' = state /\ last' = last /\ before' = before
  <2> SUFFICES ASSUME events' = events PROVE state' = state /\ last' = last /\ before' = before
    OBVIOUS
  <2>1. state' = state
    BY <1>1, <1>14
  <2>2. before' = before
    BY <2>1, <1>1, <1>12 DEF pair, Inv, ExplanationReadable
  <2>3. last' = last
    BY <2>2, <1>1, <1>8, NoPairIsIncomplete DEF MemoryOK
  <2> QED
    BY <2>1, <2>2, <2>3
<1>21. state' \in State
  BY <1>1, <1>9
<1> QED
  BY <1>1, <1>2, <1>10, <1>11, <1>12, <1>14, <1>15, <1>16, <1>17, <1>18, <1>19, <1>20, <1>21
  DEF EngineInv

LEMMA EngineGivesInv ==
    ASSUME EngineInv', SameMemory', TypeOK, UNCHANGED mode,
           asOf' \in Time \cup {-1}, accepted' \in BOOLEAN
    PROVE  Inv'
<1>1. /\ audit' = [last |-> last', before |-> before', direction |-> state'.direction]
      /\ state' \in State /\ last' \in Pair /\ before' \in Pair
  BY DEF EngineInv, SameMemory
<1>2. audit' \in Memory
  BY <1>1 DEF Memory, State
<1>3. TypeOK'
  BY <1>2 DEF TypeOK, EngineInv
<1> QED
  BY <1>3 DEF Inv, EngineInv

(* Publishing what was just read or is still current keeps the memories    *)
(* equal.                                                                  *)
LEMMA PublishKeepsMemory ==
    ASSUME NEW time \in Later, Publish(time), ExplanationReadable', MemoryOK(last', before'),
           audit.last = last' \/ Complete(before')
    PROVE  SameMemory' /\ asOf' \in Time \cup {-1} /\ accepted' \in BOOLEAN
<1>1. explanation'.current = before'
  BY DEF ExplanationReadable
<1>2. audit' = [last |-> IF Complete(before') THEN before' ELSE audit.last,
                before |-> before', direction |-> state'.direction]
  BY <1>1 DEF Publish
<1>3. Complete(before') => before' = last'
  BY NoPairIsIncomplete DEF MemoryOK
<1>4. SameMemory'
  BY <1>2, <1>3 DEF SameMemory
<1>5. asOf' \in Time \cup {-1}
  BY DEF Publish, Later
<1>6. accepted' \in BOOLEAN
  BY DEF Publish, Accepts
<1> QED
  BY <1>4, <1>5, <1>6

(* Reading and publishing a snapshot is always accepted: the validator     *)
(* derives what the engine derived.                                        *)
LEMMA PublishedSnapshotAccepted ==
    ASSUME Inv, NEW time \in Later, NEW snapshot \in LifecycleSnapshots(time),
           PublishSnapshot(snapshot, time)
    PROVE  accepted'
<1> DEFINE new == state'
<1>1. /\ ReadSnapshot(snapshot, time)
      /\ accepted' = Accepts(audit, events, events', state, state', explanation', time)
  BY DEF PublishSnapshot, Publish
<1>2. EngineInv'
  BY <1>1, ReadKeepsEngine
<1>3. audit = [last |-> last, before |-> before, direction |-> state.direction]
  BY DEF Inv, SameMemory
<1>4. /\ explanation'.last = last /\ explanation'.previous = state.direction
      /\ explanation'.final = Transition(state.direction, last, before, explanation'.current)
      /\ explanation'.final.direction = state'.direction
      /\ explanation'.current = Identity(state'.confirmed)
      /\ events' = NextEvents(state, state', events, time)
  BY <1>1 DEF ReadSnapshot
<1>5. /\ events \in Seq(Event) /\ state \in State /\ state' \in State /\ time \in Nat
      /\ sourceTime \in Int /\ time > sourceTime
  BY <1>2 DEF Inv, TypeOK, EngineInv, Later, Time
<1>6. events # <<>> => /\ ChainOK(events)
                       /\ events[Len(events)].confirm < time
                       /\ events[Len(events)].current = state.direction
  <2> SUFFICES ASSUME events # <<>>
               PROVE  /\ ChainOK(events)
                      /\ events[Len(events)].confirm < time
                      /\ events[Len(events)].current = state.direction
    OBVIOUS
  <2>1. /\ ChainOK(events) /\ events[Len(events)].confirm <= sourceTime
        /\ events[Len(events)].current = state.direction
    BY DEF Inv, LedgerOK
  <2>2. events[Len(events)] \in Event
    <3>1. Len(events) \in 1 .. Len(events)
      BY <1>5
    <3> QED
      BY <3>1, <1>5
  <2>3. events[Len(events)].confirm \in Nat
    BY <2>2 DEF Event
  <2> QED
    BY <1>5, <2>1, <2>3
<1>7. /\ events' \in Seq(Event) /\ ChainOK(events')
      /\ events' = events => state' = state
      /\ events' # events =>
            /\ Len(events') = Len(events) + 1
            /\ events'[Len(events')] = EventOf(state, state', events, time)
      /\ events = <<>> => events'[1].confirm = time
      /\ Len(events') = Len(events) => events' = events
      /\ events' # events /\ events # <<>> => state' # state
  BY <1>4, <1>5, <1>6, NextEventsFacts
<1>8. Len(events') - Len(events) \in {0, 1}
  BY <1>5, <1>7
<1>9. ASSUME events # <<>>, Len(events') # Len(events)
      PROVE  state' # state /\ DescribesChange(events'[Len(events')], state, state', time)
  <2>1. events' # events
    BY <1>9
  <2>2. events'[Len(events')] = EventOf(state, state', events, time) /\ state' # state
    BY <2>1, <1>7, <1>9
  <2>3. DescribesChange(EventOf(state, state', events, time), state, state', time)
    <3>1. state = [direction |-> state.direction, candidate |-> state.candidate,
                   confirmed |-> state.confirmed]
          /\ state' = [direction |-> state'.direction, candidate |-> state'.candidate,
                       confirmed |-> state'.confirmed]
      BY <1>5 DEF State
    <3>2. state.direction = state'.direction =>
            <<state.candidate, state.confirmed>> # <<state'.candidate, state'.confirmed>>
      BY <2>2, <3>1
    <3> QED
      BY <3>2, <1>9 DEF DescribesChange, EventOf, EventType, Previous
  <2> QED
    BY <2>2, <2>3
<1>10. events # <<>> =>
          IF Len(events') = Len(events) THEN state' = state
          ELSE state' # state /\ DescribesChange(events'[Len(events')], state, state', time)
  BY <1>7, <1>9
<1>11. events' # <<>> /\ ChainOK(events')
  BY <1>7 DEF ChainOK
<1> QED
  BY <1>1, <1>3, <1>4, <1>7, <1>8, <1>10, <1>11 DEF Accepts

(* Observing a settled snapshot again is accepted. *)
LEMMA SettledObservationAccepted ==
    ASSUME Inv, NEW time \in Later, Observe(time), Settled(explanation)
    PROVE  accepted'
<1>1. /\ UNCHANGED engineVars /\ events # <<>>
      /\ accepted' = Accepts(audit, events, events', state, state', explanation', time)
  BY DEF Observe, Publish
<1>2. /\ explanation' = explanation /\ state' = state /\ events' = events
  BY <1>1 DEF engineVars
<1>3. audit = [last |-> last, before |-> before, direction |-> state.direction]
  BY DEF Inv, SameMemory
<1>4. /\ explanation.current = before /\ before = Identity(state.confirmed)
      /\ ~Complete(before) => explanation.last = last
      /\ explanation.final.direction = state.direction
      /\ explanation.final = Kept(explanation.previous)
  BY DEF Inv, ExplanationReadable, Settled
<1>5. explanation.previous = state.direction
  BY <1>4 DEF Kept
<1>6. MemoryOK(last, before) /\ DirectionOK(state.direction, last, before)
  BY DEF Inv, DirectionMatchesPair, DirectionOK
<1>7. explanation.last = last
  <2>1. CASE Complete(before)
    BY <2>1, <1>4, <1>6, NoPairIsIncomplete DEF Settled, MemoryOK
  <2> QED
    BY <2>1, <1>4
<1>8. Transition(state.direction, last, before, before) = Kept(state.direction)
  <2>1. CASE Complete(before)
    <3>1. before = last /\ Complete(last)
      BY <2>1, <1>6, NoPairIsIncomplete DEF MemoryOK
    <3>2. SamePosition(before, last)
      BY <3>1 DEF SamePosition
    <3> QED
      BY <2>1, <3>1, <3>2 DEF Transition
  <2>2. CASE ~Complete(before) /\ Complete(last)
    BY <2>2 DEF Transition
  <2>3. CASE ~Complete(before) /\ ~Complete(last)
    <3>1. state.direction = "UNKNOWN"
      BY <2>3, <1>6 DEF MemoryOK, DirectionOK
    <3> QED
      BY <2>3, <3>1 DEF Transition
  <2> QED
    BY <2>1, <2>2, <2>3
<1>9. ChainOK(events) /\ events \in Seq(Event)
  BY <1>1 DEF Inv, LedgerOK, TypeOK
<1>10. Len(events) - Len(events) \in {0, 1}
  BY <1>9
<1> QED
  BY <1>1, <1>2, <1>3, <1>4, <1>5, <1>7, <1>8, <1>9, <1>10 DEF Accepts

LEMMA NextKeepsInv == Inv /\ [Next]_vars => Inv'
<1> SUFFICES ASSUME Inv, [Next]_vars PROVE Inv'
  OBVIOUS
<1>1. ASSUME NEW time \in Later, NEW snapshot \in LifecycleSnapshots(time),
             PublishSnapshot(snapshot, time), UNCHANGED mode
      PROVE  Inv'
  <2>1. EngineInv' /\ Publish(time) /\ ReadSnapshot(snapshot, time)
    BY <1>1, ReadKeepsEngine DEF PublishSnapshot
  <2>2. ExplanationReadable' /\ MemoryOK(last', before')
    BY <2>1 DEF EngineInv
  <2>3. audit.last = last' \/ Complete(before')
    BY <2>1 DEF Inv, SameMemory, ReadSnapshot, Remember
  <2>4. SameMemory' /\ asOf' \in Time \cup {-1} /\ accepted' \in BOOLEAN
    BY <2>1, <2>2, <2>3, PublishKeepsMemory
  <2> QED
    BY <1>1, <2>1, <2>4, EngineGivesInv DEF Inv
<1>2. ASSUME NEW time \in Later, NEW snapshot \in LifecycleSnapshots(time),
             SkipSnapshot(snapshot, time), UNCHANGED mode
      PROVE  Inv'
  <2>1. /\ EngineInv' /\ state' = state /\ last' = last /\ before' = before
        /\ UNCHANGED <<asOf, audit, accepted>>
    BY <1>2, ReadKeepsEngine DEF SkipSnapshot
  <2>2. SameMemory' /\ asOf' \in Time \cup {-1} /\ accepted' \in BOOLEAN
    BY <2>1 DEF Inv, TypeOK, SameMemory
  <2> QED
    BY <1>2, <2>1, <2>2, EngineGivesInv DEF Inv
<1>3. ASSUME NEW time \in Later, Observe(time), UNCHANGED mode PROVE Inv'
  <2>1. UNCHANGED engineVars /\ Publish(time) /\ events # <<>>
    BY <1>3 DEF Observe
  <2>2. /\ source' = source /\ sourceTime' = sourceTime /\ last' = last /\ before' = before
        /\ state' = state /\ explanation' = explanation /\ events' = events
    BY <2>1 DEF engineVars
  <2>3. ExplanationReadable'
    BY <2>2 DEF Inv, ExplanationReadable
  <2>4. MemoryOK(last', before') /\ audit.last = last'
    BY <2>2 DEF Inv, SameMemory
  <2>5. SameMemory' /\ asOf' \in Time \cup {-1} /\ accepted' \in BOOLEAN
    BY <2>1, <2>3, <2>4, PublishKeepsMemory
  <2>6. TypeOK'
    BY <1>3, <2>2, <2>5 DEF Inv, TypeOK, SameMemory, Memory, State
  <2>7. SourceOK' /\ StateOK' /\ LedgerOK'
    BY <2>2 DEF Inv, SourceOK, StateOK, LedgerOK, SelectedBoundaries
  <2>8. DirectionMatchesPair'
    BY <2>2 DEF Inv, DirectionMatchesPair
  <2> QED
    BY <2>3, <2>4, <2>5, <2>6, <2>7, <2>8 DEF Inv
<1>4. CASE UNCHANGED vars
  <2>1. UNCHANGED <<mode, source, sourceTime, last, before, state, explanation, events,
                    asOf, audit, accepted>>
    BY <1>4 DEF vars, engineVars
  <2> QED
    BY <2>1 DEF Inv, TypeOK, SourceOK, StateOK, LedgerOK, SelectedBoundaries,
                DirectionMatchesPair, ExplanationReadable, SameMemory
<1> QED
  BY <1>1, <1>2, <1>3, <1>4 DEF Next

LEMMA InvHolds == Spec => []Inv
  BY InitInv, NextKeepsInv, PTL DEF Spec

-----------------------------------------------------------------------------
(* Theorems *)

(* TypeOK holds of every history the engine builds, and of the validator's *)
(* memory beside it.                                                       *)
THEOREM TypeCorrect == Spec => []TypeOK
<1>1. Inv => TypeOK
  BY DEF Inv
<1> QED
  BY <1>1, InvHolds, PTL

(* The domain type never refuses a state the engine builds: whatever the   *)
(* lifecycle does, no pair is crossed and no slot holds a boundary of the  *)
(* wrong side, of an ineligible state or from the future.                  *)
THEOREM DomainAlwaysAccepts == Spec => []DomainAccepts
<1>1. Inv => DomainAccepts
  <2> SUFFICES ASSUME Inv PROVE DomainAccepts
    OBVIOUS
  <2>1. PairSound(state.candidate, CandidatePhase)
    BY DEF Inv, StateOK, PairOf, PairSound
  <2>2. PairSound(state.confirmed, ConfirmedPhase)
    BY DEF Inv, StateOK, PairOf, PairSound
  <2>3. ASSUME NEW b \in SelectedBoundaries
        PROVE  b.confirm <= events[Len(events)].confirm
    BY DEF Inv, StateOK, LedgerOK
  <2> QED
    BY <2>1, <2>2, <2>3 DEF DomainAccepts, SelectedBoundaries
<1> QED
  BY <1>1, InvHolds, PTL

(* The direction always fits the pairs that were seen. *)
THEOREM DirectionAlwaysMatchesPair == Spec => []DirectionMatchesPair
<1>1. Inv => DirectionMatchesPair
  BY DEF Inv
<1> QED
  BY <1>1, InvHolds, PTL

(* No history holds a direct change between UP and DOWN, also not across   *)
(* the loss and the return of the pair.                                    *)
THEOREM DirectionNeverReverses == Spec => NoDirectReversal
<1>1. Inv /\ [Next]_vars => [~Reverses(state.direction, state'.direction)]_vars
  <2> SUFFICES ASSUME Inv, Next PROVE ~Reverses(state.direction, state'.direction)
    OBVIOUS
  <2>1. ASSUME NEW time \in Later, NEW snapshot \in LifecycleSnapshots(time),
               ReadSnapshot(snapshot, time)
        PROVE  ~Reverses(state.direction, state'.direction)
    BY <2>1, ReadKeepsEngine
  <2>2. ASSUME NEW time \in Later, Observe(time)
        PROVE  ~Reverses(state.direction, state'.direction)
    BY <2>2 DEF Observe, engineVars, Reverses
  <2> QED
    BY <2>1, <2>2 DEF Next, PublishSnapshot, SkipSnapshot
<1> QED
  BY <1>1, InvHolds, PTL DEF Spec, NoDirectReversal

(* TimeframeStateHistory accepts whatever a batch builds. *)
THEOREM BatchAlwaysAccepted == Spec => []BatchAccepted
<1>1. Init => BatchAccepted
  BY DEF Init, BatchAccepted
<1>2. Inv /\ BatchAccepted /\ [Next]_vars => BatchAccepted'
  <2> SUFFICES ASSUME Inv, BatchAccepted, [Next]_vars PROVE BatchAccepted'
    OBVIOUS
  <2>1. ASSUME NEW time \in Later, NEW snapshot \in LifecycleSnapshots(time),
               PublishSnapshot(snapshot, time)
        PROVE  BatchAccepted'
    BY <2>1, PublishedSnapshotAccepted DEF BatchAccepted
  <2>2. ASSUME mode = "REPLAY", UNCHANGED mode PROVE BatchAccepted'
    BY <2>2 DEF BatchAccepted
  <2>3. CASE UNCHANGED vars
    BY <2>3 DEF vars, BatchAccepted
  <2> QED
    BY <2>1, <2>2, <2>3 DEF Next, SkipSnapshot, Observe
<1> QED
  BY <1>1, <1>2, InvHolds, PTL DEF Spec

(* A replay is refused only for looking a second time at a snapshot whose  *)
(* explanation is not settled.                                             *)
THEOREM RefusedOnlyUnsettled == Spec => OnlyUnsettledRefused
<1>1. Inv /\ [Next]_vars
        => [~accepted' => UNCHANGED engineVars /\ ~Settled(explanation)]_vars
  <2> SUFFICES ASSUME Inv, Next, ~accepted'
               PROVE  UNCHANGED engineVars /\ ~Settled(explanation)
    OBVIOUS
  <2>1. ASSUME NEW time \in Later, NEW snapshot \in LifecycleSnapshots(time),
               PublishSnapshot(snapshot, time)
        PROVE  FALSE
    BY <2>1, PublishedSnapshotAccepted
  <2>2. ASSUME NEW time \in Later, NEW snapshot \in LifecycleSnapshots(time),
               SkipSnapshot(snapshot, time)
        PROVE  FALSE
    BY <2>2 DEF Next, SkipSnapshot
  <2>3. ASSUME NEW time \in Later, Observe(time)
        PROVE  UNCHANGED engineVars /\ ~Settled(explanation)
    BY <2>3, SettledObservationAccepted DEF Observe
  <2> QED
    BY <2>1, <2>2, <2>3 DEF Next
<1> QED
  BY <1>1, InvHolds, PTL DEF Spec, OnlyUnsettledRefused

(* Nothing published is later than its history, and it is in order.  No    *)
(* event waits unpublished, because a schedule may skip only a snapshot    *)
(* without one.                                                            *)
LedgerKnown ==
    /\ \A k \in DOMAIN events : events[k].confirm <= asOf
    /\ Ledger!OrderedByConfirm(events)

LEMMA PublishAdvances ==
    ASSUME Inv, Inv', LedgerKnown, NEW time \in Later, asOf' = time,
           events' = events \/ \E e : events' = Append(events, e) /\ e.confirm = time
    PROVE  Ledger!Advance /\ LedgerKnown'
<1>1. /\ events \in Seq(Event) /\ events' \in Seq(Event)
      /\ asOf \in Int /\ time \in Int /\ asOf < time
  BY DEF Inv, TypeOK, Later, Time
<1>2. \A k \in DOMAIN events : events[k].confirm \in Int
  <2>1. \A k \in DOMAIN events : events[k] \in Event
    BY <1>1
  <2>2. \A e \in Event : e.confirm \in Int
    BY DEF Event
  <2> QED
    BY <2>1, <2>2
<1>3. CASE events' = events
  <2>1. LedgerKnown'
    BY <1>1, <1>2, <1>3 DEF LedgerKnown, Ledger!OrderedByConfirm
  <2> QED
    BY <1>1, <1>3, <2>1 DEF Ledger!Advance, LedgerKnown
<1>4. ASSUME NEW e, events' = Append(events, e), e.confirm = time
      PROVE  Ledger!Advance /\ LedgerKnown'
  <2>1. /\ Len(events') = Len(events) + 1 /\ Len(events) \in Nat
        /\ DOMAIN events = 1 .. Len(events) /\ DOMAIN events' = 1 .. Len(events) + 1
        /\ \A k \in DOMAIN events : events'[k] = events[k]
        /\ events'[Len(events) + 1] = e
    BY <1>1, <1>4
  <2>2. \A k \in DOMAIN events' : k \in DOMAIN events \/ (k = Len(events) + 1 /\ events'[k] = e)
    BY <2>1
  <2>3. ASSUME NEW k \in DOMAIN events' PROVE events'[k].confirm <= time
    <3>1. CASE k \in DOMAIN events
      <4>1. events'[k] = events[k] /\ events[k].confirm <= asOf /\ events[k].confirm \in Int
        BY <1>2, <2>1, <3>1 DEF LedgerKnown
      <4> QED
        BY <1>1, <4>1
    <3>2. CASE k = Len(events) + 1 /\ events'[k] = e
      BY <1>1, <1>4, <3>2
    <3> QED
      BY <2>2, <3>1, <3>2
  <2>4. ASSUME NEW j \in DOMAIN events', NEW k \in DOMAIN events', j <= k
        PROVE  events'[j].confirm <= events'[k].confirm
    <3>1. CASE k \in DOMAIN events
      <4>1. j \in DOMAIN events
        BY <2>1, <2>4, <3>1
      <4> QED
        BY <2>1, <2>4, <3>1, <4>1 DEF LedgerKnown, Ledger!OrderedByConfirm
    <3>2. CASE k \notin DOMAIN events
      BY <1>4, <2>2, <2>3, <3>2
    <3> QED
      BY <3>1, <3>2
  <2>5. LedgerKnown'
    BY <1>4, <2>3, <2>4 DEF LedgerKnown, Ledger!OrderedByConfirm
  <2>6. \A k \in DOMAIN events' \ DOMAIN events : events'[k].confirm = time
    BY <1>4, <2>2
  <2> QED
    BY <1>1, <2>1, <2>5, <2>6 DEF Ledger!Advance, LedgerKnown
<1> QED
  BY <1>3, <1>4

LEMMA ReadAddsAtMostOne ==
    ASSUME NEW snapshot, NEW time, ReadSnapshot(snapshot, time)
    PROVE  events' = events \/ \E e : events' = Append(events, e) /\ e.confirm = time
  BY DEF ReadSnapshot, NextEvents, EventOf

LEMMA NextAdvances ==
    Inv /\ Inv' /\ LedgerKnown /\ [Next]_vars
        => [Ledger!Advance]_<<asOf, events>> /\ LedgerKnown'
<1> SUFFICES ASSUME Inv, Inv', LedgerKnown, [Next]_vars
             PROVE  [Ledger!Advance]_<<asOf, events>> /\ LedgerKnown'
  OBVIOUS
<1>1. ASSUME NEW time \in Later, NEW snapshot \in LifecycleSnapshots(time),
             PublishSnapshot(snapshot, time)
      PROVE  Ledger!Advance /\ LedgerKnown'
  BY <1>1, ReadAddsAtMostOne, PublishAdvances DEF PublishSnapshot, Publish
<1>2. ASSUME NEW time \in Later, Observe(time) PROVE Ledger!Advance /\ LedgerKnown'
  BY <1>2, PublishAdvances DEF Observe, Publish, engineVars
<1>3. ASSUME UNCHANGED <<asOf, events>>
      PROVE  [Ledger!Advance]_<<asOf, events>> /\ LedgerKnown'
  BY <1>3 DEF LedgerKnown, Ledger!OrderedByConfirm
<1> QED
  BY <1>1, <1>2, <1>3 DEF Next, SkipSnapshot, vars, engineVars

(* The published history, of a batch or of a replay with any schedule, is  *)
(* an append-only causal ledger.                                           *)
THEOREM HistoryIsCausalLedger == Spec => ImplementsCausalLedger
<1>1. Init => Ledger!Init /\ LedgerKnown
  BY DEF Init, Ledger!Init, LedgerKnown, Ledger!OrderedByConfirm
<1>2. QED
  BY <1>1, NextAdvances, InvHolds, PTL
  DEF Spec, ImplementsCausalLedger, Ledger!Spec, Ledger!vars

(* A stage of the causal ledger keeps every held event known and in order. *)
LEMMA AdvanceKeepsKnown ==
    ASSUME Ledger!TypeOK, Ledger!KnownByNow, [Ledger!Advance]_(Ledger!vars)
    PROVE  Ledger!TypeOK' /\ Ledger!KnownByNow'
<1>1. CASE Ledger!Advance
  <2>1. Ledger!TypeOK'
    BY <1>1 DEF Ledger!Advance, Ledger!TypeOK
  <2>2. ASSUME NEW k \in DOMAIN events' PROVE events'[k].confirm <= asOf'
    <3>1. CASE k \in DOMAIN events
      <4>1. events'[k] = events[k] /\ events[k].confirm <= asOf /\ asOf' > asOf
        BY <1>1, <3>1 DEF Ledger!Advance, Ledger!KnownByNow
      <4>2. events[k] \in Event /\ asOf \in Int /\ asOf' \in Int
        BY <2>1, <3>1 DEF Ledger!TypeOK
      <4>3. events[k].confirm \in Int
        BY <4>2 DEF Event
      <4> QED
        BY <4>1, <4>2, <4>3
    <3>2. CASE k \notin DOMAIN events
      BY <1>1, <2>2, <3>2 DEF Ledger!Advance
    <3> QED
      BY <3>1, <3>2
  <2> QED
    BY <1>1, <2>1, <2>2 DEF Ledger!Advance, Ledger!KnownByNow
<1>2. CASE UNCHANGED Ledger!vars
  BY <1>2 DEF Ledger!vars, Ledger!TypeOK, Ledger!KnownByNow, Ledger!OrderedByConfirm
<1> QED
  BY <1>1, <1>2

LEMMA LedgerStaysKnown == Spec => [](Ledger!TypeOK /\ Ledger!KnownByNow)
<1>1. Ledger!Init => Ledger!TypeOK /\ Ledger!KnownByNow
  BY DEF Ledger!Init, Ledger!TypeOK, Ledger!KnownByNow, Ledger!OrderedByConfirm
<1> QED
  BY <1>1, AdvanceKeepsKnown, HistoryIsCausalLedger, PTL
  DEF ImplementsCausalLedger, Ledger!Spec

(* The published history never holds an event before its confirm time, and *)
(* holds its events in that order.                                         *)
THEOREM NothingIsEarly == Spec => []Ledger!KnownByNow
  BY LedgerStaysKnown, PTL

(* Whatever the schedule, the part of a later history that was confirmed   *)
(* by an earlier processing time is exactly the history published then.    *)
THEOREM SnapshotsAreExactPrefixes == Spec => Ledger!ExactPrefix
<1>1. Ledger!TypeOK /\ Ledger!KnownByNow /\ [Ledger!Advance]_(Ledger!vars)
        => [\A k \in DOMAIN events' : events'[k].confirm <= asOf <=> k <= Len(events)]_(Ledger!vars)
  <2> SUFFICES ASSUME Ledger!TypeOK, Ledger!KnownByNow, Ledger!Advance,
                      NEW k \in DOMAIN events'
               PROVE  events'[k].confirm <= asOf <=> k <= Len(events)
    OBVIOUS
  <2>1. /\ events \in Seq(Event) /\ events' \in Seq(Event)
        /\ DOMAIN events = 1 .. Len(events) /\ DOMAIN events' = 1 .. Len(events')
        /\ Len(events) \in Nat /\ Len(events') \in Nat /\ asOf \in Int
    BY DEF Ledger!TypeOK, Ledger!Advance
  <2>2. events'[k] \in Event
    BY <2>1
  <2>3. events'[k].confirm \in Int
    BY <2>2 DEF Event
  <2>4. CASE k \in DOMAIN events
    BY <2>1, <2>4 DEF Ledger!KnownByNow, Ledger!Advance
  <2>5. CASE k \notin DOMAIN events
    <3>1. asOf < events'[k].confirm
      BY <2>5 DEF Ledger!Advance
    <3> QED
      BY <2>1, <2>3, <2>5, <3>1
  <2> QED
    BY <2>4, <2>5
<1> QED
  BY <1>1, LedgerStaysKnown, HistoryIsCausalLedger, PTL
  DEF ImplementsCausalLedger, Ledger!Spec, Ledger!ExactPrefix

-----------------------------------------------------------------------------
(* What a snapshot shows beside its state *)

(* A lifecycle snapshot holds each subject once, from its structural       *)
(* confirm time on.                                                        *)
OneVersion(values) == \A a, b \in values : a.subject = b.subject => a = b
Structural(values) == \A b \in values : ConfirmTimeOf[b.subject] <= b.confirm

LEMMA SnapshotsHoldOneVersion ==
    ASSUME TypeOK, SourceOK, OneVersion(source), Structural(source),
           NEW time \in Later, NEW snapshot \in LifecycleSnapshots(time)
    PROVE  OneVersion(snapshot) /\ Structural(snapshot)
<1>1. time \in Int /\ sourceTime \in Int /\ time > sourceTime
  BY DEF Later, Time, TypeOK
<1>2. ASSUME NEW b \in source
      PROVE  /\ b.subject \in Subject /\ b.confirm \in Nat /\ b.confirm <= sourceTime
             /\ ConfirmTimeOf[b.subject] \in Nat /\ ConfirmTimeOf[b.subject] <= b.confirm
  <2>1. b \in Boundary
    BY DEF TypeOK
  <2>2. b.subject \in Subject /\ b.confirm \in Nat
    BY <2>1 DEF Boundary
  <2> QED
    BY <2>2 DEF SourceOK, Structural
<1>3. ASSUME NEW s \in Subject, sourceTime < ConfirmTimeOf[s], NEW b \in source
      PROVE  b.subject # s
  BY <1>1, <1>2, <1>3
<1>4. ASSUME NEW a \in Visible(time)
      PROVE  /\ a.subject \in Subject /\ a.confirm \in Nat
             /\ ConfirmTimeOf[a.subject] <= a.confirm
             /\ a \in source \/ (sourceTime < ConfirmTimeOf[a.subject] /\ a = Activated(a.subject))
  <2>1. CASE a \in source
    BY <1>2, <2>1
  <2>2. ASSUME NEW s \in Subject, sourceTime < ConfirmTimeOf[s], a = Activated(s)
        PROVE  /\ a.subject = s /\ a.confirm = ConfirmTimeOf[s] /\ ConfirmTimeOf[s] \in Nat
    BY <2>2 DEF Activated
  <2>3. CASE a \notin source
    <3>1. PICK s \in Subject : sourceTime < ConfirmTimeOf[s] /\ a = Activated(s)
      BY <2>3 DEF Visible
    <3> QED
      BY <3>1, <2>2
  <2> QED
    BY <2>1, <2>3
<1>5. OneVersion(Visible(time))
  BY <1>3, <1>4 DEF OneVersion
<1>6. PICK m \in SUBSET Visible(time) :
        \E next \in {f \in [m -> UNION {Versions(b, time) : b \in m}] :
                         \A b \in m : f[b] \in Versions(b, time)} :
            snapshot = (Visible(time) \ m) \cup {next[b] : b \in m}
  BY DEF LifecycleSnapshots
<1>7. PICK next \in [m -> UNION {Versions(b, time) : b \in m}] :
        /\ \A b \in m : next[b] \in Versions(b, time)
        /\ snapshot = (Visible(time) \ m) \cup {next[b] : b \in m}
  BY <1>6
<1>8. ASSUME NEW b \in m
      PROVE  next[b].subject = b.subject /\ ConfirmTimeOf[b.subject] <= next[b].confirm
  <2>1. PICK p \in PhasesOf[b.subject], t \in sourceTime + 1 .. time :
             t > b.confirm /\ next[b] = [subject |-> b.subject, phase |-> p, confirm |-> t]
    BY <1>7 DEF Versions
  <2>2. /\ t \in Int /\ b.confirm \in Nat /\ b.subject \in Subject
        /\ ConfirmTimeOf[b.subject] <= b.confirm
    BY <1>1, <1>4
  <2>3. ConfirmTimeOf[b.subject] \in Nat
    BY <2>2
  <2> QED
    BY <2>1, <2>2, <2>3
<1>9. ASSUME NEW c \in snapshot
      PROVE  \E b \in Visible(time) :
                /\ c.subject = b.subject /\ ConfirmTimeOf[c.subject] <= c.confirm
                /\ IF b \in m THEN c = next[b] ELSE c = b
  <2>1. CASE c \in Visible(time) \ m
    BY <2>1, <1>4
  <2>2. ASSUME NEW b \in m, c = next[b]
        PROVE  /\ b \in Visible(time) /\ c.subject = b.subject
               /\ ConfirmTimeOf[c.subject] <= c.confirm
    BY <2>2, <1>8
  <2> QED
    BY <2>1, <2>2, <1>7
<1>10. OneVersion(snapshot)
  BY <1>5, <1>9 DEF OneVersion
<1>11. Structural(snapshot)
  BY <1>9 DEF Structural
<1> QED
  BY <1>10, <1>11

(* The facts of a crossing, whatever the boundaries are. *)
LEMMA CrossingFacts ==
    ASSUME NEW values \in SUBSET Boundary
    PROVE  LET found == PairFacts(values)
           IN /\ found.upper = ResolvePair(values).upper
              /\ found.lower = ResolvePair(values).lower
              /\ found.rawUpper \subseteq values /\ found.rawLower \subseteq values
              /\ found.upper \in {{}, found.rawUpper} /\ found.lower \in {{}, found.rawLower}
              /\ CrossingAgrees(found)
              /\ IF found.crossing THEN found.retained # {} /\ found.dropped # {}
                 ELSE found.retained = {} /\ found.dropped = {}
<1> DEFINE upper == Winner(values, "UPPER")
           lower == Winner(values, "LOWER")
           crossing == Crosses(upper, lower)
           upperNewer == \E u \in upper, l \in lower : Newer(u, l)
           found == PairFacts(values)
           kept == ResolvePair(values)
<1>1. /\ found.rawUpper = upper /\ found.rawLower = lower
      /\ found.upper = kept.upper /\ found.lower = kept.lower
      /\ found.crossing = crossing
      /\ found.retained = IF ~crossing THEN {} ELSE IF upperNewer THEN upper ELSE lower
      /\ found.dropped = IF ~crossing THEN {} ELSE IF upperNewer THEN lower ELSE upper
      /\ found = [rawUpper |-> upper, rawLower |-> lower, upper |-> found.upper,
                  lower |-> found.lower, crossing |-> crossing,
                  retained |-> found.retained, dropped |-> found.dropped]
  BY DEF PairFacts
<1>2. /\ kept.upper = IF crossing /\ ~upperNewer THEN {} ELSE upper
      /\ kept.lower = IF crossing /\ upperNewer THEN {} ELSE lower
  BY DEF ResolvePair
<1>3. upper \subseteq values /\ lower \subseteq values
  BY DEF Winner
<1>4. crossing => upper # {} /\ lower # {}
  BY DEF Crosses
<1>5. /\ \A b \in upper : EffectiveSide(b) = "UPPER"
      /\ \A b \in lower : EffectiveSide(b) = "LOWER"
  BY DEF Winner
<1>6. upper # {} => upper # lower
  BY <1>5
<1> HIDE DEF upper, lower, crossing, upperNewer, found, kept
<1>7. CrossingAgrees(found)
  <2>1. CASE ~crossing
    BY <2>1, <1>1, <1>2 DEF CrossingAgrees
  <2>2. CASE crossing
    <3>1. upper # {} /\ lower # {} /\ upper # lower
      BY <2>2, <1>4, <1>6
    <3>2. Cardinality({s \in {"upper", "lower"} : found[s] # {}}) = 1
      <4>1. CASE upperNewer
        <5>1. found["upper"] # {} /\ found["lower"] = {}
          BY <1>1, <1>2, <2>2, <3>1, <4>1
        <5>2. {s \in {"upper", "lower"} : found[s] # {}} = {"upper"}
          BY <5>1
        <5> QED
          BY <5>2, FS_Singleton
      <4>2. CASE ~upperNewer
        <5>1. found["upper"] = {} /\ found["lower"] # {}
          BY <1>1, <1>2, <2>2, <3>1, <4>2
        <5>2. {s \in {"upper", "lower"} : found[s] # {}} = {"lower"}
          BY <5>1
        <5> QED
          BY <5>2, FS_Singleton
      <4> QED
        BY <4>1, <4>2
    <3>3. /\ found.retained = found.upper \cup found.lower
          /\ found.retained \subseteq upper \cup lower /\ found.dropped \subseteq upper \cup lower
          /\ found.dropped # found.retained
      BY <1>1, <1>2, <2>2, <3>1
    <3> QED
      BY <1>1, <2>2, <3>1, <3>2, <3>3 DEF CrossingAgrees
  <2> QED
    BY <2>1, <2>2
<1>8. IF crossing THEN found.retained # {} /\ found.dropped # {}
      ELSE found.retained = {} /\ found.dropped = {}
  BY <1>1, <1>4
<1>9. found.upper \in {{}, upper} /\ found.lower \in {{}, lower}
  BY <1>1, <1>2
<1> QED
  BY <1>1, <1>3, <1>7, <1>8, <1>9 DEF found, kept

(* Boundaries are counted by their subjects. *)
LEMMA SubjectsCount ==
    ASSUME NEW values \in SUBSET Boundary, OneVersion(values)
    PROVE  /\ IsFiniteSet(values) /\ Cardinality(values) \in Nat
           /\ Cardinality(Subjects(values)) = Cardinality(values)
<1> DEFINE f == [b \in values |-> b.subject]
           named == Subjects(values)
<1>1. \A b \in values : b.subject \in Subject
  BY DEF Boundary
<1>2. named \in SUBSET Subject
  BY <1>1 DEF Subjects
<1>3. IsFiniteSet(named)
  BY <1>2, FS_Subset, SubjectsAreFinite
<1>4. f \in [values -> named] /\ \A s \in named : \E b \in values : f[b] = s
  BY DEF Subjects
<1>5. \A a, b \in values : f[a] = f[b] => a = b
  BY DEF OneVersion
<1> HIDE DEF f, named
<1>6. f \in Injection(values, named) /\ f \in Surjection(values, named)
  BY <1>4, <1>5 DEF Injection, Surjection, IsInjective
<1>7. IsFiniteSet(values) /\ (Cardinality(values) = Cardinality(named))
  BY <1>3, <1>6, FS_Injection
<1>8. Cardinality(values) \in Nat
  BY <1>7, FS_CardinalityType
<1> QED
  BY <1>7, <1>8 DEF named

(* What the views of a snapshot rest on: the state holds the pairs of the  *)
(* snapshot read, the facts are that snapshot's, and the last event and    *)
(* the provenance describe the step that formed the state.                 *)
ViewInv ==
    /\ OneVersion(source) /\ Structural(source)
    /\ state.candidate = CandidatePair(source)
    /\ state.confirmed = ConfirmedPair(source)
    /\ facts = Facts(source)
    /\ events # <<>> =>
          /\ latest.selected = Slots(state.candidate, state.confirmed)
          /\ latest.versions = Chosen(Slots(state.candidate, state.confirmed))
          /\ EventOK(events[Len(events)], latest.changed)
          /\ latest.source = events[Len(events)].confirm

LEMMA InitViewInv == InitViews => ViewInv
<1> SUFFICES ASSUME InitViews PROVE ViewInv
  OBVIOUS
<1>1. source = {} /\ events = <<>> /\ facts = Facts(source)
      /\ state.candidate = NoPair /\ state.confirmed = NoPair
  BY DEF InitViews, Init
<1>2. CandidatePair({}) = NoPair /\ ConfirmedPair({}) = NoPair
  BY DEF CandidatePair, ConfirmedPair, ResolvePair, Winner, NoPair
<1> QED
  BY <1>1, <1>2 DEF ViewInv, OneVersion, Structural

(* The slots of the facts are those of the pairs. *)
LEMMA FactsShowPairs ==
    ASSUME NEW snapshot \in SUBSET Boundary
    PROVE  /\ Slots(Facts(snapshot).pair.candidate, Facts(snapshot).pair.confirmed)
                = Slots(CandidatePair(snapshot), ConfirmedPair(snapshot))
<1> DEFINE candidate == {b \in snapshot : b.phase \in CandidatePhase}
           confirmed == {b \in snapshot : b.phase \in ConfirmedPhase}
<1>1. candidate \in SUBSET Boundary /\ confirmed \in SUBSET Boundary
  OBVIOUS
<1>2. /\ Facts(snapshot).pair.candidate = PairFacts(candidate)
      /\ Facts(snapshot).pair.confirmed = PairFacts(confirmed)
      /\ CandidatePair(snapshot) = ResolvePair(candidate)
      /\ ConfirmedPair(snapshot) = ResolvePair(confirmed)
  BY DEF Facts, CandidatePair, ConfirmedPair
<1> HIDE DEF candidate, confirmed
<1> QED
  BY <1>1, <1>2, CrossingFacts DEF Slots

(* The type of an event is that of the fields that changed. *)
LEMMA EventDescribesChange ==
    ASSUME NEW old \in State, NEW new \in State, NEW history \in Seq(Event), NEW time,
           history # <<>> => new # old
    PROVE  EventOK(EventOf(old, new, history, time), Changed(old, new, history))
<1> DEFINE event == EventOf(old, new, history, time)
           changed == Changed(old, new, history)
<1>1. ASSUME NEW t \in State
      PROVE  /\ Semantic(t)[1] = t.direction
             /\ Semantic(t)[2] = t.candidate.upper /\ Semantic(t)[3] = t.candidate.lower
             /\ Semantic(t)[4] = t.confirmed.upper /\ Semantic(t)[5] = t.confirmed.lower
  BY DEF Semantic
<1>2. changed = {i \in 1 .. 5 : history = <<>> \/ Semantic(old)[i] # Semantic(new)[i]}
  BY DEF Changed
<1>3. /\ event.type = EventType(old, new, history)
      /\ event.previous = Previous(old, history) /\ event.current = new.direction
  BY DEF EventOf
<1>4. \A i : i \in 1 .. 5 <=> i \in {1, 2, 3, 4, 5}
  OBVIOUS
<1> HIDE DEF event, changed
<1>5. CASE history = <<>>
  <2>1. changed = 1 .. 5
    BY <1>2, <1>5
  <2>2. 1 \in changed
    BY <2>1
  <2> QED
    BY <1>3, <1>5, <2>1, <2>2 DEF EventOK, EventType, Previous, event, changed
<1>6. CASE history # <<>>
  <2>1. /\ event.previous = old.direction /\ event.previous # "NONE"
        /\ event.current = new.direction
    BY <1>3, <1>6 DEF Previous, State, Direction
  <2>2. (1 \in changed) <=> (old.direction # new.direction)
    BY <1>1, <1>2, <1>4, <1>6
  <2>3. <<old.candidate, old.confirmed>> = <<new.candidate, new.confirmed>>
           <=> \A i \in {2, 3, 4, 5} : Semantic(old)[i] = Semantic(new)[i]
    <3>1. (\A i \in {2, 3, 4, 5} : Semantic(old)[i] = Semantic(new)[i])
             <=> /\ Semantic(old)[2] = Semantic(new)[2] /\ Semantic(old)[3] = Semantic(new)[3]
                 /\ Semantic(old)[4] = Semantic(new)[4] /\ Semantic(old)[5] = Semantic(new)[5]
      OBVIOUS
    <3>2. (\A i \in {2, 3, 4, 5} : Semantic(old)[i] = Semantic(new)[i])
             <=> /\ old.candidate.upper = new.candidate.upper
                 /\ old.candidate.lower = new.candidate.lower
                 /\ old.confirmed.upper = new.confirmed.upper
                 /\ old.confirmed.lower = new.confirmed.lower
      BY <1>1, <3>1
    <3>3. ASSUME old.candidate.upper = new.candidate.upper,
                 old.candidate.lower = new.candidate.lower
          PROVE  old.candidate = new.candidate
      <4>1. old.candidate \in Pair /\ new.candidate \in Pair
        BY DEF State
      <4> QED
        BY <3>3, <4>1 DEF Pair
    <3>4. ASSUME old.confirmed.upper = new.confirmed.upper,
                 old.confirmed.lower = new.confirmed.lower
          PROVE  old.confirmed = new.confirmed
      <4>1. old.confirmed \in Pair /\ new.confirmed \in Pair
        BY DEF State
      <4> QED
        BY <3>4, <4>1 DEF Pair
    <3> QED
      BY <3>2, <3>3, <3>4
  <2>4. changed = {1} <=> (1 \in changed /\ \A i \in {2, 3, 4, 5} : Semantic(old)[i] = Semantic(new)[i])
    BY <1>2, <1>4, <1>6
  <2>5. changed # {}
    <3>1. old.direction # new.direction
            \/ <<old.candidate, old.confirmed>> # <<new.candidate, new.confirmed>>
      BY <1>6 DEF State
    <3>2. ~(\A i \in {2, 3, 4, 5} : Semantic(old)[i] = Semantic(new)[i]) => changed # {}
      BY <1>2, <1>4
    <3> QED
      BY <2>2, <2>3, <3>1, <3>2
  <2>6. event.type = IF 1 \notin changed THEN "SELECTION_CHANGED"
                     ELSE IF changed = {1} THEN "DIRECTION_CHANGED" ELSE "STATE_CHANGED"
    <3>1. event.type = IF old.direction = new.direction THEN "SELECTION_CHANGED"
                       ELSE IF <<old.candidate, old.confirmed>> = <<new.candidate, new.confirmed>>
                       THEN "DIRECTION_CHANGED" ELSE "STATE_CHANGED"
      BY <1>3, <1>6 DEF EventType
    <3> QED
      BY <2>2, <2>3, <2>4, <3>1
  <2>7. event.type # "INITIALIZED"
    BY <2>6
  <2>8. (1 \in changed) = (event.previous # event.current)
    BY <2>1, <2>2
  <2> QED
    BY <2>1, <2>5, <2>6, <2>7, <2>8 DEF EventOK, event, changed
<1> QED
  BY <1>5, <1>6

LEMMA ReadKeepsViews ==
    ASSUME Inv, ViewInv, NEW time \in Later, NEW snapshot \in LifecycleSnapshots(time),
           ReadSnapshot(snapshot, time), Note,
           facts' = IF source' = source THEN facts ELSE Facts(source')
    PROVE  ViewInv'
<1>1. /\ source' = snapshot /\ sourceTime' = time
      /\ state'.candidate = CandidatePair(snapshot) /\ state'.confirmed = ConfirmedPair(snapshot)
      /\ events' = NextEvents(state, state', events, time)
  BY DEF ReadSnapshot
<1>2. /\ EngineInv'
      /\ events' = events => state' = state
  BY ReadKeepsEngine
<1>3. snapshot \in SUBSET Boundary
  BY SnapshotsAreCausal DEF Inv
<1>4. OneVersion(snapshot) /\ Structural(snapshot)
  BY SnapshotsHoldOneVersion DEF Inv, ViewInv
<1>5. facts' = Facts(source')
  BY DEF ViewInv
<1>6. CASE events' = events
  <2>1. latest' = latest /\ state' = state
    BY <1>2, <1>6 DEF Note
  <2> QED
    BY <1>1, <1>4, <1>5, <1>6, <2>1 DEF ViewInv
<1>7. CASE events' # events
  <2>1. latest' = Formed(facts', Changed(state, state', events), time)
    BY <1>1, <1>7 DEF Note
  <2>2. /\ latest'.selected = Slots(facts'.pair.candidate, facts'.pair.confirmed)
        /\ latest'.versions = Chosen(Slots(facts'.pair.candidate, facts'.pair.confirmed))
        /\ latest'.changed = Changed(state, state', events) /\ latest'.source = time
    BY <2>1 DEF Formed
  <2>3. Slots(facts'.pair.candidate, facts'.pair.confirmed) = Slots(state'.candidate, state'.confirmed)
    BY <1>1, <1>3, <1>5, FactsShowPairs
  <2>4. /\ state \in State /\ state' \in State /\ events \in Seq(Event)
    BY <1>2 DEF Inv, TypeOK, EngineInv
  <2>5. events' = Append(events, EventOf(state, state', events, time))
        /\ (events # <<>> => state' # state)
    BY <1>1, <1>7 DEF NextEvents
  <2> DEFINE event == EventOf(state, state', events, time)
  <2>6. EventOK(event, latest'.changed)
    BY <2>2, <2>4, <2>5, EventDescribesChange
  <2>7. event.confirm = time
    BY DEF EventOf
  <2> HIDE DEF event
  <2>8. events'[Len(events')] = event
    BY <2>4, <2>5 DEF event
  <2>9. /\ OneVersion(source') /\ Structural(source')
        /\ state'.candidate = CandidatePair(source') /\ state'.confirmed = ConfirmedPair(source')
    BY <1>1, <1>4
  <2> QED
    BY <1>5, <2>2, <2>3, <2>6, <2>7, <2>8, <2>9 DEF ViewInv
<1> QED
  BY <1>6, <1>7

LEMMA NextKeepsViews == Inv /\ ViewInv /\ [NextViews]_viewVars => ViewInv'
<1> SUFFICES ASSUME Inv, ViewInv, [NextViews]_viewVars PROVE ViewInv'
  OBVIOUS
<1>1. ASSUME NextViews, NEW time \in Later, NEW snapshot \in LifecycleSnapshots(time),
             ReadSnapshot(snapshot, time)
      PROVE  ViewInv'
  BY <1>1, ReadKeepsViews DEF NextViews
<1>2. ASSUME NextViews, UNCHANGED engineVars PROVE ViewInv'
  <2>1. source' = source /\ state' = state /\ events' = events
    BY <1>2 DEF engineVars
  <2>2. facts' = facts /\ latest' = latest
    BY <1>2, <2>1 DEF NextViews, Note
  <2> QED
    BY <2>1, <2>2 DEF ViewInv
<1>3. CASE UNCHANGED viewVars
  <2>1. source' = source /\ state' = state /\ events' = events
        /\ facts' = facts /\ latest' = latest
    BY <1>3 DEF viewVars, vars, engineVars
  <2> QED
    BY <2>1 DEF ViewInv
<1>4. ASSUME NextViews PROVE ViewInv'
  <2>1. Next
    BY <1>4 DEF NextViews
  <2>2. PICK time \in Later :
            \/ \E snapshot \in LifecycleSnapshots(time) :
                  PublishSnapshot(snapshot, time) \/ SkipSnapshot(snapshot, time)
            \/ Observe(time)
    BY <2>1 DEF Next
  <2> QED
    BY <1>1, <1>2, <1>4, <2>2 DEF PublishSnapshot, SkipSnapshot, Observe
<1> QED
  BY <1>3, <1>4

LEMMA MaxOfTwo ==
    ASSUME NEW a \in Int, NEW b \in Int
    PROVE  /\ Max({a, b}) \in {a, b} /\ a <= Max({a, b}) /\ b <= Max({a, b})
<1>1. \E x \in {a, b} : \A y \in {a, b} : x >= y
  BY a >= b \/ b >= a
<1> QED
  BY <1>1 DEF Max

(* The first and the last event are the earliest and the latest. *)
LEMMA ReportTimes ==
    ASSUME NEW history \in Seq(Event), history # <<>>, Ledger!OrderedByConfirm(history)
    PROVE  /\ Min({history[i].confirm : i \in DOMAIN history}) = history[1].confirm
           /\ Max({history[i].confirm : i \in DOMAIN history}) = history[Len(history)].confirm
           /\ history[1].confirm <= history[Len(history)].confirm
<1> DEFINE times == {history[i].confirm : i \in DOMAIN history}
<1>1. DOMAIN history = 1 .. Len(history) /\ Len(history) \in Nat /\ Len(history) >= 1
  BY DEF Event
<1>2. 1 \in DOMAIN history /\ Len(history) \in DOMAIN history
  BY <1>1
<1>3. \A i \in DOMAIN history : history[i].confirm \in Int
  <2>1. \A i \in DOMAIN history : history[i] \in Event
    BY <1>1
  <2> QED
    BY <2>1 DEF Event
<1>4. \A i \in DOMAIN history : /\ history[1].confirm <= history[i].confirm
                                /\ history[i].confirm <= history[Len(history)].confirm
  BY <1>1, <1>2 DEF Ledger!OrderedByConfirm
<1>5. /\ history[1].confirm \in times /\ history[Len(history)].confirm \in times
      /\ times \subseteq Int
      /\ \A t \in times : history[1].confirm <= t /\ t <= history[Len(history)].confirm
  BY <1>2, <1>3, <1>4
<1> HIDE DEF times
<1>6. Min(times) = history[1].confirm
  <2>1. \E x \in times : \A y \in times : x <= y
    BY <1>5
  <2>2. Min(times) \in times /\ \A y \in times : Min(times) <= y
    BY <2>1 DEF Min
  <2>3. Min(times) <= history[1].confirm /\ history[1].confirm <= Min(times)
    BY <1>5, <2>2
  <2>4. Min(times) \in Int /\ history[1].confirm \in Int
    BY <1>5, <2>2
  <2> QED
    BY <2>3, <2>4
<1>7. Max(times) = history[Len(history)].confirm
  <2>1. \E x \in times : \A y \in times : x >= y
    BY <1>5
  <2>2. Max(times) \in times /\ \A y \in times : Max(times) >= y
    BY <2>1 DEF Max
  <2>3. Max(times) <= history[Len(history)].confirm /\ history[Len(history)].confirm <= Max(times)
    BY <1>5, <2>2
  <2>4. Max(times) \in Int /\ history[Len(history)].confirm \in Int
    BY <1>5, <2>2
  <2> QED
    BY <2>3, <2>4
<1> QED
  BY <1>2, <1>4, <1>6, <1>7 DEF times

(* The counts of a set of boundaries by side. *)
LEMMA SidesCount ==
    ASSUME NEW values \in SUBSET Boundary, OneVersion(values)
    PROVE  SideCount(values, "UPPER") + (Cardinality(values) - SideCount(values, "UPPER"))
                = Cardinality(Subjects(values))
<1> DEFINE part == {b \in values : EffectiveSide(b) = "UPPER"}
<1>1. IsFiniteSet(values) /\ Cardinality(values) \in Nat
      /\ Cardinality(Subjects(values)) = Cardinality(values)
  BY SubjectsCount
<1>2. part \in SUBSET values
  OBVIOUS
<1>3. Cardinality(part) \in Nat
  BY <1>1, <1>2, FS_Subset, FS_CardinalityType
<1>4. SideCount(values, "UPPER") = Cardinality(part)
  BY DEF SideCount
<1> HIDE DEF part
<1> QED
  BY <1>1, <1>3, <1>4

(* What the views show, unfolded. *)
Candidates == {b \in source : b.phase \in CandidatePhase}
Confirmeds == {b \in source : b.phase \in ConfirmedPhase}
Brokens == {b \in source : b.phase = "BROKEN"}
Retireds == {b \in source : b.phase = "RETIRED"}
EventTimes == {events[i].confirm : i \in DOMAIN events}

LEMMA ToldFacts ==
    ASSUME Inv, ViewInv
    PROVE  LET told == Explain(explanation)
           IN /\ told.keys = source /\ told.relevant = Subjects(source)
              /\ told.eligible["candidate"] = Subjects(Candidates)
              /\ told.eligible["confirmed"] = Subjects(Confirmeds)
              /\ told.broken = Subjects(Brokens)
              /\ told.retired = Subjects(Retireds)
              /\ told.pair["candidate"] = PairFacts(Candidates)
              /\ told.pair["confirmed"] = PairFacts(Confirmeds)
              /\ told.selected = Slots(state.candidate, state.confirmed)
              /\ told.versions = Chosen(Slots(state.candidate, state.confirmed))
              /\ told.previous = PairValues(explanation.last)
              /\ told.current = PairValues(Identity(state.confirmed))
              /\ told.direction = state.direction
<1>1. facts = Facts(source) /\ source \in SUBSET Boundary
  BY DEF Inv, TypeOK, ViewInv
<1>2. /\ facts.relevant = source
      /\ facts.eligible["candidate"] = Candidates /\ facts.eligible["confirmed"] = Confirmeds
      /\ facts.broken = Subjects(Brokens)
      /\ facts.retired = Subjects(Retireds)
      /\ facts.pair["candidate"] = PairFacts(Candidates)
      /\ facts.pair["confirmed"] = PairFacts(Confirmeds)
  BY <1>1 DEF Facts, Candidates, Confirmeds, Brokens, Retireds
<1>3. Slots(facts.pair.candidate, facts.pair.confirmed) = Slots(state.candidate, state.confirmed)
  BY <1>1, FactsShowPairs DEF ViewInv
<1>4. explanation.current = Identity(state.confirmed)
      /\ explanation.final.direction = state.direction
  BY DEF Inv, ExplanationReadable
<1> QED
  BY <1>2, <1>3, <1>4 DEF Explain, Both

LEMMA ReportFacts ==
    ASSUME Inv, ViewInv, NEW direction, NEW time
    PROVE  LET report == Report(direction, events, time)
           IN /\ report.time = time /\ report.direction = direction
              /\ report.relevant = Cardinality(source)
              /\ report.eligible["candidate"] = Cardinality(Candidates)
              /\ report.eligible["confirmed"] = Cardinality(Confirmeds)
              /\ report.upper["candidate"] = SideCount(Candidates, "UPPER")
              /\ report.upper["confirmed"] = SideCount(Confirmeds, "UPPER")
              /\ report.lower["candidate"] = Cardinality(Candidates) - SideCount(Candidates, "UPPER")
              /\ report.lower["confirmed"] = Cardinality(Confirmeds) - SideCount(Confirmeds, "UPPER")
              /\ report.broken = Cardinality(Subjects(Brokens))
              /\ report.retired = Cardinality(Subjects(Retireds))
              /\ report.crossing["candidate"] = PairFacts(Candidates).crossing
              /\ report.crossing["confirmed"] = PairFacts(Confirmeds).crossing
              /\ report.selected = Slots(state.candidate, state.confirmed)
              /\ report.complete["candidate"] = Complete(state.candidate)
              /\ report.complete["confirmed"] = Complete(state.confirmed)
              /\ report.events = Len(events)
              /\ report.earliest = Min(EventTimes)
              /\ report.latest = Max(EventTimes)
<1>1. facts = Facts(source) /\ source \in SUBSET Boundary
  BY DEF Inv, TypeOK, ViewInv
<1>2. /\ facts.relevant = source
      /\ facts.eligible["candidate"] = Candidates /\ facts.eligible["confirmed"] = Confirmeds
      /\ facts.broken = Subjects(Brokens)
      /\ facts.retired = Subjects(Retireds)
      /\ facts.pair["candidate"] = PairFacts(Candidates)
      /\ facts.pair["confirmed"] = PairFacts(Confirmeds)
  BY <1>1 DEF Facts, Candidates, Confirmeds, Brokens, Retireds
<1>3. Slots(facts.pair.candidate, facts.pair.confirmed) = Slots(state.candidate, state.confirmed)
  BY <1>1, FactsShowPairs DEF ViewInv
<1>4. Complete(PairFacts(Candidates)) = Complete(state.candidate)
      /\ Complete(PairFacts(Confirmeds)) = Complete(state.confirmed)
  <2>1. Candidates \in SUBSET Boundary /\ Confirmeds \in SUBSET Boundary
    BY <1>1 DEF Candidates, Confirmeds
  <2>2. state.candidate = ResolvePair(Candidates) /\ state.confirmed = ResolvePair(Confirmeds)
    BY DEF ViewInv, CandidatePair, ConfirmedPair, Candidates, Confirmeds
  <2> QED
    BY <2>1, <2>2, CrossingFacts DEF Complete
<1> QED
  BY <1>2, <1>3, <1>4 DEF Report, Both, EventTimes

(* The pairs named in an explanation are those the state holds. *)
LEMMA RawWinnersAgree ==
    ASSUME NEW told, NEW p, NEW values \in SUBSET Boundary,
           told.pair[p] = PairFacts(values), values \subseteq told.keys,
           told.eligible[p] = Subjects(values)
    PROVE  RawAgrees(told, p, ResolvePair(values))
<1> DEFINE found == PairFacts(values)
           held == ResolvePair(values)
<1>1. /\ found.upper = held.upper /\ found.lower = held.lower
      /\ found.rawUpper \subseteq values /\ found.rawLower \subseteq values
      /\ found.upper \in {{}, found.rawUpper} /\ found.lower \in {{}, found.rawLower}
  BY CrossingFacts
<1>2. \A part : part \subseteq values => Subjects(part) \subseteq Subjects(values)
  BY DEF Subjects
<1> HIDE DEF found, held
<1>3. told.pair[p] = found
  BY DEF found
<1> QED
  BY <1>1, <1>2, <1>3 DEF RawAgrees, held

(* The confirmed pair shown is the one the state holds. *)
LEMMA CurrentPairShown ==
    ASSUME NEW told, NEW held, told.current = PairValues(Identity(held)),
           held.upper \cup held.lower \subseteq told.keys \cap told.versions
    PROVE  CurrentPairAgrees(told, held)
<1>1. CASE ~Complete(held)
  <2>1. told.current = [subjects |-> <<>>, versions |-> <<>>, midpoints |-> <<>>]
    BY <1>1 DEF Identity, PairValues
  <2> QED
    BY <1>1, <2>1 DEF CurrentPairAgrees
<1>2. CASE Complete(held)
  BY <1>2 DEF Identity, CurrentPairAgrees
<1> QED
  BY <1>1, <1>2

LEMMA ShownPairsFit ==
    ASSUME NEW pair
    PROVE  Len(PairValues(pair).midpoints) = Len(PairValues(pair).subjects)
<1>1. CASE pair = NoPair
  BY <1>1 DEF PairValues
<1>2. CASE pair # NoPair
  <2>1. /\ PairValues(pair).subjects = <<Subjects(pair.upper), Subjects(pair.lower)>>
        /\ PairValues(pair).midpoints = <<{DoubledMidpoint(b) : b \in pair.upper},
                                          {DoubledMidpoint(b) : b \in pair.lower}>>
    BY <1>2 DEF PairValues
  <2> QED
    BY <2>1
<1> QED
  BY <1>1, <1>2

LEMMA ChosenBoundaries ==
    ASSUME NEW candidate, NEW confirmed
    PROVE  Chosen(Slots(candidate, confirmed))
                = UNION {candidate.upper, candidate.lower, confirmed.upper, confirmed.lower}
<1> DEFINE slots == Slots(candidate, confirmed)
<1>1. DOMAIN slots = 1 .. 4
  BY DEF Slots
<1>2. /\ slots[1] = candidate.upper /\ slots[2] = candidate.lower
      /\ slots[3] = confirmed.upper /\ slots[4] = confirmed.lower
  BY DEF Slots
<1>3. \A i : i \in 1 .. 4 <=> i \in {1, 2, 3, 4}
  OBVIOUS
<1> HIDE DEF slots
<1>4. {slots[i] : i \in DOMAIN slots} = {slots[1], slots[2], slots[3], slots[4]}
  BY <1>1, <1>3
<1> QED
  BY <1>2, <1>4 DEF Chosen, slots

(* Every snapshot the engine makes passes its own constructor: in the      *)
(* state, the explanation, the report and the last event the same          *)
(* boundaries, direction and counts appear, whatever changed last.         *)
LEMMA ViewsFollow ==
    ASSUME Inv, ViewInv, LedgerKnown
    PROVE  SnapshotsAgree
<1> DEFINE told == Explain(explanation)
           time == Max({sourceTime, asOf})
           report == Report(state.direction, events, time)
           held == Slots(state.candidate, state.confirmed)
<1> SUFFICES ASSUME events # <<>> PROVE SnapshotOK(told, report, events, time)
  BY DEF SnapshotsAgree
<1>1. /\ source \in SUBSET Boundary /\ events \in Seq(Event) /\ state \in State
      /\ sourceTime \in Int /\ asOf \in Int
  BY DEF Inv, TypeOK, Time
<1>2. time \in {sourceTime, asOf} /\ sourceTime <= time /\ asOf <= time
  BY <1>1, MaxOfTwo
<1>3. /\ Candidates \in SUBSET Boundary /\ Confirmeds \in SUBSET Boundary
      /\ OneVersion(source) /\ OneVersion(Candidates) /\ OneVersion(Confirmeds)
  BY <1>1 DEF ViewInv, OneVersion, Candidates, Confirmeds
<1>4. state.candidate = ResolvePair(Candidates) /\ state.confirmed = ResolvePair(Confirmeds)
  BY DEF ViewInv, CandidatePair, ConfirmedPair, Candidates, Confirmeds
<1>5. /\ told.keys = source /\ told.relevant = Subjects(source)
      /\ told.eligible["candidate"] = Subjects(Candidates)
      /\ told.eligible["confirmed"] = Subjects(Confirmeds)
      /\ told.broken = Subjects(Brokens) /\ told.retired = Subjects(Retireds)
      /\ told.pair["candidate"] = PairFacts(Candidates)
      /\ told.pair["confirmed"] = PairFacts(Confirmeds)
      /\ told.selected = held /\ told.versions = Chosen(held)
      /\ told.previous = PairValues(explanation.last)
      /\ told.current = PairValues(Identity(state.confirmed))
      /\ told.direction = state.direction
  BY ToldFacts
<1>6. /\ report.time = time /\ report.direction = state.direction
      /\ report.relevant = Cardinality(source)
      /\ report.eligible["candidate"] = Cardinality(Candidates)
      /\ report.eligible["confirmed"] = Cardinality(Confirmeds)
      /\ report.upper["candidate"] = SideCount(Candidates, "UPPER")
      /\ report.upper["confirmed"] = SideCount(Confirmeds, "UPPER")
      /\ report.lower["candidate"] = Cardinality(Candidates) - SideCount(Candidates, "UPPER")
      /\ report.lower["confirmed"] = Cardinality(Confirmeds) - SideCount(Confirmeds, "UPPER")
      /\ report.broken = Cardinality(Subjects(Brokens))
      /\ report.retired = Cardinality(Subjects(Retireds))
      /\ report.crossing["candidate"] = PairFacts(Candidates).crossing
      /\ report.crossing["confirmed"] = PairFacts(Confirmeds).crossing
      /\ report.selected = held
      /\ report.complete["candidate"] = Complete(state.candidate)
      /\ report.complete["confirmed"] = Complete(state.confirmed)
      /\ report.events = Len(events)
      /\ report.earliest = Min(EventTimes)
      /\ report.latest = Max(EventTimes)
  <2> HIDE DEF time
  <2> QED
    BY ReportFacts
<1>7. /\ latest.selected = held /\ latest.versions = Chosen(held)
      /\ EventOK(events[Len(events)], latest.changed)
      /\ latest.source = events[Len(events)].confirm
  BY DEF ViewInv
<1>8. ChainOK(events) /\ events[Len(events)].current = state.direction
      /\ events[Len(events)].confirm <= sourceTime
  BY DEF Inv, LedgerOK
<1>9. /\ report.earliest = events[1].confirm /\ report.latest = events[Len(events)].confirm
      /\ events[1].confirm <= events[Len(events)].confirm
  BY <1>1, <1>6, ReportTimes DEF LedgerKnown, EventTimes
<1>10. Chosen(held) = SelectedBoundaries
  BY ChosenBoundaries DEF SelectedBoundaries
<1>11. \A b \in SelectedBoundaries : b \in source /\ b.confirm \in Int /\ b.confirm <= sourceTime
  <2>1. \A b \in SelectedBoundaries : b \in source
    BY DEF SelectedBoundaries, Inv, StateOK, PairOf
  <2>2. \A b \in source : b.confirm \in Int
    BY <1>1 DEF Boundary
  <2> QED
    BY <2>1, <2>2 DEF Inv, SourceOK
<1>12. \A k \in DOMAIN events : events[k].confirm \in Int /\ events[k].confirm <= asOf
  <2>1. \A k \in DOMAIN events : events[k] \in Event
    BY <1>1
  <2> QED
    BY <2>1 DEF Event, LedgerKnown
<1>13. Len(events) \in DOMAIN events
  <2>1. Len(events) \in Nat /\ DOMAIN events = 1 .. Len(events)
    BY <1>1
  <2>2. Len(events) # 0
    BY <1>1
  <2> QED
    BY <2>1, <2>2
<1>14. \A values : values \subseteq source => Subjects(values) \subseteq Subjects(source)
  BY DEF Subjects
<1> HIDE DEF told, time, report, held
<1>20. ExplanationOK(told)
  <2>1. \A p \in {"candidate", "confirmed"} :
           IF told.pair[p].crossing THEN told.pair[p].retained # {} /\ told.pair[p].dropped # {}
           ELSE told.pair[p].retained = {} /\ told.pair[p].dropped = {}
    BY <1>3, <1>5, CrossingFacts
  <2>2. Len(told.previous.midpoints) = Len(told.previous.subjects)
    BY <1>5, ShownPairsFit
  <2>3. Len(told.current.midpoints) = Len(told.current.subjects)
    BY <1>5, ShownPairsFit
  <2> QED
    BY <2>1, <2>2, <2>3 DEF ExplanationOK
<1>21. ReportOK(report)
  <2>1. /\ held[1] = state.candidate.upper /\ held[2] = state.candidate.lower
        /\ held[3] = state.confirmed.upper /\ held[4] = state.confirmed.lower
    BY DEF held, Slots
  <2>2. report.earliest <= report.latest /\ report.latest <= report.time
    <3>1. events[Len(events)].confirm \in Int
      BY <1>12, <1>13
    <3>2. time \in Int
      BY <1>1, <1>2
    <3> QED
      BY <1>1, <1>2, <1>6, <1>8, <1>9, <3>1, <3>2
  <2> QED
    BY <1>6, <2>1, <2>2 DEF ReportOK, Complete
<1>22. \A b \in Chosen(held) : b.confirm <= time
  BY <1>1, <1>2, <1>10, <1>11
<1>23. \A k \in DOMAIN events : events[k].confirm <= time
  BY <1>1, <1>2, <1>12
<1>24. events[Len(events)].confirm = time => latest.source = sourceTime
  <2>1. events[Len(events)].confirm \in Int
    BY <1>12, <1>13
  <2> QED
    BY <1>1, <1>2, <1>7, <1>8, <2>1
<1>25. SetsAgree(told)
  <2>1. Subjects(Candidates) \subseteq Subjects(source)
    BY <1>14 DEF Candidates
  <2>2. Subjects(Confirmeds) \subseteq Subjects(Candidates)
    BY DEF Subjects, Candidates, Confirmeds, CandidatePhase, ConfirmedPhase
  <2>3. (Subjects(Brokens) \cup Subjects(Retireds)) \cap Subjects(Candidates) = {}
    <3>1. ASSUME NEW a \in Brokens \cup Retireds, NEW b \in Candidates, a.subject = b.subject
          PROVE  FALSE
      <4>1. a \in source /\ b \in source
        BY DEF Brokens, Retireds, Candidates
      <4>2. a = b
        BY <1>3, <3>1, <4>1 DEF OneVersion
      <4> QED
        BY <4>2 DEF Brokens, Retireds, Candidates, CandidatePhase
    <3> QED
      BY <3>1 DEF Subjects
  <2> QED
    BY <1>5, <2>1, <2>2, <2>3 DEF SetsAgree
<1>26. CountsAgree(told, report)
  <2>1. Cardinality(source) = Cardinality(Subjects(source))
    BY <1>1, <1>3, SubjectsCount
  <2>2. ASSUME NEW p \in {"candidate", "confirmed"}
        PROVE  /\ report.eligible[p] = Cardinality(told.eligible[p])
               /\ report.upper[p] + report.lower[p] = report.eligible[p]
               /\ report.crossing[p] = told.pair[p].crossing
    <3>1. CASE p = "candidate"
      <4>1. /\ Cardinality(Candidates) = Cardinality(Subjects(Candidates))
            /\ SideCount(Candidates, "UPPER")
                  + (Cardinality(Candidates) - SideCount(Candidates, "UPPER"))
                  = Cardinality(Subjects(Candidates))
        BY <1>3, SubjectsCount, SidesCount
      <4> QED
        BY <1>5, <1>6, <3>1, <4>1
    <3>2. CASE p = "confirmed"
      <4>1. /\ Cardinality(Confirmeds) = Cardinality(Subjects(Confirmeds))
            /\ SideCount(Confirmeds, "UPPER")
                  + (Cardinality(Confirmeds) - SideCount(Confirmeds, "UPPER"))
                  = Cardinality(Subjects(Confirmeds))
        BY <1>3, SubjectsCount, SidesCount
      <4> QED
        BY <1>5, <1>6, <3>2, <4>1
    <3> QED
      BY <3>1, <3>2
  <2> QED
    BY <1>5, <1>6, <2>1, <2>2 DEF CountsAgree
<1>27. CurrentPairAgrees(told, state.confirmed)
  <2>1. state.confirmed.upper \cup state.confirmed.lower \subseteq SelectedBoundaries
    BY DEF SelectedBoundaries
  <2> QED
    BY <1>5, <1>10, <1>11, <2>1, CurrentPairShown
<1>28. /\ RawAgrees(told, "candidate", state.candidate)
       /\ RawAgrees(told, "confirmed", state.confirmed)
  <2>1. Candidates \subseteq told.keys /\ Confirmeds \subseteq told.keys
    BY <1>5 DEF Candidates, Confirmeds
  <2> QED
    BY <1>3, <1>4, <1>5, <2>1, RawWinnersAgree
<1>29. CrossingAgrees(told.pair.candidate) /\ CrossingAgrees(told.pair.confirmed)
  BY <1>3, <1>5, CrossingFacts
<1>30. Chosen(held) \subseteq told.keys
  BY <1>5, <1>10, <1>11
<1>31. ViewsAgree(told, report, events)
  BY <1>5, <1>6, <1>7, <1>8, <1>25, <1>26, <1>27, <1>28, <1>29, <1>30
  DEF ViewsAgree, ParentsAgree, held
<1>32. /\ \A b \in Chosen(Slots(state.candidate, state.confirmed)) : b.confirm <= time
       /\ report.time = time
       /\ report.earliest = events[1].confirm /\ report.latest = events[Len(events)].confirm
       /\ ChainOK(events) /\ EventOK(events[Len(events)], latest.changed)
  BY <1>6, <1>7, <1>8, <1>9, <1>22 DEF held
<1> QED
  BY <1>20, <1>21, <1>23, <1>24, <1>31, <1>32 DEF SnapshotOK

(* No snapshot of the engine is refused by its own constructor, in a batch *)
(* or a replay on any schedule: what was kept of state and event, and what *)
(* is written anew of explanation and report, never disagree.              *)
THEOREM SnapshotsAlwaysAgree == SpecViews => []SnapshotsAgree
<1>1. InitViews => Inv /\ ViewInv /\ LedgerKnown
  BY InitInv, InitViewInv DEF InitViews, Init, LedgerKnown, Ledger!OrderedByConfirm
<1>2. [NextViews]_viewVars => [Next]_vars
  BY DEF NextViews, viewVars
<1>3. Inv /\ ViewInv /\ LedgerKnown /\ [NextViews]_viewVars => Inv' /\ ViewInv' /\ LedgerKnown'
  BY <1>2, NextKeepsInv, NextKeepsViews, NextAdvances
<1>4. Inv /\ ViewInv /\ LedgerKnown => SnapshotsAgree
  BY ViewsFollow
<1> QED
  BY <1>1, <1>3, <1>4, PTL DEF SpecViews
=============================================================================
