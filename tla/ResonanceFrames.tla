--------------------------- MODULE ResonanceFrames ---------------------------
(***************************************************************************)
(* The resonance frame (C-007A, msa/research/resonance/assembler.py): what *)
(* the lifecycle, the timeframe states and the reference price say         *)
(* together at one time.  The assembler keeps nothing, so everything here  *)
(* is a function of its input, the record data:                            *)
(*   data.lifecycle   snapshot time -> subject -> lifecycle state; a       *)
(*                    subject not yet confirmed has none                   *)
(*   data.directions  context -> snapshot time -> direction                *)
(*   data.bars        the loaded reference bars                            *)
(* Ids are digests of what they name, so a record stands for its id.       *)
(***************************************************************************)
EXTENDS SingleLink, FiniteSets, FiniteSetsExt

CONSTANTS
    SubjectCount,                       \* subjects are 1 .. SubjectCount
    Context,                            \* the configured contexts
    LowOf, HighOf, SideOf, ContextOf,   \* what a subject fixes
    SourcesOf, FamiliesOf               \* source types, structure families

Subject == 1 .. SubjectCount
Opposite(side) == IF side = "UPPER" THEN "LOWER" ELSE "UPPER"

ASSUME SubjectAssumption ==
    /\ SubjectCount \in Nat
    /\ LowOf \in [Subject -> Nat] /\ HighOf \in [Subject -> Nat]
    /\ \A s \in Subject : LowOf[s] <= HighOf[s]
    /\ SideOf \in [Subject -> {"UPPER", "LOWER"}]
    /\ \A s \in Subject : SourcesOf[s] # {} /\ FamiliesOf[s] # {} /\ IsFiniteSet(SourcesOf[s])

Direction == {"UP", "DOWN", "RANGE", "TURNING", "UNKNOWN"}

(* What the types of the contracts say of an input: finitely many          *)
(* snapshots of known subjects, directions, and finitely many bars.        *)
InputTyped(data) ==
    /\ IsFiniteSet(DOMAIN data.lifecycle) /\ DOMAIN data.lifecycle \subseteq Nat
    /\ \A t \in DOMAIN data.lifecycle :
          /\ DOMAIN data.lifecycle[t] \subseteq Subject
          /\ \A s \in DOMAIN data.lifecycle[t] :
                data.lifecycle[t][s].confirm \in Nat /\ data.lifecycle[t][s].touches \in Nat
    /\ \A c \in DOMAIN data.directions : \A t \in DOMAIN data.directions[c] :
          data.directions[c][t] \in Direction
    /\ IsFiniteSet(data.bars)
    /\ \A bar \in data.bars : {bar.timestamp, bar.available, bar.close} \subseteq Nat

(* _validate_input and validate_source_input: one history per configured   *)
(* context, and a reference of completed bars.                             *)
InputAccepts(data) ==
    /\ DOMAIN data.directions = Context /\ Context # {}
    /\ DOMAIN data.lifecycle # {} /\ data.bars # {}
    /\ \A bar \in data.bars : bar.complete

-----------------------------------------------------------------------------
(* What is known at a time *)

VisibleSnapshots(data, time) == {t \in DOMAIN data.lifecycle : t <= time}

VisibleBars(data, time) == {bar \in data.bars : bar.available <= time}

SnapshotTime(data, time) == Max(VisibleSnapshots(data, time))

(* _reference_bar: the last to become available, of these the latest.      *)
ReferenceBar(data, time) ==
    CHOOSE bar \in VisibleBars(data, time) : \A other \in VisibleBars(data, time) :
        \/ bar.available > other.available
        \/ bar.available = other.available /\ bar.timestamp >= other.timestamp

(* build_as_of finds a lifecycle snapshot, a reference bar and for each    *)
(* context the timeframe snapshot of exactly that lifecycle snapshot.      *)
Answerable(data, time) ==
    /\ VisibleSnapshots(data, time) # {} /\ VisibleBars(data, time) # {}
    /\ \A c \in Context : SnapshotTime(data, time) \in DOMAIN data.directions[c]

(* default_schedule *)
DefaultSchedule(data) ==
    LET available == {bar.available : bar \in data.bars}
        start == Larger(Min(DOMAIN data.lifecycle), Min(available))
    IN {t \in DOMAIN data.lifecycle \cup available : t >= start}

-----------------------------------------------------------------------------
(* Evidence and frames *)

Configured(states) == {s \in DOMAIN states : ContextOf[s] \in Context}

(* LifecycleSubjectState.to_boundary_ref: a flipped boundary has changed   *)
(* sides.                                                                  *)
EffectiveSide(subject, state) ==
    IF state = "FLIPPED" THEN Opposite(SideOf[subject]) ELSE SideOf[subject]

(* _evidence_from_state *)
EvidenceOf(subject, of, direction) ==
    [subject |-> subject, side |-> EffectiveSide(subject, of.state),
     tier |-> IF of.state = "FRESH" THEN "CANDIDATE" ELSE "CONFIRMED",
     context |-> ContextOf[subject], direction |-> direction,
     state |-> of.state, confirm |-> of.confirm, touches |-> of.touches]

Effective == {"FRESH", "TESTED", "WEAKENED", "FLIPPED"}

(* _report *)
ReportOf(asOf, bar, evidence, broken, retired) ==
    LET count(P(_)) == Cardinality({e \in evidence : P(e)})
        confirms == {e.confirm : e \in evidence}
    IN [evidence |-> Cardinality(evidence),
        tiers |-> [tier \in {"CANDIDATE", "CONFIRMED"} |-> count(LAMBDA e : e.tier = tier)],
        sides |-> [side \in {"UPPER", "LOWER"} |-> count(LAMBDA e : e.side = side)],
        states |-> [state \in Effective |-> count(LAMBDA e : e.state = state)],
        excluded |-> <<Cardinality(broken), Cardinality(retired)>>,
        sources |-> Cardinality(UNION {SourcesOf[e.subject] : e \in evidence}),
        families |-> Cardinality(UNION {FamiliesOf[e.subject] : e \in evidence}),
        bounds |-> IF confirms = {} THEN {} ELSE {Min(confirms), Max(confirms)},
        price |-> bar.close, available |-> bar.available, age |-> asOf - bar.available]

(* build_as_of *)
FrameAt(data, time) ==
    LET snapshot == SnapshotTime(data, time)
        states == data.lifecycle[snapshot]
        bar == ReferenceBar(data, time)
        directions == [c \in Context |-> data.directions[c][snapshot]]
        in(which) == {s \in Configured(states) : states[s].state \in which}
        evidence == {EvidenceOf(s, states[s], directions[ContextOf[s]]) : s \in in(Effective)}
    IN [asOf |-> time, snapshot |-> snapshot, bar |-> bar, directions |-> directions,
        evidence |-> evidence, broken |-> in({"BROKEN"}), retired |-> in({"RETIRED"}),
        report |-> ReportOf(time, bar, evidence, in({"BROKEN"}), in({"RETIRED"}))]

(* ResonanceEvidence.__post_init__ *)
EvidenceAccepts(e) ==
    /\ e.state \in Effective /\ e.touches \in Nat
    /\ e.tier = "CANDIDATE" <=> e.state = "FRESH"
    /\ e.context = ContextOf[e.subject] /\ e.side = EffectiveSide(e.subject, e.state)

(* ResonanceFrameReport.__post_init__ and _validate_report *)
ReportAccepts(frame) ==
    /\ frame.report =
          ReportOf(frame.asOf, frame.bar, frame.evidence, frame.broken, frame.retired)
    /\ frame.report.age >= 0 /\ \A t \in frame.report.bounds : t <= frame.asOf

(* ResonanceFrame.__post_init__ *)
FrameAccepts(frame) ==
    /\ frame.snapshot <= frame.asOf /\ frame.bar.available <= frame.asOf /\ frame.bar.complete
    /\ \A e, f \in frame.evidence : e.subject = f.subject => e = f
    /\ \A e \in frame.evidence :
          /\ EvidenceAccepts(e) /\ e.confirm <= frame.asOf
          /\ e.context \in Context /\ e.direction = frame.directions[e.context]
          /\ e.subject \notin frame.broken \cup frame.retired
    /\ frame.broken \cap frame.retired = {}
    /\ ReportAccepts(frame)

(* ResonanceFrameHistory.__post_init__: time moves on, knowledge does not  *)
(* go back, and the same sources say the same.                             *)
FramesAccept(frames) ==
    /\ Len(frames) > 0
    /\ \A i \in 1 .. Len(frames) - 1 : LET previous == frames[i]  current == frames[i + 1]
          IN /\ current.asOf > previous.asOf /\ current.snapshot >= previous.snapshot
             /\ current.bar.available >= previous.bar.available
             /\ current.snapshot = previous.snapshot /\ current.bar = previous.bar =>
                  /\ current.directions = previous.directions
                  /\ current.evidence = previous.evidence
                  /\ current.broken = previous.broken /\ current.retired = previous.retired
                  /\ [current.report EXCEPT !.age = 0] = [previous.report EXCEPT !.age = 0]

(* Mutant of ScheduleRefused: default times may be left out. *)
MayOmit(data, schedule) == schedule = {} \/ Min(schedule) < Min(DefaultSchedule(data))

(* replay.py _normalize_schedule, on a schedule given in order. *)
ScheduleRefused(data, schedule) ==
    \/ schedule = {} \/ Min(schedule) < Min(DefaultSchedule(data))
    \/ ~(DefaultSchedule(data) \subseteq schedule)
=============================================================================
