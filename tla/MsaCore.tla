------------------------------- MODULE MsaCore -------------------------------
(***************************************************************************)
(* The core pipeline (C-007D, msa/research/msa_core): frames are assembled,*)
(* scored, and given to the active box selector, each stage on all of what *)
(* the stage before made; the run checks the whole again.                  *)
(*                                                                         *)
(* BATCH is MSACorePipeline.run.  REPLAY is replay_msa_core_run on a       *)
(* schedule of the caller's.  CUTOFF is the batch of a source truncated at *)
(* a time, as the fixed-cutoff comparison of the experiments runs it       *)
(* (validation/experiments/execution/cutoff.py).                           *)
(*                                                                         *)
(* The selector is the module ActiveBox, with the zone keys that subjects  *)
(* can form; it counts frames where the code has times.                    *)
(***************************************************************************)
EXTENDS StructuralMetrics

CONSTANTS
    Inputs,         \* ResonanceFrameInputs a run may be given
    ExtraTimes,     \* the sets of times a replay may add to the default
    None, AllowedClasses, MinimumQuality, MinimumSelection,
    Margin, Improvement,    \* ActiveBoxSelectionConfig, ABSOLUTE mode
    LastFrame               \* bound: more frames than any schedule has

ASSUME InputsAssumption ==
    /\ \A data \in Inputs : InputTyped(data)
    /\ \A extra \in ExtraTimes : IsFiniteSet(extra) /\ extra \subseteq Nat

(* ActiveBoxSelectionConfig.__post_init__ *)
ASSUME SelectionAssumption ==
    /\ None \notin ZoneKeys
    /\ MinimumQuality \in Nat /\ MinimumSelection \in Nat
    /\ Margin \in Nat /\ Improvement \in Nat /\ LastFrame \in Nat

VARIABLES
    source,     \* the input of the run
    mode,       \* BATCH, REPLAY or CUTOFF
    full,       \* the input before it was truncated
    schedule,   \* the times of the frames, in order
    frames,     \* the resonance frames so far
    scores,     \* the score frames so far
    boxes,      \* the active box of each selection frame so far, or NoBox
    now, score, box, events, handed, chained, accepted, raised,     \* ActiveBox
    status      \* the stage, or DONE, REFUSED (input error) or RAISED

selectorVars == <<now, score, box, events, handed, chained, accepted, raised>>
inputVars == <<source, mode, full, schedule>>
vars == <<inputVars, frames, scores, boxes, selectorVars, status>>

(* The order of zone keys as texts; no tie ever comes to it. *)
KeyOrder ==
    [key \in ZoneKeys |->
        (IF key.side = "UPPER" THEN 1 ELSE 0) + 2 * MapThenSumSet(LAMBDA s : 2 ^ s, key.members)]

Sides == [key \in ZoneKeys |-> key.side]
Qualities == [key \in ZoneKeys |-> {}]

Selector == INSTANCE ActiveBox WITH
    ZoneKey <- ZoneKeys, ZoneSets <- {}, SideOf <- Sides, LowOf <- ZoneLow, HighOf <- ZoneHigh,
    ClassOf <- ZoneClass, DigestOf <- KeyOrder, QualitiesOf <- Qualities, Price <- {},
    Tolerance <- Scoring.tolerance, Horizon <- Scoring.distanceHorizon,
    MarginMode <- "ABSOLUTE", Fraction <- 0, Unit <- 1, LastTime <- LastFrame

(* What the selector reads of a score frame. *)
Facts(scored) ==
    [price |-> scored.frame.bar.close,
     quality |-> [key \in {z.key : z \in scored.zones} |->
                    (CHOOSE z \in scored.zones : z.key = key).quality]]

-----------------------------------------------------------------------------
(* Sources *)

(* The k-th of the times has k - 1 before it. *)
InOrder(times) ==
    [k \in 1 .. Cardinality(times) |-> CHOOSE t \in times : Cardinality({u \in times : u < t}) = k - 1]

(* The events of the last lifecycle snapshot that is left. *)
BreaksKnown(data, cutoff) ==
    [s \in {s \in DOMAIN data.breaks :
               \E t \in DOMAIN data.lifecycle : data.breaks[s] <= t /\ t <= cutoff} |-> data.breaks[s]]

(* cutoff.py _truncate_source *)
Truncated(data, cutoff) ==
    [lifecycle |-> [t \in {t \in DOMAIN data.lifecycle : t <= cutoff} |-> data.lifecycle[t]],
     directions |-> [c \in DOMAIN data.directions |->
         [t \in {t \in DOMAIN data.directions[c] : t <= cutoff} |-> data.directions[c][t]]],
     breaks |-> BreaksKnown(data, cutoff),
     bars |-> {bar \in data.bars : bar.available <= cutoff}]

Answered(data) ==
    InputAccepts(data) /\ \A t \in DefaultSchedule(data) : Answerable(data, t)

Init ==
    /\ full \in Inputs
    /\ \/ mode = "BATCH" /\ source = full /\ schedule = <<>>
       \/ /\ mode = "REPLAY" /\ source = full
          /\ \E extra \in ExtraTimes, omitted \in BOOLEAN :
                LET default == IF InputAccepts(full) THEN DefaultSchedule(full) ELSE {}
                IN schedule = InOrder(extra \cup IF omitted THEN {} ELSE default)
       \/ /\ mode = "CUTOFF" /\ schedule = <<>> /\ Answered(full)
          /\ \E cutoff \in DefaultSchedule(full) : source = Truncated(full, cutoff)
    /\ frames = <<>> /\ scores = <<>> /\ boxes = <<>>
    /\ now = 0 /\ score = [price |-> 0, quality |-> <<>>] /\ box = Selector!NoBox /\ events = <<>>
    /\ handed = {} /\ chained = TRUE /\ accepted = TRUE /\ raised = FALSE
    /\ status = "READY"

-----------------------------------------------------------------------------
(* The stages *)

(* The source is validated and the schedule fixed. *)
Start ==
    /\ status = "READY"
    /\ IF ~InputAccepts(source) \/ (mode = "REPLAY" /\ ScheduleRefused(source, ToSet(schedule)))
       THEN status' = "REFUSED" /\ UNCHANGED schedule
       ELSE /\ status' = "ASSEMBLING"
            /\ schedule' = IF mode = "REPLAY" THEN schedule ELSE InOrder(DefaultSchedule(source))
    /\ UNCHANGED <<source, mode, full, frames, scores, boxes, selectorVars>>

(* One build_as_of of the assembler, and the history after the last. *)
AssembleFrame ==
    /\ status = "ASSEMBLING"
    /\ LET time == schedule[Len(frames) + 1]
           built == Append(frames, FrameAt(source, time))
       IN IF ~Answerable(source, time) THEN status' = "REFUSED" /\ UNCHANGED frames
          ELSE /\ frames' = built
               /\ status' = IF ~FrameAccepts(Last(built)) THEN "RAISED"
                            ELSE IF Len(built) < Len(schedule) THEN "ASSEMBLING"
                            ELSE IF FramesAccept(built) THEN "SCORING" ELSE "RAISED"
    /\ UNCHANGED <<inputVars, scores, boxes, selectorVars>>

(* One score_frame of the scorer, and the history after the last. *)
ScoreFrame ==
    /\ status = "SCORING"
    /\ LET built == Append(scores, ScoreOf(frames[Len(scores) + 1]))
       IN /\ scores' = built
          /\ status' = IF ~ScoreAccepts(Last(built)) THEN "RAISED"
                       ELSE IF Len(built) < Len(frames) THEN "SCORING"
                       ELSE IF ScoresAccept(built, frames) THEN "SELECTING" ELSE "RAISED"
    /\ UNCHANGED <<inputVars, frames, boxes, selectorVars>>

(* One select_frame of the selector's batch. *)
SelectFrame ==
    /\ status = "SELECTING" /\ now < Len(scores)
    /\ Selector!SelectFrame(Facts(scores[now + 1]), box)
    /\ boxes' = IF raised' THEN boxes ELSE Append(boxes, box')
    /\ status' = IF raised' \/ ~accepted' THEN "RAISED" ELSE status
    /\ UNCHANGED <<inputVars, frames, scores>>

(* MSACoreFrameBundle.__post_init__: the three stages at one time agree,   *)
(* and nothing in them is from later.                                      *)
BundleAccepts(i) ==
    /\ frames[i].asOf = schedule[i] /\ scores[i].frame = frames[i]
    /\ frames[i].snapshot <= schedule[i] /\ \A e \in frames[i].evidence : e.confirm <= schedule[i]
    /\ frames[i].bar.available <= schedule[i]
    /\ boxes[i] # Selector!NoBox => boxes[i].asOf = i

(* build_run_report *)
RunReport ==
    LET count(type) == Cardinality({i \in 1 .. Len(events) : events[i].type = type})
        active == {i \in 1 .. Len(boxes) : boxes[i] # Selector!NoBox}
    IN [frames |-> <<Len(frames), Len(scores), Len(boxes)>>,
        evidence |-> FoldLeft(LAMBDA n, f : n + Cardinality(f.evidence), 0, frames),
        zones |-> FoldLeft(LAMBDA n, s : n + Cardinality(s.zones), 0, scores),
        created |-> count("CREATED"), frozen |-> count("FROZEN"),
        active |-> Cardinality(active), none |-> Len(boxes) - Cardinality(active),
        open |-> Last(boxes)]

(* MSACoreRunReport.__post_init__ *)
RunReportAccepts(report) ==
    /\ report.frames[1] = report.frames[2] /\ report.frames[1] = report.frames[3]
    /\ report.active + report.none = report.frames[1]

(* replay_score_history: no frame of the baseline batch left out or        *)
(* changed.                                                                *)
ScoresAudited == \A t \in DefaultSchedule(source) : FrameAt(source, t) \in ToSet(frames)

(* replay_active_box_history: the baseline scores are there unchanged,     *)
(* each once, and in their order.                                          *)
HoldsInOrder(baseline) == SelectSeq(scores, LAMBDA s : s \in ToSet(baseline)) = baseline

BoxesAudited ==
    LET times == InOrder(DefaultSchedule(source))
    IN HoldsInOrder([k \in 1 .. Len(times) |-> ScoreOf(FrameAt(source, times[k]))])

(* MSACoreRun.__post_init__ assembles the frames again, on its times.      *)
RunAccepts ==
    /\ ~ScheduleRefused(source, ToSet(schedule))
    /\ frames = [i \in 1 .. Len(schedule) |-> FrameAt(source, schedule[i])]
    /\ \A i \in 1 .. Len(schedule) : BundleAccepts(i)
    /\ RunReportAccepts(RunReport) /\ RunReport.frames[1] = Len(schedule)
    /\ RunReport.created - RunReport.frozen = IF RunReport.open = Selector!NoBox THEN 0 ELSE 1

(* build_msa_core_run, after the audits of a replay. *)
Finish ==
    /\ status = "SELECTING" /\ now = Len(scores)
    /\ status' = IF (mode = "REPLAY" => ScoresAudited /\ BoxesAudited) /\ RunAccepts THEN "DONE" ELSE "RAISED"
    /\ UNCHANGED <<inputVars, frames, scores, boxes, selectorVars>>

Next == Start \/ AssembleFrame \/ ScoreFrame \/ SelectFrame \/ Finish

Spec == Init /\ [][Next]_vars

-----------------------------------------------------------------------------
(* Runs as records *)

(* The run of the batch of data, with its box at each of its times. *)
WithBox(so_far, previous, next, frame) ==
    [so_far EXCEPT !.boxes = Append(so_far.boxes, next),
                   !.ledger = so_far.ledger \o Selector!EventsBetween(previous, next, frame)]

Selecting(so_far, facts) ==
    LET previous == IF so_far.boxes = <<>> THEN Selector!NoBox ELSE Last(so_far.boxes)
        frame == Len(so_far.boxes) + 1
    IN WithBox(so_far, previous, Selector!BoxAfter(facts, previous, frame), frame)

BatchOn(data, times, framed, scored) ==
    FoldLeft(Selecting,
             [data |-> data, times |-> times, frames |-> framed, scores |-> scored,
              boxes |-> <<>>, ledger |-> <<>>],
             [k \in DOMAIN scored |-> Facts(scored[k])])

BatchFramed(data, times, framed) ==
    BatchOn(data, times, framed, [k \in DOMAIN framed |-> ScoreOf(framed[k])])

BatchOf(data, times) == BatchFramed(data, times, [k \in DOMAIN times |-> FrameAt(data, times[k])])

ThisRun ==
    [data |-> source, times |-> schedule, frames |-> frames, scores |-> scores,
     boxes |-> boxes, ledger |-> events]

-----------------------------------------------------------------------------
(* Properties *)

(* What the scorer makes is what the selector relies on: the zones of one  *)
(* side lie further apart than the tolerance, so distances never tie       *)
(* (scoring.py:67, active_box/policy.py).                                  *)
ScoresSuitSelector ==
    \A i \in 1 .. Len(scores) : Selector!Separated({z.key : z \in scores[i].zones})

(* While no snapshot and no bar arrives, evidence only grows stale: no box *)
(* opens where none was (scoring.py:272-377).                              *)
QuietTimesOpenNothing ==
    [][/\ now' = now + 1 /\ now > 0 /\ box = Selector!NoBox
       /\ frames[now].snapshot = frames[now + 1].snapshot /\ frames[now].bar = frames[now + 1].bar
       => box' = Selector!NoBox]_vars
=============================================================================
