---------------------------- MODULE CausalAudit ----------------------------
(***************************************************************************)
(* The causal audit of a core run (C-008A, msa/validation/causal_audit.py) *)
(* and the comparisons of two (comparison.py).  The auditor changes        *)
(* nothing; it reads the run MsaCore has finished, looks at its parts one  *)
(* by one and against each other, and makes every stage again from the one *)
(* before.                                                                 *)
(*                                                                         *)
(* A finding is its code.  An episode stands for its key, which binds its  *)
(* creation time and both projections, so a box kept from one frame to the *)
(* next cannot have changed them.                                          *)
(***************************************************************************)
EXTENDS MsaCore

Finding(code, wrong) == IF wrong THEN {code} ELSE {}

(* The bundles of the run, by their number; what is active and what was    *)
(* emitted in one.                                                         *)
Bundles == DOMAIN schedule
Active(i) == {boxes[i]} \ {Selector!NoBox}
Emitted(i) == SelectSeq(events, LAMBDA event : event.confirm = i)

FrozenBy(i) == {event.episode : event \in {e \in ToSet(events) : e.type = "FROZEN" /\ e.confirm <= i}}

(* _append_schedule_findings *)
ScheduleFindings ==
    Finding("PROCESSING_TIME_INVALID",
            schedule = <<>> \/ \E i \in Bundles : i > 1 /\ schedule[i] <= schedule[i - 1])
    \cup Finding("DUPLICATE_ASOF",
                 ~IsInjective(schedule) \/ ~IsInjective([i \in DOMAIN frames |-> frames[i].asOf]))

(* _append_bundle_findings: the stages stand for the same times, each      *)
(* made from the one before;                                               *)
StageFindings ==
    Finding("STAGE_FRAME_COUNT_MISMATCH",
            Cardinality({Len(schedule), Len(frames), Len(scores), Len(boxes)}) # 1)
    \cup Finding("STAGE_ASOF_MISMATCH",
                 \E i \in Bundles : {frames[i].asOf, scores[i].frame.asOf} # {schedule[i]})
    \cup Finding("SCORE_SOURCE_MISMATCH", \E i \in Bundles : scores[i].frame # frames[i])

(* nothing in a bundle is from later;                                      *)
LaterEvidence == {<<i, e>> \in Bundles \X UNION {f.evidence : f \in ToSet(frames)} :
                      e \in frames[i].evidence /\ e.confirm > schedule[i]}

FutureFindings ==
    Finding("FUTURE_EVIDENCE", LaterEvidence # {})
    \cup Finding("FUTURE_CONTEXT_STATE", \E i \in Bundles : frames[i].snapshot > schedule[i])
    \cup Finding("ORIGIN_USED_AS_VISIBILITY",
                 \/ \E later \in LaterEvidence : OriginOf[later[2].subject] <= schedule[later[1]]
                 \/ \E i \in Bundles : /\ frames[i].snapshot > schedule[i]
                                       /\ DirectionOrigin[frames[i].snapshot] <= schedule[i])
    \cup Finding("FUTURE_REFERENCE_BAR", \E i \in Bundles : frames[i].bar.available > schedule[i])

(* its box and the boxes of its events are of its time;                    *)
SnapshotFindings ==
    LET episodes(i) == {box_.episode : box_ \in Active(i)} \cup {e.episode : e \in ToSet(Emitted(i))}
        early == \E i \in Bundles : \E episode \in episodes(i) : episode.created > i
    IN Finding("ACTIVE_BOX_ASOF_MISMATCH", \E i \in Bundles : \E box_ \in Active(i) : box_.asOf # i)
       \cup Finding("PROJECTION_TIME_MISMATCH", early)
       \cup Finding("EPISODE_CREATED_TIME_MISMATCH", early)

(* a frozen episode stays frozen, and only a creation starts another.      *)
EpisodeFindings ==
    LET sameFacts(e, f) == e.created = f.created /\ e.lower = f.lower /\ e.upper = f.upper
        renamed(i) == \E before \in Active(i - 1), after \in Active(i) :
            /\ after.episode # before.episode /\ sameFacts(after.episode, before.episode)
            /\ ~\E e \in ToSet(Emitted(i)) : e.type = "CREATED" /\ e.episode = after.episode
    IN Finding("FROZEN_EPISODE_REACTIVATED",
               \E i \in Bundles : \E box_ \in Active(i) : box_.episode \in FrozenBy(i))
       \cup Finding("EPISODE_KEY_CHANGED", \E i \in Bundles \ {1} : renamed(i))

(* _append_ledger_findings *)
LedgerFindings ==
    Finding("EVENT_LEDGER_MISMATCH", FlattenSeq([i \in Bundles |-> Emitted(i)]) # events)

(* _report_counts *)
ReportCounts ==
    LET emitted(type) == MapThenSumSet(LAMBDA i : Len(SelectSeq(Emitted(i), LAMBDA e : e.type = type)), Bundles)
        active == {i \in Bundles : Active(i) # {}}
    IN [frames |-> <<Len(frames), Len(scores), Len(boxes)>>,
        evidence |-> MapThenSumSet(LAMBDA i : Cardinality(frames[i].evidence), Bundles),
        zones |-> MapThenSumSet(LAMBDA i : Cardinality(scores[i].zones), Bundles),
        created |-> emitted("CREATED"), frozen |-> emitted("FROZEN"),
        active |-> Cardinality(active), none |-> Cardinality(Bundles \ active),
        open |-> Last(boxes)]

(* _append_final_and_report_findings *)
ReportFindings == Finding("REPORT_COUNT_MISMATCH", ReportCounts # RunReport)

(* _append_rebuild_findings: every stage once more, from the one before.   *)
RebuildFindings ==
    LET selected == BatchOn(source, schedule, frames, scores)
    IN Finding("SOURCE_REPLAY_MISMATCH",
               \/ ScheduleRefused(source, ToSet(schedule))
               \/ frames # [i \in Bundles |-> FrameAt(source, schedule[i])])
       \cup Finding("SCORE_REBUILD_MISMATCH", scores # [i \in DOMAIN frames |-> ScoreOf(frames[i])])
       \cup Finding("ACTIVE_BOX_REBUILD_MISMATCH", <<selected.boxes, selected.ledger>> # <<boxes, events>>)

(* audit_run, which first has the contract of the run validate it again.   *)
Findings ==
    Finding("FORMAL_CONTRACT_INVALID", ~RunAccepts)
    \cup ScheduleFindings \cup StageFindings \cup FutureFindings \cup SnapshotFindings
    \cup EpisodeFindings \cup LedgerFindings \cup ReportFindings \cup RebuildFindings

(* By default every code is an error. *)
AuditPassed == Findings = {}

-----------------------------------------------------------------------------
(* Comparisons *)

(* compare_batch_replay *)
BatchReplayFindings(replayed, batch) == Finding("BATCH_REPLAY_MISMATCH", replayed # batch)

(* compare_prefix asks for a run whose times begin the other's; then both  *)
(* count their frames alike. Each of its bundles is in the longer run, and *)
(* its ledger is the other's as far as it goes.                            *)
Comparable(run, whole) == Len(run.times) < Len(whole.times) /\ IsPrefix(run.times, whole.times)

Bundle(run, i) == <<run.frames[i], run.scores[i], run.boxes[i]>>
LedgerUpTo(run, frame) == SelectSeq(run.ledger, LAMBDA event : event.confirm <= frame)

PrefixFindings(run, whole) ==
    LET count == Len(run.times)
    IN Finding("PREFIX_REWRITE",
               \/ \E i \in 1 .. count : Bundle(run, i) # Bundle(whole, i)
               \/ run.ledger # LedgerUpTo(whole, count))

(* compare_shared_asof: up to the cutoff, where both have a bundle.        *)
SharedFindings(run, whole, cutoff) ==
    LET until(times) == {i \in DOMAIN times : times[i] <= cutoff}
    IN Finding("SHARED_ASOF_REWRITE",
               \/ \E i \in until(run.times) : \E j \in until(whole.times) :
                     run.times[i] = whole.times[j] /\ Bundle(run, i) # Bundle(whole, j)
               \/ LedgerUpTo(run, Cardinality(until(run.times)))
                    # LedgerUpTo(whole, Cardinality(until(whole.times))))

(* Runs over late bars are refused by the metrics.                         *)
SameEvaluation(run, whole, cutoff) ==
    BarsAccepted(BarsOf(whole.data)) =>
        EvaluationAt(run, BarsOf(run.data), cutoff) = EvaluationAt(whole, BarsOf(whole.data), cutoff)

(* One checkpoint of cutoff.py; its caller gives compare_shared_asof the   *)
(* first instant after the cutoff.                                         *)
StableAt(cutoff, run, whole) ==
    /\ SharedFindings(run, whole, cutoff) = {}
    /\ cutoff < Last(whole.times) => Comparable(run, whole) /\ PrefixFindings(run, whole) = {}
    /\ SameEvaluation(run, whole, cutoff)

-----------------------------------------------------------------------------
(* Properties *)

(* A box with the times its frames stand for. *)
Dated(snapshot, times) ==
    IF snapshot = Selector!NoBox THEN snapshot
    ELSE [episode |-> [snapshot.episode EXCEPT !.created = times[snapshot.episode.created]],
          asOf |-> times[snapshot.asOf]]

(* The core never fails on a source it accepts, and a replay gives at each *)
(* time of the batch the box the batch gives there, up to the first time   *)
(* of the caller's at which the selector itself chose another pair; on the *)
(* times of the batch the two runs are equal                               *)
(* (docs/research/msa_core_pipeline.md:115, msa_core/replay.py:76).        *)
CoreReplays ==
    /\ status # "RAISED"
    /\ mode = "REPLAY" /\ status = "DONE" =>
          LET default == InOrder(DefaultSchedule(source))
              batch == BatchOf(source, default)
              before(i) == IF i = 1 THEN Selector!NoBox ELSE boxes[i - 1]
              moved == {i \in 1 .. Len(schedule) : /\ schedule[i] \notin ToSet(default)
                                                  /\ Selector!Keys(boxes[i]) # Selector!Keys(before(i))}
          IN /\ schedule = default => BatchReplayFindings(ThisRun, batch) = {}
             /\ \A k \in 1 .. Len(default), i \in 1 .. Len(schedule) :
                   schedule[i] = default[k] /\ (\A j \in moved : i < j)
                       => Dated(boxes[i], schedule) = Dated(batch.boxes[k], default)

(* A run on the source cut off at a time passes its audit and is the       *)
(* beginning of the run on the whole source, and what its metrics say is   *)
(* what those of the whole say as of that time: nothing that came later    *)
(* had a say (experiments/execution/cutoff.py:222-247). The whole is       *)
(* audited in mode BATCH.                                                  *)
FixedCutoffStable ==
    mode = "CUTOFF" /\ status \in {"DONE", "REFUSED", "RAISED"} =>
        /\ status = "DONE" /\ AuditPassed
        /\ StableAt(Last(schedule), ThisRun, BatchOf(full, InOrder(DefaultSchedule(full))))

(* What one evaluation said is still so in a later one: an event, and an   *)
(* observation that is not waiting for more.                               *)
StillSo(earlier, later) ==
    /\ earlier.events \subseteq later.events
    /\ \A o \in earlier.observations :
          o.metric # "RESONANCE_LIFT" /\ o.outcome.status # "CENSORED_RIGHT" => o \in later.observations

Evaluations(bars) == [k \in DOMAIN schedule |-> EvaluationAt(ThisRun, bars, schedule[k])]

Final(reports) ==
    /\ \A k \in DOMAIN reports : ReportAccepted(reports[k], schedule[k])
    /\ \A k \in 2 .. Len(reports) : StillSo(reports[k - 1], reports[k])

(* The auditor finds nothing in a run the pipeline or a replay finished,   *)
(* so the evaluator takes it (metrics/engine.py:48). Evaluated at one of   *)
(* its times after another, the run gives reports that pass their          *)
(* validators, and of which none takes back an event or a result of one    *)
(* before; only the pairs behind the resonance lift may be matched anew    *)
(* (docs/validation/structural_metrics.md:175).                            *)
EvaluationsAreFinal ==
    mode # "CUTOFF" /\ status = "DONE" =>
        /\ AuditPassed
        /\ BarsAccepted(BarsOf(source)) => Final(Evaluations(BarsOf(source)))
=============================================================================
