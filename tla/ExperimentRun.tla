---------------------------- MODULE ExperimentRun ----------------------------
(***************************************************************************)
(* A run of experiment C-008C-B, and what it leaves on disk: a pool of     *)
(* worker processes executes the scheduled pairs, the replay samples and   *)
(* the cutoff cases follow, the verdict is reached, and the frozen         *)
(* contract and the report are written. The process may crash and the run  *)
(* be started again over the files it left. V1 overwrites its evidence, V2 *)
(* refuses to overwrite other evidence than its own. What V1 has written   *)
(* may then be analysed for its root causes                                *)
(* (validation/experiments/execution: report, report_v2, evidence,         *)
(* evidence_v2, runner, rca).                                              *)
(*                                                                         *)
(* Each pair has a nature, which fixes what its executions answer. A drift *)
(* is one execution that answers otherwise than its nature says.           *)
(***************************************************************************)
EXTENDS RootCause

CONSTANTS
    Nature,         \* what a pair may be like; CLEAN is one
    AnswerOf,       \* [Nature -> ["NORMAL", "ALTERED", "REPLAY" -> Answer]]
    CheckpointsOf,  \* [Nature -> the checkpoints of its cutoff case]
    Workers,        \* bound: worker processes
    MaxIncidents    \* bound: pairs that are not CLEAN, drifts, tasks that
                    \* finish before an earlier one, restarts

(* Boxes are counted in the run, whatever execution it is of. No drifting  *)
(* run is like any other.                                                  *)
ASSUME AnswerAssumption ==
    /\ "CLEAN" \in Nature
    /\ AnswerOf \in [Nature -> [{"NORMAL", "ALTERED", "REPLAY"} -> AnswerRecord]]
    /\ \A n \in Nature, c, d \in {"NORMAL", "ALTERED", "REPLAY"} :
           AnswerOf[n][c].run = AnswerOf[n][d].run => AnswerOf[n][c].boxes = AnswerOf[n][d].boxes
    /\ "drifted" \notin Payload \cup {None}

(* At least one checkpoint of every case is looked at.                     *)
Checkpoint ==
    [raises : BOOLEAN, ends : BOOLEAN, frames : BOOLEAN, ledger : BOOLEAN, metric : BOOLEAN]
ASSUME CheckpointAssumption == CheckpointsOf \in [Nature -> Seq(Checkpoint) \ {<<>>}]

(* The evaluator audits in the context a process starts with, so there it  *)
(* agrees with the caller's own audit.                                     *)
ASSUME AmbientAssumption ==
    \A n \in Nature, context \in {"NORMAL", "REPLAY"} :
        LET answer == AnswerOf[n][context]
        IN  answer.vouched = (answer.audit = "PASSED")

VARIABLES
    semantics,  \* "V1" or "V2"
    nature,     \* what each scheduled pair is like
    phase,      \* where the process is
    completed,  \* the tasks that are done, in that order: index and drift
    evidence,   \* what is known so far, None for what is not yet, or None
    report,     \* the report of this process, or None
    rca,        \* its root-cause report and the execution that drifted, or None
    contractFile, reportFile,   \* Absent, Torn, or the content
    published,  \* every report that has been complete on disk
    incidents   \* how much of MaxIncidents is used up

vars == <<semantics, nature, phase, completed, evidence, report, rca,
          contractFile, reportFile, published, incidents>>

Absent == <<"absent", None>>
Torn == <<"torn", None>>
Frozen == <<"contract", None>>  \* a contract holds no outcome
Bytes(content) == <<"report", content>>

Schedule == ExecutionPair
Pairs == Range(Schedule)
Dirty(assignment) == {pair \in Pairs : assignment[pair] # "CLEAN"}

Fresh ==
    /\ phase' = "PRIMARY"
    /\ completed' = <<>>
    /\ evidence' = None
    /\ report' = None
    /\ rca' = None

Init ==
    /\ ManifestAccepted
    /\ semantics \in {"V1", "V2"}
    /\ \E dirty \in UNION {kSubset(size, Pairs) : size \in 0 .. MaxIncidents} :
           \E flaw \in [dirty -> Nature \ {"CLEAN"}] :
               nature = [pair \in Pairs |-> IF pair \in dirty THEN flaw[pair] ELSE "CLEAN"]
    /\ incidents = Cardinality(Dirty(nature))
    /\ phase = "PRIMARY"
    /\ completed = <<>>
    /\ evidence = None
    /\ report = None
    /\ rca = None
    /\ contractFile = Absent
    /\ reportFile = Absent
    /\ published = {}

-----------------------------------------------------------------------------
(* The primary executions *)

Execution == {"NONE", "A", "B", "ALTERED"}

(* What one execution of a pair answers, when it is the one that drifts.   *)
Answer(pair, context, drifts) ==
    LET usual == AnswerOf[nature[pair]][context]
    IN  IF drifts THEN [usual EXCEPT !.run = "drifted"] ELSE usual

(* The task of a worker: V1 runs a pair in the context it finds and in an  *)
(* altered one, V2 twice in the normal context before the altered one.     *)
Outcome(task) ==
    LET pair == Schedule[task.index]
        first == ExecutePair(Answer(pair, "NORMAL", task.drift = "A"))
        second == ExecutePair(Answer(pair, "NORMAL", task.drift = "B"))
        altered == ExecutePair(Answer(pair, "ALTERED", task.drift = "ALTERED"))
    IN  [pair |-> pair,
         result |-> first,
         repeat |-> Determinism(first, altered),
         same |-> Determinism(first, second)]

Done == {completed[position].index : position \in DOMAIN completed}
Waiting == DOMAIN Schedule \ Done

(* The pool hands out tasks in order, so the earliest unfinished ones run. *)
Running == {index \in Waiting : Cardinality({other \in Waiting : other < index}) < Workers}

Finish ==
    /\ phase = "PRIMARY"
    /\ \E index \in Running, drift \in Execution :
           LET odd == (IF drift = "NONE" THEN 0 ELSE 1) + (IF index = Min(Waiting) THEN 0 ELSE 1)
           IN  /\ drift = "B" => semantics = "V2"
               /\ drift # "NONE" => AnswerOf[nature[Schedule[index]]]["NORMAL"].ran
               /\ incidents + odd <= MaxIncidents
               /\ completed' = Append(completed, [index |-> index, drift |-> drift])
               /\ incidents' = incidents + odd
    /\ UNCHANGED <<semantics, nature, phase, evidence, report,
                   rca, contractFile, reportFile, published>>

(* executor.map yields what the tasks answer in the order of the schedule, *)
(* and the runner refuses records that do not meet their contracts.        *)
Yielded ==
    [index \in DOMAIN Schedule |-> CHOOSE task \in Range(completed) : task.index = index]

Sound(outcome) ==
    /\ CaseAccepted(outcome.result)
    /\ DeterminismAccepted(outcome.repeat)
    /\ DeterminismAccepted(outcome.same)

Collect ==
    /\ phase = "PRIMARY" /\ Waiting = {}
    /\ completed' = Yielded
    /\ LET Of(pair) == Outcome(Yielded[CHOOSE index \in DOMAIN Schedule :
                                          Schedule[index] = pair])
       IN  /\ evidence' = [results |-> [pair \in Pairs |-> Of(pair).result],
                           repeats |-> [pair \in Pairs |-> Of(pair).repeat.status],
                           sames |-> IF semantics = "V1" THEN None
                                     ELSE [pair \in Pairs |-> Of(pair).same.status],
                           replays |-> None, cutoffs |-> None,
                           deltas |-> None, degeneration |-> None, gates |-> None]
           /\ phase' = IF \A pair \in Pairs : Sound(Of(pair)) THEN "REPLAY" ELSE "RAISED"
    /\ UNCHANGED <<semantics, nature, report,
                   rca, contractFile, reportFile, published, incidents>>

-----------------------------------------------------------------------------
(* Replays, cutoffs, verdict *)

RunReplays ==
    /\ phase = "REPLAY"
    /\ LET replays == [sample \in ReplaySample |->
               ExecuteSample(Answer(sample, "NORMAL", FALSE), Answer(sample, "REPLAY", FALSE))]
       IN  /\ evidence' = [evidence EXCEPT !.replays = replays]
           /\ phase' = IF \A sample \in ReplaySample : SampleAccepted(replays[sample])
                       THEN "CUTOFF" ELSE "RAISED"
    /\ UNCHANGED <<semantics, nature, completed, report,
                   rca, contractFile, reportFile, published, incidents>>

BaselineOf(case) == [case |-> case, variant |-> Baseline]

RunCutoffs ==
    /\ phase = "CUTOFF"
    /\ LET cutoffs == [case \in Range(ExecutableCase) |->
               ExecuteCutoffs(Answer(BaselineOf(case), "NORMAL", FALSE),
                              CheckpointsOf[nature[BaselineOf(case)]])]
       IN  /\ evidence' = [evidence EXCEPT !.cutoffs = cutoffs]
           /\ phase' = IF \A case \in DOMAIN cutoffs : CutoffAccepted(cutoffs[case])
                       THEN "DELTAS" ELSE "RAISED"
    /\ UNCHANGED <<semantics, nature, completed, report,
                   rca, contractFile, reportFile, published, incidents>>

(* The deltas, the degeneration and the gates are derived one after the    *)
(* other, the evidence keeps them for the report.                          *)
Derive(part, value, accepted, next) ==
    /\ evidence' = [evidence EXCEPT ![part] = value]
    /\ phase' = IF accepted THEN next ELSE "RAISED"
    /\ UNCHANGED <<semantics, nature, completed, report,
                   rca, contractFile, reportFile, published, incidents>>

DeriveDeltas ==
    /\ phase = "DELTAS"
    /\ Derive("deltas", CalculateDeltas(evidence.results), TRUE, "DEGENERATION")

DeriveDegeneration ==
    /\ phase = "DEGENERATION"
    /\ Derive("degeneration",
              EvaluateDegeneration(semantics, evidence, evidence.deltas),
              DeltasAccepted(evidence.deltas), "GATES")

DeriveGates ==
    /\ phase = "GATES"
    /\ Derive("gates",
              EvaluateGates(semantics, evidence, evidence.degeneration),
              DegenerationAccepted(semantics, evidence.degeneration), "JUDGE")

Conclude ==
    /\ phase = "JUDGE"
    /\ report' = Judge(semantics, evidence)
    /\ evidence' = None
    /\ phase' = "CHECK"
    /\ UNCHANGED <<semantics, nature, completed,
                   rca, contractFile, reportFile, published, incidents>>

Check ==
    /\ phase = "CHECK"
    /\ phase' = IF ReportAccepted(semantics, report) THEN "WRITE" ELSE "RAISED"
    /\ UNCHANGED <<semantics, nature, completed, evidence, report,
                   rca, contractFile, reportFile, published, incidents>>

-----------------------------------------------------------------------------
(* The evidence files *)

(* Mutant of Writable: only the contract is looked at. *)
WritableByContract == semantics = "V1" \/ contractFile \in {Absent, Frozen}

(* V2 looks at both files before it touches either of them.                *)
Writable ==
    \/ semantics = "V1"
    \/ contractFile \in {Absent, Frozen} /\ reportFile \in {Absent, Bytes(report)}

Preflight ==
    /\ phase = "WRITE"
    /\ phase' = IF Writable THEN "CONTRACT" ELSE "REFUSED"
    /\ UNCHANGED <<semantics, nature, completed, evidence, report,
                   rca, contractFile, reportFile, published, incidents>>

(* Writing a file empties it first.                                        *)
OpenContract ==
    /\ phase = "CONTRACT"
    /\ contractFile' = Torn
    /\ phase' = "CONTRACT_OPEN"
    /\ UNCHANGED <<semantics, nature, completed, evidence, report,
                   rca, reportFile, published, incidents>>

WriteContract ==
    /\ phase = "CONTRACT_OPEN"
    /\ contractFile' = Frozen
    /\ phase' = "REPORT"
    /\ UNCHANGED <<semantics, nature, completed, evidence, report,
                   rca, reportFile, published, incidents>>

OpenReport ==
    /\ phase = "REPORT"
    /\ reportFile' = Torn
    /\ phase' = "REPORT_OPEN"
    /\ UNCHANGED <<semantics, nature, completed, evidence, report,
                   rca, contractFile, published, incidents>>

WriteReport ==
    /\ phase = "REPORT_OPEN"
    /\ reportFile' = Bytes(report)
    /\ published' = published \cup {report}
    /\ phase' = "DONE"
    /\ UNCHANGED <<semantics, nature, completed, evidence, report,
                   rca, contractFile, incidents>>

-----------------------------------------------------------------------------
(* The root-cause analysis of a V1 report *)

(* Its schedule is frozen first, unless a cutoff case failed before it     *)
(* became unstable.                                                        *)
FreezeSchedule ==
    /\ phase = "DONE" /\ semantics = "V1"
    /\ phase' = IF \A case \in DOMAIN report.cutoffs : Selectable(report.cutoffs[case])
                THEN "DIAGNOSE" ELSE "NOT_DIAGNOSED"
    /\ UNCHANGED <<semantics, nature, completed, evidence, report, rca,
                   contractFile, reportFile, published, incidents>>

Shaky == DiagnosticPair \X (Execution \ {"NONE"})

ASSUME ShakyAssumption == None \notin Shaky

RootCauses(shaky) ==
    LET Executed(pair, context, execution) ==
            Answer(pair, context, shaky = <<pair, execution>>)
        Selected(case) == CheckpointsOf[nature[BaselineOf(case)]][
                              SelectedCheckpoint(report.cutoffs[case])]
    IN  RootCauseReport(
            [pair \in DiagnosticPair |->
                RunItem(Executed(pair, "NORMAL", "A"), Executed(pair, "NORMAL", "B"),
                        Executed(pair, "ALTERED", "ALTERED"))],
            [case \in DOMAIN report.cutoffs |-> CutoffDiagnosis(Selected(case))],
            AttributeDegeneration(report.degeneration))

Diagnose ==
    /\ phase = "DIAGNOSE"
    /\ \E shaky \in {None} \cup Shaky :
           /\ shaky # None => AnswerOf[nature[shaky[1]]]["NORMAL"].ran
           /\ incidents' = incidents + (IF shaky = None THEN 0 ELSE 1)
           /\ incidents' <= MaxIncidents
           /\ IF \A case \in DOMAIN report.cutoffs :
                    Diagnosable(CheckpointsOf[nature[BaselineOf(case)]],
                                SelectedCheckpoint(report.cutoffs[case]))
              THEN rca' = [shaky |-> shaky, found |-> RootCauses(shaky)]
              ELSE rca' = None
    /\ phase' = IF rca' = None THEN "NOT_DIAGNOSED" ELSE "DIAGNOSED"
    /\ UNCHANGED <<semantics, nature, completed, evidence, report,
                   contractFile, reportFile, published>>

-----------------------------------------------------------------------------
(* The process ends, or crashes, and the run is started again. *)

Ended == phase \in {"DONE", "REFUSED", "RAISED", "NOT_DIAGNOSED", "DIAGNOSED"}

Restart ==
    /\ Ended \/ phase \in {"CONTRACT_OPEN", "REPORT_OPEN", "REPORT"}
    /\ incidents < MaxIncidents
    /\ incidents' = incidents + 1
    /\ Fresh
    /\ UNCHANGED <<semantics, nature, contractFile, reportFile, published>>

Next ==
    \/ Finish \/ Collect
    \/ RunReplays \/ RunCutoffs
    \/ DeriveDeltas \/ DeriveDegeneration \/ DeriveGates \/ Conclude \/ Check
    \/ Preflight \/ OpenContract \/ WriteContract \/ OpenReport \/ WriteReport
    \/ FreezeSchedule \/ Diagnose
    \/ Restart

Spec == Init /\ [][Next]_vars

-----------------------------------------------------------------------------
(* Properties *)

TypeOK ==
    /\ semantics \in {"V1", "V2"}
    /\ nature \in [Pairs -> Nature]
    /\ phase \in {"PRIMARY", "REPLAY", "CUTOFF", "DELTAS", "DEGENERATION", "GATES",
                  "JUDGE", "CHECK", "WRITE", "CONTRACT", "CONTRACT_OPEN",
                  "REPORT", "REPORT_OPEN", "DONE", "REFUSED", "RAISED",
                  "DIAGNOSE", "DIAGNOSED", "NOT_DIAGNOSED"}
    /\ \A position \in DOMAIN completed :
           completed[position] \in [index : DOMAIN Schedule, drift : Execution]
    /\ contractFile \in {Absent, Torn, Frozen}
    /\ incidents \in 0 .. MaxIncidents

Drifted == {task.index : task \in {t \in Range(completed) : t.drift # "NONE"}}

(* What was known at the checkpoint is still there in the whole run.       *)
Upheld(checkpoint) == checkpoint.frames /\ checkpoint.ledger /\ checkpoint.metric

(* A pair nothing can be held against, in what the schedule does with it.  *)
Faultless(pair) ==
    LET answer == AnswerOf[nature[pair]]
        checkpoints == CheckpointsOf[nature[pair]]
    IN  /\ answer["NORMAL"].ran /\ answer["NORMAL"].audit = "PASSED"
        /\ answer["NORMAL"].measured /\ answer["NORMAL"].binds
        /\ answer["ALTERED"] = answer["NORMAL"]
        /\ pair.variant = Baseline \/ PartitionOf(pair.case) = "VALIDATION" =>
               answer["REPLAY"] = answer["NORMAL"]
        /\ pair.variant = Baseline =>
               \A index \in DOMAIN checkpoints :
                   ~checkpoints[index].raises /\ Upheld(checkpoints[index])

(* On the validation cases a variant sees nothing of what the Baseline saw,*)
(* or less than a tenth of it in too many metrics.                         *)
Seen(variant, Amount(_)) ==
    SumFunction([case \in CasesIn("VALIDATION") |->
        Amount(AnswerOf[nature[[case |-> case, variant |-> variant]]]["NORMAL"])])

Withers(variant) ==
    \/ Seen(variant, LAMBDA a : a.report.events) = 0
           /\ Seen(Baseline, LAMBDA a : a.report.events) >= EventFloor
    \/ Seen(variant, LAMBDA a : a.boxes) = 0
           /\ Seen(Baseline, LAMBDA a : a.boxes) >= BoxFloor
    \/ Cardinality({metric \in Metric :
           \/ 10 * Seen(variant, LAMBDA a : a.report.aggregates[metric].eligible)
                  < Seen(Baseline, LAMBDA a : a.report.aggregates[metric].eligible)
           \/ 10 * Seen(variant, LAMBDA a : a.report.aggregates[metric].matured)
                  < Seen(Baseline, LAMBDA a : a.report.aggregates[metric].matured)})
           >= LeastCollapsed

(* The locked cases are opened exactly when nothing was found wrong: every *)
(* execution the schedule asks for was sound and repeatable and no variant *)
(* withered. Status by status, rule by rule and gate by gate, no failure   *)
(* is lost on the way to the stage and none is invented (build and derive  *)
(* of the stage, report.py:290, report_v2.py:117).                         *)
ReadyIffNothingWrong ==
    phase = "WRITE" =>
        (report.stage = "READY_FOR_LOCKED_OOS" <=>
            /\ Drifted = {}
            /\ \A pair \in Pairs : Faultless(pair)
            /\ \A variant \in Range(Others) : ~Withers(variant))

(* Whatever the pipeline, the auditor and the evaluator answer, and in     *)
(* whatever order the workers finish, the runner builds only records its   *)
(* contracts accept: a failure ends in the report, never as an exception   *)
(* that loses the whole run (contracts.py, contracts_v2.py).  Evidence V1  *)
(* has written passes every later check of it (evidence.py:286).           *)
NothingRefused ==
    /\ phase # "RAISED"
    /\ semantics = "V1" /\ phase = "DONE" => ExistingAccepted(report)

(* The pair shows less of something than the one it is compared with.      *)
ShowsLess(pair, other) ==
    LET answer == AnswerOf[nature[pair]]["NORMAL"]
        usual == AnswerOf[nature[other]]["NORMAL"]
    IN  \/ answer.report.events < usual.report.events
        \/ answer.boxes < usual.boxes
        \/ \E metric \in Metric :
               LET mine == answer.report.aggregates[metric]
                   theirs == usual.report.aggregates[metric]
               IN  mine.eligible < theirs.eligible \/ mine.matured < theirs.matured

(* In V2 a variant degenerates only for its own validation cases, for what *)
(* is wrong with one or because it shows less than the Baseline does. A    *)
(* repeat in the same context fails only when executions in it differ, and *)
(* one in an altered context only when that execution or the first one     *)
(* differs.                                                                *)
(* V1 blames every variant for a cutoff of the Baseline, and both repeat   *)
(* gates for either difference (degeneration.py:487, gate_evaluator.py:343)*)
OwnBlame ==
    /\ \A variant \in Range(Others) :
           report.degeneration[variant].status = "DEGENERATED" =>
               \E case \in CasesIn("VALIDATION") :
                   LET own == [case |-> case, variant |-> variant]
                   IN  ~Faultless(own) \/ ShowsLess(own, BaselineOf(case))
    /\ report.gates["DETERMINISTIC_REPEAT"] = "FAIL" =>
           \E task \in Range(completed) : task.drift \in {"A", "B"}
    /\ report.gates["DECIMAL_CONTEXT_INDEPENDENCE"] = "FAIL" =>
           \/ \E task \in Range(completed) : task.drift \in {"A", "ALTERED"}
           \/ \E pair \in Pairs :
                  AnswerOf[nature[pair]]["ALTERED"] # AnswerOf[nature[pair]]["NORMAL"]

(* The root-cause analysis of V1 comes to what V2 says of every variant,   *)
(* names a cause of a repeat exactly when an execution differed, and one   *)
(* of a cutoff case exactly when what was first rewritten in it is of that *)
(* kind: an outcome, or frames or boxes, which the failing audits file as  *)
(* an error of the harness too. A case without a rewrite differs in        *)
(* nothing but identities (rca/degeneration.py:43, rca/report.py:75,       *)
(* rca/cutoff.py:117).                                                     *)
CauseFound ==
    LET Shook(executions) == rca.shaky # None /\ rca.shaky[2] \in executions
        Left(answer) == IF answer.ran THEN answer.run ELSE None
        Checkpoints(case) == CheckpointsOf[nature[BaselineOf(case)]]
        FirstRewritten(case, index) ==
            /\ ~Upheld(Checkpoints(case)[index])
            /\ \A earlier \in 1 .. index - 1 : Upheld(Checkpoints(case)[earlier])
        Rewrites(Kept(_)) ==
            \E case \in Range(ExecutableCase) :
                \E index \in DOMAIN Checkpoints(case) :
                    FirstRewritten(case, index) /\ ~Kept(Checkpoints(case)[index])
        RunRewritten == Rewrites(LAMBDA checkpoint : checkpoint.frames /\ checkpoint.ledger)
    IN  /\ \A variant \in Range(Others) :
               rca.found.attributions[variant].descriptive =
                   DegenerationSummary("V2", report, report.deltas, variant).status
        /\ "SAME_CONTEXT_NONDETERMINISM" \in rca.found.subjects <=> Shook({"A", "B"})
        /\ "CORE_DECIMAL_CONTEXT_DEPENDENCE" \in rca.found.subjects <=>
               \/ Shook({"A", "ALTERED"})
               \/ \E pair \in DiagnosticPair :
                      Left(AnswerOf[nature[pair]]["ALTERED"])
                          # Left(AnswerOf[nature[pair]]["NORMAL"])
        /\ "METRIC_FIXED_CUTOFF_SEMANTICS" \in rca.found.subjects <=>
               Rewrites(LAMBDA checkpoint : checkpoint.metric)
        /\ "FRAME_OR_LEDGER_FUTURE_REWRITE" \in rca.found.subjects <=> RunRewritten
        /\ "PREFIX_HARNESS_ERROR" \in rca.found.subjects <=> RunRewritten
        /\ \A pair \in DiagnosticPair :
               /\ DiagnosisAccepted(rca.found.repeats[pair].same)
               /\ DiagnosisAccepted(rca.found.repeats[pair].decimal)
        /\ \A case \in Range(ExecutableCase) :
               /\ CutoffDiagnosisAccepted(rca.found.cutoffs[case])
               /\ rca.found.cutoffs[case].layer = "IDENTITY_OR_SOURCE_BINDING" <=>
                      \A index \in DOMAIN Checkpoints(case) :
                          Upheld(Checkpoints(case)[index])

(* A failure is held against nobody but the one it belongs to: see OwnBlame*)
(* for V2 and CauseFound for the analysis of what V1 mixes up.             *)
BlameStaysWithSubject ==
    /\ semantics = "V2" /\ report # None => OwnBlame
    /\ rca # None => CauseFound

(* V2's evidence is append-only: whatever crashes, tears a file or is run  *)
(* again with another outcome, at most one report is ever complete on disk *)
(* (write_c008c_b_v2_evidence, evidence_v2.py:168).                        *)
EvidenceAppendOnly == semantics = "V2" => Cardinality(published) <= 1
=============================================================================
