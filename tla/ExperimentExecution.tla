------------------------- MODULE ExperimentExecution -------------------------
(***************************************************************************)
(* The executions of experiment C-008C-B: the frozen schedule of pairs of  *)
(* a dataset case and a variant of the configuration, what one pair leaves *)
(* behind when it is run, repeated, replayed or cut off, and the contracts *)
(* those records must meet (validation/experiments/execution).             *)
(*                                                                         *)
(* What core pipeline, auditor and evaluator say of a pair is an Answer:   *)
(*   ran      - the pipeline returns a run (else it raises),               *)
(*   run      - the payload of that run, boxes the boxes it created,       *)
(*   audit    - "PASSED", "FAILED", or "ERROR" when the auditor raises,    *)
(*   vouched  - the run passes the audit the evaluator makes for itself,   *)
(*   measured - the evaluator returns a report of a vouched run,           *)
(*   report   - its content: events and one aggregate per metric,          *)
(*   binds    - the report recomputes from the run.                        *)
(* An aggregate has a value, or None, and counts of eligible and matured   *)
(* observations; payloads are equal exactly when these values are.         *)
(***************************************************************************)
EXTENDS Integers, Sequences, SequencesExt

CONSTANTS
    Case,       \* the dataset cases, in plan order
    SeedOf,     \* their seeds: 0 and 1 DEVELOPMENT, 2 VALIDATION, 3 OOS
    Variant,    \* the variants, in plan order; the first is the Baseline
    Metric,     \* the metrics of the formula registry
    Payload,    \* what the run of a pair may be
    None        \* no run, no report, no value

(* The plan names every case and every variant once (validation/           *)
(* experiments/contracts.py), so no pair is scheduled twice.               *)
ASSUME PlanAssumption ==
    /\ Case \in Seq(DOMAIN SeedOf) /\ IsInjective(Case)
    /\ Variant \in Seq(Range(Variant)) /\ Variant # <<>> /\ IsInjective(Variant)
    /\ IsFiniteSet(Metric)

Aggregate == [value : Int \cup {None}, eligible : Nat, matured : Nat]
Report == [events : Nat, aggregates : [Metric -> Aggregate]]

AnswerRecord ==
    [ran : BOOLEAN, run : Payload, boxes : Nat, audit : {"PASSED", "FAILED", "ERROR"},
     vouched : BOOLEAN, measured : BOOLEAN, report : Report, binds : BOOLEAN]

ASSUME NoneAssumption == None \notin Payload \cup Report \cup Int

-----------------------------------------------------------------------------
(* The manifest *)

PartitionOf(case) ==
    CASE SeedOf[case] \in {0, 1} -> "DEVELOPMENT"
      [] SeedOf[case] = 2        -> "VALIDATION"
      [] OTHER                   -> "OOS"

Baseline == Variant[1]
Others == Tail(Variant)

(* The cases of some partitions, in plan order.                            *)
CasesOf(partitions) ==
    LET upTo[n \in 0 .. Len(Case)] ==
            IF n = 0 THEN <<>>
            ELSE IF PartitionOf(Case[n]) \in partitions
                 THEN Append(upTo[n - 1], Case[n]) ELSE upTo[n - 1]
    IN  upTo[Len(Case)]

ExecutableCase == CasesOf({"DEVELOPMENT", "VALIDATION"})
DeferredCase == CasesOf({"OOS"})
CasesIn(partition) == {case \in Range(Case) : PartitionOf(case) = partition}

(* Every case with every variant, case by case.                            *)
PairsOf(cases) ==
    [index \in 1 .. Len(cases) * Len(Variant) |->
        [case |-> cases[((index - 1) \div Len(Variant)) + 1],
         variant |-> Variant[((index - 1) % Len(Variant)) + 1]]]

ExecutionPair == PairsOf(ExecutableCase)
DeferredPair == PairsOf(DeferredCase)

(* The manifest is refused unless it splits the frozen pairs in two.       *)
ManifestAccepted ==
    /\ Cardinality(Range(ExecutionPair) \cup Range(DeferredPair)) =
           Len(Case) * Len(Variant)
    /\ \A pair \in Range(ExecutionPair) : PartitionOf(pair.case) # "OOS"
    /\ \A pair \in Range(DeferredPair) : PartitionOf(pair.case) = "OOS"

(* Every executable case is replayed with the Baseline, the validation     *)
(* cases with the other variants too.                                      *)
BaselineSample == [case : Range(ExecutableCase), variant : {Baseline}]
VariantSample == [case : CasesIn("VALIDATION"), variant : Range(Others)]
ReplaySample == BaselineSample \cup VariantSample

-----------------------------------------------------------------------------
(* One execution of a pair *)

NoAggregates == <<>>

(* Mutant of Evaluates: the evaluator trusts the run it is given. *)
EvaluatesUnaudited(answer) == answer.measured

(* The evaluator audits a run itself, in a Decimal context of its own,     *)
(* whatever context the caller audited it in.                              *)
Evaluates(answer) == answer.vouched /\ answer.measured

StatusOf(answer) ==
    LET audited == answer.ran /\ answer.audit = "PASSED"
    IN  CASE ~answer.ran -> "PIPELINE_FAILED"
          [] answer.ran /\ ~audited -> "CAUSAL_AUDIT_FAILED"
          [] audited /\ ~Evaluates(answer) -> "METRIC_EVALUATION_FAILED"
          [] audited /\ Evaluates(answer) /\ ~answer.binds -> "METRIC_SOURCE_BIND_FAILED"
          [] OTHER -> "PASSED"

(* The result keeps the run, audit and report made before the first        *)
(* failure, and the aggregates only of a report that binds.                *)
ExecutePair(answer) ==
    LET status == StatusOf(answer)
        reported == status \in {"PASSED", "METRIC_SOURCE_BIND_FAILED"}
    IN  [status |-> status,
         run |-> IF status = "PIPELINE_FAILED" THEN None ELSE answer.run,
         audit |-> IF status = "PIPELINE_FAILED" \/ answer.audit = "ERROR"
                   THEN None ELSE answer.audit,
         metric |-> IF reported THEN answer.report ELSE None,
         aggregates |-> IF status = "PASSED"
                        THEN answer.report.aggregates ELSE NoAggregates,
         events |-> IF reported THEN answer.report.events ELSE 0,
         boxes |-> IF status = "PIPELINE_FAILED" THEN 0 ELSE answer.boxes]

Complete(result) == DOMAIN result.aggregates = Metric

CaseAccepted(result) ==
    /\ result.status = "PASSED" =>
           /\ result.run # None /\ result.metric # None
           /\ result.audit = "PASSED"
           /\ Complete(result)
    /\ result.status = "PIPELINE_FAILED" =>
           /\ result.run = None /\ result.audit = None /\ result.metric = None
           /\ result.aggregates = NoAggregates
    /\ result.status = "CAUSAL_AUDIT_FAILED" =>
           /\ result.run # None /\ result.metric = None
           /\ result.audit \in {None, "FAILED"}
           /\ result.aggregates = NoAggregates
    /\ result.status = "METRIC_EVALUATION_FAILED" =>
           /\ result.run # None /\ result.metric = None
           /\ result.audit = "PASSED"
           /\ result.aggregates = NoAggregates
    /\ result.status = "METRIC_SOURCE_BIND_FAILED" =>
           /\ result.run # None /\ result.metric # None
           /\ result.audit = "PASSED"
           /\ result.aggregates = NoAggregates

(* Two executions of a pair compared, payload by payload.                  *)
Determinism(first, second) ==
    LET run == first.run = second.run
        audit == first.audit = second.audit
        metric == first.metric = second.metric
    IN  [run |-> run, audit |-> audit, metric |-> metric, result |-> first = second,
         status |-> IF run /\ audit /\ metric /\ first = second
                    THEN "MATCH" ELSE "MISMATCH"]

DeterminismAccepted(comparison) ==
    comparison.status = "MATCH" <=>
        comparison.run /\ comparison.audit /\ comparison.metric /\ comparison.result

-----------------------------------------------------------------------------
(* One replay sample *)

(* The steps of a sample; the first that fails ends it.                    *)
SampleSteps(batch, replay) ==
    <<batch.ran, replay.ran, "ERROR" \notin {batch.audit, replay.audit},
      Evaluates(batch), batch.binds, Evaluates(replay), replay.binds>>

(* The comparison audit repeats the findings of either run.                *)
ComparisonPasses(batch, replay) ==
    batch.audit = "PASSED" /\ replay.audit = "PASSED" /\ batch.run = replay.run

ExecuteSample(batch, replay) ==
    LET completed == \A step \in Range(SampleSteps(batch, replay)) : step
        runEqual == completed /\ batch.run = replay.run
        metricEqual == runEqual /\ batch.report = replay.report
    IN  [status |->
            CASE ~completed -> "EXECUTION_FAILED"
              [] completed /\ metricEqual /\ ComparisonPasses(batch, replay) -> "MATCH"
              [] OTHER -> "MISMATCH",
         complete |-> completed,
         runEqual |-> runEqual,
         metricEqual |-> metricEqual]

SampleAccepted(comparison) ==
    /\ comparison.status = "MATCH" =>
           comparison.complete /\ comparison.runEqual /\ comparison.metricEqual
    /\ comparison.status = "MISMATCH" =>
           comparison.complete /\ ~(comparison.runEqual /\ comparison.metricEqual)

-----------------------------------------------------------------------------
(* One fixed-cutoff case *)

(* A checkpoint compares the run and the report of the source known by     *)
(* then with those of the whole source:                                    *)
(*   raises - no comparison can be made, as when the schedule of the       *)
(*            shorter run is no strict beginning of the other's,           *)
(*   ends   - the schedule of the shorter run ends at the checkpoint,      *)
(*   frames - the frame bundles of the shorter run are found again,        *)
(*   ledger - events and frozen boxes up to the checkpoint agree,          *)
(*   metric - the outcomes agree, whatever run they are of.                *)
(* The audits of the two runs and of the beginning compare frames and      *)
(* ledger and repeat the findings about each run alone: with such findings *)
(* the evaluator raises. The audit of the beginning, not made at the last  *)
(* checkpoint, compares nothing the other does not.                        *)
ComparisonAudit(checkpoint) == checkpoint.frames /\ checkpoint.ledger

CheckpointStable(checkpoint) == ComparisonAudit(checkpoint) /\ checkpoint.metric

(* The checkpoints before the first that raises are kept.                  *)
Reached(checkpoints) ==
    {index \in 1 .. Len(checkpoints) : \A earlier \in 1 .. index : ~checkpoints[earlier].raises}

ExecuteCutoffs(answer, checkpoints) ==
    LET reached == IF answer.ran /\ Evaluates(answer) /\ answer.binds
                   THEN Reached(checkpoints) ELSE {}
        unstable == {index \in reached : ~CheckpointStable(checkpoints[index])}
        raised == Cardinality(reached) < Len(checkpoints)
    IN  [status |->
            CASE raised -> "EXECUTION_FAILED"
              [] ~raised /\ unstable = {} -> "STABLE"
              [] OTHER -> "REWRITE_DETECTED",
         checkpoints |-> Cardinality(reached),
         unstable |-> unstable,
         rewrites |-> Cardinality(unstable)]

CutoffAccepted(comparison) ==
    /\ comparison.status = "STABLE" =>
           comparison.checkpoints > 0 /\ comparison.rewrites = 0
    /\ comparison.status = "REWRITE_DETECTED" => comparison.rewrites > 0
=============================================================================
