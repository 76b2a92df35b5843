-------------------------- MODULE ExperimentVerdict --------------------------
(***************************************************************************)
(* What experiment C-008C-B concludes from its executions: the deltas of   *)
(* every variant against the Baseline, the frozen degeneration rules, the  *)
(* gates, the summaries and the stage, in the two semantics it has had:    *)
(* "V1", and "V2", which keeps the Baseline's evidence off the variants    *)
(* and a repeat in one Decimal context apart from one in another           *)
(* (validation/experiments/execution).                                     *)
(*                                                                         *)
(* The evidence e of a run holds results, one per scheduled pair, repeats  *)
(* in a changed Decimal context, sames in an unchanged one (V2 only),      *)
(* replays, one per sample, and cutoffs, one per executable case.          *)
(***************************************************************************)
EXTENDS ExperimentExecution

CONSTANTS
    EventFloor,     \* Baseline events that make their absence a collapse
    BoxFloor,       \* Baseline boxes that make their absence a collapse
    LeastCollapsed  \* metrics that must lose their coverage together

(* A collapse takes something the Baseline has.                            *)
ASSUME FloorAssumption == {EventFloor, BoxFloor, LeastCollapsed} \subseteq Nat \ {0}

Count(set, Counts(_)) == Cardinality({element \in set : Counts(element)})

-----------------------------------------------------------------------------
(* Metric deltas *)

ValueOf(result, metric) ==
    IF Complete(result) THEN result.aggregates[metric].value ELSE None

DeltaStatus(baseline, variant) ==
    CASE baseline # None /\ variant # None -> "COMPARABLE"
      [] baseline = None /\ variant # None -> "BASELINE_UNAVAILABLE"
      [] baseline # None /\ variant = None -> "VARIANT_UNAVAILABLE"
      [] OTHER                             -> "BOTH_UNAVAILABLE"

Delta(results, case, variant, metric) ==
    LET baseline == ValueOf(results[[case |-> case, variant |-> Baseline]], metric)
        other == ValueOf(results[[case |-> case, variant |-> variant]], metric)
        status == DeltaStatus(baseline, other)
    IN  [status |-> status,
         absolute |-> IF status = "COMPARABLE" THEN other - baseline ELSE None]

DeltaAccepted(delta) == (delta.status = "COMPARABLE") = (delta.absolute # None)

(* All deltas of a variant over the cases of one partition.                *)
DeltaSummary(results, partition, variant) ==
    LET deltas == [key \in CasesIn(partition) \X Metric |->
                      Delta(results, key[1], variant, key[2])]
        Comparable(key) == deltas[key].status = "COMPARABLE"
    IN  [deltas |-> deltas,
         comparable |-> Count(DOMAIN deltas, Comparable),
         equal |-> Count(DOMAIN deltas,
                         LAMBDA key : Comparable(key) /\ deltas[key].absolute = 0),
         nonZero |-> Count(DOMAIN deltas,
                           LAMBDA key : Comparable(key) /\ deltas[key].absolute # 0),
         unavailable |-> Count(DOMAIN deltas, LAMBDA key : ~Comparable(key))]

DeltaSummaryAccepted(summary) ==
    /\ \A key \in DOMAIN summary.deltas : DeltaAccepted(summary.deltas[key])
    /\ summary.comparable = summary.equal + summary.nonZero
    /\ summary.comparable + summary.unavailable = Cardinality(DOMAIN summary.deltas)

Partition == {"DEVELOPMENT", "VALIDATION"}

DeltasAccepted(deltas) == \A key \in DOMAIN deltas : DeltaSummaryAccepted(deltas[key])

CalculateDeltas(results) ==
    [key \in Partition \X Range(Others) |-> DeltaSummary(results, key[1], key[2])]

-----------------------------------------------------------------------------
(* Degeneration of a variant, on the validation cases only *)

RuleCode == {
    "PIPELINE_EXECUTION_FAILURE", "CAUSAL_AUDIT_FAILURE",
    "METRIC_SOURCE_BIND_FAILURE", "BATCH_REPLAY_MISMATCH",
    "FUTURE_PREFIX_REWRITE", "STRUCTURE_EVENT_COLLAPSE",
    "BOX_EPISODE_COLLAPSE", "MULTI_METRIC_COVERAGE_COLLAPSE",
    "AGGREGATE_SET_INCOMPLETE", "INVALID_OR_REPAIRED_CONFIG"}

ValidationResults(results, variant) ==
    [case \in CasesIn("VALIDATION") |-> results[[case |-> case, variant |-> variant]]]

Total(validation, Amount(_)) ==
    SumFunction([case \in DOMAIN validation |-> Amount(validation[case])])

Covered(validation) == \A case \in DOMAIN validation : Complete(validation[case])

(* Mutant of Declines: a decline of exactly nine tenths counts. *)
DeclinesAtTenth(before, after) == before > 0 /\ 10 * (before - after) >= 9 * before

(* A metric's coverage declines by more than nine tenths of the Baseline.  *)
Declines(before, after) == before > 0 /\ 10 * (before - after) > 9 * before

CollapsedMetrics(baseline, variant) ==
    {metric \in Metric :
        \/ Declines(Total(baseline, LAMBDA result : result.aggregates[metric].eligible),
                    Total(variant, LAMBDA result : result.aggregates[metric].eligible))
        \/ Declines(Total(baseline, LAMBDA result : result.aggregates[metric].matured),
                    Total(variant, LAMBDA result : result.aggregates[metric].matured))}

Vanishes(baseline, variant, Amount(_), floor) ==
    Total(baseline, Amount) >= floor /\ Total(variant, Amount) = 0

(* The rules a variant triggers by its own validation cases.               *)
OwnTriggers(e, variant) ==
    LET own == ValidationResults(e.results, variant)
        baseline == ValidationResults(e.results, Baseline)
        Some(status) == \E case \in DOMAIN own : own[case].status = status
        Applies(rule) ==
            CASE rule = "PIPELINE_EXECUTION_FAILURE" -> Some("PIPELINE_FAILED")
              [] rule = "CAUSAL_AUDIT_FAILURE" -> Some("CAUSAL_AUDIT_FAILED")
              [] rule = "METRIC_SOURCE_BIND_FAILURE" -> Some("METRIC_SOURCE_BIND_FAILED")
              [] rule = "BATCH_REPLAY_MISMATCH" ->
                     \E sample \in VariantSample :
                         sample.variant = variant /\ e.replays[sample].status # "MATCH"
              [] rule = "STRUCTURE_EVENT_COLLAPSE" ->
                     Vanishes(baseline, own, LAMBDA result : result.events, EventFloor)
              [] rule = "BOX_EPISODE_COLLAPSE" ->
                     Vanishes(baseline, own, LAMBDA result : result.boxes, BoxFloor)
              [] rule = "MULTI_METRIC_COVERAGE_COLLAPSE" ->
                     /\ Covered(baseline) /\ Covered(own)
                     /\ Cardinality(CollapsedMetrics(baseline, own)) >= LeastCollapsed
              [] rule = "AGGREGATE_SET_INCOMPLETE" -> ~Covered(own)
              [] OTHER -> FALSE
    IN  {rule \in RuleCode : Applies(rule)}

CutoffRewrite(cutoffs) == \E case \in DOMAIN cutoffs : cutoffs[case].status # "STABLE"

(* A variant answers for the cutoffs of the Baseline in V1 only.           *)
RewriteCounts(semantics, cutoffs) == semantics = "V1" /\ CutoffRewrite(cutoffs)

Triggered(semantics, e, variant) ==
    OwnTriggers(e, variant) \cup
        {rule \in {"FUTURE_PREFIX_REWRITE"} : RewriteCounts(semantics, e.cutoffs)}

(* The rules a variant, or the Baseline, leaves without evidence.          *)
Insufficient(e, variant) ==
    {rule \in {"MULTI_METRIC_COVERAGE_COLLAPSE"} :
        ~Covered(ValidationResults(e.results, Baseline))
        \/ ~Covered(ValidationResults(e.results, variant))}

(* One finding: a rule that triggers is never insufficient too.            *)
FindingStatus(triggered, insufficient, rule) ==
    CASE rule \in triggered -> "DEGENERATED"
      [] rule \in insufficient \ triggered -> "INSUFFICIENT_EVIDENCE"
      [] OTHER -> "NOT_DEGENERATED"

DegenerationStatus(triggered, insufficient, nonZero) ==
    CASE triggered # {} -> "DEGENERATED"
      [] triggered = {} /\ insufficient # {} -> "INSUFFICIENT_EVIDENCE"
      [] triggered = {} /\ insufficient = {} /\ nonZero > 0 -> "SENSITIVE"
      [] OTHER -> "NOT_DEGENERATED"

(* What a V2 finding rests on: a variant never answers for the cutoffs of  *)
(* the Baseline.                                                           *)
ScopeOf(insufficient, rule) ==
    CASE rule = "FUTURE_PREFIX_REWRITE" -> "NOT_APPLICABLE_GLOBAL_RULE"
      [] rule \in insufficient          -> "TRUE_INSUFFICIENT_EVIDENCE"
      [] OTHER                          -> "VARIANT_DIRECT"

DegenerationSummary(semantics, e, deltas, variant) ==
    LET triggered == Triggered(semantics, e, variant)
        insufficient == Insufficient(e, variant)
        nonZero == deltas[<<"VALIDATION", variant>>].nonZero
    IN  [findings |-> [rule \in RuleCode |-> FindingStatus(triggered, insufficient, rule)],
         scopes |-> [rule \in RuleCode |-> ScopeOf(insufficient, rule)],
         triggered |-> triggered,
         nonZero |-> nonZero,
         status |-> DegenerationStatus(triggered, insufficient, nonZero)]

(* Only a summary may be SENSITIVE.                                        *)
FindingAccepted(finding) ==
    finding \in {"DEGENERATED", "NOT_DEGENERATED", "INSUFFICIENT_EVIDENCE"}

FindingAcceptedV2(finding, scope) ==
    /\ FindingAccepted(finding)
    /\ scope = "NOT_APPLICABLE_GLOBAL_RULE" => finding = "NOT_DEGENERATED"
    /\ scope = "TRUE_INSUFFICIENT_EVIDENCE" => finding = "INSUFFICIENT_EVIDENCE"
    /\ scope = "VARIANT_DIRECT" => finding # "INSUFFICIENT_EVIDENCE"

RulesFound(summary, finding) == {rule \in RuleCode : summary.findings[rule] = finding}

DegenerationAcceptedV1(summary) ==
    LET triggered == RulesFound(summary, "DEGENERATED")
        insufficient == RulesFound(summary, "INSUFFICIENT_EVIDENCE")
    IN  /\ \A rule \in RuleCode : FindingAccepted(summary.findings[rule])
        /\ summary.triggered = triggered
        /\ summary.status = DegenerationStatus(triggered, insufficient, summary.nonZero)

(* V2 takes what is insufficient from the scopes.                          *)
DegenerationAcceptedV2(summary) ==
    LET triggered == RulesFound(summary, "DEGENERATED")
        insufficient == {rule \in RuleCode :
                            summary.scopes[rule] = "TRUE_INSUFFICIENT_EVIDENCE"}
    IN  /\ \A rule \in RuleCode :
               FindingAcceptedV2(summary.findings[rule], summary.scopes[rule])
        /\ summary.triggered = triggered
        /\ summary.status = DegenerationStatus(triggered, insufficient, summary.nonZero)

DegenerationAccepted(semantics, degeneration) ==
    \A variant \in Range(Others) :
        IF semantics = "V1" THEN DegenerationAcceptedV1(degeneration[variant])
        ELSE DegenerationAcceptedV2(degeneration[variant])

EvaluateDegeneration(semantics, e, deltas) ==
    [variant \in Range(Others) |-> DegenerationSummary(semantics, e, deltas, variant)]

(* In V2 the cutoffs of the Baseline are evidence of their own.            *)
GlobalRewrite(e) == IF CutoffRewrite(e.cutoffs) THEN "DEGENERATED" ELSE "NOT_DEGENERATED"

-----------------------------------------------------------------------------
(* Gates *)

\* FROZEN_AUTHORITY stands for the fifteen gates the frozen inputs decide.
DeferredGate == {"ALL_CASES_MUST_EXECUTE", "OOS_SAMPLE_COVERAGE", "FREEZE_SOURCE_BOUND"}
PartialGate == {
    "ALL_CORE_RUNS_MUST_AUDIT", "ALL_METRIC_REPORTS_MUST_SOURCE_BIND",
    "BASELINE_BATCH_REPLAY_PARITY", "FIXED_CUTOFF_STABILITY",
    "DETERMINISTIC_REPEAT", "DECIMAL_CONTEXT_INDEPENDENCE",
    "TEN_AGGREGATES_ALWAYS_PRESENT"}
Gate == {"FROZEN_AUTHORITY", "VARIANT_REPLAY_SAMPLE_PARITY", "NO_NEIGHBORHOOD_DEGENERATION"}
            \cup DeferredGate \cup PartialGate

(* What a gate that passes is worth before the OOS cases have run.         *)
PassOf(gate) ==
    CASE gate \in DeferredGate -> "DEFERRED_TO_C008C_C"
      [] gate \in PartialGate  -> "PARTIAL_PASS_DEFERRED_OOS"
      [] OTHER                 -> "PASS"

AllMatch(comparisons) == \A key \in DOMAIN comparisons : comparisons[key] = "MATCH"
SamplesMatch(replays, samples) == \A sample \in samples : replays[sample].status = "MATCH"

(* Gates are not evaluated on less than the evidence of every execution.   *)
EvidenceComplete(semantics, e) ==
    /\ DOMAIN e.results = Range(ExecutionPair)
    /\ DOMAIN e.repeats = Range(ExecutionPair)
    /\ semantics = "V2" => DOMAIN e.sames = Range(ExecutionPair)
    /\ DOMAIN e.replays = ReplaySample
    /\ DOMAIN e.cutoffs = Range(ExecutableCase)

(* What both semantics ask; the audit gate and the source-bind gate alike  *)
(* ask that every pair passed.                                             *)
EvidenceHolds(e, gate) ==
    CASE gate \in {"ALL_CORE_RUNS_MUST_AUDIT", "ALL_METRIC_REPORTS_MUST_SOURCE_BIND"} ->
             \A pair \in DOMAIN e.results : e.results[pair].status = "PASSED"
      [] gate = "TEN_AGGREGATES_ALWAYS_PRESENT" ->
             \A pair \in DOMAIN e.results : Complete(e.results[pair])
      [] gate = "BASELINE_BATCH_REPLAY_PARITY" -> SamplesMatch(e.replays, BaselineSample)
      [] gate = "VARIANT_REPLAY_SAMPLE_PARITY" -> SamplesMatch(e.replays, VariantSample)
      [] gate = "FIXED_CUTOFF_STABILITY" -> ~CutoffRewrite(e.cutoffs)
      [] gate = "DECIMAL_CONTEXT_INDEPENDENCE" -> AllMatch(e.repeats)
      [] OTHER -> TRUE

NoneDegenerated(degeneration) ==
    \A variant \in Range(Others) :
        degeneration[variant].status \notin {"DEGENERATED", "INSUFFICIENT_EVIDENCE"}

(* V1 answers both repeat gates from the repeat in a changed context.      *)
HoldsV1(e, degeneration, gate) ==
    CASE gate = "DETERMINISTIC_REPEAT" -> AllMatch(e.repeats)
      [] gate = "NO_NEIGHBORHOOD_DEGENERATION" -> NoneDegenerated(degeneration)
      [] OTHER -> EvidenceHolds(e, gate)

HoldsV2(e, degeneration, gate) ==
    CASE gate = "DETERMINISTIC_REPEAT" -> AllMatch(e.sames)
      [] gate = "NO_NEIGHBORHOOD_DEGENERATION" ->
             NoneDegenerated(degeneration) /\ GlobalRewrite(e) = "NOT_DEGENERATED"
      [] OTHER -> EvidenceHolds(e, gate)

EvaluateGates(semantics, e, degeneration) ==
    LET Passes(gate) == IF semantics = "V1" THEN HoldsV1(e, degeneration, gate)
                        ELSE HoldsV2(e, degeneration, gate)
    IN  [gate \in Gate |-> IF Passes(gate) THEN PassOf(gate) ELSE "FAIL"]

-----------------------------------------------------------------------------
(* Summaries *)

(* The Baseline has no deltas of its own; all of them are unavailable.     *)
MetricCounts(results, deltas, partition, variant, metric) ==
    IF variant = Baseline
    THEN [comparable |-> 0, equal |-> 0, nonZero |-> 0,
          unavailable |-> Cardinality(CasesIn(partition))]
    ELSE LET own == deltas[<<partition, variant>>].deltas
             keys == {key \in DOMAIN own : key[2] = metric}
             Known(key) == own[key].absolute # None
         IN  [comparable |-> Count(keys, Known),
              equal |-> Count(keys, LAMBDA key : Known(key) /\ own[key].absolute = 0),
              nonZero |-> Count(keys, LAMBDA key : Known(key) /\ own[key].absolute # 0),
              unavailable |-> Count(keys, LAMBDA key : ~Known(key))]

VariantSummary(e, deltas, degeneration, partition, variant) ==
    LET own == [case \in CasesIn(partition) |-> e.results[[case |-> case, variant |-> variant]]]
        Having(status) == Count(DOMAIN own, LAMBDA case : own[case].status = status)
    IN  [executed |-> Cardinality(DOMAIN own),
         passed |-> Having("PASSED"),
         failed |-> Count(DOMAIN own, LAMBDA case : own[case].status # "PASSED"),
         auditFailures |-> Having("CAUSAL_AUDIT_FAILED"),
         metricFailures |-> Having("METRIC_EVALUATION_FAILED"),
         bindFailures |-> Having("METRIC_SOURCE_BIND_FAILED"),
         counts |-> [metric \in Metric |->
                        MetricCounts(e.results, deltas, partition, variant, metric)],
         events |-> Total(own, LAMBDA result : result.events),
         boxes |-> Total(own, LAMBDA result : result.boxes),
         complete |-> Count(DOMAIN own, LAMBDA case : Complete(own[case])),
         replay |-> IF SamplesMatch(e.replays, {sample \in ReplaySample :
                                                   sample.variant = variant})
                    THEN "MATCH" ELSE "MISMATCH",
         degeneration |-> IF variant = Baseline THEN "NOT_DEGENERATED"
                          ELSE degeneration[variant].status]

VariantSummaryAccepted(summary, partition) ==
    /\ summary.executed = Cardinality(CasesIn(partition))
    /\ summary.passed + summary.failed = summary.executed
    /\ summary.complete <= summary.executed
    /\ \A metric \in Metric :
           summary.counts[metric].comparable =
               summary.counts[metric].equal + summary.counts[metric].nonZero

PartitionSummaries(e, deltas, degeneration) ==
    [partition \in Partition |->
        [variants |-> [variant \in Range(Variant) |->
                          VariantSummary(e, deltas, degeneration, partition, variant)],
         pairs |-> Count(DOMAIN e.results,
                         LAMBDA pair : PartitionOf(pair.case) = partition),
         passed |-> Count(DOMAIN e.results,
                          LAMBDA pair : /\ PartitionOf(pair.case) = partition
                                        /\ e.results[pair].status = "PASSED"),
         failed |-> Count(DOMAIN e.results,
                          LAMBDA pair : /\ PartitionOf(pair.case) = partition
                                        /\ e.results[pair].status # "PASSED"),
         deltas |-> SumFunction([variant \in Range(Others) |->
                        Cardinality(DOMAIN deltas[<<partition, variant>>].deltas)])]]

PartitionSummaryAccepted(summary, partition) ==
    LET cases == Cardinality(CasesIn(partition))
    IN  /\ summary.pairs = cases * Len(Variant)
        /\ summary.passed + summary.failed = summary.pairs
        /\ summary.deltas = cases * Len(Others) * Cardinality(Metric)
        /\ \A variant \in Range(Variant) :
               VariantSummaryAccepted(summary.variants[variant], partition)

-----------------------------------------------------------------------------
(* The report *)

StageOf(gates) ==
    IF \E gate \in Gate : gates[gate] = "FAIL"
    THEN "BLOCKED_BEFORE_OOS" ELSE "READY_FOR_LOCKED_OOS"

(* V2 derives the stage only from gates that have their frozen status.     *)
StageDerivable(gates) ==
    StageOf(gates) = "READY_FOR_LOCKED_OOS" =>
        \A gate \in Gate : gates[gate] = PassOf(gate)

Judge(semantics, e) ==
    [results |-> e.results,
     repeats |-> e.repeats,
     sames |-> e.sames,
     replays |-> e.replays,
     cutoffs |-> e.cutoffs,
     deltas |-> e.deltas,
     degeneration |-> e.degeneration,
     global |-> IF semantics = "V2" THEN GlobalRewrite(e) ELSE None,
     gates |-> e.gates,
     partitions |-> PartitionSummaries(e, e.deltas, e.degeneration),
     stage |-> StageOf(e.gates)]

(* V1's report looks at its members again before it believes its gates.    *)
HardFailure(report) ==
    \/ \E pair \in DOMAIN report.results :
           report.results[pair].status # "PASSED"
    \/ ~AllMatch(report.repeats)
    \/ ~SamplesMatch(report.replays, ReplaySample)
    \/ CutoffRewrite(report.cutoffs)
    \/ \E variant \in Range(Others) : report.degeneration[variant].status = "DEGENERATED"
    \/ \E gate \in Gate : report.gates[gate] = "FAIL"

ReportAcceptedV1(report) ==
    report.stage = IF HardFailure(report)
                   THEN "BLOCKED_BEFORE_OOS" ELSE "READY_FOR_LOCKED_OOS"

(* What a report concludes, derived once more from its own evidence.       *)
Rederived(semantics, report) ==
    /\ report.deltas = CalculateDeltas(report.results)
    /\ report.degeneration = EvaluateDegeneration(semantics, report, report.deltas)
    /\ report.gates = EvaluateGates(semantics, report, report.degeneration)
    /\ report.partitions =
           PartitionSummaries(report, report.deltas, report.degeneration)

(* V2's report must be what its evidence yields.                           *)
ReportAcceptedV2(report) ==
    /\ StageDerivable(report.gates)
    /\ report.stage = StageOf(report.gates)
    /\ report.global = GlobalRewrite(report)
    /\ Rederived("V2", report)

(* Every scheduled subject is there, whatever the semantics.               *)
ReportComplete(semantics, report) ==
    /\ EvidenceComplete(semantics, report)
    /\ DOMAIN report.deltas = Partition \X Range(Others)
    /\ DOMAIN report.degeneration = Range(Others)
    /\ DOMAIN report.partitions = Partition
    /\ DOMAIN report.gates = Gate

(* Every contract the records of the report meet while it is built.        *)
ReportAccepted(semantics, report) ==
    /\ \A partition \in Partition :
           PartitionSummaryAccepted(report.partitions[partition], partition)
    /\ ReportComplete(semantics, report)
    /\ IF semantics = "V1" THEN ReportAcceptedV1(report) ELSE ReportAcceptedV2(report)

(* The check of committed V1 evidence executes nothing: it derives again   *)
(* what the stored report concludes, and finds no locked case in it.       *)
ExistingAccepted(report) ==
    /\ ReportAccepted("V1", report)
    /\ Rederived("V1", report)
    /\ \A pair \in DOMAIN report.results : PartitionOf(pair.case) # "OOS"
=============================================================================
