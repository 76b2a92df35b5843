------------------------------ MODULE RootCause ------------------------------
(***************************************************************************)
(* The root-cause analysis of a V1 report: a bounded schedule of pairs is  *)
(* executed three times more, one checkpoint of every cutoff case is taken *)
(* apart, every degeneration finding is attributed, and a disposition says *)
(* whether the harness or the protected core is to be corrected            *)
(* (validation/experiments/execution/rca). The fixed numbers of pairs and  *)
(* cases the contracts repeat are those of the frozen plan.                *)
(***************************************************************************)
EXTENDS ExperimentVerdict

-----------------------------------------------------------------------------
(* The schedule *)

(* Every scenario of the plan has a validation seed.                       *)
ASSUME ValidationAssumption == CasesIn("VALIDATION") # {}

FirstValidation == CasesOf({"VALIDATION"})[1]

(* The Baseline in every executable case, the others in one.               *)
DiagnosticPair ==
    [case : Range(ExecutableCase), variant : {Baseline}]
        \cup [case : {FirstValidation}, variant : Range(Others)]

(* A stable case is looked at in its middle, another where it first became *)
(* unstable. A case that failed before it did has no such checkpoint.      *)
Selectable(cutoff) == cutoff.status = "STABLE" \/ cutoff.unstable # {}

SelectedCheckpoint(cutoff) ==
    IF cutoff.status = "STABLE" THEN (cutoff.checkpoints \div 2) + 1 ELSE Min(cutoff.unstable)

-----------------------------------------------------------------------------
(* Repeats taken apart *)

DiagnosticLayer == {"CORE", "AUDIT", "METRIC", "CASE_RESULT"}

(* What a layer of a result says, and the identities it carries: those of  *)
(* an audit or a report bind the run, those of the result bind all three.  *)
Semantic(result, layer) ==
    CASE layer = "CORE"   -> result.run
      [] layer = "AUDIT"  -> result.audit
      [] layer = "METRIC" -> result.metric
      [] OTHER -> <<result.status, result.aggregates, result.events, result.boxes>>

Identity(result, layer) ==
    CASE layer = "CORE"   -> result.run
      [] layer = "AUDIT"  -> IF result.audit = None THEN None ELSE <<result.run, result.audit>>
      [] layer = "METRIC" -> IF result.metric = None THEN None ELSE <<result.run, result.metric>>
      [] OTHER -> <<result.run, result.audit, result.metric>>

(* The first layer that differs, its meaning before its identity.          *)
MismatchLayer(semantic, identity) ==
    CASE "CORE" \in semantic   -> "CORE_RUN_SEMANTIC"
      [] "CORE" \in identity \ semantic -> "CORE_RUN_IDENTITY"
      [] "CORE" \notin semantic \cup identity /\ "AUDIT" \in semantic -> "AUDIT_SEMANTIC"
      [] "CORE" \notin semantic \cup identity /\ "AUDIT" \in identity \ semantic ->
             "AUDIT_IDENTITY_OR_PROVENANCE"
      [] {"CORE", "AUDIT"} \cap (semantic \cup identity) = {} /\ "METRIC" \in semantic ->
             "METRIC_SEMANTIC"
      [] {"CORE", "AUDIT"} \cap (semantic \cup identity) = {}
             /\ "METRIC" \in identity \ semantic -> "METRIC_IDENTITY_OR_PROVENANCE"
      [] semantic \cup identity = {"CASE_RESULT"} -> "CASE_RESULT_DERIVED"
      [] OTHER -> "NONE"

Diagnosis(first, second) ==
    LET semantic == {layer \in DiagnosticLayer :
                        Semantic(first, layer) # Semantic(second, layer)}
        identity == {layer \in DiagnosticLayer :
                        Identity(first, layer) # Identity(second, layer)}
    IN  [semantic |-> semantic,
         identity |-> identity,
         full |-> semantic \cup identity = {},
         coreSemantic |-> "CORE" \in semantic,
         layer |-> MismatchLayer(semantic, identity),
         disposition |->
            CASE semantic \cup identity = {} -> "NO_ROOT_CAUSE_FOUND"
              [] semantic \ {"CASE_RESULT"} # {} -> "PROTECTED_CORE_REMEDIATION_REQUIRED"
              [] OTHER -> "HARNESS_CORRECTION_REQUIRED"]

DiagnosisAccepted(diagnosis) ==
    LET differing == diagnosis.semantic \cup diagnosis.identity
    IN  /\ diagnosis.full <=> differing = {}
        /\ diagnosis.coreSemantic <=> "CORE" \in diagnosis.semantic
        /\ diagnosis.layer = "NONE" <=> diagnosis.full
        /\ diagnosis.layer = MismatchLayer(diagnosis.semantic, diagnosis.identity)
        /\ diagnosis.disposition = "NO_ROOT_CAUSE_FOUND" <=> diagnosis.full
        /\ diagnosis.disposition = "PROTECTED_CORE_REMEDIATION_REQUIRED" <=>
               diagnosis.semantic \ {"CASE_RESULT"} # {}

(* A pair is executed twice in the normal context and once in another.     *)
RunItem(first, second, altered) ==
    [same |-> Diagnosis(ExecutePair(first), ExecutePair(second)),
     decimal |-> Diagnosis(ExecutePair(first), ExecutePair(altered))]

-----------------------------------------------------------------------------
(* One checkpoint taken apart *)

(* The shorter run is always compared as a beginning here, which raises    *)
(* when the checkpoint is the last. When it ends before the checkpoint,    *)
(* its schedule still begins the other, and the contract refuses a flag    *)
(* that contradicts the compared schedules.                                *)
Diagnosable(checkpoints, index) ==
    index < Len(checkpoints) /\ ~checkpoints[index].raises /\ checkpoints[index].ends

(* The layers at which a difference may be filed; the first is named.      *)
CutoffRewriteLayer ==
    <<"PREFIX_SOURCE", "PROCESSING_SCHEDULE", "FRAME_BUNDLE", "ACTIVE_BOX_LEDGER",
      "METRIC_OUTCOME", "IDENTITY_OR_SOURCE_BINDING", "COMPARISON_AUDIT">>

Differs(diagnosis, layer) ==
    \/ layer = "PREFIX_SOURCE" /\ ~diagnosis.source
    \/ layer = "PROCESSING_SCHEDULE" /\ ~diagnosis.schedule
    \/ layer = "FRAME_BUNDLE" /\ ~diagnosis.frames
    \/ layer = "ACTIVE_BOX_LEDGER" /\ ~diagnosis.ledger
    \/ layer = "METRIC_OUTCOME" /\ ~diagnosis.metric
    \/ layer = "IDENTITY_OR_SOURCE_BINDING" /\ diagnosis.identityOnly
    \/ layer = "COMPARISON_AUDIT" /\ ~(diagnosis.sharedAudit /\ diagnosis.prefixAudit)

FinalLayer(diagnosis) ==
    LET differing == {position \in DOMAIN CutoffRewriteLayer :
                         Differs(diagnosis, CutoffRewriteLayer[position])}
    IN  IF differing = {} THEN "NONE" ELSE CutoffRewriteLayer[Min(differing)]

(* A source cut off at a time holds nothing later and is complete, so it   *)
(* is invalid only with its schedule. A report names the run it is of, and *)
(* the shorter run is another one, so the full reports always differ.      *)
CutoffDiagnosis(checkpoint) ==
    LET compared ==
            [source |-> checkpoint.ends,
             schedule |-> checkpoint.ends,
             begins |-> TRUE,
             sharedAudit |-> ComparisonAudit(checkpoint),
             prefixAudit |-> ComparisonAudit(checkpoint),
             frames |-> checkpoint.frames,
             ledger |-> checkpoint.ledger,
             metric |-> checkpoint.metric,
             full |-> FALSE,
             identityOnly |-> checkpoint.metric,
             layer |-> "NONE"]
    IN  [compared EXCEPT !.layer = FinalLayer(compared)]

(* The flags are those of the compared components; the schedules compared  *)
(* are the shorter one and the beginning of the other.                     *)
CutoffDiagnosisAccepted(diagnosis) ==
    /\ diagnosis.schedule = diagnosis.begins
    /\ diagnosis.identityOnly <=> diagnosis.metric /\ ~diagnosis.full
    /\ diagnosis.layer = "NONE" <=>
           \A layer \in Range(CutoffRewriteLayer) : ~Differs(diagnosis, layer)
    /\ \A position \in DOMAIN CutoffRewriteLayer :
           diagnosis.layer = CutoffRewriteLayer[position] <=>
               /\ Differs(diagnosis, CutoffRewriteLayer[position])
               /\ \A earlier \in 1 .. position - 1 :
                      ~Differs(diagnosis, CutoffRewriteLayer[earlier])

-----------------------------------------------------------------------------
(* Degeneration attributed *)

EvidenceKind(rule, finding) ==
    CASE finding = "INSUFFICIENT_EVIDENCE" -> "INSUFFICIENT_EVIDENCE"
      [] finding # "INSUFFICIENT_EVIDENCE" /\ rule = "FUTURE_PREFIX_REWRITE" ->
             "GLOBAL_BASELINE_PROPAGATION"
      [] finding # "INSUFFICIENT_EVIDENCE" /\ rule = "INVALID_OR_REPAIRED_CONFIG" ->
             "SHARED_STATIC_EVIDENCE"
      [] OTHER -> "VARIANT_DIRECT"

(* What is left of a V1 summary without the cutoffs of the Baseline.       *)
DescriptiveStatus(kinds, triggered, nonZero) ==
    LET Of(kind) == {rule \in RuleCode : kinds[rule] = kind}
        own == triggered \cap (Of("VARIANT_DIRECT") \cup Of("SHARED_STATIC_EVIDENCE"))
        insufficient == Of("INSUFFICIENT_EVIDENCE")
    IN  CASE own # {} -> "DEGENERATED"
          [] own = {} /\ insufficient # {} -> "INSUFFICIENT_EVIDENCE"
          [] own = {} /\ insufficient = {} /\ nonZero > 0 -> "SENSITIVE"
          [] OTHER -> "NOT_DEGENERATED"

AttributeSummary(summary, kinds) ==
    [kinds |-> kinds,
     formal |-> summary.status,
     direct |-> {rule \in summary.triggered : kinds[rule] = "VARIANT_DIRECT"},
     propagated |-> {rule \in summary.triggered : kinds[rule] = "GLOBAL_BASELINE_PROPAGATION"},
     descriptive |-> DescriptiveStatus(kinds, summary.triggered, summary.nonZero)]

AttributeDegeneration(degeneration) ==
    [variant \in DOMAIN degeneration |->
        AttributeSummary(degeneration[variant],
            [rule \in RuleCode |-> EvidenceKind(rule, degeneration[variant].findings[rule])])]

-----------------------------------------------------------------------------
(* The root causes *)

HarnessSubject == {
    "DETERMINISM_GATE_CONFLATION", "DEGENERATION_GLOBAL_PROPAGATION", "PREFIX_HARNESS_ERROR"}
ProtectedSubject == {
    "CORE_DECIMAL_CONTEXT_DEPENDENCE", "METRIC_FIXED_CUTOFF_SEMANTICS",
    "SAME_CONTEXT_NONDETERMINISM", "FRAME_OR_LEDGER_FUTURE_REWRITE"}

(* V1 always answers both repeat gates from the comparisons in an altered  *)
(* context; a rewrite rule propagates whether it was triggered or not.     *)
Found(subject, repeats, cutoffs, attributions) ==
    CASE subject = "DETERMINISM_GATE_CONFLATION" -> TRUE
      [] subject = "DEGENERATION_GLOBAL_PROPAGATION" ->
             \E variant \in DOMAIN attributions, rule \in RuleCode :
                 attributions[variant].kinds[rule] = "GLOBAL_BASELINE_PROPAGATION"
      [] subject = "CORE_DECIMAL_CONTEXT_DEPENDENCE" ->
             \E pair \in DOMAIN repeats : repeats[pair].decimal.coreSemantic
      [] subject = "METRIC_FIXED_CUTOFF_SEMANTICS" ->
             \E case \in DOMAIN cutoffs : ~cutoffs[case].metric
      [] subject = "SAME_CONTEXT_NONDETERMINISM" ->
             \E pair \in DOMAIN repeats : ~repeats[pair].same.full
      [] subject = "FRAME_OR_LEDGER_FUTURE_REWRITE" ->
             \E case \in DOMAIN cutoffs : ~cutoffs[case].frames \/ ~cutoffs[case].ledger
      [] OTHER ->
             \E case \in DOMAIN cutoffs :
                 \/ ~cutoffs[case].source \/ ~cutoffs[case].schedule
                 \/ ~cutoffs[case].sharedAudit \/ ~cutoffs[case].prefixAudit

DispositionOf(subjects) ==
    LET harness == subjects \cap HarnessSubject # {}
        protected == subjects \cap ProtectedSubject # {}
    IN  CASE harness /\ protected -> "MIXED_ROOT_CAUSE"
          [] harness /\ ~protected -> "HARNESS_CORRECTION_REQUIRED"
          [] ~harness /\ protected -> "PROTECTED_CORE_REMEDIATION_REQUIRED"
          [] OTHER -> "NO_ROOT_CAUSE_FOUND"

RootCauseReport(repeats, cutoffs, attributions) ==
    LET subjects == {subject \in HarnessSubject \cup ProtectedSubject :
                        Found(subject, repeats, cutoffs, attributions)}
    IN  [repeats |-> repeats,
         cutoffs |-> cutoffs,
         attributions |-> attributions,
         sameMismatches |-> Count(DOMAIN repeats, LAMBDA pair : ~repeats[pair].same.full),
         decimalMismatches |-> Count(DOMAIN repeats, LAMBDA pair : ~repeats[pair].decimal.full),
         metricRewrites |-> Count(DOMAIN cutoffs, LAMBDA case : ~cutoffs[case].metric),
         subjects |-> subjects,
         disposition |-> DispositionOf(subjects)]
=============================================================================
