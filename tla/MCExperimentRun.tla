--------------------------- MODULE MCExperimentRun ---------------------------
(***************************************************************************)
(* Instance of ExperimentRun: one development, one validation and one      *)
(* locked case, the Baseline and two variants, two metrics. A clean pair   *)
(* has one event, one box and twenty observations per metric, so that the  *)
(* validation case just reaches the floors; an EDGE pair keeps two         *)
(* observations, exactly a tenth, and a THIN one keeps one.                *)
(***************************************************************************)
EXTENDS ExperimentRun

MCCase == <<"dev", "val", "oos">>
MCSeedOf == [case \in {"dev", "val", "oos"} |->
    CASE case = "dev" -> 1 [] case = "oos" -> 3 [] OTHER -> 2]
MCVariant == <<"base", "more", "less">>
MCMetric == {"delay", "churn"}
MCPayload == {"run", "rounded", "replayed"}

Aggregates(value, count) ==
    [metric \in MCMetric |-> [value |-> value, eligible |-> count, matured |-> count]]

Clean ==
    [ran |-> TRUE, run |-> "run", boxes |-> 1, audit |-> "PASSED", vouched |-> TRUE,
     measured |-> TRUE, binds |-> TRUE,
     report |-> [events |-> 1, aggregates |-> Aggregates(5, 20)]]

Everywhere(answer) == [context \in {"NORMAL", "ALTERED", "REPLAY"} |-> answer]
Only(context, answer) == [Everywhere(Clean) EXCEPT ![context] = answer]
Covering(value, count) ==
    Everywhere([Clean EXCEPT !.report.aggregates = Aggregates(value, count)])

MCAnswerOf ==
    [CLEAN |-> Everywhere(Clean),
     PIPELINE |-> Everywhere([Clean EXCEPT !.ran = FALSE]),
     AUDIT_ERROR |-> Everywhere([Clean EXCEPT !.audit = "ERROR", !.vouched = FALSE]),
     AUDIT_FAIL |-> Everywhere([Clean EXCEPT !.audit = "FAILED", !.vouched = FALSE]),
     METRIC |-> Everywhere([Clean EXCEPT !.measured = FALSE]),
     BIND |-> Everywhere([Clean EXCEPT !.binds = FALSE]),
     DECIMAL |-> Only("ALTERED", [Clean EXCEPT !.run = "rounded"]),
     DECIMAL_AUDIT |-> Only("ALTERED", [Clean EXCEPT !.audit = "FAILED"]),
     REPLAY |-> Only("REPLAY", [Clean EXCEPT !.run = "replayed"]),
     REPLAY_AUDIT |-> Only("REPLAY", [Clean EXCEPT !.audit = "FAILED", !.vouched = FALSE]),
     REWRITE |-> Everywhere(Clean),
     LEDGER |-> Everywhere(Clean),
     OUTCOME |-> Everywhere(Clean),
     LAST |-> Everywhere(Clean),
     TRUNCATE |-> Everywhere(Clean),
     SHORT |-> Everywhere(Clean),
     EMPTY |-> Everywhere([Clean EXCEPT !.boxes = 0,
                              !.report = [events |-> 0, aggregates |-> Aggregates(None, 0)]]),
     THIN |-> Covering(5, 1),
     EDGE |-> Covering(7, 2)]

MCNature == DOMAIN MCAnswerOf

Stable == [raises |-> FALSE, ends |-> TRUE, frames |-> TRUE, ledger |-> TRUE, metric |-> TRUE]
MCCheckpointsOf == [n \in MCNature |->
    CASE n = "REWRITE" -> <<Stable, [Stable EXCEPT !.frames = FALSE, !.metric = FALSE], Stable>>
      [] n = "LEDGER" ->
             <<[Stable EXCEPT !.ledger = FALSE], [Stable EXCEPT !.metric = FALSE], Stable>>
      [] n = "OUTCOME" ->
             <<[Stable EXCEPT !.metric = FALSE], [Stable EXCEPT !.ledger = FALSE], Stable>>
      [] n = "LAST" -> <<Stable, Stable, [Stable EXCEPT !.metric = FALSE]>>
      [] n = "TRUNCATE" -> <<Stable, [Stable EXCEPT !.raises = TRUE], Stable>>
      [] n = "SHORT" -> <<Stable, [Stable EXCEPT !.ends = FALSE], Stable>>
      [] OTHER -> <<Stable, Stable, Stable>>]
=============================================================================
