# TLA+ verification of the MSA market-structure pipeline

This directory holds TLA+ models of the research pipeline in
`src/python/msa`, the TLC runs that check them on small instances, and TLAPS
proofs of the properties that matter most. The pipeline is deterministic,
single-threaded and offline. What makes it hard is *time*: every stage must
answer "what was known at processing time T" from bars that become available
late and out of order, and it answers by **recomputing everything from nothing
at every T**. The published ledgers must nevertheless look as if they had been
written once, append-only, each event at the instant it became known. Around
the pipeline stands a validation layer, which audits runs, measures them and
runs an experiment over many of them. The experiment is the one part with
concurrency (a pool of worker processes), with files and with crashes.

## 1. Inventory

| Component | Source (`src/python/msa/…`) | State it keeps | Operations | Correct when | Model |
|---|---|---|---|---|---|
| Market data contracts | `data/contracts.py`, `data/quality.py` | immutable bars, quality counters | bar validation, sequence checks | only ascending, non-overlapping bars with sane availability reach a stage | full |
| Configuration and loader | `data/source_config.py`, `data/loaders.py` | running counters | parse rows, report, strict load | a load without errors is exactly a source the stages accept | full |
| Alignment, resampling | `data/alignment.py`, `data/resampling.py` | none between calls | bucket, aggregate, as-of calls | a target bar is complete only when all members are, available no earlier than the last of them, and never taken back | full |
| Domain models | `domain/*` | immutable values | validation | a value never claims to be known before its confirm time | in part |
| Swing detectors (C-003) | `research/swing/*` | trend leg, pending references | as-of, batch, replay | right-side confirmation, no candidate leaks, none is missed | full |
| Levels (C-004) | `research/levels/*` | period buckets, reaction attempts | as-of, batch, replay | a period extreme appears only after its period; a reaction inside its horizon | full |
| Level pool (C-005) | `research/pool/*` | clusters, formations | cluster, batch, replay | clusters are the single linkage of what was confirmed, whatever the order of ids | full |
| Structure lifecycle (C-006A) | `research/lifecycle/*` | a working state and ledger per subject | activate, test, break, flip, retire; batch; replay | section 4 | full |
| Timeframe state (C-006B) | `research/timeframe_state/*` | current and last complete pair, direction | select, resolve, direct, batch, replay | pairs never cross; direction follows from complete pairs; the validators accept what the engine builds | full |
| Resonance frame (C-007A) | `research/resonance/assembler.py`, `contracts.py` | none | assemble what is visible | every slot is the latest visible one, staleness is explicit | full |
| Resonance scoring (C-007B) | `research/resonance/scoring*.py` | none | zones, contributions, ranks | zones are linkage clusters; dependent evidence counts once | in part |
| Active box (C-007C) | `research/active_box/*` | active box, frozen history | create, retain, freeze, replace | one open box at most; it holds the price; a selection stands unless beaten | full |
| Core pipeline (C-007D) | `research/msa_core/*` | the stages' results | batch, explicit replay | stages agree on the processing time; a truncated source gives the beginning of the run | full |
| Causal audit (C-008A) | `validation/causal_audit.py`, `comparison.py` | findings | look at a run, rebuild it, compare | silent on a sound run | in part |
| Metrics (C-008B) | `validation/metrics/*` | none | events, windows, matching, aggregates | a result is never taken back at a later cutoff | in part |
| Experiment execution (C-008C-B) | `validation/experiments/execution/*` | results of workers, evidence files | execute, repeat, replay, cut off, judge, write | nothing wrong is called ready; blame stays with its subject; evidence is append-only | in part |
| Root-cause analysis | `…/execution/rca/*` | a report | diagnose, attribute, dispose | a classification rests on a recorded difference and meets its contracts | in part |
| Experiment plan and gates | `validation/experiments/*.py` | frozen tables | load, validate | | none |
| Remediation, reference profile | `validation/remediation/*`, `reference/*` | reports, a frozen configuration | re-run in a fixed Decimal context; identify | | none |
| Tools, package glue | `tools/validation/*`, `__init__.py` | files | write evidence | | none |

**Interactions.** Data flows one way: rows → bars → resampled bars → swings
and levels → pool clusters → lifecycle → timeframe state → resonance frame →
scores → active box → audit and metrics → experiment. Each stage is called
with the immutable output of the one before it and a processing time; there
are no callbacks and no shared mutable state. The core pipeline calls its
stages in order at every time of a schedule made of all confirm and
availability times. A replay repeats the calls on a schedule of the caller's
and refuses one that would discover an event late. The auditor and the
evaluator read a finished run. The experiment hands pairs of a dataset case
and a configuration variant to worker processes, collects their answers in
whatever order they come, repeats, replays and truncates some, reaches a
verdict and writes two files.

**What is hard.** Availability out of order (a late early bar hides later
ones already available); several events released by one late bar; inclusive
thresholds measured in bars rather than clock time; several outcomes due on
one bar; wall-clock times that occur twice; ties that only a digest decides;
recomputed snapshots that must be exact prefixes of later ones; validators
that derive each object a second time and raise on disagreement; workers that
finish in any order, steps that fail one by one, a crash between emptying a
file and filling it. The full list, line by line, is under `hazards` in
`PROJECT.json`. Two hazards are there without a property: the ambient Decimal
context of the selector (not modelled) and the number of matched pairs a
control may have (modelled, but matches are few in the instance).

## 2. Modules

| Module | Models |
|---|---|
| `CanonicalBars` | the bar contract, the source sequence, causal prefix and cumulative availability |
| `CausalLedger` | **abstract specification**: what every stage promises about its ledger as time advances |
| `Resampling`, `Ingestion` | bars to buckets; a file read row by row into bars and then resampled at rising times |
| `SwingRules`, `LevelRules` | the detectors and generators as operators on a sequence of bars, with references written independently |
| `CandidateScan` | the stateful detectors over lazily chosen bars |
| `CandidateHistory` | every detector and generator over one whole source: batch, default replay, explicit replay, free as-of calls |
| `SingleLink` | the union-find that pool, scoring and dependency groups share, and the reference partition it must compute |
| `LevelPool` | clustering, formations, batch and replay, the contracts |
| `LifecycleRules`, `LifecycleContracts` | the engine's per-subject rules; the validators, written independently of them |
| `Lifecycle`, `LifecycleHistory` | one `build_as_of` as a scan; batch, replay and free as-of calls over one source |
| `TimeframeSelection`, `TimeframeState` | selection, pairs and direction as operators; the engine over a growing lifecycle history, its batch and replay, the history validator with its own memory |
| `TimeframeViews` | the explanation, report and provenance of every snapshot beside its state, and the constructors that compare them |
| `ResonanceFrames`, `ResonanceScores` | assembler and scorer as functions of an input, with their validators |
| `BoxEpisodes` | **abstract specification**: one open episode at most, none reopened, replacement in one step |
| `ActiveBox` | eligibility, order, hysteresis; the selector, its batch, calls with any earlier box, the validators |
| `StructuralMetrics` | events, windows, observations, control matching, statuses of the aggregates |
| `MsaCore` | **composition**: frames, scores and selector in lock step, as a batch, a replay, or the batch of a truncated source |
| `CausalAudit` | the audit of a run `MsaCore` has finished, and the comparison of two |
| `ExperimentExecution`, `ExperimentVerdict`, `RootCause` | what executions leave; what is concluded from it, in both semantics; the root-cause analysis |
| `ExperimentRun` | **composition**: worker pool, verdict, evidence files, crashes and restarts, analysis |
| `MC…` | small instances, one for each module a run names |
| `SharedProofs` | what several of the proofs need: extremes of sets of numbers, sums over finite sets, and that the union-find of `SingleLink` computes single linkage |
| `BarProofs` | TLAPS theorems about `Resampling`, `Ingestion`, `CandidateScan` and `CandidateHistory` |
| `LifecycleProofs`, `TimeframeStateProofs`, `LevelPoolProofs`, `ActiveBoxProofs`, `MsaCoreProofs`, `ExperimentRunProofs` | TLAPS theorems about the modules they are named after (`LifecycleProofs`: about `LifecycleHistory` too, `TimeframeStateProofs`: about `TimeframeViews` too) |

How they compose:

    CanonicalBars ── Resampling ── Ingestion
                  ├─ SwingRules ── LevelRules ── CandidateScan, CandidateHistory
                  └─ LifecycleRules, LifecycleContracts ── Lifecycle, LifecycleHistory
    TimeframeSelection ── TimeframeState ── TimeframeViews
    SingleLink ── LevelPool
               └─ ResonanceFrames ── ResonanceScores ── StructuralMetrics ── MsaCore ── CausalAudit
    ActiveBox ─────────────────────────────────────────────────(INSTANCE)──────┘
    ExperimentExecution ── ExperimentVerdict ── RootCause ── ExperimentRun

`LifecycleHistory` and `TimeframeState` implement `CausalLedger`, `ActiveBox`
implements `BoxEpisodes` (INSTANCE with a refinement mapping). Each later
stage takes the stage before it as its environment: `TimeframeState` reads any
lifecycle history the engine could publish, `ActiveBox` any sequence of score
frames, `MsaCore` any lifecycle, direction and bars of its instance, and
`ScoresSuitSelector` checks that the scores the composition makes keep the
promise `ActiveBox` and its theorems assume (`ZoneAssumption`). `MsaCore`
needs from the experiment nothing; the experiment takes what pipeline,
auditor and evaluator answer for a pair as a value.

A definition commented *Mutant of …* is a plausible wrong version of the
definition after it; no specification uses it. It is there so that each
property can be shown to fail when the code is wrong.

## 3. State and actions against the code

Three abstractions hold everywhere. A digest is replaced by the content it
digests; where digests break a tie, `order` (in the detectors) is an arbitrary
direction of comparison, elsewhere the tie is left open or the later key left
out. Decimals are integers, or integers in a unit of their kind, because the
code compares, adds and multiplies them by constants; `StructuralMetrics`
keeps exact rationals as pairs. Serialisation, wording of rationales and
issues, provenance texts and counters that nothing reads are left out.

### From rows to bars

| Model | Code |
|---|---|
| `ReadRow(row)` | one turn of `load_records`: interval, wall time to instant (`Instant`), completion, availability, or the category of the first failure |
| `Finish` | the sequence checks of `quality.py` and the strict load |
| `ResampleAsOf(policy, time)` | `resample_as_of` on the loaded bars; `Batch` is `resample_load_result` |

Wall times carry an offset or none; instants from `ClockChange` on have another
offset, so some wall times come twice. A row's fields that are not times are a
fault flag, the category of the first of them that fails to parse.

### Detectors and levels

| Model | Code |
|---|---|
| `ReadBar(bar)` in `CandidateScan` | one turn of the loops of `atr_reversal.py`, `structure_break.py` and `reaction.py`, all reading the same bars |
| `atr`, `scan`, `reaction` | trend leg, anchor and extreme; known and pending seeds; the attempts at each zone |
| `DefaultStep`, `ExplicitStep` | one turn of `iter_replay_events` on the default or on an explicit schedule, with its guard |
| `AsOfStep` | `detect_as_of` called directly |
| `answer` | what `detect_as_of` returns, a function of the source, computed once |

### Level pool

`Start` is the construction of `LevelPoolInput` and the schedule guard of
`replay_history`; `Process` one turn of `_history_for_schedule` with
`build_as_of` from nothing and the snapshot validator; `Finish` the history
validator. The union-find is that of the code, over pairs in id order; path
halving, which moves no root, is left out. In `SingleLink` items are numbers and
a graph is the set of its links; the two nested loops over pairs are two
recursive functions (`JoinRow`, `Joined`).

### Lifecycle

| Model | Code |
|---|---|
| `asOf`, `prefix`, `running`, `working`, `status` | `as_of`, `bars`, `prefix_times[-1]`, `working`, how far the call is |
| `WorkingState` record; `Fact` groups index, time, confirm time (and bar key) | `_WorkingState` |
| `Activate`, `Emit` | the activation loop, `_emit` (event ids become positions in the subject's ledger) |
| `ReadBar(bar)` | one turn of the outer loop: all visible subjects see the bar |
| `Process`, `ProcessActive`, `ProcessBroken` | the inner loop body, `_process_active`, `_process_broken` |
| `StopAtBlockedBar(bar)` | `_causal_prefix` stopping at an incomplete or unavailable bar |
| `ReachEndOfSource` | the end of the source; empty sources are rejected |
| `BatchStep`, `ReplayStep`, `AsOfStep` | `build_batch`, `replay_history` with its schedule guard, `build_as_of` called directly |

A subject's market role is determined by its side because `LifecycleInput`
rejects every other pairing. Bars are counted from 1, so that index 0 can mean
`None`. An event id is what orders it: origin time, then `_EVENT_ORDER`.

### Timeframe state

| Model | Code |
|---|---|
| `ReadSnapshot` | the body of the loop of `_build_prefix`: select, resolve, direct, emit |
| `PublishSnapshot` | `build_batch` handing the snapshot to the history |
| `SkipSnapshot`, `Observe` | `replay_history` leaving out a quiet snapshot, and looking again at an extra as-of time (`_observe`) |
| `Accepts`, `Publish`, the validator's memory | `TimeframeStateHistory.__post_init__`, which remembers pairs and direction a second time |
| `Winner`, `ResolvePair`, `Transition` | `_winner`, `_resolve_pair`, `_direction_transition` |
| `facts`, `latest`; `Explain`, `Report`, `Note`, `SnapshotOK` | what the selection found; what the state's provenance refers to; the views of a snapshot and the constructors that compare them |
| `LaterPhase`, `Versions`, `LifecycleSnapshots` | environment: how lifecycle states of subjects may change from one snapshot to the next |

`SpecViews` adds `facts` and `latest` to the steps of `Spec` and restricts
none of them. A version of a boundary stands for its lifecycle state, its
boundary and its last event, whose ids are made from one another. The previous
pair before the first snapshot is `"NONE"`, as in the code's initial event.

### Active box

| Model | Code |
|---|---|
| `score` (a price and the quality of each zone present) | `ResonanceScoreFrame`; what a stable zone key fixes (side, range, members, hence class) is constant |
| `box`, `events` | the previous `ActiveBoxSnapshot`, the flattened events |
| `Episode` (creation time, zone keys, selection price) | the payload of `box_key_id` |
| `SelectFrame(frame, previous)` | `select_frame` |
| `BatchStep`, `CallStep` | one turn of `build_batch`; `select_frame` called with any box ever handed out, or none |
| `Selected`, `Beats`, `Eligible` | `build_side_decision`, the hysteresis condition, `evaluate_zone` |
| `Refused`, `Continues`, `LedgerOK`, `accepted` | the validators of box, observation and frame; the frame chain and the ledgers of `ActiveBoxSelectionHistory` |
| `handed`, `chained` | history variables: what a caller may hold, and whether the calls were those of the batch |

Scores are multiplied by the distance horizon, so they are integers; tolerance
and horizon are absolute. The quality of a zone is arbitrary in each frame,
because freshness changes it even when nothing else happens.

### Core pipeline, audit and metrics

| Model | Code |
|---|---|
| `mode` | BATCH is `MSACorePipeline.run`; REPLAY is `replay_msa_core_run` on a schedule of the caller's; CUTOFF is the batch of a source truncated at a time, as `execution/cutoff.py` runs it |
| `Start` | input checks and schedule |
| `AssembleFrame`, `ScoreFrame`, `SelectFrame` | one turn of each stage's loop; each stage runs over all of what the stage before made |
| `Finish` | the bundle, report and run validators and, in a replay, its audits |
| `Findings`, `BatchReplayFindings`, `PrefixFindings` | `causal_audit.py`, `comparison.py` |
| `EventsOf`, `ObservationsOf`, `Paired`, `EvaluationAt` | `validation/metrics`, for a finished run and a cutoff |

The selector counts frames where the code has times; `Dated` translates. The
metrics' sums and means are functions of the observations and are left out.

### Experiment

| Model | Code |
|---|---|
| `Nature`, `AnswerOf`, `CheckpointsOf`, `Payload` | what pipeline, auditor and evaluator answer for a pair, in the normal, the altered and the replay context, and what each checkpoint of its cutoff case compares: schedule, frames, ledger, outcomes |
| `Finish`, `Collect` | `run_primary_execution`: a worker completes a task (in any order; one task may *drift*, answer otherwise than its nature); the results are put in the order of the schedule |
| `RunReplays`, `RunCutoffs` | `run_replay_comparisons`, `run_fixed_cutoff_comparisons` |
| `DeriveDeltas`, `DeriveDegeneration`, `DeriveGates`, `Conclude`, `Check` | the deterministic tail of a run, one action per derivation that may raise |
| `Preflight`, `OpenContract`, `WriteContract`, `OpenReport`, `WriteReport` | `write_c008c_b_v2_evidence`: two files, each emptied and then filled |
| `Restart` | a crash anywhere, or the script run again over the files that are there |
| `FreezeSchedule`, `Diagnose` | the root-cause analysis of a V1 report: which checkpoint of a case is taken apart, the first layer at which it differs (`CutoffRewriteLayer`, `FinalLayer`), and what is concluded |
| `ExistingAccepted` | V1's reading of evidence it committed earlier |

Contracts are operators of their own (`…Accepted`), so that what the runner
builds and what the record demands can differ.

## 4. Runs

| Run | Question | Result |
|---|---|---|
| `ingestion` | Is a load without errors exactly a source the stages accept? Do resampling calls at rising times return parts of one series, and is an error a hole? | holds |
| `ingestion_sparse` | Is that so for every explicit schedule, as `docs/architecture/market_data_resampling.md` says? | **violated** |
| `candidate_scan` | Do turning points alternate and rest on their own leg; are breaks founded on the past and none missed; do reactions match a reading attempt by attempt? | holds |
| `candidate_history` | Is each as-of result the batch so far; is a replay refused exactly for skipping a confirm time; does a default replay end with the whole batch delivered? | holds |
| `level_pool` | Are clusters the single linkage whatever the ids; does the formation ledger tell the snapshot; does each accepted replay deliver the batch? | holds |
| `lifecycle` | With gaps, late and incomplete bars: is each outcome the one a reference reading of the whole prefix gives; do the validators accept every state; is no horizon outlived? | holds |
| `lifecycle_history` | Do independent recomputations implement one causal ledger? Is every event first seen at its confirm time? Can hidden bars matter? | holds |
| `timeframe_state` | Do pairs, directions, ledgers and the four views of a snapshot agree; is a replay refused only for looking twice at a snapshot that changed the pair? | holds |
| `timeframe_replay_extra_as_of` | Is every replay with extra as-of times accepted, as `docs/research/timeframe_state_engine.md:272` says? | **violated** |
| `active_box` | Do batches keep the promises of box episodes, follow the nearest zones within the margin and stand still on repeated scores; are exactly the batch's frames accepted? | holds |
| `msa_core` | Composed: do replays agree with the batch; is a truncated run the beginning of the whole, with the same metrics; are results final; does the scorer keep what the selector relies on? | holds |
| `experiment` | Is READY exactly nothing wrong; does every record meet its contract, whatever fails; does V2 blame only the subject; is complete evidence never replaced? | holds |

**What the violations show.** *`timeframe_replay_extra_as_of`:* a replay that
looks again, at an extra as-of time, at a snapshot in which the confirmed pair
had just been completed or changed publishes that snapshot's explanation a
second time. The history validator has moved its memory on, so the explanation
"contradicts history" and the replay raises, although the document allows
extra as-of points. `OnlyUnsettledRefused` shows that this is the only way a
replay can be refused. *`ingestion_sparse`:* an explicit schedule may leave
room between the expected slots of a bucket. A bar that starts in such a room
belongs to the bucket without being expected; when it arrives late, the bucket
that an earlier as-of call had returned as complete is complete no longer, and
its target bar is taken back. A bucket that goes on after its last slot, for
less than a source bar, is enough. For schedules whose slots tile their buckets
from end to end `TiledReplayIsBatch` shows this cannot happen.

**Bounds.**

- *Ingestion:* files of up to four rows (three with faults, `FewFaults`) that
  start on or off the grid before, at and after a clock change, on time or
  late; two fixed grids, three explicit schedules (full, with room between slots,
  with a rest after the last slot), six processing times.
- *Candidates:* sources of up to eight bars of thin shapes or six of wide
  shapes, one bar late; ATR period 2, windows of one bar on either side. Eight
  bars hold two turning points, a break of each side and two attempts at a
  zone, three bars apart or nearer than the separation of three allows. The
  history takes up to five bars over three prices, or seven for reactions, with
  one bar late or incomplete.
- *Level pool:* three upper levels over three ranges in every order of ids,
  prices and confirm times up to 3, a lower one, families across any two;
  tolerance 1, so that the middle range links the outer two; default, extended,
  sparse and empty schedules.
- *Lifecycle:* an UPPER and a LOWER subject at one price, so that one bar
  exercises both sides; bar shapes on each side of every threshold, with and
  without touching the zone. `MaxTime = 5` slots, each empty or holding a bar,
  are long enough for test → break → touch → flip, for two tests apart, a
  touch between them that is too near, the break of the weakened zone and the
  touch after it, and for horizon 2 to be met, missed and crossed by a gap. One delay of 2 lets one late bar
  release the events of two others at once. The history uses four bars.
- *Timeframe state:* four subjects, two that touch and two above that overlap
  and cross; `MaxChanges = 2` lifecycle changes and four snapshots let a pair
  form, be lost and be rebuilt in the other direction.
- *Active box:* two lower zones further apart than any margin, two upper zones
  exactly one margin apart (so that the strict comparison and the score
  improvement both decide) and the zone they merge into; a frame has zones on
  both sides or none; two prices; four frames, which is create → replace →
  freeze → create again; the margin depends on the price.
- *Core:* four boundaries of which the third links two others; snapshots at 2,
  4 and 6; 36 combinations of lives, among them fading, broken, flipped and
  late subjects; five bar patterns (climbing, delayed, two at once, swinging,
  too few for an ATR); metric windows of one or two bars; replays with five sets
  of extra times, with and without the default ones; every cutoff of every
  input.
- *Experiment:* three cases (development, validation, locked), three variants,
  two metrics, three checkpoints, two workers, at most two incidents (drifts,
  crashes and restarts), nineteen natures of a pair, one for each step that
  may fail and each threshold of the degeneration rules. A clean pair just
  reaches the floors; `EDGE` keeps exactly a tenth of its observations.

`CHECK_DEADLOCK FALSE` is set because calls return, schedules end and runs
finish.

**Fairness.** One specification states fairness: `CandidateHistory` has
`WF_historyVars(DefaultStep \/ FinishReplay)`. The code is a `for` loop over a finite tuple
in a single thread, so a default replay that can take its next turn takes it.
From that, `DefaultReplayDelivers` says that the loop ends *having delivered
every candidate of the batch*: no candidate waits for a time the default
schedule does not hold. The steps of a caller (explicit replays and direct
calls) have no fairness. No other liveness property is stated: the other
loops end the same way, and their safety properties say what they have
delivered when they do.

**Observations** met while modelling that no run states as a disagreement:

- *Detectors.* In a flat market the ATR is 0, every bar confirms a retracement
  of 0, and turning points of zero amplitude alternate. Candidates released by
  one late bar tie on everything but their digest, which then decides. A pivot
  call raises on an available incomplete bar, while the stateful detectors
  stop before it; `RefusedOnlyWhenSkipping` names that case.
- *Selector.* It judges only the first challenger, the nearest eligible zone
  other than the current one; `DistanceDecides` shows that zones of a side never
  tie in distance, so the later parts of the selection key never decide.
- *Core and metrics.* The metrics refuse runs whose bars overlap or are late
  in a way the pipeline accepts. A pair of resonances may be matched anew at a
  later cutoff. `docs/validation/structural_metrics.md`, section 16, says a
  direction episode ends at the next direction change; the code ends it only
  at the opposite direction or at the horizon.
- *Verdict.* The gates `ALL_CORE_RUNS_MUST_AUDIT` and `ALL_METRIC_REPORTS_MUST_SOURCE_BIND`
  test one condition, that every result is PASSED. A failed metric evaluation
  reaches degeneration only as an incomplete aggregate set. A failing Baseline
  hides the collapse rules but yields `INSUFFICIENT_EVIDENCE`. V1 runs in the
  caller's ambient Decimal context (`AmbientAssumption`), V2 in one of its own.
- *Evidence.* V2 writes a report that is already there and equal once more,
  by emptying and filling the file. A crash in between tears evidence that was
  complete, and every later run then refuses to overwrite it. The stability
  check of the sources compares only their two ends: an edit undone during the
  run passes.
- *Root causes.* `_execute` compares with the checkpoint after the selected
  one and raises when there is none, which loses the whole analysis: an
  unstable last checkpoint, or a stable case of at most two checkpoints. A
  case that failed before any checkpoint was unstable ends the selection with
  `StopIteration`. `DETERMINISM_GATE_CONFLATION` and
  `DEGENERATION_GLOBAL_PROPAGATION` are found in every V1 report that reaches the
  analysis, so the dispositions `PROTECTED_CORE_REMEDIATION_REQUIRED` and
  `NO_ROOT_CAUSE_FOUND` are never reached. A frame or box that is really
  rewritten fails the comparison audits and is filed as a harness error too. A
  difference of audit or metrics in an altered context alone has no subject.
  Reports name the run they are of, and the shorter run is another one, so a
  checkpoint without a rewrite is filed under `IDENTITY_OR_SOURCE_BINDING`
  (six of the cases in `docs/validation/c008c_b_root_cause_analysis.md:35`), never
  under `NONE` or `COMPARISON_AUDIT`. A shorter run that ended before the
  checkpoint would be filed under `PREFIX_SOURCE`, never under
  `PROCESSING_SCHEDULE`, and the contract would refuse it: the flag it carries
  also asks for the last time, the component it must equal does not.

## 5. Proofs

Every theorem holds for all values of the constants that satisfy the named
assumptions, and for behaviours of any length.

**`BarProofs`**, about `Ingestion`, for every file, every clock change, every policy the
constraints admit and any sequence of processing times. The invariant `Inv`
relates rows, bars and issues (`LoadInv`) and says of the last call that it
answered from the bars as they are (`CallInv`); the work is in the operators.

- `CleanLoadAlwaysIsSource` (`CleanLoadIsSource`): a row that passes the seven
  tests is a bar that ends after it starts and is available no earlier
  (`RowIsBar`); the report compares neighbours only, and of bars of one duration
  neighbours that do not overlap keep all pairs apart (`CleanIsSource`).
- *Buckets.* A fixed grid and an explicit schedule give the same few facts,
  proved for each: a bucket holds its slots (`BucketShape`), two of them are
  apart (`BucketsApart`), a time has the bucket it lies in and no other
  (`BucketIsTheOne`, `BucketHolds`), where slots tile every time lies in one
  (`SlotsTile`), and every bucket that holds a bar is among those listed, at
  or after each listed one there is one that holds a bar (`HeldIsListed`). The grid
  is arithmetic of multiples; the schedule compares neighbours, and `Chain`
  extends that to all pairs by induction.
- `ReplayIsTheBatchSoFar` (`TiledReplayIsBatch`): targets are the aggregates of
  the full buckets (`TargetsAre`). If slots tile, the members that fill a bucket
  are all it can ever have (`CompleteIsFinal`), so a call sees a bucket full
  exactly when all its members are known, with the same aggregate
  (`SameMembers`, `AsOfIsKnownBatch`). The proof failed first: slots that
  follow one another but stop short of the bucket's end leave room for one more
  bar, and TLC found the bucket that is taken back. `Tiled` now rules that
  out, and the run has such a schedule (`Ragged`).
- `ErrorsAreExactlyHoles` (`ErrorsAreHoles`): what is missing from the last
  bucket only is cut off (`HoleIsNotTrailing`), and what is missing from a
  bucket that is not merely cut off has a later bar (`MissingIsHole`).

Assumptions: `ResampleAssumption`, `ZoneAssumption` and `IngestionAssumption`
(checks of `SourceDataConfig` and of the policies; the zone's offsets are
integers, and none is told by a mark of its own), and `RowAssumption`: prices and times are
integers, and time is counted from before anything a row may tell, since the
bars' times are naturals.

The same module, about `CandidateScan`, for every source of bars, every period, horizon and
buffer and either direction of the digest tie. Each detector keeps a few numbers
where its reference reads the whole prefix again; the invariant says what those
numbers are in terms of the prefix.

- `TurnsRestOnTheirLegs` (`TurnRestsOnItsLeg`): `AtrOK`. The running extreme is
  the first extreme of the leg under way and no bar of that leg has confirmed
  a retrace (`Leg`); each finished turn keeps both facts about its own leg
  (`Ended`), which later bars do not touch.
- `EveryBreakIsExact` (`BreaksAreExact`): `ScanOK` and `Unbroken`. The detector
  knows the pivots complete before the last bar (`KnownOf`). No bar so far broke
  the pending seed of a side, measured against the best reference known *before
  that bar* (`Best` is total on pivots, since two of them differ in bar or
  side); the property's `NoneMissed` measures against the present reference, which
  asks that a better one only replaces it by becoming known. Whatever is pending or
  breaks after a break was not known at that break (`FreshAfter`).
- `ReactionsAreTheReading` (`ReactionsMatchReading`): the reference reads
  attempt after attempt by a recursive function. That this function exists and is
  unique is proved by induction from the end of the source (`Reading`,
  `ReadFirst`). The invariant `ReactionOK` then says of a scan under way: over
  *every longer source* the reading begins with the touches found so far and,
  while there are too few, goes on from where the scan stands.

The same module, about `CandidateHistory`, for every source (bars may be late or
incomplete), every detector and generator, every schedule and any rising times
of free calls:

- `AsOfIsAlwaysBatchSoFar` (`AsOfIsBatchSoFar`): no candidate is invented late,
  taken back or moved. `HistoryInv` says that the stored answers are what the
  detector finds, and that what has been delivered is, in order, `SoFar`: what the
  *whole* source yields with a confirm time that has come. The property itself
  is not inductive, since it compares with the batch only of sources that are
  complete; `HistoryInv` needs no such condition.
  The argument goes from the bars up. What a time sees is a part of the source,
  and the bars of one part are the first bars of a longer one (`PartsAreSeen`).
  Every scan *goes on* from a part to a longer one (`ScansGoOn`): it keeps what it
  has found, and stamps what it finds at a bar with the prefix time of that bar,
  so that nothing found later is confirmed earlier (`TurnsInParts`,
  `BreaksInParts`, `LevelsInParts`). Breaks and reactions look for seeds that
  grow meanwhile: a seed confirmed later has had no bar yet that could use it
  (`TurnSeedsGrow`, `LateSeedsAreIdle`). Pivots and periodic extremes are not
  scans; each rests on a window of bars and is confirmed when all of them are
  available (`PivotTime`, `PivotsSoFar`, `PeriodsSoFar`). Together: `FoundSoFar`.
- The results are *sorted* sets. The order is total because two findings that
  tie on their confirm time still differ in the digest of the candidate they are
  about (`PivotsDiffer`, `TurnsDiffer`, `BreaksDiffer`, `LevelsDiffer`,
  `PeriodsDiffer`; together `FoundIsSortable`); so what was confirmed by a time
  comes first and what is appended later follows it (`OrderSplits`).
- `RefusedIsAlwaysSkipping` (`RefusedOnlyWhenSkipping`): a call finds new exactly
  what was confirmed since the last one (`NewIsRecent`), so one of these confirmed
  strictly before the call was skipped, and nothing else makes a replay raise
  but a detector that refuses the source.

Assumptions of both: `SwingAssumption` and `LevelAssumption` (the checks of the four
configurations) and `SwingHistoryAssumption`: sources are what a load returns,
times are naturals.

**`LifecycleProofs`**, for every set of subjects, every
configuration the validators admit and every universe of bars:

- `TypeCorrect` (`TypeOK`): through one typing lemma per operator.
- `HorizonCorrect`: the inductive invariant `HorizonInv`. `NeverRaises` is not
  inductive by itself: a broken subject that stopped being monitored would
  pass its endpoint unseen. The strengthening says that (a) a subject is active
  exactly while it has no break, (b) its break is the first monitored breaking
  bar, (c) while broken it is strictly inside its horizon and the last bar ended
  after its confirm time, so that the next bar, which cannot overlap it, is
  monitored too.
- From it, `HorizonGuardIsDead` (`NeverRaises`), `BrokenAlwaysInsideHorizon`
  and `BreakMatchesReference` (`BreakIsFirstDecisiveClose`).
- `ContractsAlwaysAccept` (`ContractsAccept`): the validators, written
  independently of the engine, accept every state it builds. `Sound` relates
  the parts of one subject to each other (counts, facts and the last event);
  `Kept` adds that what is kept is bounded by the prefix and that its ledger is
  ordered. Each rule emits at most one event, described once (`Emits`), and
  appending it keeps both.
- `TestsAreGreedy` (`TestsMatchReference`): `TestsInv`. The counted tests are
  the touches that no counted one precedes too closely, and the test the engine
  remembers is the last of them; so its distance alone decides the next
  (`GreedyGrows`).
- `ResolutionIsFirst` (`ResolutionMatchesReference`): `ResolutionInv`. While a
  subject is broken no bar since the break resolved it; once resolved, the bar
  and the reason stay those of the first that did.

Assumptions: `SubjectAssumption`, `ZoneAssumption`, `ConfigAssumption` and
`SourceAssumption`, each a check the code makes (`LifecycleInput`,
`LifecycleConfig`, `_validate_input`, `CanonicalBar`).

The same module, about `LifecycleHistory`, for every source, every schedule of
processing times and every mode of the calls:

- `SnapshotsAreStateless`: whatever was called before, a snapshot is what one
  scan of the visible prefix builds, and `EverySnapshotAccepted`: the
  validators accept it. A subject's scan is a fold over bars; `RunTo` and `At`
  turn it into a function of the number of bars, by induction on that number.
- `HistoryIsCausalLedger` (`ImplementsCausalLedger`): a subject's log at a later
  time extends its log at an earlier one by events confirmed in between, and the
  merged ledger is the sorting of the union of the logs. Sorting two finite
  sets of which one holds exactly the earlier part of the other gives a prefix
  (`Sorted`, `Rank`, by the cardinality of what precedes an event).
- `FirstSeenExactlyThen` (`FirstSeenAtConfirm`): in a batch or an accepted
  replay an event is first seen in the snapshot of exactly its confirm time.
- `FutureNeverMatters` (`FutureDoesNotMatter`): changing, delaying or dropping a
  bar the processing time cannot see leaves every subject's run as it was.
- `MergeNeverReorders` (`MergeKeepsSubjectOrder`): in the merged ledger the
  events of a subject stand in the order of its own log, all of them.

- From the refinement, `NothingIsEarly` (`KnownByNow` of `CausalLedger`) and
  `SnapshotsAreExactPrefixes` (`ExactPrefix`): what a later snapshot holds that
  was confirmed by an earlier processing time is exactly the earlier snapshot.

Assumption: `HistoryAssumption` (finitely many subjects; sources are what
`LoadResult` admits), besides those of the rules.

**`SharedProofs`**. Sets of numbers have their extremes (`MinFacts`,
`MaxOfFinite`). Sums over finite sets are recursive functions of sets, and are
what they should be by well-founded induction over the parts of a finite set:
`SumIsNat`, `SumIsMonotonic`, `SumOfEqualTerms`, and `SumIsMatched`, which
compares two sums term by term along an injection. Single linkage, for every
number of items and every graph on some of them:
`ComponentsAreSingleLinkage`: the union-find computes the partition that
`IsSingleLinkage` describes. A recursive function is what its definition says
only if it exists, which is proved for `Find` and for both loops by induction
over the numbers (`RootsExist`, `LoopExists`). The invariant of the loops,
`JoinsSoFar`, says that linked items whose pair was tried have one root, and that
items with one root lie on the same side of every cut no link crosses. Two
lemmas say what happens to a single linkage when items are added
(`SingleLinkagesGrow`, `SingleLinkagesStay`).

**`LevelPoolProofs`**, for every pool, every tolerance and every schedule. The
invariant `PoolInv` says that the snapshot is the build of the last time, that
the ledger holds what the batch forms up to it, and that an accepted schedule
visits every confirm time (each of them is the first time of some cluster,
`ConfirmTimesForm`).

- `ClustersAreAlwaysLinked` (`ClustersAreLinked`), from `SharedProofs`.
- `ReplaysAlwaysAgree` (`ReplaysAgree`): a cluster was formed at the last confirm
  time of its members and has been there since (`ClusterWasFormed`), so what a
  step finds new is what was confirmed at its time, and the snapshot before it
  is that of the confirm time before (`FormationsOfAStep`). The contracts accept
  every build (`BuildIsAccepted`: one side per cluster, a group per family,
  counts of disjoint sets) and every ledger.
- `LedgerIsAlwaysSnapshot` (`LedgerIsSnapshot`): a formed cluster that is gone was
  superseded at the first confirm time at which it was no longer a cluster, by
  the cluster its members were then in; a cluster that is left was not, since
  whatever supersedes it would be part of it and hold a level it does not.

Assumption: `LevelPoolAssumption` (the checks of `LevelPoolConfig` and
`LevelCandidate`; prices and times are naturals).

**`TimeframeStateProofs`**, for every set of subjects and any placement of
their zones. The invariant `Inv` relates the engine's memory to the
validator's: `SameMemory` (they are equal between snapshots), `MemoryOK` (the
pair of the previous snapshot is the last complete one or none),
`ExplanationOK`, `LedgerOK` and `StateOK`. It gives `TypeCorrect`,
`DomainAlwaysAccepts`, `DirectionAlwaysMatchesPair`, `BatchAlwaysAccepted`,
`RefusedOnlyUnsettled` and the action property `DirectionNeverReverses`. The
refinement `HistoryIsCausalLedger` (`ImplementsCausalLedger`) rests on a second
invariant, `LedgerKnown`: nothing published is later than the history, since a
time a schedule skips is quiet. As for the lifecycle, `NothingIsEarly` and
`SnapshotsAreExactPrefixes` follow from it. These are about `Spec`, whose steps `SpecViews`
takes too. `SnapshotsAlwaysAgree` (`SnapshotsAgree`) is about `SpecViews`: by
`ViewInv`, what explanation, report and provenance were written from is the
lifecycle snapshot the state was written from, and the validators' counts are
those of disjoint sets of subjects, which needs `SubjectsAreFinite`.

**`ActiveBoxProofs`**, for every set of zones (infinite ones included), every
policy and every sequence of score frames. The base is `FirstIsNearest`: zones
that qualify lie on one side of the price and apart from each other, so their
distances are different natural numbers and the least one names the first zone
(by well-foundedness of `<` on the naturals). From it:

- over *calls with any earlier box*, by the invariant `CallInv` (each box handed
  out holds its own selection price; selecting again from the last frame
  changes nothing): `TypeCorrect`, `NoCallRaises`, `DistanceDecides`,
  `BoxFollowsNearest`. `BatchIsCalls` carries them over to batches.
- over *batches*: `SameScoresChangeNothing`, `ReplacementOnlyTightens` and, by
  the invariant `LedgerInv` (each episode in the ledger is created once and
  frozen at most once, later; every snapshot is explained and was seen before
  its freeze; a new episode is new because its creation time is),
  `BatchIsAccepted` and the refinement `BatchImplementsEpisodes`. Last,
  `OnlyTheBatchIsAccepted`: the history validator accepts the frame made from
  another box handed out only if box and events are those of the batch. Two
  boxes from which one frame gives the same box and events are one box, or
  observations of the zones that frame keeps (`SameFrameSameBox`).

Assumptions: `ZoneAssumption`, `ZoneSetsAssumption`, `PolicyAssumption` and
`LastTimeAssumption`. The first two state what scoring guarantees of zones
(`MsaCoreProofs` proves the first of the composition), the others the checks of
`ActiveBoxSelectionConfig`.

**`MsaCoreProofs`**, for every input, every schedule of a replay, every cutoff
and every configuration of scorer and selector. `CoreIsTyped`: the invariant
`CoreInv` says that sources and schedules are typed and a stage under way has
something left to do (`InputInv`), that frames were accepted as a history
before the first was scored and scores are those of the frames (`StagesInv`),
and that there is no box exactly where the last scores held no pair of eligible
zones (`BoxInv`).

- `ScoresAlwaysSuitSelector` (`ScoresSuitSelector`). That blocks of a single
  linkage have no close *members* is the definition; the selector needs their
  hulls apart. Between two ranges that are apart on the axis of prices, no
  range of the block can bridge the gap (`NothingBetween`), so every member of
  the other block lies on one side of all of it (`OneSideOf`,
  `OneBelowTheOther`), and so do the hulls (`HullsBelow`, `KeysAreSeparated`).
- `QuietTimesNeverOpen` (`QuietTimesOpenNothing`). Freshness falls with age, so a
  product of factors none of which is negative falls (`ContributionFades`). A
  dependency component counts its *best* member in full and the rest for a
  credit: that it falls too rests on the credit being at most one
  (`ComponentFades`), and that the zone's quality falls on the components being
  the same ones (`QualityFalls`). Eligibility is a lower bound on quality and on
  quality times a factor of the price, which stands still
  (`EligibilityFades`). And the selector opens a box exactly where both sides
  have an eligible zone, whatever hysteresis remembers (`BoxMeansPair`): the
  first zone exists since distances on one side never tie, which is the theorem
  before.

Assumptions: `SubjectAssumption`, `ScoringAssumption` (`ConfigAccepts`, the checks
of `ResonanceFactorTable` and `ResonanceScoringConfig`), `SelectionAssumption`
(the checks of `ActiveBoxSelectionConfig`) and `InputsAssumption` (`InputTyped`,
what the types of `ResonanceFrameInput` say, with times and prices as
naturals). The times of a schedule are put in order by their rank (`InOrder`),
because the prover knows nothing of the sorting operator of the library.

**`ExperimentRunProofs`**, for every plan, every assignment of natures, any
number of workers and any number of crashes. It proves all four properties of
the experiment.

- *Evidence.* `EvidenceAppendOnly` is not inductive: nothing in it says what
  the process at a file is about to write. `EvidenceInv` adds that the file
  holds the completed report or is torn (`FileHoldsIt`), and that whoever is
  past the preflight holds that very report (`WriterHasIt`), because `Writable`
  lets a report pass only over itself or over nothing. Every action but the
  preflight and the four writers leaves what the invariant reads alone
  (`WorkIsAside`). It gives `EvidenceIsAppendOnly` and
  `EvidenceIsNeverReplaced`: no other report ever takes the place of a
  completed one, though a crash may tear it.
- *The verdict.* `RunInv` says what a run has recorded at each phase as a
  function of the tasks done and the natures of their pairs: each scheduled
  pair once, in the order of the schedule, whatever the order in which workers
  finished (`TaskInv`, `RecordInv`), and a report that is the judgement of what
  was found (`ReportInv`). What is left is about that function. Sums over
  cases, on which the degeneration rules rest, are compared with the lemmas of
  `SharedProofs`.
- `ReadyExactlyWhenNothingIsWrong` (`ReadyIffNothingWrong`): gate by gate
  (`ReadyIsEveryGate`). Each gate passes exactly when no pair is at fault in
  what that gate watches, no execution drifted where a repeat, sample or
  cutoff looks, and no variant withers below the floors (`StageIsRight`).
- `NothingIsRefused` (`NothingRefused`): each record the runner builds is
  accepted by the contract written for it, the totals of the report included
  (as cardinalities of disjoint sets of pairs), so no derivation ever raises.
- `BlameStays` (`BlameStaysWithSubject`): by contraposition. A subject without
  fault that degenerates would show less than the Baseline in a validation
  case of its own, because sums grow with their terms (`TotalsCompare`,
  `NothingToBlame`). Of the root-cause analysis, `AnalysisInv` fixes what was
  found for the one pair that may be shaken. The checkpoint taken apart is the
  first that was rewritten, or one of a case where none was
  (`SelectedIsFirst`), and the layer named is the first that differs
  (`CutoffDiagnosisIsAccepted`); so an outcome, a frame or a box is named
  exactly where it was rewritten first (`CauseIsFound`).

Assumptions: `PlanAssumption` (cases and variants are named once:
`validation/experiments/contracts.py:140`, `:201`, `:1022`,
`execution/contracts.py:489`), `ValidationAssumption` (the validation partition
has a case: every scenario comes with all its seeds, `contracts.py:1082-1092`),
`FloorAssumption` (the frozen floors are positive: `degeneration.py:320`, `:328`,
`:336`), `NoneAssumption` and `ShakyAssumption` (the value for "none" is no
value of anything), and three about what the outside may answer:
`AnswerAssumption` (a run fixes the number of its boxes, and a drift shows),
`CheckpointAssumption` (a cutoff case has checkpoints) and `AmbientAssumption`
(the evaluator, in the context a process starts with, audits as the auditor
does). Pipeline, auditor and evaluator are otherwise arbitrary.

**Only model-checked.** Three
properties of the composed core, `CoreReplays`, `FixedCutoffStable` and
`EvaluationsAreFinal`: each says among other things that *no* validator of any
stage ever refuses, about folds over the whole history; the proofs of the
single stages above are the lemmas they would rest on. Out of this prover's
reach are liveness (`DefaultReplayDelivers`) and ENABLED. Induction over data is
within reach only by a detour: the library's induction theorems take an operator
and cannot be used, but well-foundedness of `<` on the naturals
(`NatLessThanWellFounded` with `WFMin`) yields one about a *set* of numbers
(`NatSetInduction` in `SharedProofs` and `BarProofs`, `Induction` in `LifecycleProofs`), and from it that a recursive function exists, is unique and
computes what is claimed, as long as the recursion is a function and not a
RECURSIVE operator.

## 6. Plan

Done: all stages of the pipeline, their composition, audit and metrics, the
execution of the experiment and its root-cause analysis. Left, in order:

1. Proofs: the three properties of the composed core that are only
   model-checked.
2. A model of the Decimal context (precision, rounding), with the selector's
   ambient arithmetic and the remediation, which re-runs under a fixed context.
3. An instance of the metrics with treatments that compete for one control.
4. Relative tolerance and horizon in scoring; experiment plan and gates.

## 7. Not modelled

- Serialisation (`to_dict`/`from_dict`), hashing, wording, provenance: no
  control state.
- The Decimal context, and with it the remediation and the selector's
  arithmetic under another precision; scoring tolerances other than absolute
  ones; sums and means of the metrics.
- Of the experiment: the check modes other than V1's reading of its committed
  evidence, the authority over the sources (`source_authority*.py`), the plan
  and gate tables (frozen data read from files), and exceptions no handler in
  the worker declares. Of the root-cause analysis: the walk over payloads, its
  evidence lock and its check mode. At a checkpoint, events and frozen boxes
  are one ledger, and the paths and counts of differences are left out.
- Of the audit: the scan for trading fields, checks of types and of UTC,
  warnings and texts.
- The reference profile (a frozen configuration and its digest), the tools
  that write evidence files, and package glue: no behaviour of their own.
