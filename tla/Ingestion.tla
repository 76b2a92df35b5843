------------------------------ MODULE Ingestion ------------------------------
(***************************************************************************)
(* From a file to bars of another timeframe.  load_records (msa/data:      *)
(* loaders.py, quality.py, source_config.py) parses rows in file order,    *)
(* local wall times become instants, and the sequence of accepted bars is  *)
(* then checked without being repaired; resample_as_of is called on the    *)
(* result at ascending processing times.                                   *)
(*                                                                         *)
(* A row's `fault` is the first of its symbol, price and volume fields     *)
(* that cannot be parsed, "" if all can.  Its times are wall times, with   *)
(* or without an explicit offset.                                          *)
(***************************************************************************)
EXTENDS Resampling

CONSTANTS
    ClockChange, Summer, Winter,    \* the zone: its offset before and after an instant
    NoOffset,       \* a wall time written without an offset
    Rows,           \* rows a file may hold
    MaxRows,        \* bound on the length of a file
    Configs,        \* source configurations
    Policies,       \* alignment policies
    Times           \* processing times

ASSUME ZoneAssumption ==
    /\ {ClockChange, Summer, Winter} \subseteq Int
    /\ NoOffset \notin {Summer, Winter}

(* SourceDataConfig: a timeframe without a fixed duration (0) needs the    *)
(* column of the other end of the interval.                                *)
SourceDataConfigOK(c) ==
    /\ c.duration \in Nat /\ c.lag \in Nat /\ c.strict \in BOOLEAN
    /\ c.semantics \in {"OPEN_TIME", "CLOSE_TIME"}
    /\ c.completion \in {"ALL_ROWS_ARE_CLOSED", "EXPLICIT_COLUMN"}
    /\ c.otherColumn \in BOOLEAN /\ (c.duration = 0 => c.otherColumn)

ASSUME IngestionAssumption ==
    /\ \A c \in Configs : SourceDataConfigOK(c)
    /\ \A p \in Policies : IsFixedPolicy(p) \/ IsExplicitPolicy(p)
    /\ MaxRows \in Nat /\ Times \subseteq Nat

(* Time is counted from before anything a row may tell of. *)
ASSUME RowAssumption ==
    \A row \in Rows :
        /\ {row.high, row.low, row.close} \subseteq Int
        /\ \A time \in {row.time, row.other, row.observed} :
              /\ time.wall \in Int
              /\ \A offset \in {Summer, Winter}, c \in Configs :
                    time.wall - offset >= c.duration

-----------------------------------------------------------------------------
(* Wall times. *)

NoInstant == -1

OffsetAt(instant) == IF instant < ClockChange THEN Summer ELSE Winter

(* _valid_local_candidates: none in the hour that is skipped, two in the   *)
(* hour that is repeated.                                                  *)
LocalCandidates(wall) == {o \in {Summer, Winter} : OffsetAt(wall - o) = o}

(* _normalize_source_datetime *)
Instant(time) ==
    LET candidates == LocalCandidates(time.wall)
    IN IF time.offset \in candidates THEN time.wall - time.offset
       ELSE IF time.offset = NoOffset /\ Cardinality(candidates) = 1
            THEN time.wall - (CHOOSE o \in candidates : TRUE)
       ELSE NoInstant

-----------------------------------------------------------------------------
(* _parse_row *)

(* _parse_interval *)
Interval(c, row) ==
    LET read == Instant(row.time)
        other == Instant(row.other)
    IN IF c.semantics = "OPEN_TIME"
       THEN [start |-> read, end |-> IF c.otherColumn THEN other ELSE read + c.duration]
       ELSE [start |-> IF c.otherColumn THEN other ELSE read - c.duration, end |-> read]

IsComplete(c, row) == c.completion = "ALL_ROWS_ARE_CLOSED" \/ row.complete = "yes"

(* _parse_available_time *)
Available(c, row) ==
    c.lag + IF c.completion = "ALL_ROWS_ARE_CLOSED" THEN Interval(c, row).end
            ELSE Instant(row.observed)

BarOf(c, row) ==
    [timestamp |-> Interval(c, row).start, end |-> Interval(c, row).end,
     available |-> Available(c, row), complete |-> IsComplete(c, row),
     high |-> row.high, low |-> row.low, close |-> row.close]

(* The tests of a row in the order they are made; the last two are those   *)
(* of CanonicalBar.                                                        *)
Tests(c, row) ==
    LET bar == BarOf(c, row)
        explicit == c.completion = "EXPLICIT_COLUMN"
    IN <<[category |-> "symbol_mismatch", fails |-> row.fault = "symbol_mismatch"],
         [category |-> "invalid_timestamp", fails |->
            \/ Instant(row.time) = NoInstant
            \/ c.otherColumn /\ Instant(row.other) = NoInstant],
         [category |-> "invalid_row", fails |-> explicit /\ row.complete = "unknown"],
         [category |-> "invalid_timestamp", fails |->
            explicit /\ \/ Instant(row.observed) = NoInstant
                        \/ bar.complete /\ bar.available < bar.end + c.lag
                        \/ bar.available < bar.timestamp],
         [category |-> row.fault, fails |-> row.fault # ""],
         [category |-> "invalid_timestamp", fails |->
            \/ bar.end <= bar.timestamp
            \/ c.duration # 0 /\ bar.end # bar.timestamp + c.duration],
         [category |-> "invalid_ohlc", fails |->
            row.high < row.low \/ row.close \notin row.low .. row.high]>>

Failed(c, row) == {k \in DOMAIN Tests(c, row) : Tests(c, row)[k].fails}

(* The category of the first complaint about a row that has one. *)
Rejection(c, row) == Tests(c, row)[Min(Failed(c, row))].category

-----------------------------------------------------------------------------
(* validate_bar_sequence *)

Duplicates(seq) == {k \in DOMAIN seq : \E j \in 1 .. k - 1 : seq[j].timestamp = seq[k].timestamp}

OutOfOrder(seq) == {k \in DOMAIN seq \ {1} : seq[k].timestamp < seq[k - 1].timestamp}

(* Mutant of Overlaps: rows are compared by their start. *)
SameStart(c, seq) == {k \in DOMAIN seq \ {1} : seq[k].timestamp = seq[k - 1].timestamp}

(* Only bars of a fixed duration are compared for overlaps and gaps. *)
Overlaps(c, seq) ==
    {k \in DOMAIN seq \ {1} :
        /\ c.duration # 0
        /\ seq[k].timestamp > seq[k - 1].timestamp
        /\ seq[k].timestamp < seq[k - 1].end}

(* report.has_errors *)
ReportHasErrors(c, seq, rejected) ==
    rejected # <<>> \/ Duplicates(seq) # {} \/ OutOfOrder(seq) # {} \/ Overlaps(c, seq) # {}

-----------------------------------------------------------------------------
(* The load and the calls. *)

VARIABLES
    config,     \* the source configuration
    rows,       \* the rows read so far
    loaded,     \* those accepted, in file order
    issues,     \* the categories of the rows rejected
    status,     \* READING, LOADED or RAISED
    resampler,  \* the ResampleConfig, once there is one
    asOf,       \* the last processing time, -1 before any
    targets,    \* the target loaded returned then, none if the call raised
    raised      \* whether it raised

loadVars == <<config, rows, loaded, issues, status>>
callVars == <<resampler, asOf, targets, raised>>
ingestionVars == <<loadVars, callVars>>

Resamplers == [policy : Policies, strict : BOOLEAN]
NoResampler == <<>>

-----------------------------------------------------------------------------

InitIngestion ==
    /\ config \in Configs
    /\ rows = <<>> /\ loaded = <<>> /\ issues = <<>> /\ status = "READING"
    /\ resampler = NoResampler /\ asOf = -1 /\ targets = {} /\ raised = FALSE

ReadRow(row) ==
    /\ status = "READING" /\ Len(rows) < MaxRows
    /\ rows' = Append(rows, row)
    /\ IF Failed(config, row) = {}
       THEN loaded' = Append(loaded, BarOf(config, row)) /\ UNCHANGED issues
       ELSE issues' = Append(issues, Rejection(config, row)) /\ UNCHANGED loaded
    /\ UNCHANGED <<config, status, callVars>>

(* The whole file is read; strict loading raises on any error. *)
Finish ==
    /\ status = "READING"
    /\ status' = IF config.strict /\ ReportHasErrors(config, loaded, issues) THEN "RAISED" ELSE "LOADED"
    /\ UNCHANGED <<config, rows, loaded, issues, callVars>>

(* _validate_public_input refuses a report with errors, another timeframe  *)
(* and incomplete bars, strict or not.                                     *)
InputRefused ==
    \/ ReportHasErrors(config, loaded, issues)
    \/ config.duration # SourceDuration
    \/ ~IsInput(loaded)

(* resample_as_of at a later time. *)
ResampleAsOf(r, time) ==
    /\ status = "LOADED" /\ time > asOf
    /\ resampler \in {NoResampler, r} /\ resampler' = r
    /\ asOf' = time
    /\ raised' = (InputRefused \/ (r.strict /\ HasErrors(r.policy, Confirmed(loaded, time), TRUE)))
    /\ targets' = IF raised' THEN {} ELSE AsOfTargets(r.policy, loaded, time)
    /\ UNCHANGED loadVars

NextIngestion ==
    \/ \E row \in Rows : ReadRow(row)
    \/ Finish
    \/ \E r \in Resamplers, time \in Times : ResampleAsOf(r, time)

IngestionSpec == InitIngestion /\ [][NextIngestion]_ingestionVars

-----------------------------------------------------------------------------

(* The report of a load is the promise the stages above rely on: of bars   *)
(* with a fixed duration it is free of errors exactly when every row was   *)
(* accepted and the bars are the source sequence those stages require, so  *)
(* that no stage refuses what was loaded cleanly.  A strict load that did  *)
(* not raise is such a source.                                             *)
CleanLoadIsSource ==
    /\ config.duration # 0 =>
          (~ReportHasErrors(config, loaded, issues) <=> Len(loaded) = Len(rows) /\ IsSource(loaded))
    /\ \A k \in DOMAIN loaded : loaded[k] \in Bar
    /\ status = "LOADED" /\ config.strict => ~ReportHasErrors(config, loaded, issues)

Resampled == resampler # NoResampler /\ ~raised

(* Calls at different times return parts of one series: what is known at a *)
(* time is the batch result available by then (docs/architecture/          *)
(* market_data_resampling.md, sections 13 and 18).                         *)
ReplayIsBatchSoFar ==
    Resampled => targets = {t \in Batch(resampler.policy, loaded) : t.available <= asOf}

(* What resampling returns is again a source for the stages above: bars    *)
(* that do not overlap, none available before it ended, though buckets may *)
(* become available in any order.                                          *)
TargetsFormSource ==
    \A t, u \in targets :
        /\ t # u => t.end <= u.timestamp \/ u.end <= t.timestamp
        /\ t.available >= t.end

TiledReplayIsBatch ==
    /\ resampler # NoResampler /\ Tiled(resampler.policy) => ReplayIsBatchSoFar
    /\ TargetsFormSource

(* A batch reports an error unless each bar fills a slot and, up to the    *)
(* end of the last bar, each slot is filled: the source may end anywhere   *)
(* in a bucket but begin only with its first slot.                         *)
ErrorsAreHoles ==
    resampler # NoResampler /\ ~InputRefused /\ loaded # <<>> =>
        LET p == resampler.policy
            slots == UNION {b.expected : b \in Buckets(p, loaded)}
            filled == {loaded[i].timestamp : i \in DOMAIN loaded}
        IN HasErrors(p, loaded, FALSE) <=>
              \/ ~(filled \subseteq slots)
              \/ \E slot \in slots \ filled : slot < loaded[Len(loaded)].end
=============================================================================
