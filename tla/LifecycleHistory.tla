-------------------------- MODULE LifecycleHistory --------------------------
(***************************************************************************)
(* LifecycleHistory: build_batch and replay_history                        *)
(* (msa/research/lifecycle/engine.py and replay.py).  One whole source is  *)
(* fixed and the engine is run again from nothing at each processing time  *)
(* of a schedule; the snapshots it returns must form one append-only       *)
(* ledger although each was computed without the ones before it.           *)
(***************************************************************************)
EXTENDS LifecycleRules, FiniteSets, SequencesExt

CONSTANTS
    Sources,        \* the bar sequences a LoadResult may hold
    ReplayTimes     \* the processing times a caller may put in a schedule

ASSUME HistoryAssumption ==
    /\ IsFiniteSet(Subject)
    /\ \A source \in Sources : source # <<>> /\ IsSource(source)
    /\ BarUniverse \subseteq Bar
    /\ Sources \subseteq Seq(BarUniverse)
    /\ ReplayTimes \subseteq Nat

VARIABLES
    source,     \* data.source.bars
    mode,       \* which schedule drives the calls
    snapshotTime,   \* processing time of the last snapshot, -1 before any
    states,     \* its subject states
    ledger      \* its events

historyVars == <<source, mode, snapshotTime, states, ledger>>

(* build_batch's own schedule, an explicit replay schedule, or single      *)
(* build_as_of calls at times of the caller's choosing.                    *)
Mode == {"BATCH", "REPLAY", "AS_OF"}

-----------------------------------------------------------------------------

(* The outer loop of build_as_of, from one subject's side. *)
SubjectAfter(s, bars) ==
    LET after[n \in 0 .. Len(bars)] ==
            IF n = 0 THEN Activate(s)
            ELSE Process(after[n - 1], s, bars[n], n, PrefixTime(bars, n))
    IN after[Len(bars)]

BuildStates(bars, time) ==
    [s \in {s \in Subject : ConfirmTimeOf[s] <= time} |->
        SubjectAfter(s, CausalPrefix(bars, time))]

(* Mutant of EventRank: a flip touch sorts behind the other events. *)
TouchRankedLast(event) == IF event.type = "FLIP_TOUCH" THEN 1 ELSE 0

(* _EVENT_ORDER, which an event id carries behind its origin time. *)
EventRank(event) ==
    CASE event.type = "ACTIVATED" -> 0 [] event.type = "TEST" -> 10
      [] event.type = "WEAKENED" -> 11 [] event.type = "BROKEN" -> 20
      [] event.type = "FLIP_TOUCH" -> 30 [] event.type = "FLIPPED" -> 40
      [] event.type = "RETIRED" -> 50

(* Snapshot events are sorted by confirm time, subject and event id. *)
Precedes(a, b) ==
    \/ a.confirm < b.confirm
    \/ a.confirm = b.confirm /\ a.subject < b.subject
    \/ /\ a.confirm = b.confirm /\ a.subject = b.subject
       /\ \/ a.origin < b.origin
          \/ a.origin = b.origin /\ EventRank(a) < EventRank(b)

LedgerOf(built) ==
    LET events == UNION {ToSet(built[s].events) : s \in DOMAIN built}
        before(event) == {other \in events : Precedes(other, event)}
    IN [k \in 1 .. Cardinality(events) |->
            CHOOSE event \in events : Cardinality(before(event)) = k - 1]

(* Mutant of BatchSchedule: only bars give the schedule its times. *)
BarSchedule == {source[k].available : k \in DOMAIN source}

BatchSchedule ==
    {ConfirmTimeOf[s] : s \in Subject} \cup {source[k].available : k \in DOMAIN source}

(* The confirm times of every event the batch run will ever hold. *)
TrueEventTimes ==
    LET final == Max(BatchSchedule)
    IN {event.confirm : event \in ToSet(LedgerOf(BuildStates(source, final)))}

-----------------------------------------------------------------------------

HistoryInit ==
    /\ source \in Sources
    /\ mode \in Mode
    /\ snapshotTime = -1
    /\ states = [s \in {} |-> <<>>]
    /\ ledger = <<>>

(* build_as_of at one time of the schedule. *)
BuildAsOf(time) ==
    /\ time > snapshotTime
    /\ snapshotTime' = time
    /\ states' = BuildStates(source, time)
    /\ ledger' = LedgerOf(states')
    /\ UNCHANGED <<source, mode>>

(* build_batch: the sorted union of confirm and availability times. *)
BatchStep ==
    /\ mode = "BATCH"
    /\ \E time \in BatchSchedule :
          /\ \A other \in BatchSchedule : other > snapshotTime => time <= other
          /\ BuildAsOf(time)

(* replay_history: an ascending schedule may hold more times than needed,  *)
(* but is refused when it skips the first-seen time of any true event.     *)
ReplayStep ==
    /\ mode = "REPLAY"
    /\ LET unseen == {t \in TrueEventTimes : t > snapshotTime}
       IN \E time \in ReplayTimes :
             (\A seen \in unseen : time <= seen) /\ BuildAsOf(time)

(* Separate build_as_of calls, which nothing forces to be dense. *)
AsOfStep ==
    /\ mode = "AS_OF"
    /\ \E time \in ReplayTimes : BuildAsOf(time)

HistoryNext == BatchStep \/ ReplayStep \/ AsOfStep

HistorySpec == HistoryInit /\ [][HistoryNext]_historyVars

-----------------------------------------------------------------------------

(* The engine keeps no state between calls, yet its snapshots are the      *)
(* states of one append-only causal ledger, whatever the schedule.         *)
Ledger == INSTANCE CausalLedger WITH asOf <- snapshotTime
ImplementsCausalLedger == Ledger!Spec

(* In a batch or an accepted replay every event is first seen in the       *)
(* snapshot taken exactly at its confirm time (first_seen_time).           *)
FirstSeenAtConfirm ==
    [][mode # "AS_OF" =>
          \A k \in DOMAIN ledger' \ DOMAIN ledger : ledger'[k].confirm = snapshotTime']_historyVars

(* Merging and sorting the ledgers of all subjects by event id loses none  *)
(* of a subject's events and keeps the order they were emitted in: the     *)
(* n-th event of a subject in the ledger is the n-th of its own.           *)
MergeKeepsSubjectOrder ==
    \A s \in DOMAIN states :
        LET own == {k \in DOMAIN ledger : ledger[k].subject = s}
        IN /\ Cardinality(own) = Len(states[s].events)
           /\ \A k \in own :
                 ledger[k] = states[s].events[Cardinality({j \in own : j <= k})]

(* Bars the processing time cannot see may be changed, delayed further or  *)
(* cut off without changing the snapshot.                                  *)
FutureDoesNotMatter ==
    \A hidden \in {k \in DOMAIN source : ~VisibleAt(source[k], snapshotTime)} :
        /\ BuildStates(SubSeq(source, 1, hidden), snapshotTime) = states
        /\ \A bar \in BarUniverse :
              /\ bar.timestamp = source[hidden].timestamp
              /\ bar.end = source[hidden].end
              /\ ~VisibleAt(bar, snapshotTime)
              => BuildStates([source EXCEPT ![hidden] = bar], snapshotTime) = states
=============================================================================
