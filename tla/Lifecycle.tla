----------------------------- MODULE Lifecycle -----------------------------
(***************************************************************************)
(* LifecycleEngine.build_as_of (msa/research/lifecycle/engine.py) as the   *)
(* scan it is: at one processing time the visible subjects are activated,  *)
(* then the bars of the source are read in order, each shown to every      *)
(* subject, until the source ends or a bar is incomplete or unavailable.   *)
(*                                                                         *)
(* The source is chosen bar by bar, so one behaviour is one call on one    *)
(* source.  Every state of the scan is also what the call returns when the *)
(* source ends there, which is why the properties hold of every state and  *)
(* not of the returned ones alone.                                         *)
(***************************************************************************)
EXTENDS LifecycleContracts

CONSTANTS
    ProcessingTime      \* the processing times build_as_of is called with

ASSUME SourceAssumption == BarUniverse \subseteq Bar /\ ProcessingTime \subseteq Nat

VARIABLES
    asOf,       \* processing_time
    prefix,     \* the bars read so far
    running,    \* prefix_times[-1]: cumulative maximum availability
    working,    \* working: [visible subject -> _WorkingState]
    status      \* how far the call is

vars == <<asOf, prefix, running, working, status>>

Status == {"SCANNING", "RETURNED_COMPLETE", "RETURNED_TRUNCATED", "RAISED"}

TypeOK ==
    /\ asOf \in ProcessingTime
    /\ prefix \in Seq(BarUniverse)
    /\ running \in Nat
    /\ working \in [{s \in Subject : ConfirmTimeOf[s] <= asOf} -> WorkingState]
    /\ status \in Status

Init ==
    /\ asOf \in ProcessingTime
    /\ prefix = <<>>
    /\ running = 0
    /\ working = [s \in {s \in Subject : ConfirmTimeOf[s] <= asOf} |-> Activate(s)]
    /\ status = "SCANNING"

-----------------------------------------------------------------------------

(* The next bar of a validated source. *)
MayFollow(bar) ==
    prefix # <<>> => prefix[Len(prefix)].end <= bar.timestamp

IndexOfNext == Len(prefix) + 1

(* The engine raises when a monitored broken subject outlives its horizon. *)
Raises(bar) ==
    \E s \in DOMAIN working : /\ Monitors(working[s], s, bar)
                              /\ OutlivesHorizon(working[s], IndexOfNext)

(* prefix_times: the cumulative maximum availability once a bar is read.   *)
CumulativeAvailability(bar) ==
    IF bar.available > running THEN bar.available ELSE running

(* One turn of the outer loop: the bar joins the prefix, moves the         *)
(* cumulative availability, and is shown to every visible subject.         *)
ReadBar(bar) ==
    /\ status = "SCANNING"
    /\ MayFollow(bar)
    /\ VisibleAt(bar, asOf)
    /\ prefix' = Append(prefix, bar)
    /\ running' = CumulativeAvailability(bar)
    /\ working' = [s \in DOMAIN working |->
                      Process(working[s], s, bar, IndexOfNext,
                              CumulativeAvailability(bar))]
    /\ status' = IF Raises(bar) THEN "RAISED" ELSE "SCANNING"
    /\ UNCHANGED asOf

(* _causal_prefix: the first incomplete or unavailable bar ends the prefix *)
(* and hides every bar behind it.                                          *)
StopAtBlockedBar(bar) ==
    /\ status = "SCANNING"
    /\ MayFollow(bar)
    /\ ~VisibleAt(bar, asOf)
    /\ status' = "RETURNED_TRUNCATED"
    /\ UNCHANGED <<asOf, prefix, running, working>>

(* The source ends; _validate_input has rejected an empty one. *)
ReachEndOfSource ==
    /\ status = "SCANNING"
    /\ prefix # <<>>
    /\ status' = "RETURNED_COMPLETE"
    /\ UNCHANGED <<asOf, prefix, running, working>>

Next ==
    \/ \E bar \in BarUniverse : ReadBar(bar) \/ StopAtBlockedBar(bar)
    \/ ReachEndOfSource

Spec == Init /\ [][Next]_vars

-----------------------------------------------------------------------------

(* The engine's own guard never fires: no broken subject is still broken   *)
(* after its horizon, whatever gaps, delays and late activations occur     *)
(* (the LifecycleEngineError of _process_broken is unreachable).           *)
NeverRaises == status # "RAISED"

(* A broken subject is always resolved inside its horizon, because every   *)
(* bar after its break is monitored: the strengthening NeverRaises needs.  *)
BrokenInsideHorizon ==
    \A s \in DOMAIN working : working[s].state = "BROKEN" =>
        /\ working[s].break.index \in DOMAIN prefix
        /\ Len(prefix) - working[s].break.index < FlipHorizon
        /\ prefix[Len(prefix)].end > ConfirmTimeOf[s]

(* Every snapshot the engine can return passes its own contracts: the      *)
(* validators of contracts.py accept each subject's state and ledger.      *)
ContractsAccept == \A s \in DOMAIN working : Accepted(working[s], s, asOf)

-----------------------------------------------------------------------------
(* A reference definition of the lifecycle, read off the whole prefix      *)
(* instead of bar by bar.                                                  *)

First(indices) == CHOOSE i \in indices : \A j \in indices : i <= j

MonitoredBars(s) == {i \in DOMAIN prefix : prefix[i].timestamp >= ConfirmTimeOf[s]}

Breaks(s) == {i \in MonitoredBars(s) : IsBreak(s, prefix[i])}

(* The bars on which a broken subject may still be resolved. *)
FlipWindow(s) ==
    {i \in DOMAIN prefix : /\ First(Breaks(s)) < i
                           /\ i <= First(Breaks(s)) + FlipHorizon}

TouchesInWindow(s) == {i \in FlipWindow(s) : Touches(prefix[i], s, FlipTolerance)}

FailuresInWindow(s) == {i \in FlipWindow(s) : IsFailedBreak(s, prefix[i])}

ConfirmationsInWindow(s) ==
    {i \in FlipWindow(s) : /\ IsFlipConfirmation(s, prefix[i])
                           /\ \E j \in TouchesInWindow(s) : j < i}

Resolutions(s) ==
    FailuresInWindow(s) \cup ConfirmationsInWindow(s)
        \cup {i \in FlipWindow(s) : i = First(Breaks(s)) + FlipHorizon}

(* Break is decided by the first monitored close at or beyond the          *)
(* threshold, and by nothing else.                                         *)
BreakIsFirstDecisiveClose ==
    \A s \in DOMAIN working :
        working[s].break.index = IF Breaks(s) = {} THEN 0 ELSE First(Breaks(s))

(* What becomes of a break is decided by the first bar of the flip window  *)
(* that fails it, confirms it after an earlier touch, or ends the window;  *)
(* on one bar failure beats confirmation and confirmation beats expiry.    *)
ResolutionMatchesReference ==
    \A s \in DOMAIN working : Breaks(s) # {} =>
        LET at == First(Resolutions(s))
        IN IF Resolutions(s) = {} THEN working[s].state = "BROKEN"
           ELSE IF at \in FailuresInWindow(s)
                THEN /\ working[s].reason = "FAILED_BREAK"
                     /\ working[s].retire.index = at
           ELSE IF at \in ConfirmationsInWindow(s) THEN working[s].flip.index = at
           ELSE /\ working[s].reason = "FLIP_HORIZON_EXPIRED"
                /\ working[s].retire.index = at

(* Tests are counted greedily: a touching bar before the break counts      *)
(* exactly when no counted test lies fewer than MinTestSeparation bars     *)
(* before it, and the count alone decides FRESH, TESTED and WEAKENED.      *)
TestsMatchReference ==
    \A s \in DOMAIN working :
        LET counted == {working[s].events[k].bar :
                            k \in PositionsOf(working[s].events, {"TEST", "WEAKENED"})}
            touching == {i \in MonitoredBars(s) :
                            /\ Touches(prefix[i], s, TestTolerance)
                            /\ Breaks(s) # {} => i < First(Breaks(s))}
        IN /\ counted = {i \in touching :
                            ~\E j \in counted : j < i /\ i - j < MinTestSeparation}
           /\ Breaks(s) = {} =>
                 /\ working[s].state = "FRESH" <=> counted = {}
                 /\ working[s].state = "WEAKENED"
                        <=> working[s].tests >= WeakeningTestCount

=============================================================================
