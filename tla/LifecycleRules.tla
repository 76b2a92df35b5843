--------------------------- MODULE LifecycleRules ---------------------------
(***************************************************************************)
(* The per-subject rules of the C-006A lifecycle engine                    *)
(* (msa/research/lifecycle/engine.py): activation, Break before Test,      *)
(* failed break, flip touch, flip confirmation and horizon expiry, each    *)
(* emitting one event into the subject's own ledger.                       *)
(*                                                                         *)
(* A bar is a record of the fields of CanonicalBar the engine reads.       *)
(* Prices and times are integers (Decimals are only compared and shifted   *)
(* by configured amounts).  Bars are counted from 1 here, from 0 in the    *)
(* code, so that index 0 can stand for "no bar".  A subject's side fixes   *)
(* its market role (LifecycleInput rejects any other pairing), so the role *)
(* is not carried separately.                                              *)
(***************************************************************************)
EXTENDS CanonicalBars

CONSTANTS
    BarUniverse,        \* the bars a source may contain
    Subject,            \* object ids of the BoundaryRef inputs
    SideOf,             \* [Subject -> Side]   original boundary_side
    LowOf, HighOf,      \* [Subject -> Int]    price_range
    ConfirmTimeOf,      \* [Subject -> Nat]    structural confirm_time
    TestTolerance, BreakBuffer, WeakeningTestCount, MinTestSeparation,
    FlipTolerance, FlipConfirmationDistance, FlipHorizon, FailedBreakBuffer

Side == {"UPPER", "LOWER"}

ASSUME SubjectAssumption ==
    /\ Subject \subseteq Nat
    /\ SideOf \in [Subject -> Side]
    /\ LowOf \in [Subject -> Int]
    /\ HighOf \in [Subject -> Int]
    /\ \A s \in Subject : LowOf[s] <= HighOf[s]
    /\ ConfirmTimeOf \in [Subject -> Nat]

(* _validate_input: neither price zone of a subject may reach below zero. *)
ASSUME ZoneAssumption ==
    \A s \in Subject : LowOf[s] >= TestTolerance /\ LowOf[s] >= FlipTolerance

ASSUME ConfigAssumption ==
    /\ TestTolerance \in Nat /\ BreakBuffer \in Nat /\ FlipTolerance \in Nat
    /\ FlipConfirmationDistance \in Nat /\ FailedBreakBuffer \in Nat
    /\ WeakeningTestCount \in Nat /\ WeakeningTestCount >= 2
    /\ MinTestSeparation \in Nat /\ MinTestSeparation >= 1
    /\ FlipHorizon \in Nat /\ FlipHorizon >= 1

-----------------------------------------------------------------------------

ActiveState == {"FRESH", "TESTED", "WEAKENED"}
TerminalState == {"FLIPPED", "RETIRED"}
SubjectState == ActiveState \cup {"BROKEN"} \cup TerminalState
EventType == {"ACTIVATED", "TEST", "WEAKENED", "BROKEN", "FLIP_TOUCH",
              "FLIPPED", "RETIRED"}
RetirementReason == {"FAILED_BREAK", "FLIP_HORIZON_EXPIRED"}
NoReason == "NONE"

(* One LifecycleEvent.  bar = 0 stands for source_bar_key None; prior is   *)
(* the position, in the subject's ledger, of the event named by            *)
(* prior_event_ids (0 for none).  first_seen_time always equals confirm.   *)
Event == [subject : Subject, type : EventType,
          from : SubjectState \cup {"CONFIRMED"}, to : SubjectState,
          origin : Nat, confirm : Nat, bar : Nat, tests : Nat, side : Side,
          reason : RetirementReason \cup {NoReason}, prior : Nat]

(* The time, confirm time, bar key and index kept for one kind of fact. *)
Fact == [index : Nat, time : Nat, confirm : Nat]
NoFact == [index |-> 0, time |-> 0, confirm |-> 0]

(* _WorkingState of one subject. *)
WorkingState == [state : SubjectState, side : Side, confirm : Nat, tests : Nat,
                 test : Fact, break : Fact, touch : Fact, flip : Fact,
                 retire : Fact, reason : RetirementReason \cup {NoReason},
                 events : Seq(Event)]

(* Mutant of Opposite: the side is replaced by a market role. *)
OppositeRole(side) == IF side = "UPPER" THEN "SUPPORT" ELSE "RESISTANCE"

(* _opposite *)
Opposite(side) == IF side = "UPPER" THEN "LOWER" ELSE "UPPER"

-----------------------------------------------------------------------------

(* _emit: the event names its predecessor, and the working state takes the *)
(* event's target state, confirm time and effective side.                  *)
Emit(w, s, type, from, to, index, fact, reason) ==
    LET side == IF to = "FLIPPED" THEN Opposite(SideOf[s]) ELSE w.side
        event == [subject |-> s, type |-> type, from |-> from, to |-> to,
                  origin |-> fact.time, confirm |-> fact.confirm,
                  bar |-> index, tests |-> w.tests, side |-> side,
                  reason |-> reason, prior |-> Len(w.events)]
    IN [w EXCEPT !.events = Append(@, event), !.state = to,
                 !.confirm = fact.confirm, !.side = side]

(* The working state build_as_of gives a newly visible subject. *)
Activate(s) ==
    LET at == [index |-> 0, time |-> ConfirmTimeOf[s], confirm |-> ConfirmTimeOf[s]]
        fresh == [state |-> "FRESH", side |-> SideOf[s], confirm |-> ConfirmTimeOf[s],
                  tests |-> 0, test |-> NoFact, break |-> NoFact, touch |-> NoFact,
                  flip |-> NoFact, retire |-> NoFact, reason |-> NoReason,
                  events |-> <<>>]
    IN Emit(fresh, s, "ACTIVATED", "CONFIRMED", "FRESH", 0, at, NoReason)

(* _zones: a bar touches a zone when the two closed intervals meet. *)
Touches(bar, s, tolerance) ==
    /\ bar.high >= LowOf[s] - tolerance
    /\ bar.low <= HighOf[s] + tolerance

IsBreak(s, bar) ==
    IF SideOf[s] = "UPPER" THEN bar.close >= HighOf[s] + BreakBuffer
                           ELSE bar.close <= LowOf[s] - BreakBuffer

IsFailedBreak(s, bar) ==
    IF SideOf[s] = "UPPER" THEN bar.close <= LowOf[s] - FailedBreakBuffer
                           ELSE bar.close >= HighOf[s] + FailedBreakBuffer

IsFlipConfirmation(s, bar) ==
    IF SideOf[s] = "UPPER"
    THEN bar.close >= HighOf[s] + FlipTolerance + FlipConfirmationDistance
    ELSE bar.close <= LowOf[s] - FlipTolerance - FlipConfirmationDistance

-----------------------------------------------------------------------------

(* Mutant of CountsAsTest: the separation must be exceeded, not reached. *)
CountsWhenFurtherApart(w, s, bar, i) ==
    /\ Touches(bar, s, TestTolerance)
    /\ w.test.index = 0 \/ i - w.test.index > MinTestSeparation

(* _process_active: Break is decided first; only a bar that does not break *)
(* may count as a test, and only when it is far enough from the last one.  *)
CountsAsTest(w, s, bar, i) ==
    /\ Touches(bar, s, TestTolerance)
    /\ w.test.index = 0 \/ i - w.test.index >= MinTestSeparation

Break(w, s, fact) ==
    Emit([w EXCEPT !.break = fact],
         s, "BROKEN", w.state, "BROKEN", fact.index, fact, NoReason)

(* Mutant of WeakensNow: the count is compared before it is incremented. *)
WeakensOneLate(w) == w.state = "TESTED" /\ w.tests >= WeakeningTestCount

WeakensNow(w) == w.state = "TESTED" /\ w.tests + 1 >= WeakeningTestCount

Test(w, s, fact) ==
    LET type == IF WeakensNow(w) THEN "WEAKENED" ELSE "TEST"
        to == CASE w.state = "FRESH" -> "TESTED"
                [] WeakensNow(w) -> "WEAKENED"
                [] OTHER -> w.state
    IN Emit([w EXCEPT !.tests = @ + 1, !.test = fact],
            s, type, w.state, to, fact.index, fact, NoReason)

(* Mutant of ProcessActive: a touching bar is tested before it may break. *)
TestBeforeBreak(w, s, bar, fact) ==
    IF CountsAsTest(w, s, bar, fact.index) THEN Test(w, s, fact)
    ELSE IF IsBreak(s, bar) THEN Break(w, s, fact)
    ELSE w

ProcessActive(w, s, bar, fact) ==
    IF IsBreak(s, bar) THEN Break(w, s, fact)
    ELSE IF CountsAsTest(w, s, bar, fact.index) THEN Test(w, s, fact)
    ELSE w

-----------------------------------------------------------------------------

Retire(w, s, fact, reason) ==
    Emit([w EXCEPT !.retire = fact, !.reason = reason],
         s, "RETIRED", "BROKEN", "RETIRED", fact.index, fact, reason)

Flip(w, s, fact) ==
    Emit([w EXCEPT !.flip = fact],
         s, "FLIPPED", "BROKEN", "FLIPPED", fact.index, fact, NoReason)

FlipTouch(w, s, fact) ==
    Emit([w EXCEPT !.touch = fact],
         s, "FLIP_TOUCH", "BROKEN", "BROKEN", fact.index, fact, NoReason)

(* Mutants of AtHorizon: the endpoint is excluded, missed by one bar, or   *)
(* measured on the clock although the source may have gaps.                *)
BeforeHorizon(w, fact) == fact.index - w.break.index = FlipHorizon - 1
AtHorizonByClock(w, fact) == fact.time - w.break.time = FlipHorizon

(* The horizon endpoint: the last bar on which a broken subject may flip. *)
AtHorizon(w, fact) == fact.index - w.break.index = FlipHorizon

ExpireAtHorizon(w, s, fact) ==
    IF AtHorizon(w, fact) THEN Retire(w, s, fact, "FLIP_HORIZON_EXPIRED") ELSE w

(* The engine raises when a broken subject outlives its horizon. *)
OutlivesHorizon(w, i) ==
    w.state = "BROKEN" /\ i - w.break.index > FlipHorizon

(* _process_broken: a failed break wins; then the first touch of the flip  *)
(* zone; then a confirmation on a later bar than the touch; then expiry.   *)
ProcessBroken(w, s, bar, fact) ==
    IF fact.index <= w.break.index THEN w
    ELSE IF IsFailedBreak(s, bar) THEN Retire(w, s, fact, "FAILED_BREAK")
    ELSE IF w.touch.index = 0 /\ Touches(bar, s, FlipTolerance)
         THEN ExpireAtHorizon(FlipTouch(w, s, fact), s, fact)
    ELSE IF /\ w.touch.index # 0 /\ fact.index > w.touch.index
            /\ IsFlipConfirmation(s, bar)
         THEN Flip(w, s, fact)
    ELSE ExpireAtHorizon(w, s, fact)

(* The engine watches a subject from its structural confirm time until it  *)
(* is flipped or retired.                                                  *)
Monitors(w, s, bar) ==
    w.state \notin TerminalState /\ bar.timestamp >= ConfirmTimeOf[s]

(* The body of build_as_of's inner loop for one subject and one bar; ct is *)
(* the cumulative maximum availability of the prefix up to this bar.       *)
Process(w, s, bar, i, ct) ==
    LET fact == [index |-> i, time |-> bar.timestamp, confirm |-> ct]
    IN IF ~Monitors(w, s, bar) THEN w
       ELSE IF w.state = "BROKEN" THEN ProcessBroken(w, s, bar, fact)
       ELSE ProcessActive(w, s, bar, fact)
=============================================================================
