------------------------- MODULE LifecycleContracts -------------------------
(***************************************************************************)
(* What msa/research/lifecycle/contracts.py accepts: the validators a      *)
(* LifecycleEvent, a LifecycleSubjectState and a subject's event ledger    *)
(* must pass before a snapshot can be built.  They are written from the    *)
(* validators alone, so that the engine's rules can be checked against     *)
(* them: a working state they reject is a snapshot the engine cannot       *)
(* return.                                                                 *)
(***************************************************************************)
EXTENDS LifecycleRules

(* _TRANSITIONS *)
Transition ==
    {<<"ACTIVATED", "CONFIRMED", "FRESH">>,
     <<"TEST", "FRESH", "TESTED">>, <<"TEST", "TESTED", "TESTED">>,
     <<"WEAKENED", "TESTED", "WEAKENED">>, <<"TEST", "WEAKENED", "WEAKENED">>,
     <<"FLIP_TOUCH", "BROKEN", "BROKEN">>, <<"FLIPPED", "BROKEN", "FLIPPED">>,
     <<"RETIRED", "BROKEN", "RETIRED">>}
    \cup {<<"BROKEN", from, "BROKEN">> : from \in ActiveState}

IsTest(event) == event.type \in {"TEST", "WEAKENED"}

(* LifecycleEvent.__post_init__ *)
EventOK(event) ==
    /\ <<event.type, event.from, event.to>> \in Transition
    /\ event.origin <= event.confirm
    /\ event.type = "ACTIVATED" <=> event.bar = 0
    /\ event.type = "ACTIVATED" <=> event.prior = 0
    /\ event.type = "ACTIVATED" => event.tests = 0
    /\ event.type = "RETIRED" <=> event.reason \in RetirementReason
    /\ IsTest(event) => event.tests >= 1

(* The first event of a subject's ledger. *)
BeginsLedger(event, s) ==
    /\ event.type = "ACTIVATED"
    /\ event.origin = ConfirmTimeOf[s]
    /\ event.confirm = ConfirmTimeOf[s]

(* The thresholds _validate_event_progression fixes for each test. *)
TestCountFits(event) ==
    CASE event.from = "FRESH" /\ event.to = "TESTED" -> event.tests = 1
      [] event.from = "TESTED" /\ event.to = "TESTED" -> event.tests < WeakeningTestCount
      [] event.from = "TESTED" /\ event.to = "WEAKENED" -> event.tests = WeakeningTestCount
      [] event.from = "WEAKENED" /\ event.to = "WEAKENED" -> event.tests > WeakeningTestCount
      [] OTHER -> TRUE

Follows(event, previous, position) ==
    /\ previous.to \notin TerminalState
    /\ event.type # "ACTIVATED"
    /\ event.prior = position - 1
    /\ event.from = previous.to
    /\ event.confirm >= previous.confirm
    /\ event.tests = previous.tests + (IF IsTest(event) THEN 1 ELSE 0)
    /\ TestCountFits(event)

(* _validate_event_progression over a whole subject ledger. *)
LedgerOK(ledger, s) ==
    /\ ledger # <<>>
    /\ BeginsLedger(ledger[1], s)
    /\ \A k \in DOMAIN ledger :
          /\ EventOK(ledger[k])
          /\ ledger[k].subject = s
          /\ ledger[k].side = IF ledger[k].type = "FLIPPED" THEN Opposite(SideOf[s])
                                                            ELSE SideOf[s]
          /\ k > 1 => Follows(ledger[k], ledger[k - 1], k)

-----------------------------------------------------------------------------

Present(fact) == fact.index # 0

CausallyOrdered(fact) == Present(fact) => fact.time <= fact.confirm

(* A later fact on a strictly later bar, never confirmed earlier. *)
Causes(earlier, later) ==
    Present(later) => /\ Present(earlier)
                      /\ earlier.time < later.time
                      /\ earlier.confirm <= later.confirm

Facts(w) == {w.test, w.break, w.touch, w.flip, w.retire}

(* LifecycleSubjectState.__post_init__ *)
StateOK(w, s, asOf) ==
    /\ w.side = IF w.state = "FLIPPED" THEN Opposite(SideOf[s]) ELSE SideOf[s]
    /\ ConfirmTimeOf[s] <= w.confirm /\ w.confirm <= asOf
    /\ w.tests = 0 <=> ~Present(w.test)
    /\ w.state = "FRESH" => w.tests = 0
    /\ w.state \in {"TESTED", "WEAKENED"} => w.tests >= 1
    /\ w.state \in ActiveState <=> ~Present(w.break)
    /\ w.state = "FLIPPED" <=> Present(w.flip)
    /\ w.state = "RETIRED" <=> Present(w.retire) /\ w.reason \in RetirementReason
    /\ Causes(w.break, w.touch)
    /\ Present(w.flip) => Present(w.touch) /\ w.touch.time < w.flip.time
    /\ Causes(w.break, w.retire)
    /\ \A fact \in Facts(w) :
          /\ CausallyOrdered(fact)
          /\ Present(fact) => fact.time >= ConfirmTimeOf[s] /\ fact.confirm <= w.confirm
    /\ w.confirm \in {ConfirmTimeOf[s]} \cup {f.confirm : f \in {g \in Facts(w) : Present(g)}}

PositionsOf(ledger, types) == {k \in DOMAIN ledger : ledger[k].type \in types}

(* A fact agrees with the one event of its kind, or both are absent. *)
MatchesOnly(fact, ledger, type) ==
    LET at == PositionsOf(ledger, {type})
    IN /\ \A j, k \in at : j = k
       /\ Present(fact) <=> at # {}
       /\ \A k \in at : fact = [index |-> ledger[k].bar, time |-> ledger[k].origin,
                                confirm |-> ledger[k].confirm]

(* _validate_state_event_facts *)
StateMatchesLedger(w) ==
    LET last == w.events[Len(w.events)]
        tests == PositionsOf(w.events, {"TEST", "WEAKENED"})
    IN /\ w.state = last.to
       /\ w.confirm = last.confirm
       /\ w.tests = last.tests
       /\ w.side = last.side
       /\ tests = {} => ~Present(w.test)
       /\ \A k \in tests : (\A j \in tests : j <= k) =>
             /\ w.test = [index |-> w.events[k].bar, time |-> w.events[k].origin,
                          confirm |-> w.events[k].confirm]
             /\ w.tests = w.events[k].tests
       /\ MatchesOnly(w.break, w.events, "BROKEN")
       /\ MatchesOnly(w.touch, w.events, "FLIP_TOUCH")
       /\ MatchesOnly(w.flip, w.events, "FLIPPED")
       /\ MatchesOnly(w.retire, w.events, "RETIRED")
       /\ \A k \in PositionsOf(w.events, {"RETIRED"}) : w.reason = w.events[k].reason

(* Everything LifecycleSnapshot requires of one subject's state. *)
Accepted(w, s, asOf) ==
    LedgerOK(w.events, s) /\ StateOK(w, s, asOf) /\ StateMatchesLedger(w)
=============================================================================
