-------------------------- MODULE LifecycleProofs --------------------------
(***************************************************************************)
(* Theorems about the lifecycle engine for every set of subjects, every    *)
(* configuration the validators admit and every source.  First the rules   *)
(* of one subject (LifecycleRules) and the contracts of its state and      *)
(* ledger (LifecycleContracts); then, from them, the single call           *)
(* (Lifecycle), and the history of calls (LifecycleHistory): the engine    *)
(* keeps nothing between two calls, and yet what it returns for one source *)
(* at ascending processing times is one append-only ledger.                *)
(***************************************************************************)
EXTENDS Lifecycle, LifecycleHistory, FiniteSetTheorems, WellFoundedInduction, TLAPS

-----------------------------------------------------------------------------
(* Well-formed working states *)

AnyReason == RetirementReason \cup {NoReason}

(* Emitting an event keeps a working state well formed. *)
LEMMA EmitType ==
    ASSUME NEW w \in WorkingState, NEW s \in Subject, NEW type \in EventType,
           NEW from \in SubjectState \cup {"CONFIRMED"}, NEW to \in SubjectState,
           NEW index \in Nat, NEW fact \in Fact, NEW reason \in AnyReason
    PROVE  Emit(w, s, type, from, to, index, fact, reason) \in WorkingState
<1> DEFINE side == IF to = "FLIPPED" THEN Opposite(SideOf[s]) ELSE w.side
           event == [subject |-> s, type |-> type, from |-> from, to |-> to,
                     origin |-> fact.time, confirm |-> fact.confirm,
                     bar |-> index, tests |-> w.tests, side |-> side,
                     reason |-> reason, prior |-> Len(w.events)]
<1>1. side \in Side
  BY SubjectAssumption DEF Opposite, Side, WorkingState
<1>2. event \in Event
  <2>1. w.tests \in Nat /\ w.events \in Seq(Event) /\ fact.time \in Nat /\ fact.confirm \in Nat
    BY DEF WorkingState, Fact
  <2>2. Len(w.events) \in Nat
    BY <2>1
  <2> QED
    BY <1>1, <2>1, <2>2 DEF Event, AnyReason
<1>3. Append(w.events, event) \in Seq(Event)
  BY <1>2 DEF WorkingState
<1>4. Emit(w, s, type, from, to, index, fact, reason)
        = [w EXCEPT !.events = Append(w.events, event), !.state = to,
                    !.confirm = fact.confirm, !.side = side]
  BY DEF Emit
<1>5. fact.confirm \in Nat
  BY DEF Fact
<1> HIDE DEF side, event
<1> QED
  BY <1>1, <1>3, <1>4, <1>5 DEF WorkingState

(* A subject is activated well formed. *)
LEMMA ActivateType ==
    ASSUME NEW s \in Subject
    PROVE  Activate(s) \in WorkingState
<1> DEFINE at == [index |-> 0, time |-> ConfirmTimeOf[s], confirm |-> ConfirmTimeOf[s]]
           fresh == [state |-> "FRESH", side |-> SideOf[s], confirm |-> ConfirmTimeOf[s],
                     tests |-> 0, test |-> NoFact, break |-> NoFact, touch |-> NoFact,
                     flip |-> NoFact, retire |-> NoFact, reason |-> NoReason,
                     events |-> <<>>]
<1>1. at \in Fact
  BY SubjectAssumption DEF Fact
<1>2. fresh \in WorkingState
  BY SubjectAssumption
  DEF WorkingState, Fact, NoFact, SubjectState, ActiveState, Side
<1>3. Activate(s) = Emit(fresh, s, "ACTIVATED", "CONFIRMED", "FRESH", 0, at, NoReason)
  BY DEF Activate
<1> HIDE DEF at, fresh
<1> QED
  BY <1>1, <1>2, <1>3, EmitType DEF EventType, SubjectState, ActiveState, AnyReason

(* Each of the engine's outcomes for a subject is well formed. *)
LEMMA OutcomeType ==
    ASSUME NEW w \in WorkingState, NEW s \in Subject, NEW fact \in Fact
    PROVE  /\ Break(w, s, fact) \in WorkingState
           /\ w.state \in ActiveState => Test(w, s, fact) \in WorkingState
           /\ Flip(w, s, fact) \in WorkingState
           /\ FlipTouch(w, s, fact) \in WorkingState
           /\ \A reason \in RetirementReason : Retire(w, s, fact, reason) \in WorkingState
<1> USE DEF SubjectState, ActiveState, TerminalState, EventType, AnyReason
<1>0. fact.index \in Nat /\ w.state \in SubjectState
  BY DEF Fact, WorkingState
<1>1. Break(w, s, fact) \in WorkingState
  <2>1. [w EXCEPT !.break = fact] \in WorkingState
    BY DEF WorkingState
  <2> QED
    BY <1>0, <2>1, EmitType DEF Break
<1>2. ASSUME w.state \in ActiveState PROVE Test(w, s, fact) \in WorkingState
  <2> DEFINE type == IF WeakensNow(w) THEN "WEAKENED" ELSE "TEST"
             to == CASE w.state = "FRESH" -> "TESTED"
                     [] WeakensNow(w) -> "WEAKENED"
                     [] OTHER -> w.state
             counted == [w EXCEPT !.tests = w.tests + 1, !.test = fact]
  <2>1. counted \in WorkingState
    <3>1. w.tests + 1 \in Nat
      BY DEF WorkingState
    <3> QED
      BY <3>1 DEF WorkingState
  <2>2. type \in EventType /\ to \in SubjectState
    BY <1>0, <1>2 DEF WeakensNow
  <2>3. Test(w, s, fact)
          = Emit(counted, s, type, w.state, to, fact.index, fact, NoReason)
    BY DEF Test
  <2>4. w.state \in SubjectState \cup {"CONFIRMED"} /\ NoReason \in AnyReason
    BY <1>0
  <2> HIDE DEF type, to, counted, SubjectState, ActiveState, TerminalState,
               EventType, AnyReason
  <2> QED
    BY <1>0, <2>1, <2>2, <2>3, <2>4, EmitType
<1>3. Flip(w, s, fact) \in WorkingState
  <2>1. [w EXCEPT !.flip = fact] \in WorkingState
    BY DEF WorkingState
  <2> QED
    BY <1>0, <2>1, EmitType DEF Flip
<1>4. FlipTouch(w, s, fact) \in WorkingState
  <2>1. [w EXCEPT !.touch = fact] \in WorkingState
    BY DEF WorkingState
  <2> QED
    BY <1>0, <2>1, EmitType DEF FlipTouch
<1>5. ASSUME NEW reason \in RetirementReason PROVE Retire(w, s, fact, reason) \in WorkingState
  <2>1. [w EXCEPT !.retire = fact, !.reason = reason] \in WorkingState
    BY DEF WorkingState
  <2> QED
    BY <1>0, <2>1, EmitType DEF Retire
<1> QED
  BY <1>1, <1>2, <1>3, <1>4, <1>5

LEMMA ExpireType ==
    ASSUME NEW w \in WorkingState, NEW s \in Subject, NEW fact \in Fact
    PROVE  ExpireAtHorizon(w, s, fact) \in WorkingState
BY OutcomeType DEF ExpireAtHorizon, RetirementReason

(* A bar takes a well-formed state to a well-formed state. *)
LEMMA ProcessType ==
    ASSUME NEW w \in WorkingState, NEW s \in Subject, NEW bar \in Bar,
           NEW i \in Nat, NEW ct \in Nat
    PROVE  Process(w, s, bar, i, ct) \in WorkingState
<1> DEFINE fact == [index |-> i, time |-> bar.timestamp, confirm |-> ct]
<1>1. fact \in Fact
  BY DEF Fact, Bar
<1>2. w.state \in SubjectState
  BY DEF WorkingState
<1>3. ASSUME w.state \in ActiveState PROVE ProcessActive(w, s, bar, fact) \in WorkingState
  <2> HIDE DEF fact
  <2> QED
    BY <1>1, <1>3, OutcomeType DEF ProcessActive
<1>4. ProcessBroken(w, s, bar, fact) \in WorkingState
  <2> HIDE DEF fact
  <2>1. ExpireAtHorizon(FlipTouch(w, s, fact), s, fact) \in WorkingState
    BY <1>1, OutcomeType, ExpireType
  <2>2. /\ ExpireAtHorizon(w, s, fact) \in WorkingState
        /\ Flip(w, s, fact) \in WorkingState
        /\ Retire(w, s, fact, "FAILED_BREAK") \in WorkingState
    BY <1>1, OutcomeType, ExpireType DEF RetirementReason
  <2> QED
    BY <2>1, <2>2 DEF ProcessBroken
<1>5. Process(w, s, bar, i, ct)
        = IF ~Monitors(w, s, bar) THEN w
          ELSE IF w.state = "BROKEN" THEN ProcessBroken(w, s, bar, fact)
          ELSE ProcessActive(w, s, bar, fact)
  BY DEF Process
<1> HIDE DEF fact
<1> QED
  BY <1>2, <1>3, <1>4, <1>5 DEF Monitors, SubjectState

-----------------------------------------------------------------------------
(* What becomes of a state *)

(* The only way into BROKEN is a break on the current bar. *)
LEMMA ActiveOutcome ==
    ASSUME NEW w \in WorkingState, NEW s \in Subject, NEW bar, NEW fact \in Fact,
           w.state \in ActiveState
    PROVE  LET result == ProcessActive(w, s, bar, fact)
           IN /\ IsBreak(s, bar) => result.state = "BROKEN" /\ result.break = fact
              /\ ~IsBreak(s, bar) => /\ result.state \in ActiveState
                                     /\ result.break = w.break
<1>1. Break(w, s, fact).state = "BROKEN" /\ Break(w, s, fact).break = fact
  BY DEF Break, Emit, WorkingState
<1>2. Test(w, s, fact).state \in ActiveState /\ Test(w, s, fact).break = w.break
  <2> DEFINE to == CASE w.state = "FRESH" -> "TESTED"
                     [] WeakensNow(w) -> "WEAKENED"
                     [] OTHER -> w.state
  <2>1. to \in ActiveState
    BY DEF ActiveState
  <2>2. Test(w, s, fact).state = to /\ Test(w, s, fact).break = w.break
    BY DEF Test, Emit, WorkingState
  <2> QED
    BY <2>1, <2>2
<1> QED
  BY <1>1, <1>2 DEF ProcessActive

(* A broken subject keeps its break, and stays broken only before the      *)
(* horizon endpoint.                                                       *)
LEMMA BrokenOutcome ==
    ASSUME NEW w \in WorkingState, NEW s \in Subject, NEW bar, NEW fact \in Fact,
           w.state = "BROKEN", fact.index > w.break.index
    PROVE  LET result == ProcessBroken(w, s, bar, fact)
           IN /\ result.break = w.break
              /\ result.state \in TerminalState \cup {"BROKEN"}
              /\ result.state = "BROKEN" => ~AtHorizon(w, fact)
<1>1. ASSUME NEW reason
      PROVE  /\ Retire(w, s, fact, reason).state = "RETIRED"
             /\ Retire(w, s, fact, reason).break = w.break
  BY DEF Retire, Emit, WorkingState
<1>2. Flip(w, s, fact).state = "FLIPPED" /\ Flip(w, s, fact).break = w.break
  BY DEF Flip, Emit, WorkingState
<1> DEFINE touched == FlipTouch(w, s, fact)
<1>3. touched.state = "BROKEN" /\ touched.break = w.break
  BY DEF FlipTouch, Emit, WorkingState
<1>4. touched \in WorkingState
  BY OutcomeType
<1>5. /\ Retire(touched, s, fact, "FLIP_HORIZON_EXPIRED").state = "RETIRED"
      /\ Retire(touched, s, fact, "FLIP_HORIZON_EXPIRED").break = w.break
  <2> HIDE DEF touched
  <2> QED
    BY <1>3, <1>4 DEF Retire, Emit, WorkingState
<1>6. AtHorizon(touched, fact) <=> AtHorizon(w, fact)
  BY <1>3 DEF AtHorizon
<1> DEFINE late == ExpireAtHorizon(touched, s, fact)
           expired == ExpireAtHorizon(w, s, fact)
<1>7. /\ late.break = w.break /\ late.state \in {"RETIRED", "BROKEN"}
      /\ late.state = "BROKEN" => ~AtHorizon(w, fact)
  <2> HIDE DEF touched
  <2> QED
    BY <1>3, <1>5, <1>6 DEF ExpireAtHorizon
<1>8. /\ expired.break = w.break /\ expired.state \in {"RETIRED", "BROKEN"}
      /\ expired.state = "BROKEN" => ~AtHorizon(w, fact)
  BY <1>1 DEF ExpireAtHorizon
<1>9. ~(fact.index <= w.break.index)
  <2>1. w.break \in Fact
    BY DEF WorkingState
  <2>2. fact.index \in Nat /\ w.break.index \in Nat
    BY <2>1 DEF Fact
  <2> QED
    BY <2>2
<1>10. \/ ProcessBroken(w, s, bar, fact) = Retire(w, s, fact, "FAILED_BREAK")
       \/ ProcessBroken(w, s, bar, fact) = late
       \/ ProcessBroken(w, s, bar, fact) = Flip(w, s, fact)
       \/ ProcessBroken(w, s, bar, fact) = expired
  BY <1>9 DEF ProcessBroken
<1> DEFINE result == ProcessBroken(w, s, bar, fact)
<1> HIDE DEF touched, late, expired, result
<1>11. /\ result.break = w.break
       /\ result.state \in TerminalState \cup {"BROKEN"}
       /\ result.state = "BROKEN" => ~AtHorizon(w, fact)
  <2>1. CASE result = Retire(w, s, fact, "FAILED_BREAK")
    BY <2>1, <1>1 DEF TerminalState
  <2>2. CASE result = late
    BY <2>2, <1>7 DEF TerminalState
  <2>3. CASE result = Flip(w, s, fact)
    BY <2>3, <1>2 DEF TerminalState
  <2>4. CASE result = expired
    BY <2>4, <1>8 DEF TerminalState
  <2> QED
    BY <1>10, <2>1, <2>2, <2>3, <2>4 DEF result
<1> QED
  BY <1>11 DEF result

-----------------------------------------------------------------------------
(* One emission: w becomes x by event e about fact.  Every outcome of the  *)
(* engine is one emission, or two on one bar when a flip touch expires.    *)

CountsFit(w) ==
    /\ w.state = "FRESH" => w.tests = 0
    /\ w.state = "TESTED" => w.tests < WeakeningTestCount
    /\ w.state = "WEAKENED" => w.tests >= WeakeningTestCount

(* What the contracts say of one subject, with the counts that decide the  *)
(* next test: the strengthening that makes acceptance inductive.           *)
Sound(w, s) ==
    /\ Accepted(w, s, w.confirm)
    /\ CountsFit(w)
    /\ Present(w.retire) => w.state = "RETIRED"

Emits(w, x, s, e, fact) ==
    /\ e \in Event /\ e.subject = s /\ e.prior = Len(w.events)
    /\ e.bar = fact.index /\ e.origin = fact.time /\ e.confirm = fact.confirm
    /\ e.from = w.state /\ e.type # "ACTIVATED"
    /\ <<e.type, e.from, e.to>> \in Transition
    /\ e.tests = w.tests + (IF IsTest(e) THEN 1 ELSE 0) /\ TestCountFits(e)
    /\ e.side = IF e.type = "FLIPPED" THEN Opposite(SideOf[s]) ELSE SideOf[s]
    /\ e.type = "RETIRED" <=> e.reason \in RetirementReason
    /\ x.events = Append(w.events, e)
    /\ x.state = e.to /\ x.confirm = e.confirm /\ x.tests = e.tests /\ x.side = e.side
    /\ x.test = IF IsTest(e) THEN fact ELSE w.test
    /\ x.break = IF e.type = "BROKEN" THEN fact ELSE w.break
    /\ x.touch = IF e.type = "FLIP_TOUCH" THEN fact ELSE w.touch
    /\ x.flip = IF e.type = "FLIPPED" THEN fact ELSE w.flip
    /\ x.retire = IF e.type = "RETIRED" THEN fact ELSE w.retire
    /\ x.reason = IF e.type = "RETIRED" THEN e.reason ELSE w.reason

(* A fact that may follow a state: on a bar the subject monitors.          *)
Timely(w, s, fact) ==
    /\ fact.index # 0
    /\ ConfirmTimeOf[s] <= fact.time /\ fact.time <= fact.confirm
    /\ w.confirm <= fact.confirm

(* The parts of a state an event of its kind finds empty or in the past.   *)
Opens(w, e, fact) ==
    /\ e.type = "FLIP_TOUCH" => ~Present(w.touch) /\ w.break.time < fact.time
    /\ e.type = "FLIPPED" => Present(w.touch) /\ w.touch.time < fact.time
    /\ e.type = "RETIRED" => w.break.time < fact.time

(* The ledger stays a valid progression.                                   *)
LEMMA LedgerGrows ==
    ASSUME NEW s \in Subject, NEW w \in WorkingState, NEW x \in WorkingState, NEW e, NEW fact \in Fact,
           Sound(w, s), Emits(w, x, s, e, fact), Timely(w, s, fact), w.state \notin TerminalState
    PROVE  LedgerOK(x.events, s)
<1> DEFINE L == w.events
           n == Len(L)
<1>1. /\ L \in Seq(Event) /\ L # <<>> /\ n \in Nat /\ n >= 1
      /\ x.events = Append(L, e) /\ e \in Event
      /\ Append(L, e) # <<>> /\ Append(L, e)[1] = L[1]
      /\ DOMAIN Append(L, e) = 1 .. n + 1 /\ DOMAIN L = 1 .. n
      /\ \A k \in 1 .. n : Append(L, e)[k] = L[k]
      /\ Append(L, e)[n + 1] = e
  BY DEF WorkingState, Sound, Accepted, LedgerOK, Emits
<1>2. /\ LedgerOK(L, s)
      /\ w.state = L[n].to /\ w.confirm = L[n].confirm /\ w.tests = L[n].tests
  BY DEF Sound, Accepted, StateMatchesLedger
<1>3. EventOK(e)
  <2>1. e.origin <= e.confirm /\ e.bar # 0 /\ e.prior # 0
    BY <1>1 DEF Emits, Timely
  <2>2. IsTest(e) => e.tests >= 1
    BY DEF Emits, WorkingState
  <2> QED
    BY <2>1, <2>2 DEF Emits, EventOK
<1>4. Follows(e, L[n], n + 1)
  BY <1>1, <1>2 DEF Emits, Follows, Timely
<1>5. e.side = IF e.type = "FLIPPED" THEN Opposite(SideOf[s]) ELSE SideOf[s]
  BY DEF Emits
<1> DEFINE G == Append(L, e)
<1>6. ASSUME NEW k \in DOMAIN G
      PROVE  /\ EventOK(G[k]) /\ G[k].subject = s
             /\ G[k].side = IF G[k].type = "FLIPPED" THEN Opposite(SideOf[s]) ELSE SideOf[s]
             /\ k > 1 => Follows(G[k], G[k - 1], k)
  <2>1. CASE k = n + 1
    <3>1. G[k] = e /\ G[k - 1] = L[n] /\ e.subject = s
      BY <1>1, <2>1 DEF Emits
    <3> HIDE DEF G, L, n
    <3> QED
      BY <1>3, <1>4, <1>5, <2>1, <3>1
  <2>2. CASE k # n + 1
    <3>1. k \in 1 .. n /\ G[k] = L[k] /\ (k > 1 => G[k - 1] = L[k - 1])
      BY <1>1, <2>2
    <3> HIDE DEF G, L, n
    <3> QED
      BY <1>1, <1>2, <3>1 DEF LedgerOK
  <2> QED
    BY <2>1, <2>2
<1>7. G # <<>> /\ BeginsLedger(G[1], s)
  BY <1>1, <1>2 DEF LedgerOK
<1> HIDE DEF G, L, n
<1>8. x.events = G
  BY <1>1 DEF G
<1> QED
  BY <1>6, <1>7, <1>8 DEF LedgerOK

(* A kind of fact keeps matching its event when an event of another kind   *)
(* is added, and matches the first event of its own kind.                  *)
LEMMA MatchesGrows ==
    ASSUME NEW L \in Seq(Event), NEW e \in Event, NEW f \in Fact, NEW fact \in Fact, NEW type,
           MatchesOnly(f, L, type), fact.index # 0,
           fact = [index |-> e.bar, time |-> e.origin, confirm |-> e.confirm],
           e.type = type => ~Present(f)
    PROVE  MatchesOnly(IF e.type = type THEN fact ELSE f, Append(L, e), type)
<1> DEFINE G == Append(L, e)
           n == Len(L)
           old == PositionsOf(L, {type})
           new == PositionsOf(G, {type})
           g == IF e.type = type THEN fact ELSE f
<1>1. /\ n \in Nat /\ DOMAIN G = 1 .. n + 1 /\ DOMAIN L = 1 .. n
      /\ \A k \in 1 .. n : G[k] = L[k]
      /\ G[n + 1] = e
  OBVIOUS
<1>2. old = {k \in 1 .. n : L[k].type = type} /\ new = {k \in 1 .. n + 1 : G[k].type = type}
  BY <1>1 DEF PositionsOf
<1>3. /\ \A j, k \in old : j = k
      /\ Present(f) <=> old # {}
      /\ \A k \in old : f = [index |-> L[k].bar, time |-> L[k].origin, confirm |-> L[k].confirm]
  BY DEF MatchesOnly
<1> HIDE DEF G, n, old, new
<1>4. CASE e.type = type
  <2>1. old = {}
    BY <1>3, <1>4
  <2>2. new = {n + 1}
    BY <1>1, <1>2, <1>4, <2>1
  <2> QED
    BY <1>1, <1>4, <2>2 DEF MatchesOnly, Present, new, G
<1>5. CASE e.type # type
  <2>1. new = old
    BY <1>1, <1>2, <1>5
  <2>2. \A k \in old : k \in 1 .. n /\ G[k] = L[k]
    BY <1>1, <1>2
  <2> QED
    BY <1>3, <1>5, <2>1, <2>2 DEF MatchesOnly, new, G
<1> QED
  BY <1>4, <1>5

(* The facts of the state keep matching the events of the ledger.          *)
LEMMA MatchGrows ==
    ASSUME NEW s \in Subject, NEW w \in WorkingState, NEW x \in WorkingState, NEW e, NEW fact \in Fact,
           Sound(w, s), Emits(w, x, s, e, fact), Timely(w, s, fact),
           w.state \notin TerminalState, Opens(w, e, fact)
    PROVE  StateMatchesLedger(x)
<1> DEFINE L == w.events
           n == Len(L)
<1>1. /\ L \in Seq(Event) /\ n \in Nat /\ x.events = Append(L, e) /\ e \in Event
      /\ Len(Append(L, e)) = n + 1 /\ Append(L, e)[n + 1] = e
      /\ DOMAIN Append(L, e) = 1 .. n + 1 /\ DOMAIN L = 1 .. n
      /\ \A k \in 1 .. n : Append(L, e)[k] = L[k]
  BY DEF WorkingState, Emits
<1>2. /\ w.break \in Fact /\ w.touch \in Fact /\ w.flip \in Fact /\ w.retire \in Fact
      /\ StateMatchesLedger(w) /\ StateOK(w, s, w.confirm)
  BY DEF WorkingState, Sound, Accepted
<1>3. fact.index # 0 /\ fact = [index |-> e.bar, time |-> e.origin, confirm |-> e.confirm]
  BY DEF Timely, Emits, Fact
<1>4. /\ e.type = "BROKEN" => ~Present(w.break)
      /\ e.type = "FLIP_TOUCH" => ~Present(w.touch)
      /\ e.type = "FLIPPED" => ~Present(w.flip)
      /\ e.type = "RETIRED" => ~Present(w.retire)
  <2>1. e.type = "BROKEN" => e.from \in ActiveState
    BY DEF Emits, Transition, ActiveState
  <2>2. w.state \in ActiveState <=> ~Present(w.break)
    BY <1>2 DEF StateOK
  <2>3. w.state = "FLIPPED" <=> Present(w.flip)
    BY <1>2 DEF StateOK
  <2> QED
    BY <2>1, <2>2, <2>3 DEF Emits, Opens, Sound, TerminalState
<1>5. /\ MatchesOnly(x.break, x.events, "BROKEN")
      /\ MatchesOnly(x.touch, x.events, "FLIP_TOUCH")
      /\ MatchesOnly(x.flip, x.events, "FLIPPED")
      /\ MatchesOnly(x.retire, x.events, "RETIRED")
  <2>1. /\ MatchesOnly(w.break, L, "BROKEN") /\ MatchesOnly(w.touch, L, "FLIP_TOUCH")
        /\ MatchesOnly(w.flip, L, "FLIPPED") /\ MatchesOnly(w.retire, L, "RETIRED")
    BY <1>2 DEF StateMatchesLedger
  <2>2. /\ x.break = IF e.type = "BROKEN" THEN fact ELSE w.break
        /\ x.touch = IF e.type = "FLIP_TOUCH" THEN fact ELSE w.touch
        /\ x.flip = IF e.type = "FLIPPED" THEN fact ELSE w.flip
        /\ x.retire = IF e.type = "RETIRED" THEN fact ELSE w.retire
    BY DEF Emits
  <2> HIDE DEF L
  <2>3. MatchesOnly(x.break, x.events, "BROKEN")
    BY <1>1, <1>2, <1>3, <1>4, <2>1, <2>2, MatchesGrows
  <2>4. MatchesOnly(x.touch, x.events, "FLIP_TOUCH")
    BY <1>1, <1>2, <1>3, <1>4, <2>1, <2>2, MatchesGrows
  <2>5. MatchesOnly(x.flip, x.events, "FLIPPED")
    BY <1>1, <1>2, <1>3, <1>4, <2>1, <2>2, MatchesGrows
  <2>6. MatchesOnly(x.retire, x.events, "RETIRED")
    BY <1>1, <1>2, <1>3, <1>4, <2>1, <2>2, MatchesGrows
  <2> QED
    BY <2>3, <2>4, <2>5, <2>6
<1> DEFINE G == Append(L, e)
           old == PositionsOf(L, {"TEST", "WEAKENED"})
           new == PositionsOf(G, {"TEST", "WEAKENED"})
<1>6. /\ old = {k \in 1 .. n : L[k].type \in {"TEST", "WEAKENED"}}
      /\ new = {k \in 1 .. n + 1 : G[k].type \in {"TEST", "WEAKENED"}}
  BY <1>1 DEF PositionsOf
<1>7. /\ old = {} => ~Present(w.test)
      /\ \A k \in old : (\A j \in old : j <= k) =>
            /\ w.test = [index |-> L[k].bar, time |-> L[k].origin, confirm |-> L[k].confirm]
            /\ w.tests = L[k].tests
  BY <1>2 DEF StateMatchesLedger
<1>8. \A k \in 1 .. n : G[k] = L[k]
  BY <1>1
<1>9. G[n + 1] = e /\ n \in Nat
  BY <1>1
<1> HIDE DEF G, L, n, old, new
<1>10. /\ new = {} => ~Present(x.test)
       /\ \A k \in new : (\A j \in new : j <= k) =>
            /\ x.test = [index |-> G[k].bar, time |-> G[k].origin, confirm |-> G[k].confirm]
            /\ x.tests = G[k].tests
  <2>1. CASE IsTest(e)
    <3>1. n + 1 \in new /\ \A k \in new : k \in 1 .. n + 1
      BY <1>6, <1>9, <2>1 DEF IsTest
    <3>2. x.test = fact /\ x.tests = e.tests
      BY <2>1 DEF Emits
    <3>3. ASSUME NEW k \in new, \A j \in new : j <= k PROVE k = n + 1
      BY <1>9, <3>1, <3>3
    <3> QED
      BY <1>3, <1>9, <3>1, <3>2, <3>3
  <2>2. CASE ~IsTest(e)
    <3>1. new = old
      BY <1>6, <1>8, <1>9, <2>2 DEF IsTest
    <3>2. x.test = w.test /\ x.tests = w.tests
      BY <2>2 DEF Emits, WorkingState
    <3>3. \A k \in old : G[k] = L[k]
      BY <1>6, <1>8
    <3> QED
      BY <1>7, <3>1, <3>2, <3>3
  <2> QED
    BY <2>1, <2>2
<1>11. \A k \in PositionsOf(G, {"RETIRED"}) : x.reason = G[k].reason
  <2> SUFFICES ASSUME NEW k \in PositionsOf(G, {"RETIRED"}) PROVE x.reason = G[k].reason
    OBVIOUS
  <2>1. k \in 1 .. n + 1 /\ G[k].type = "RETIRED"
    BY <1>1 DEF PositionsOf, G, L
  <2>2. CASE k = n + 1
    BY <1>9, <2>1, <2>2 DEF Emits
  <2>3. CASE k # n + 1
    <3>1. k \in PositionsOf(L, {"RETIRED"}) /\ G[k] = L[k]
      BY <1>1, <1>8, <1>9, <2>1, <2>3 DEF PositionsOf, L, n
    <3>2. w.reason = L[k].reason /\ Present(w.retire)
      BY <1>2, <3>1 DEF StateMatchesLedger, MatchesOnly, L
    <3>3. e.type # "RETIRED"
      BY <1>4, <3>2
    <3> QED
      BY <3>1, <3>2, <3>3 DEF Emits
  <2> QED
    BY <2>2, <2>3
<1>12. x.events = G /\ Len(G) = n + 1
  BY <1>1 DEF G, n
<1>13. /\ x.state = G[Len(G)].to /\ x.confirm = G[Len(G)].confirm
       /\ x.tests = G[Len(G)].tests /\ x.side = G[Len(G)].side
  BY <1>9, <1>12 DEF Emits
<1> QED
  BY <1>5, <1>10, <1>11, <1>12, <1>13 DEF StateMatchesLedger, new

(* The facts of a state stay inside its contract.                          *)
LEMMA StateGrows ==
    ASSUME NEW s \in Subject, NEW w \in WorkingState, NEW x \in WorkingState, NEW e, NEW fact \in Fact,
           Sound(w, s), Emits(w, x, s, e, fact), Timely(w, s, fact),
           w.state \notin TerminalState, Opens(w, e, fact)
    PROVE  StateOK(x, s, x.confirm) /\ CountsFit(x) /\ (Present(x.retire) => x.state = "RETIRED")
<1> DEFINE before == ConfirmTimeOf[s]
<1>1. /\ w.test \in Fact /\ w.break \in Fact /\ w.touch \in Fact /\ w.flip \in Fact /\ w.retire \in Fact
      /\ w.tests \in Nat /\ w.confirm \in Nat /\ before \in Nat
      /\ w.state \in ActiveState \cup {"BROKEN"}
  BY SubjectAssumption DEF WorkingState, SubjectState
<1>2. /\ \A f \in Fact : f.index \in Nat /\ f.time \in Nat /\ f.confirm \in Nat
      /\ WeakeningTestCount \in Nat /\ WeakeningTestCount >= 2
  BY ConfigAssumption DEF Fact
<1>3. StateOK(w, s, w.confirm) /\ CountsFit(w) /\ (Present(w.retire) => w.state = "RETIRED")
  BY DEF Sound, Accepted
<1>4. Present(fact) /\ before <= fact.time /\ fact.time <= fact.confirm /\ w.confirm <= fact.confirm
  BY DEF Timely, Present
<1>5. /\ x.state = e.to /\ x.confirm = fact.confirm /\ x.tests = e.tests
      /\ x.side = IF e.type = "FLIPPED" THEN Opposite(SideOf[s]) ELSE SideOf[s]
      /\ e.tests = w.tests + (IF IsTest(e) THEN 1 ELSE 0)
      /\ e.from = w.state /\ <<e.type, e.from, e.to>> \in Transition
      /\ TestCountFits(e) /\ e.type # "ACTIVATED"
      /\ e.type = "RETIRED" <=> e.reason \in RetirementReason
  BY DEF Emits
<1>6. /\ x.test = IF IsTest(e) THEN fact ELSE w.test
      /\ x.break = IF e.type = "BROKEN" THEN fact ELSE w.break
      /\ x.touch = IF e.type = "FLIP_TOUCH" THEN fact ELSE w.touch
      /\ x.flip = IF e.type = "FLIPPED" THEN fact ELSE w.flip
      /\ x.retire = IF e.type = "RETIRED" THEN fact ELSE w.retire
      /\ x.reason = IF e.type = "RETIRED" THEN e.reason ELSE w.reason
  BY DEF Emits
<1>7. \A f \in Facts(w) : /\ f \in Fact /\ CausallyOrdered(f)
                          /\ Present(f) => before <= f.time /\ f.confirm <= fact.confirm
  <2> SUFFICES ASSUME NEW f \in Facts(w)
               PROVE  /\ f \in Fact /\ CausallyOrdered(f)
                      /\ Present(f) => before <= f.time /\ f.confirm <= fact.confirm
    OBVIOUS
  <2>1. f \in Fact
    BY <1>1 DEF Facts
  <2>2. CausallyOrdered(f) /\ (Present(f) => f.time >= before /\ f.confirm <= w.confirm)
    BY <1>3 DEF StateOK
  <2>3. f.time \in Nat /\ f.confirm \in Nat /\ fact.confirm \in Nat
    BY <1>2, <2>1
  <2> QED
    BY <1>1, <1>4, <2>1, <2>2, <2>3
<1>8. Facts(x) \subseteq Facts(w) \cup {fact} /\ fact \in Facts(x)
  <2>1. Facts(x) \subseteq Facts(w) \cup {fact}
    BY <1>6 DEF Facts
  <2>2. e.type \in {"TEST", "WEAKENED", "BROKEN", "FLIP_TOUCH", "FLIPPED", "RETIRED"}
    BY <1>5 DEF Transition
  <2> QED
    BY <1>6, <2>1, <2>2 DEF Facts, IsTest
<1>9. \A f \in Facts(x) : /\ CausallyOrdered(f)
                          /\ Present(f) => f.time >= before /\ f.confirm <= x.confirm
  <2> SUFFICES ASSUME NEW f \in Facts(x)
               PROVE  /\ CausallyOrdered(f)
                      /\ Present(f) => f.time >= before /\ f.confirm <= x.confirm
    OBVIOUS
  <2>1. CASE f = fact
    BY <1>2, <1>4, <1>5, <2>1 DEF CausallyOrdered
  <2>2. CASE f # fact
    <3>1. f \in Facts(w)
      BY <1>8, <2>2
    <3> QED
      BY <1>1, <1>2, <1>5, <1>7, <3>1
  <2> QED
    BY <2>1, <2>2
<1>10. x.confirm \in {before} \cup {f.confirm : f \in {g \in Facts(x) : Present(g)}}
  BY <1>4, <1>5, <1>8
<1>11. before <= x.confirm /\ x.confirm <= x.confirm
  BY <1>1, <1>2, <1>4, <1>5
<1>12. /\ w.tests = 0 <=> ~Present(w.test)
       /\ w.state = "FRESH" => w.tests = 0
       /\ w.state \in {"TESTED", "WEAKENED"} => w.tests >= 1
       /\ w.state \in ActiveState <=> ~Present(w.break)
       /\ ~Present(w.flip) /\ ~Present(w.retire)
       /\ Causes(w.break, w.touch)
  BY <1>1, <1>3 DEF StateOK, ActiveState
<1>13. CASE IsTest(e)
  <2>1. /\ x.tests = w.tests + 1 /\ x.test = fact /\ x.state \in ActiveState
        /\ x.break = w.break /\ x.touch = w.touch /\ x.flip = w.flip /\ x.retire = w.retire
        /\ x.side = SideOf[s] /\ x.state # "FRESH" /\ w.state \in ActiveState
    BY <1>5, <1>6, <1>13 DEF IsTest, Transition, ActiveState
  <2>2. CountsFit(x)
    <3>1. /\ x.state = "TESTED" => x.tests < WeakeningTestCount
          /\ x.state = "WEAKENED" => x.tests >= WeakeningTestCount
      <4>1. CASE w.state = "FRESH"
        <5>1. x.state = "TESTED" /\ x.tests = 1
          BY <1>5, <1>12, <1>13, <2>1, <4>1 DEF IsTest, Transition, ActiveState
        <5> QED
          BY <1>2, <5>1
      <4>2. CASE w.state # "FRESH"
        <5>1. /\ x.state = "TESTED" => e.from = "TESTED" /\ e.to = "TESTED"
              /\ x.state = "WEAKENED" => e.from \in {"TESTED", "WEAKENED"} /\ e.to = "WEAKENED"
          BY <1>5, <1>13, <4>2 DEF IsTest, Transition, ActiveState
        <5>2. /\ x.state = "TESTED" => e.tests < WeakeningTestCount
              /\ x.state = "WEAKENED" => e.tests >= WeakeningTestCount
          <6>1. e.tests \in Nat
            BY <1>1, <1>5
          <6> QED
            BY <1>2, <1>5, <5>1, <6>1 DEF TestCountFits
        <5> QED
          BY <1>5, <5>2
      <4> QED
        BY <4>1, <4>2
    <3> QED
      BY <2>1, <3>1 DEF CountsFit
  <2>3. x.tests # 0 /\ x.tests >= 1
    BY <1>1, <2>1
  <2> QED
    BY <1>4, <1>9, <1>10, <1>11, <1>12, <2>1, <2>2, <2>3
    DEF StateOK, Causes, ActiveState, TerminalState
<1>14. CASE ~IsTest(e)
  <2>1. x.tests = w.tests /\ x.test = w.test
    BY <1>1, <1>5, <1>6, <1>14
  <2>2. /\ x.state \notin ActiveState /\ x.state \in {"BROKEN", "FLIPPED", "RETIRED"}
        /\ e.type = "BROKEN" => x.state = "BROKEN" /\ w.state \in ActiveState
        /\ e.type = "FLIP_TOUCH" => x.state = "BROKEN" /\ w.state = "BROKEN"
        /\ e.type = "FLIPPED" <=> x.state = "FLIPPED"
        /\ e.type = "RETIRED" <=> x.state = "RETIRED"
        /\ e.type \in {"FLIPPED", "RETIRED"} => w.state = "BROKEN"
        /\ e.type \in {"BROKEN", "FLIP_TOUCH", "FLIPPED", "RETIRED"}
    BY <1>5, <1>14 DEF IsTest, Transition, ActiveState
  <2>3. CountsFit(x)
    BY <2>2 DEF CountsFit
  <2>4. Present(x.break) /\ Causes(x.break, x.touch)
    <3>1. CASE e.type = "BROKEN"
      BY <1>4, <1>6, <1>12, <2>2, <3>1 DEF Causes
    <3>2. CASE e.type = "FLIP_TOUCH"
      <4>1. /\ x.break = w.break /\ x.touch = fact /\ Present(w.break) /\ w.break.time < fact.time
            /\ w.break \in Facts(w)
        BY <1>6, <1>12, <2>2, <3>2 DEF Opens, ActiveState, Facts
      <4> QED
        BY <1>7, <4>1 DEF Causes
    <3>3. CASE e.type \in {"FLIPPED", "RETIRED"}
      BY <1>6, <1>12, <2>2, <3>3 DEF ActiveState
    <3> QED
      BY <2>2, <3>1, <3>2, <3>3
  <2>5. Causes(x.break, x.retire)
    <3>1. CASE e.type = "RETIRED"
      <4>1. /\ x.break = w.break /\ x.retire = fact /\ Present(w.break) /\ w.break.time < fact.time
            /\ w.break \in Facts(w)
        BY <1>6, <1>12, <2>2, <3>1 DEF Opens, ActiveState, Facts
      <4> QED
        BY <1>7, <4>1 DEF Causes
    <3>2. CASE e.type # "RETIRED"
      BY <1>6, <1>12, <3>2 DEF Causes
    <3> QED
      BY <3>1, <3>2
  <2>6. /\ x.state = "FLIPPED" <=> Present(x.flip)
        /\ Present(x.flip) => Present(x.touch) /\ x.touch.time < x.flip.time
    BY <1>4, <1>6, <1>12, <2>2 DEF Opens
  <2>7. /\ x.state = "RETIRED" <=> Present(x.retire) /\ x.reason \in RetirementReason
        /\ Present(x.retire) => x.state = "RETIRED"
    BY <1>4, <1>5, <1>6, <1>12, <2>2
  <2> QED
    BY <1>5, <1>9, <1>10, <1>11, <1>12, <2>1, <2>2, <2>3, <2>4, <2>5, <2>6, <2>7
    DEF StateOK, ActiveState
<1> QED
  BY <1>13, <1>14

(* Acceptance is inductive: an emission the bar and the state allow takes  *)
(* an accepted state to an accepted one.                                   *)
LEMMA SoundGrows ==
    ASSUME NEW s \in Subject, NEW w \in WorkingState, NEW x \in WorkingState, NEW e, NEW fact \in Fact,
           Sound(w, s), Emits(w, x, s, e, fact), Timely(w, s, fact),
           w.state \notin TerminalState, Opens(w, e, fact)
    PROVE  Sound(x, s)
BY LedgerGrows, MatchGrows, StateGrows DEF Sound, Accepted

-----------------------------------------------------------------------------
(* Each outcome is an emission                                             *)

(* The event an outcome emits. *)
Emitted(w, s, type, to, tests, fact, reason) ==
    [subject |-> s, type |-> type, from |-> w.state, to |-> to,
     origin |-> fact.time, confirm |-> fact.confirm, bar |-> fact.index,
     tests |-> tests, side |-> IF to = "FLIPPED" THEN Opposite(SideOf[s]) ELSE SideOf[s],
     reason |-> reason, prior |-> Len(w.events)]

(* The emitted event is well formed.                                       *)
LEMMA EmittedType ==
    ASSUME NEW w \in WorkingState, NEW s \in Subject, NEW type \in EventType, NEW to \in SubjectState,
           NEW tests \in Nat, NEW fact \in Fact, NEW reason \in AnyReason
    PROVE  Emitted(w, s, type, to, tests, fact, reason) \in Event
<1>1. /\ w.state \in SubjectState /\ Len(w.events) \in Nat
      /\ fact.time \in Nat /\ fact.confirm \in Nat /\ fact.index \in Nat
  BY DEF WorkingState, Fact
<1>2. (IF to = "FLIPPED" THEN Opposite(SideOf[s]) ELSE SideOf[s]) \in Side
  BY SubjectAssumption DEF Opposite, Side
<1> QED
  BY <1>1, <1>2 DEF Emitted, Event, AnyReason

(* A break emits one BROKEN event.                                         *)
LEMMA BreakEmits ==
    ASSUME NEW s \in Subject, NEW w \in WorkingState, NEW fact \in Fact,
           Sound(w, s), w.state \in ActiveState
    PROVE  Emits(w, Break(w, s, fact), s,
                 Emitted(w, s, "BROKEN", "BROKEN", w.tests, fact, NoReason), fact)
<1> DEFINE e == Emitted(w, s, "BROKEN", "BROKEN", w.tests, fact, NoReason)
           x == Break(w, s, fact)
<1>1. w.side = SideOf[s] /\ w.tests \in Nat
  BY DEF Sound, Accepted, StateOK, ActiveState, WorkingState
<1>2. e \in Event
  BY <1>1, EmittedType DEF EventType, SubjectState, AnyReason
<1>3. e = [subject |-> s, type |-> "BROKEN", from |-> w.state, to |-> "BROKEN",
           origin |-> fact.time, confirm |-> fact.confirm, bar |-> fact.index,
           tests |-> w.tests, side |-> SideOf[s], reason |-> NoReason, prior |-> Len(w.events)]
  BY DEF Emitted
<1>4. x = [w EXCEPT !.break = fact, !.events = Append(w.events, e), !.state = "BROKEN",
                    !.confirm = fact.confirm, !.side = SideOf[s]]
  BY <1>1, <1>3 DEF Break, Emit, WorkingState
<1>5. /\ x.events = Append(w.events, e) /\ x.state = "BROKEN" /\ x.confirm = fact.confirm
      /\ x.side = SideOf[s] /\ x.tests = w.tests /\ x.test = w.test /\ x.break = fact
      /\ x.touch = w.touch /\ x.flip = w.flip /\ x.retire = w.retire /\ x.reason = w.reason
  <2> HIDE DEF x, e
  <2> QED
    BY <1>4 DEF WorkingState
<1>6. <<"BROKEN", w.state, "BROKEN">> \in Transition
  BY DEF Transition
<1> HIDE DEF x
<1>7. /\ e.subject = s /\ e.type = "BROKEN" /\ e.from = w.state /\ e.to = "BROKEN"
      /\ e.origin = fact.time /\ e.confirm = fact.confirm /\ e.bar = fact.index
      /\ e.tests = w.tests /\ e.side = SideOf[s] /\ e.reason = NoReason /\ e.prior = Len(w.events)
  BY <1>3
<1> HIDE DEF e
<1>8. Emits(w, x, s, e, fact)
  BY <1>1, <1>2, <1>5, <1>6, <1>7
  DEF Emits, IsTest, TestCountFits, RetirementReason, NoReason, ActiveState
<1> QED
  BY <1>8 DEF x, e

(* The event a test emits. *)
TestType(w) == IF WeakensNow(w) THEN "WEAKENED" ELSE "TEST"
TestTo(w) == CASE w.state = "FRESH" -> "TESTED"
               [] WeakensNow(w) -> "WEAKENED"
               [] OTHER -> w.state

(* A counted test emits one TEST or WEAKENED event.                        *)
LEMMA TestEmits ==
    ASSUME NEW s \in Subject, NEW w \in WorkingState, NEW fact \in Fact,
           Sound(w, s), w.state \in ActiveState
    PROVE  Emits(w, Test(w, s, fact), s,
                 Emitted(w, s, TestType(w), TestTo(w), w.tests + 1, fact, NoReason), fact)
<1> DEFINE type == TestType(w)
           to == TestTo(w)
           e == Emitted(w, s, type, to, w.tests + 1, fact, NoReason)
           x == Test(w, s, fact)
<1>1. w.side = SideOf[s] /\ w.tests \in Nat /\ w.tests + 1 \in Nat
  BY DEF Sound, Accepted, StateOK, ActiveState, WorkingState
<1>2. /\ type \in {"TEST", "WEAKENED"} /\ to \in ActiveState /\ to # "FLIPPED"
      /\ <<type, w.state, to>> \in Transition
  BY DEF TestType, TestTo, WeakensNow, ActiveState, Transition
<1>3. e \in Event
  BY <1>1, <1>2, EmittedType DEF EventType, SubjectState, AnyReason
<1>4. e = [subject |-> s, type |-> type, from |-> w.state, to |-> to,
           origin |-> fact.time, confirm |-> fact.confirm, bar |-> fact.index,
           tests |-> w.tests + 1, side |-> SideOf[s], reason |-> NoReason, prior |-> Len(w.events)]
  BY <1>2 DEF Emitted
<1>5. x = [w EXCEPT !.tests = w.tests + 1, !.test = fact, !.events = Append(w.events, e),
                    !.state = to, !.confirm = fact.confirm, !.side = SideOf[s]]
  <2> DEFINE counted == [w EXCEPT !.tests = w.tests + 1, !.test = fact]
  <2>1. Test(w, s, fact) = Emit(counted, s, type, w.state, to, fact.index, fact, NoReason)
    BY DEF Test, TestType, TestTo
  <2>2. /\ counted.tests = w.tests + 1 /\ counted.events = w.events /\ counted.side = SideOf[s]
        /\ counted.state = w.state
    BY <1>1 DEF WorkingState
  <2> HIDE DEF e, to, type
  <2>3. Emit(counted, s, type, w.state, to, fact.index, fact, NoReason)
          = [counted EXCEPT !.events = Append(w.events, e), !.state = to,
                            !.confirm = fact.confirm, !.side = SideOf[s]]
    <3> HIDE DEF counted
    <3> QED
      BY <1>2, <1>4, <2>2 DEF Emit
  <2> QED
    BY <2>1, <2>3
<1>6. /\ x.events = Append(w.events, e) /\ x.state = to /\ x.confirm = fact.confirm
      /\ x.side = SideOf[s] /\ x.tests = w.tests + 1 /\ x.test = fact /\ x.break = w.break
      /\ x.touch = w.touch /\ x.flip = w.flip /\ x.retire = w.retire /\ x.reason = w.reason
  <2> HIDE DEF x, e, to, type
  <2> QED
    BY <1>5 DEF WorkingState
<1>7. /\ e.subject = s /\ e.type = type /\ e.from = w.state /\ e.to = to
      /\ e.origin = fact.time /\ e.confirm = fact.confirm /\ e.bar = fact.index
      /\ e.tests = w.tests + 1 /\ e.side = SideOf[s] /\ e.reason = NoReason /\ e.prior = Len(w.events)
  <2> HIDE DEF x, e, to, type
  <2> QED
    BY <1>4
<1>8. TestCountFits(e)
  <2>1. CountsFit(w) /\ WeakeningTestCount \in Nat /\ WeakeningTestCount >= 2
    BY ConfigAssumption DEF Sound
  <2>2. /\ w.state = "FRESH" => to = "TESTED"
        /\ w.state = "TESTED" => to = IF w.tests + 1 >= WeakeningTestCount THEN "WEAKENED" ELSE "TESTED"
        /\ w.state = "WEAKENED" => to = "WEAKENED"
    BY DEF TestTo, WeakensNow
  <2> HIDE DEF x, e, to, type
  <2>3. CASE w.state = "FRESH"
    BY <1>7, <2>1, <2>2, <2>3 DEF CountsFit, TestCountFits
  <2>4. CASE w.state = "TESTED"
    BY <1>1, <1>7, <2>1, <2>2, <2>4 DEF CountsFit, TestCountFits
  <2>5. CASE w.state = "WEAKENED"
    BY <1>1, <1>7, <2>1, <2>2, <2>5 DEF CountsFit, TestCountFits
  <2> QED
    BY <2>3, <2>4, <2>5 DEF ActiveState
<1> HIDE DEF x, e, to, type
<1>9. Emits(w, x, s, e, fact)
  BY <1>1, <1>2, <1>3, <1>6, <1>7, <1>8
  DEF Emits, IsTest, RetirementReason, NoReason
<1> QED
  BY <1>9 DEF x, e, to, type

(* A retirement emits one RETIRED event.                                   *)
LEMMA RetireEmits ==
    ASSUME NEW s \in Subject, NEW w \in WorkingState, NEW fact \in Fact, NEW reason \in RetirementReason,
           Sound(w, s), w.state = "BROKEN"
    PROVE  Emits(w, Retire(w, s, fact, reason), s,
                 Emitted(w, s, "RETIRED", "RETIRED", w.tests, fact, reason), fact)
<1> DEFINE e == Emitted(w, s, "RETIRED", "RETIRED", w.tests, fact, reason)
           x == Retire(w, s, fact, reason)
<1>1. w.side = SideOf[s] /\ w.tests \in Nat
  BY DEF Sound, Accepted, StateOK, WorkingState
<1>2. e \in Event
  BY <1>1, EmittedType DEF EventType, SubjectState, TerminalState, AnyReason
<1>3. e = [subject |-> s, type |-> "RETIRED", from |-> "BROKEN", to |-> "RETIRED",
           origin |-> fact.time, confirm |-> fact.confirm, bar |-> fact.index,
           tests |-> w.tests, side |-> SideOf[s], reason |-> reason, prior |-> Len(w.events)]
  BY DEF Emitted
<1>4. x = [w EXCEPT !.retire = fact, !.reason = reason, !.events = Append(w.events, e), !.state = "RETIRED",
                    !.confirm = fact.confirm, !.side = SideOf[s]]
  BY <1>1, <1>3 DEF Retire, Emit, WorkingState
<1>5. /\ x.events = Append(w.events, e) /\ x.state = "RETIRED" /\ x.confirm = fact.confirm
      /\ x.side = SideOf[s] /\ x.tests = w.tests /\ x.test = w.test /\ x.break = w.break
      /\ x.touch = w.touch /\ x.flip = w.flip /\ x.retire = fact /\ x.reason = reason
  <2> HIDE DEF x, e
  <2> QED
    BY <1>4 DEF WorkingState
<1>6. <<"RETIRED", "BROKEN", "RETIRED">> \in Transition
  BY DEF Transition
<1> HIDE DEF x
<1>7. /\ e.subject = s /\ e.type = "RETIRED" /\ e.from = "BROKEN" /\ e.to = "RETIRED"
      /\ e.origin = fact.time /\ e.confirm = fact.confirm /\ e.bar = fact.index
      /\ e.tests = w.tests /\ e.side = SideOf[s] /\ e.reason = reason /\ e.prior = Len(w.events)
  BY <1>3
<1> HIDE DEF e
<1>8. Emits(w, x, s, e, fact)
  BY <1>1, <1>2, <1>5, <1>6, <1>7
  DEF Emits, IsTest, TestCountFits, RetirementReason, NoReason
<1> QED
  BY <1>8 DEF x, e

(* A flip emits one FLIPPED event.                                         *)
LEMMA FlipEmits ==
    ASSUME NEW s \in Subject, NEW w \in WorkingState, NEW fact \in Fact,
           Sound(w, s), w.state = "BROKEN"
    PROVE  Emits(w, Flip(w, s, fact), s,
                 Emitted(w, s, "FLIPPED", "FLIPPED", w.tests, fact, NoReason), fact)
<1> DEFINE e == Emitted(w, s, "FLIPPED", "FLIPPED", w.tests, fact, NoReason)
           x == Flip(w, s, fact)
<1>1. w.side = SideOf[s] /\ w.tests \in Nat
  BY DEF Sound, Accepted, StateOK, WorkingState
<1>2. e \in Event
  BY <1>1, EmittedType DEF EventType, SubjectState, TerminalState, AnyReason
<1>3. e = [subject |-> s, type |-> "FLIPPED", from |-> "BROKEN", to |-> "FLIPPED",
           origin |-> fact.time, confirm |-> fact.confirm, bar |-> fact.index,
           tests |-> w.tests, side |-> Opposite(SideOf[s]), reason |-> NoReason, prior |-> Len(w.events)]
  BY DEF Emitted
<1>4. x = [w EXCEPT !.flip = fact, !.events = Append(w.events, e), !.state = "FLIPPED",
                    !.confirm = fact.confirm, !.side = Opposite(SideOf[s])]
  BY <1>1, <1>3 DEF Flip, Emit, WorkingState
<1>5. /\ x.events = Append(w.events, e) /\ x.state = "FLIPPED" /\ x.confirm = fact.confirm
      /\ x.side = Opposite(SideOf[s]) /\ x.tests = w.tests /\ x.test = w.test /\ x.break = w.break
      /\ x.touch = w.touch /\ x.flip = fact /\ x.retire = w.retire /\ x.reason = w.reason
  <2> HIDE DEF x, e
  <2> QED
    BY <1>4 DEF WorkingState
<1>6. <<"FLIPPED", "BROKEN", "FLIPPED">> \in Transition
  BY DEF Transition
<1> HIDE DEF x
<1>7. /\ e.subject = s /\ e.type = "FLIPPED" /\ e.from = "BROKEN" /\ e.to = "FLIPPED"
      /\ e.origin = fact.time /\ e.confirm = fact.confirm /\ e.bar = fact.index
      /\ e.tests = w.tests /\ e.side = Opposite(SideOf[s]) /\ e.reason = NoReason /\ e.prior = Len(w.events)
  BY <1>3
<1> HIDE DEF e
<1>8. Emits(w, x, s, e, fact)
  BY <1>1, <1>2, <1>5, <1>6, <1>7
  DEF Emits, IsTest, TestCountFits, RetirementReason, NoReason
<1> QED
  BY <1>8 DEF x, e

(* A flip touch emits one FLIP_TOUCH event and leaves the subject broken.  *)
LEMMA FlipTouchEmits ==
    ASSUME NEW s \in Subject, NEW w \in WorkingState, NEW fact \in Fact,
           Sound(w, s), w.state = "BROKEN"
    PROVE  Emits(w, FlipTouch(w, s, fact), s,
                 Emitted(w, s, "FLIP_TOUCH", "BROKEN", w.tests, fact, NoReason), fact)
<1> DEFINE e == Emitted(w, s, "FLIP_TOUCH", "BROKEN", w.tests, fact, NoReason)
           x == FlipTouch(w, s, fact)
<1>1. w.side = SideOf[s] /\ w.tests \in Nat
  BY DEF Sound, Accepted, StateOK, WorkingState
<1>2. e \in Event
  BY <1>1, EmittedType DEF EventType, SubjectState, TerminalState, AnyReason
<1>3. e = [subject |-> s, type |-> "FLIP_TOUCH", from |-> "BROKEN", to |-> "BROKEN",
           origin |-> fact.time, confirm |-> fact.confirm, bar |-> fact.index,
           tests |-> w.tests, side |-> SideOf[s], reason |-> NoReason, prior |-> Len(w.events)]
  BY DEF Emitted
<1>4. x = [w EXCEPT !.touch = fact, !.events = Append(w.events, e), !.state = "BROKEN",
                    !.confirm = fact.confirm, !.side = SideOf[s]]
  BY <1>1, <1>3 DEF FlipTouch, Emit, WorkingState
<1>5. /\ x.events = Append(w.events, e) /\ x.state = "BROKEN" /\ x.confirm = fact.confirm
      /\ x.side = SideOf[s] /\ x.tests = w.tests /\ x.test = w.test /\ x.break = w.break
      /\ x.touch = fact /\ x.flip = w.flip /\ x.retire = w.retire /\ x.reason = w.reason
  <2> HIDE DEF x, e
  <2> QED
    BY <1>4 DEF WorkingState
<1>6. <<"FLIP_TOUCH", "BROKEN", "BROKEN">> \in Transition
  BY DEF Transition
<1> HIDE DEF x
<1>7. /\ e.subject = s /\ e.type = "FLIP_TOUCH" /\ e.from = "BROKEN" /\ e.to = "BROKEN"
      /\ e.origin = fact.time /\ e.confirm = fact.confirm /\ e.bar = fact.index
      /\ e.tests = w.tests /\ e.side = SideOf[s] /\ e.reason = NoReason /\ e.prior = Len(w.events)
  BY <1>3
<1> HIDE DEF e
<1>8. Emits(w, x, s, e, fact)
  BY <1>1, <1>2, <1>5, <1>6, <1>7
  DEF Emits, IsTest, TestCountFits, RetirementReason, NoReason
<1> QED
  BY <1>8 DEF x, e

-----------------------------------------------------------------------------
(* What a bar leaves true of a subject                                     *)

(* The order of two events of one subject: by origin time, and on one bar  *)
(* an activation is first and a touch comes before the retirement it makes *)
(* too late.                                                               *)
Earlier(a, b) ==
    \/ a.origin < b.origin
    \/ /\ a.origin = b.origin
       /\ \/ a.type = "ACTIVATED" /\ b.type # "ACTIVATED"
          \/ a.type = "FLIP_TOUCH" /\ b.type = "RETIRED"

Ordered(log) ==
    \A j, k \in DOMAIN log : j < k => /\ log[j].confirm <= log[k].confirm
                                      /\ Earlier(log[j], log[k])

(* Nothing a subject knows lies beyond the n bars it was shown, which      *)
(* opened before a time and were available by ct.                          *)
Bounded(w, s, n, time, ct) ==
    /\ \A fact \in Facts(w) :
          Present(fact) => fact.index <= n /\ fact.time < time /\ fact.confirm <= ct
    /\ \A k \in DOMAIN w.events :
          k > 1 => w.events[k].origin < time /\ w.events[k].confirm <= ct
    /\ w.confirm = ConfirmTimeOf[s] \/ w.confirm <= ct
    /\ Ordered(w.events)

Kept(w, s, n, time, ct) ==
    w \in WorkingState /\ Sound(w, s) /\ Bounded(w, s, n, time, ct)

(* A ledger that only gained events confirmed at ct. *)
Extends(old, new, ct) ==
    /\ Len(old) <= Len(new)
    /\ \A k \in DOMAIN old : new[k] = old[k]
    /\ \A k \in DOMAIN new \ DOMAIN old : new[k].confirm = ct

(* The fields of an event the order of a ledger rests on.                  *)
LEMMA EventFields ==
    ASSUME NEW e \in Event
    PROVE  e.confirm \in Nat /\ e.origin \in Nat /\ e.bar \in Nat /\ e.subject \in Subject
BY DEF Event

(* An emission keeps a subject sound and bounded, and adds its event.      *)
LEMMA EmitKeeps ==
    ASSUME NEW s \in Subject, NEW w, NEW x \in WorkingState, NEW e, NEW fact \in Fact,
           NEW n \in Nat, NEW time \in Nat, NEW ct \in Nat, NEW n2 \in Nat, NEW time2 \in Nat,
           Kept(w, s, n, time, ct), Emits(w, x, s, e, fact), Timely(w, s, fact),
           w.state \notin TerminalState, Opens(w, e, fact),
           n <= n2, time <= time2, ct <= fact.confirm,
           fact.index <= n2, fact.time < time2,
           \A k \in DOMAIN w.events : Earlier(w.events[k], e)
    PROVE  /\ Kept(x, s, n2, time2, fact.confirm)
           /\ Extends(w.events, x.events, fact.confirm)
<1> DEFINE L == w.events
           m == Len(L)
           G == Append(L, e)
           c == fact.confirm
<1>1. w \in WorkingState /\ Sound(w, s) /\ Bounded(w, s, n, time, ct)
  BY DEF Kept
<1>2. Sound(x, s)
  BY <1>1, SoundGrows
<1>3. /\ L \in Seq(Event) /\ m \in Nat /\ e \in Event /\ x.events = G
      /\ Len(G) = m + 1 /\ DOMAIN G = 1 .. m + 1 /\ DOMAIN L = 1 .. m
      /\ G[m + 1] = e /\ \A k \in 1 .. m : G[k] = L[k]
      /\ e.origin = fact.time /\ e.confirm = c /\ x.confirm = c
  BY <1>1 DEF WorkingState, Emits
<1>4. fact.index \in Nat /\ fact.time \in Nat /\ c \in Nat
  BY DEF Fact
<1>5. \A k \in 1 .. m : /\ L[k] \in Event /\ L[k].confirm \in Nat /\ L[k].origin \in Nat
  <2> SUFFICES ASSUME NEW k \in 1 .. m
               PROVE  L[k] \in Event /\ L[k].confirm \in Nat /\ L[k].origin \in Nat
    OBVIOUS
  <2>1. L[k] \in Event
    BY <1>3
  <2> QED
    BY <2>1, EventFields
<1>6. m >= 1 /\ L[1].confirm = ConfirmTimeOf[s] /\ ConfirmTimeOf[s] \in Nat /\ ConfirmTimeOf[s] <= c
  <2>1. L # <<>> /\ BeginsLedger(L[1], s)
    BY <1>1 DEF Sound, Accepted, LedgerOK
  <2>2. ConfirmTimeOf[s] \in Nat /\ ConfirmTimeOf[s] <= fact.time /\ fact.time <= c
    BY SubjectAssumption DEF Timely
  <2> QED
    BY <1>3, <1>4, <2>1, <2>2 DEF BeginsLedger
<1>7. \A k \in 1 .. m : L[k].confirm <= c
  <2> SUFFICES ASSUME NEW k \in 1 .. m PROVE L[k].confirm <= c
    OBVIOUS
  <2>1. k > 1 => L[k].confirm <= ct
    BY <1>1, <1>3 DEF Bounded
  <2>2. k = 1 => L[k].confirm <= c
    BY <1>6
  <2> QED
    BY <1>3, <1>4, <1>5, <2>1, <2>2
<1>8. Ordered(L) /\ \A k \in 1 .. m : Earlier(L[k], e)
  BY <1>1, <1>3 DEF Bounded
<1>9. \A k \in 1 .. m : k > 1 => L[k].origin < time /\ L[k].confirm <= ct
  BY <1>1, <1>3 DEF Bounded
<1>10. \A f \in Facts(x) : Present(f) => f.index <= n2 /\ f.time < time2 /\ f.confirm <= c
  <2> SUFFICES ASSUME NEW f \in Facts(x), Present(f)
               PROVE  f.index <= n2 /\ f.time < time2 /\ f.confirm <= c
    OBVIOUS
  <2>1. f = fact \/ f \in Facts(w)
    BY DEF Emits, Facts
  <2>2. CASE f \in Facts(w)
    <3>1. f.index <= n /\ f.time < time /\ f.confirm <= ct
      BY <1>1, <2>2 DEF Bounded
    <3>2. f \in Fact
      BY <1>1, <2>2 DEF Facts, WorkingState
    <3>3. f.index \in Nat /\ f.time \in Nat /\ f.confirm \in Nat
      BY <3>2 DEF Fact
    <3> QED
      BY <1>4, <3>1, <3>3
  <2>3. CASE f = fact
    BY <1>4, <2>3
  <2> QED
    BY <2>1, <2>2, <2>3
<1> HIDE DEF L, m, G, c
<1>11. Ordered(G)
  <2> SUFFICES ASSUME NEW j \in 1 .. m + 1, NEW k \in 1 .. m + 1, j < k
               PROVE  G[j].confirm <= G[k].confirm /\ Earlier(G[j], G[k])
    BY <1>3 DEF Ordered
  <2>1. j \in 1 .. m /\ G[j] = L[j]
    BY <1>3
  <2>2. CASE k = m + 1
    BY <1>3, <1>7, <1>8, <2>1, <2>2
  <2>3. CASE k # m + 1
    <3>1. k \in 1 .. m /\ G[k] = L[k]
      BY <1>3, <2>3
    <3> QED
      BY <1>3, <1>8, <2>1, <3>1 DEF Ordered
  <2> QED
    BY <2>2, <2>3
<1>12. \A k \in DOMAIN G : k > 1 => G[k].origin < time2 /\ G[k].confirm <= c
  <2> SUFFICES ASSUME NEW k \in 1 .. m + 1, k > 1 PROVE G[k].origin < time2 /\ G[k].confirm <= c
    BY <1>3
  <2>1. CASE k = m + 1
    BY <1>3, <1>4, <2>1 DEF c
  <2>2. CASE k # m + 1
    <3>1. k \in 1 .. m /\ G[k] = L[k]
      BY <1>3, <2>2
    <3>2. L[k].origin < time
      BY <1>9, <3>1
    <3> QED
      BY <1>5, <1>7, <3>1, <3>2
  <2> QED
    BY <2>1, <2>2
<1>13. Bounded(x, s, n2, time2, c)
  <2>1. x.confirm <= c
    BY <1>3, <1>4
  <2> QED
    BY <1>3, <1>10, <1>11, <1>12, <2>1 DEF Bounded
<1>14. Extends(L, G, c)
  <2>1. \A k \in DOMAIN G \ DOMAIN L : G[k].confirm = c
    <3>1. \A k \in DOMAIN G \ DOMAIN L : k = m + 1
      BY <1>3
    <3> QED
      BY <1>3, <3>1
  <2> QED
    BY <1>3, <2>1 DEF Extends
<1> QED
  BY <1>2, <1>3, <1>13, <1>14 DEF Kept, L, c

(* Events known so far come before any event of a later bar.               *)
LEMMA KnownIsEarlier ==
    ASSUME NEW s \in Subject, NEW w, NEW n \in Nat, NEW time \in Nat, NEW ct \in Nat,
           Kept(w, s, n, time, ct), NEW e, e.origin \in Nat, e.type # "ACTIVATED",
           time <= e.origin, ConfirmTimeOf[s] <= e.origin
    PROVE  \A k \in DOMAIN w.events : Earlier(w.events[k], e)
<1>1. /\ w.events \in Seq(Event)
      /\ w.events[1].type = "ACTIVATED" /\ w.events[1].origin = ConfirmTimeOf[s]
      /\ \A k \in DOMAIN w.events : k > 1 => w.events[k].origin < time
  BY DEF Kept, WorkingState, Sound, Accepted, LedgerOK, BeginsLedger, Bounded
<1> SUFFICES ASSUME NEW k \in DOMAIN w.events PROVE Earlier(w.events[k], e)
  OBVIOUS
<1>2. k \in Nat /\ k >= 1 /\ w.events[k].origin \in Nat /\ ConfirmTimeOf[s] \in Nat
  <2>1. w.events[k] \in Event /\ k \in Nat /\ k >= 1
    BY <1>1
  <2> QED
    BY <2>1, EventFields, SubjectAssumption
<1>3. CASE k = 1
  BY <1>1, <1>2, <1>3 DEF Earlier
<1>4. CASE k # 1
  <2>1. w.events[k].origin < time
    BY <1>1, <1>2, <1>4
  <2> QED
    BY <1>2, <2>1 DEF Earlier
<1> QED
  BY <1>3, <1>4

(* What appending does to a sequence.                                      *)
LEMMA AppendFacts ==
    ASSUME NEW S, NEW q \in Seq(S), NEW e \in S
    PROVE  /\ Len(q) \in Nat /\ DOMAIN q = 1 .. Len(q)
           /\ Append(q, e) \in Seq(S) /\ Len(Append(q, e)) = Len(q) + 1
           /\ DOMAIN Append(q, e) = 1 .. Len(q) + 1
           /\ Append(q, e)[Len(q) + 1] = e
           /\ \A k \in 1 .. Len(q) : Append(q, e)[k] = q[k]
OBVIOUS

(* Two extensions at one confirm time are one.                             *)
LEMMA ExtendsComposes ==
    ASSUME NEW a \in Seq(Event), NEW b \in Seq(Event), NEW c \in Seq(Event), NEW ct,
           Extends(a, b, ct), Extends(b, c, ct)
    PROVE  Extends(a, c, ct)
<1>1. /\ Len(a) \in Nat /\ Len(b) \in Nat /\ Len(c) \in Nat
      /\ DOMAIN a = 1 .. Len(a) /\ DOMAIN b = 1 .. Len(b) /\ DOMAIN c = 1 .. Len(c)
  OBVIOUS
<1> QED
  BY <1>1 DEF Extends

(* A subject activated before any bar was read.                            *)
LEMMA ActivateKept ==
    ASSUME NEW s \in Subject
    PROVE  Kept(Activate(s), s, 0, 0, 0)
<1> DEFINE w == Activate(s)
           e == [subject |-> s, type |-> "ACTIVATED", from |-> "CONFIRMED", to |-> "FRESH",
                 origin |-> ConfirmTimeOf[s], confirm |-> ConfirmTimeOf[s], bar |-> 0,
                 tests |-> 0, side |-> SideOf[s], reason |-> NoReason, prior |-> 0]
<1>1. w = [state |-> "FRESH", side |-> SideOf[s], confirm |-> ConfirmTimeOf[s], tests |-> 0,
           test |-> NoFact, break |-> NoFact, touch |-> NoFact, flip |-> NoFact,
           retire |-> NoFact, reason |-> NoReason, events |-> <<e>>]
  <2> DEFINE at == [index |-> 0, time |-> ConfirmTimeOf[s], confirm |-> ConfirmTimeOf[s]]
             fresh == [state |-> "FRESH", side |-> SideOf[s], confirm |-> ConfirmTimeOf[s],
                       tests |-> 0, test |-> NoFact, break |-> NoFact, touch |-> NoFact,
                       flip |-> NoFact, retire |-> NoFact, reason |-> NoReason,
                       events |-> <<>>]
  <2>1. /\ w = Emit(fresh, s, "ACTIVATED", "CONFIRMED", "FRESH", 0, at, NoReason)
        /\ fresh.events = <<>> /\ fresh.side = SideOf[s] /\ fresh.tests = 0
        /\ at.time = ConfirmTimeOf[s] /\ at.confirm = ConfirmTimeOf[s] /\ Len(<<>>) = 0
    BY DEF Activate
  <2>4. w = [fresh EXCEPT !.events = Append(<<>>, e), !.state = "FRESH",
                          !.confirm = ConfirmTimeOf[s], !.side = SideOf[s]]
    <3> HIDE DEF w, fresh, at
    <3> QED
      BY <2>1 DEF Emit
  <2>2. w = [state |-> "FRESH", side |-> SideOf[s], confirm |-> ConfirmTimeOf[s], tests |-> 0,
             test |-> NoFact, break |-> NoFact, touch |-> NoFact, flip |-> NoFact,
             retire |-> NoFact, reason |-> NoReason, events |-> Append(<<>>, e)]
    <3> HIDE DEF w, e
    <3> QED
      BY <2>4
  <2>3. Append(<<>>, e) = <<e>>
    <3> HIDE DEF e
    <3> QED
      OBVIOUS
  <2> QED
    BY <2>2, <2>3
<1>2. w \in WorkingState /\ ConfirmTimeOf[s] \in Nat
  BY ActivateType, SubjectAssumption
<1> HIDE DEF w
<1>3. /\ w.state = "FRESH" /\ w.side = SideOf[s] /\ w.confirm = ConfirmTimeOf[s] /\ w.tests = 0
      /\ w.test = NoFact /\ w.break = NoFact /\ w.touch = NoFact /\ w.flip = NoFact
      /\ w.retire = NoFact /\ w.reason = NoReason
      /\ w.events = <<e>> /\ w.events # <<>> /\ Len(w.events) = 1 /\ DOMAIN w.events = {1}
      /\ w.events[1] = e
  BY <1>1
<1>4. LedgerOK(w.events, s)
  BY <1>2, <1>3
  DEF LedgerOK, BeginsLedger, EventOK, Transition, IsTest, RetirementReason, NoReason
<1>5. ~Present(NoFact) /\ Facts(w) = {NoFact}
  BY <1>3 DEF Present, NoFact, Facts
<1>6. StateMatchesLedger(w)
  <2>1. \A types : "ACTIVATED" \notin types => PositionsOf(w.events, types) = {}
    BY <1>3 DEF PositionsOf
  <2>2. \A type : type # "ACTIVATED" => PositionsOf(w.events, {type}) = {}
    BY <2>1
  <2>3. PositionsOf(w.events, {"TEST", "WEAKENED"}) = {}
    BY <2>1
  <2>4. \A type : type # "ACTIVATED" => MatchesOnly(NoFact, w.events, type)
    <3> SUFFICES ASSUME NEW type, type # "ACTIVATED" PROVE MatchesOnly(NoFact, w.events, type)
      OBVIOUS
    <3>1. PositionsOf(w.events, {type}) = {}
      BY <2>2
    <3> QED
      BY <1>5, <3>1 DEF MatchesOnly
  <2>5. PositionsOf(w.events, {"RETIRED"}) = {}
    BY <2>2
  <2> QED
    BY <1>3, <1>5, <2>3, <2>4, <2>5 DEF StateMatchesLedger
<1>7. StateOK(w, s, w.confirm)
  BY <1>2, <1>3, <1>5 DEF StateOK, ActiveState, Causes, CausallyOrdered
<1>8. Sound(w, s)
  BY <1>3, <1>4, <1>5, <1>6, <1>7 DEF Sound, Accepted, CountsFit
<1>9. Bounded(w, s, 0, 0, 0)
  BY <1>3, <1>5 DEF Bounded, Ordered
<1> QED
  BY <1>2, <1>8, <1>9 DEF Kept, w

(* The outcomes of one bar, each from a state kept up to the bar before.   *)
LEMMA ActiveKeeps ==
    ASSUME NEW s \in Subject, NEW w, NEW n \in Nat, NEW time \in Nat, NEW ct \in Nat, NEW fact \in Fact,
           Kept(w, s, n, time, ct), w.state \in ActiveState,
           fact.index = n + 1, time <= fact.time, ct <= fact.confirm,
           ConfirmTimeOf[s] <= fact.time, fact.time <= fact.confirm
    PROVE  \A x \in {Break(w, s, fact), Test(w, s, fact)} :
              /\ Kept(x, s, n + 1, fact.time + 1, fact.confirm)
              /\ Extends(w.events, x.events, fact.confirm)
<1>1. w \in WorkingState /\ Sound(w, s) /\ Bounded(w, s, n, time, ct)
  BY DEF Kept
<1>2. /\ fact.index \in Nat /\ fact.time \in Nat /\ fact.confirm \in Nat
      /\ ConfirmTimeOf[s] \in Nat /\ w.confirm \in Nat
  BY <1>1, SubjectAssumption DEF Fact, WorkingState
<1>3. Timely(w, s, fact) /\ w.state \notin TerminalState
  BY <1>1, <1>2 DEF Timely, Bounded, ActiveState, TerminalState
<1>4. /\ n <= n + 1 /\ time <= fact.time + 1 /\ fact.time < fact.time + 1
      /\ n + 1 \in Nat /\ fact.time + 1 \in Nat /\ fact.index <= n + 1
  BY <1>2
<1>5. ASSUME NEW x \in WorkingState, NEW e, Emits(w, x, s, e, fact),
             e.type \in {"BROKEN", "TEST", "WEAKENED"}
      PROVE  /\ Kept(x, s, n + 1, fact.time + 1, fact.confirm)
             /\ Extends(w.events, x.events, fact.confirm)
  <2>1. Opens(w, e, fact)
    BY <1>5 DEF Opens
  <2>2. e.origin = fact.time /\ e.type # "ACTIVATED"
    BY <1>5 DEF Emits
  <2>3. \A k \in DOMAIN w.events : Earlier(w.events[k], e)
    BY <1>2, <2>2, KnownIsEarlier
  <2> QED
    BY <1>3, <1>4, <1>5, <2>1, <2>3, EmitKeeps
<1>6. /\ Break(w, s, fact) \in WorkingState /\ Test(w, s, fact) \in WorkingState
  BY <1>1, OutcomeType
<1>7. /\ Kept(Break(w, s, fact), s, n + 1, fact.time + 1, fact.confirm)
      /\ Extends(w.events, Break(w, s, fact).events, fact.confirm)
  <2> DEFINE e == Emitted(w, s, "BROKEN", "BROKEN", w.tests, fact, NoReason)
             x == Break(w, s, fact)
  <2>1. Emits(w, x, s, e, fact)
    BY <1>1, BreakEmits
  <2>2. e.type = "BROKEN" /\ x \in WorkingState
    BY <1>6 DEF Emitted
  <2> HIDE DEF e, x
  <2>3. /\ Kept(x, s, n + 1, fact.time + 1, fact.confirm)
        /\ Extends(w.events, x.events, fact.confirm)
    BY <2>1, <2>2, <1>5
  <2> QED
    BY <2>3 DEF x
<1>8. /\ Kept(Test(w, s, fact), s, n + 1, fact.time + 1, fact.confirm)
      /\ Extends(w.events, Test(w, s, fact).events, fact.confirm)
  <2> DEFINE e == Emitted(w, s, TestType(w), TestTo(w), w.tests + 1, fact, NoReason)
             x == Test(w, s, fact)
  <2>1. Emits(w, x, s, e, fact)
    BY <1>1, TestEmits
  <2>2. e.type \in {"TEST", "WEAKENED"} /\ x \in WorkingState
    BY <1>6 DEF Emitted, TestType
  <2> HIDE DEF e, x
  <2>3. /\ Kept(x, s, n + 1, fact.time + 1, fact.confirm)
        /\ Extends(w.events, x.events, fact.confirm)
    BY <2>1, <2>2, <1>5
  <2> QED
    BY <2>3 DEF x
<1> QED
  BY <1>7, <1>8

(* The outcomes of a broken subject.                                       *)
LEMMA BrokenKeeps ==
    ASSUME NEW s \in Subject, NEW w, NEW n \in Nat, NEW time \in Nat, NEW ct \in Nat, NEW fact \in Fact,
           Kept(w, s, n, time, ct), w.state = "BROKEN",
           fact.index = n + 1, time <= fact.time, ct <= fact.confirm,
           ConfirmTimeOf[s] <= fact.time, fact.time <= fact.confirm
    PROVE  /\ \A reason \in RetirementReason :
                 /\ Kept(Retire(w, s, fact, reason), s, n + 1, fact.time + 1, fact.confirm)
                 /\ Extends(w.events, Retire(w, s, fact, reason).events, fact.confirm)
           /\ Present(w.touch) =>
                 /\ Kept(Flip(w, s, fact), s, n + 1, fact.time + 1, fact.confirm)
                 /\ Extends(w.events, Flip(w, s, fact).events, fact.confirm)
           /\ ~Present(w.touch) =>
                 \A x \in {FlipTouch(w, s, fact),
                           Retire(FlipTouch(w, s, fact), s, fact, "FLIP_HORIZON_EXPIRED")} :
                    /\ Kept(x, s, n + 1, fact.time + 1, fact.confirm)
                    /\ Extends(w.events, x.events, fact.confirm)
<1>1. w \in WorkingState /\ Sound(w, s) /\ Bounded(w, s, n, time, ct)
  BY DEF Kept
<1>2. /\ fact.index \in Nat /\ fact.time \in Nat /\ fact.confirm \in Nat
      /\ ConfirmTimeOf[s] \in Nat /\ w.confirm \in Nat
  BY <1>1, SubjectAssumption DEF Fact, WorkingState
<1>3. Timely(w, s, fact) /\ w.state \notin TerminalState
  BY <1>1, <1>2 DEF Timely, Bounded, TerminalState
<1>4. /\ n <= n + 1 /\ time <= fact.time + 1 /\ fact.time < fact.time + 1
      /\ n + 1 \in Nat /\ fact.time + 1 \in Nat /\ fact.index <= n + 1
  BY <1>2
<1>5. w.break.time < fact.time /\ (Present(w.touch) => w.touch.time < fact.time)
  <2>1. Present(w.break)
    BY <1>1 DEF Sound, Accepted, StateOK, ActiveState
  <2>2. w.break.time < time /\ (Present(w.touch) => w.touch.time < time)
    BY <1>1, <2>1 DEF Bounded, Facts
  <2>3. w.break.time \in Nat /\ w.touch.time \in Nat
    BY <1>1 DEF WorkingState, Fact
  <2> QED
    BY <1>2, <2>2, <2>3
<1>6. ASSUME NEW x \in WorkingState, NEW e, Emits(w, x, s, e, fact), Opens(w, e, fact)
      PROVE  /\ Kept(x, s, n + 1, fact.time + 1, fact.confirm)
             /\ Extends(w.events, x.events, fact.confirm)
  <2>1. e.origin = fact.time /\ e.type # "ACTIVATED"
    BY <1>6 DEF Emits
  <2>2. \A k \in DOMAIN w.events : Earlier(w.events[k], e)
    BY <1>2, <2>1, KnownIsEarlier
  <2> QED
    BY <1>3, <1>4, <1>6, <2>2, EmitKeeps
<1>7. ASSUME NEW reason \in RetirementReason
      PROVE  /\ Kept(Retire(w, s, fact, reason), s, n + 1, fact.time + 1, fact.confirm)
             /\ Extends(w.events, Retire(w, s, fact, reason).events, fact.confirm)
  <2> DEFINE e == Emitted(w, s, "RETIRED", "RETIRED", w.tests, fact, reason)
             x == Retire(w, s, fact, reason)
  <2>1. Emits(w, x, s, e, fact) /\ x \in WorkingState
    BY <1>1, RetireEmits, OutcomeType
  <2>2. Opens(w, e, fact)
    BY <1>5 DEF Opens, Emitted
  <2> HIDE DEF e, x
  <2>3. /\ Kept(x, s, n + 1, fact.time + 1, fact.confirm)
        /\ Extends(w.events, x.events, fact.confirm)
    BY <2>1, <2>2, <1>6
  <2> QED
    BY <2>3 DEF x
<1>8. ASSUME Present(w.touch)
      PROVE  /\ Kept(Flip(w, s, fact), s, n + 1, fact.time + 1, fact.confirm)
             /\ Extends(w.events, Flip(w, s, fact).events, fact.confirm)
  <2> DEFINE e == Emitted(w, s, "FLIPPED", "FLIPPED", w.tests, fact, NoReason)
             x == Flip(w, s, fact)
  <2>1. Emits(w, x, s, e, fact) /\ x \in WorkingState
    BY <1>1, FlipEmits, OutcomeType
  <2>2. Opens(w, e, fact)
    BY <1>5, <1>8 DEF Opens, Emitted
  <2> HIDE DEF e, x
  <2>3. /\ Kept(x, s, n + 1, fact.time + 1, fact.confirm)
        /\ Extends(w.events, x.events, fact.confirm)
    BY <2>1, <2>2, <1>6
  <2> QED
    BY <2>3 DEF x
<1>9. ASSUME ~Present(w.touch),
             NEW x \in {FlipTouch(w, s, fact),
                        Retire(FlipTouch(w, s, fact), s, fact, "FLIP_HORIZON_EXPIRED")}
      PROVE  /\ Kept(x, s, n + 1, fact.time + 1, fact.confirm)
             /\ Extends(w.events, x.events, fact.confirm)
  <2> DEFINE e == Emitted(w, s, "FLIP_TOUCH", "BROKEN", w.tests, fact, NoReason)
             y == FlipTouch(w, s, fact)
             r == Emitted(y, s, "RETIRED", "RETIRED", y.tests, fact, "FLIP_HORIZON_EXPIRED")
             z == Retire(y, s, fact, "FLIP_HORIZON_EXPIRED")
  <2>1. Emits(w, y, s, e, fact) /\ y \in WorkingState
    BY <1>1, FlipTouchEmits, OutcomeType
  <2>2. Opens(w, e, fact) /\ e.type = "FLIP_TOUCH" /\ e.to = "BROKEN"
    BY <1>5, <1>9 DEF Opens, Emitted
  <2>3. x = y \/ x = z
    BY <1>9
  <2>4. /\ r.type = "RETIRED" /\ r.origin = fact.time
    BY DEF Emitted
  <2> HIDE DEF e, y
  <2>5. /\ Kept(y, s, n + 1, fact.time + 1, fact.confirm)
        /\ Extends(w.events, y.events, fact.confirm)
    BY <2>1, <2>2, <1>6
  <2>6. /\ y.state = "BROKEN" /\ y.break = w.break /\ y.confirm = fact.confirm
        /\ y.events = Append(w.events, e) /\ e.origin = fact.time
    BY <2>1, <2>2 DEF Emits
  <2>7. Sound(y, s)
    BY <2>5 DEF Kept
  <2>8. Emits(y, z, s, r, fact) /\ z \in WorkingState
    BY <2>1, <2>6, <2>7, RetireEmits, OutcomeType DEF RetirementReason
  <2>9. Timely(y, s, fact) /\ Opens(y, r, fact) /\ y.state \notin TerminalState
    BY <1>2, <1>3, <1>5, <2>4, <2>6 DEF Timely, Opens, TerminalState
  <2> HIDE DEF r, z
  <2>10. \A k \in DOMAIN y.events : Earlier(y.events[k], r)
    <3>1. \A k \in DOMAIN w.events : Earlier(w.events[k], r)
      BY <1>2, <2>4, KnownIsEarlier
    <3>2. Earlier(e, r)
      BY <2>2, <2>4, <2>6 DEF Earlier
    <3>3. w.events \in Seq(Event) /\ e \in Event
      BY <1>1, <2>1 DEF WorkingState, Emits
    <3>4. \A k \in DOMAIN y.events : y.events[k] = e \/ (k \in DOMAIN w.events /\ y.events[k] = w.events[k])
      <4>1. /\ Len(w.events) \in Nat
            /\ DOMAIN w.events = 1 .. Len(w.events)
            /\ DOMAIN Append(w.events, e) = 1 .. Len(w.events) + 1
            /\ Append(w.events, e)[Len(w.events) + 1] = e
            /\ \A k \in 1 .. Len(w.events) : Append(w.events, e)[k] = w.events[k]
        BY <3>3, AppendFacts
      <4>2. y.events = Append(w.events, e)
        BY <2>6
      <4>3. ASSUME NEW k \in 1 .. Len(w.events) + 1
            PROVE  \/ Append(w.events, e)[k] = e
                   \/ k \in 1 .. Len(w.events) /\ Append(w.events, e)[k] = w.events[k]
        BY <4>1
      <4> QED
        BY <4>1, <4>2, <4>3
    <3> QED
      BY <3>1, <3>2, <3>4
  <2>11. n + 1 <= n + 1 /\ fact.time + 1 <= fact.time + 1 /\ fact.confirm <= fact.confirm
    BY <1>2
  <2>12. /\ Kept(z, s, n + 1, fact.time + 1, fact.confirm)
         /\ Extends(y.events, z.events, fact.confirm)
    BY <1>2, <1>4, <2>5, <2>8, <2>9, <2>10, <2>11, EmitKeeps
  <2>13. Extends(w.events, z.events, fact.confirm)
    <3>1. w.events \in Seq(Event) /\ y.events \in Seq(Event) /\ z.events \in Seq(Event)
      BY <1>1, <2>1, <2>8 DEF WorkingState
    <3> QED
      BY <2>5, <2>12, <3>1, ExtendsComposes
  <2> QED
    BY <2>3, <2>5, <2>12, <2>13
<1> QED
  BY <1>7, <1>8, <1>9

(* What was kept stays kept as time passes.                                *)
LEMMA KeptLater ==
    ASSUME NEW s \in Subject, NEW w, NEW n \in Nat, NEW time \in Nat, NEW ct \in Nat,
           NEW n2 \in Nat, NEW time2 \in Nat, NEW ct2 \in Nat,
           Kept(w, s, n, time, ct), n <= n2, time <= time2, ct <= ct2
    PROVE  Kept(w, s, n2, time2, ct2) /\ Extends(w.events, w.events, ct2)
<1>1. w \in WorkingState /\ Sound(w, s) /\ Bounded(w, s, n, time, ct)
  BY DEF Kept
<1>2. /\ \A f \in Facts(w) : f.index \in Nat /\ f.time \in Nat /\ f.confirm \in Nat
      /\ w.confirm \in Nat /\ w.events \in Seq(Event)
  BY <1>1 DEF WorkingState, Facts, Fact
<1>3. \A k \in DOMAIN w.events : w.events[k].origin \in Nat /\ w.events[k].confirm \in Nat
  BY <1>2, EventFields
<1>4. \A f \in Facts(w) : Present(f) => f.index <= n2 /\ f.time < time2 /\ f.confirm <= ct2
  BY <1>1, <1>2 DEF Bounded
<1>5. \A k \in DOMAIN w.events : k > 1 => w.events[k].origin < time2 /\ w.events[k].confirm <= ct2
  BY <1>1, <1>3 DEF Bounded
<1>6. Bounded(w, s, n2, time2, ct2)
  BY <1>1, <1>2, <1>4, <1>5 DEF Bounded
<1>7. Extends(w.events, w.events, ct2)
  BY <1>2 DEF Extends
<1> QED
  BY <1>1, <1>6, <1>7 DEF Kept

(* A completed bar, shown in source order once it and everything before it *)
(* is available, keeps all of this true, and every event it adds is        *)
(* confirmed when the bar is.                                              *)
LEMMA ProcessKeeps ==
    ASSUME NEW s \in Subject, NEW w, NEW n \in Nat, NEW time \in Nat, NEW ct \in Nat,
           NEW bar \in Bar, NEW now \in Nat, Kept(w, s, n, time, ct),
           bar.complete, time <= bar.timestamp, ct <= now, bar.available <= now
    PROVE  LET x == Process(w, s, bar, n + 1, now)
           IN /\ Kept(x, s, n + 1, bar.end, now)
              /\ Extends(w.events, x.events, now)
<1> DEFINE fact == [index |-> n + 1, time |-> bar.timestamp, confirm |-> now]
           x == Process(w, s, bar, n + 1, now)
           Good(y) == Kept(y, s, n + 1, bar.timestamp + 1, now) /\ Extends(w.events, y.events, now)
<1>1. /\ bar.timestamp \in Nat /\ bar.end \in Nat /\ bar.available \in Nat
      /\ bar.timestamp < bar.end /\ bar.end <= bar.available
  BY DEF Bar
<1>2. /\ fact \in Fact /\ fact.index = n + 1 /\ fact.time = bar.timestamp /\ fact.confirm = now
      /\ fact.time <= fact.confirm /\ n + 1 \in Nat /\ bar.timestamp + 1 \in Nat
  BY <1>1 DEF Fact
<1>3. w \in WorkingState /\ Sound(w, s) /\ w.state \in SubjectState /\ ConfirmTimeOf[s] \in Nat
  BY SubjectAssumption DEF Kept, WorkingState
<1>4. x = IF ~Monitors(w, s, bar) THEN w
          ELSE IF w.state = "BROKEN" THEN ProcessBroken(w, s, bar, fact)
          ELSE ProcessActive(w, s, bar, fact)
  BY DEF Process
<1>5. Good(w)
  <2>1. n <= n + 1 /\ time <= bar.timestamp + 1
    BY <1>1
  <2> QED
    <3>1. Kept(w, s, n + 1, bar.timestamp + 1, now) /\ Extends(w.events, w.events, now)
      <4> DEFINE n2 == n + 1
                 time2 == bar.timestamp + 1
      <4>1. n2 \in Nat /\ time2 \in Nat /\ n <= n2 /\ time <= time2
        BY <1>2, <2>1
      <4> HIDE DEF fact, x, n2, time2
      <4>2. Kept(w, s, n2, time2, now) /\ Extends(w.events, w.events, now)
        BY <4>1, KeptLater
      <4> QED
        BY <4>2 DEF n2, time2
    <3> QED
      BY <3>1
<1> HIDE DEF fact, x
<1>6. Good(x)
  <2>1. CASE ~Monitors(w, s, bar)
    BY <1>4, <1>5, <2>1
  <2>2. CASE Monitors(w, s, bar) /\ w.state # "BROKEN"
    <3>1. w.state \in ActiveState /\ ConfirmTimeOf[s] <= fact.time /\ x = ProcessActive(w, s, bar, fact)
      BY <1>1, <1>2, <1>3, <1>4, <2>2 DEF Monitors, SubjectState
    <3>2. Good(Break(w, s, fact)) /\ Good(Test(w, s, fact))
      BY <1>2, <3>1, ActiveKeeps
    <3> HIDE DEF Good
    <3> QED
      BY <1>5, <3>1, <3>2 DEF ProcessActive
  <2>3. CASE Monitors(w, s, bar) /\ w.state = "BROKEN"
    <3>1. ConfirmTimeOf[s] <= fact.time /\ x = ProcessBroken(w, s, bar, fact)
      BY <1>1, <1>2, <1>3, <1>4, <2>3 DEF Monitors
    <3>2. /\ \A reason \in RetirementReason : Good(Retire(w, s, fact, reason))
          /\ Present(w.touch) => Good(Flip(w, s, fact))
          /\ ~Present(w.touch) =>
                /\ Good(FlipTouch(w, s, fact))
                /\ Good(Retire(FlipTouch(w, s, fact), s, fact, "FLIP_HORIZON_EXPIRED"))
      BY <1>2, <2>3, <3>1, BrokenKeeps
    <3> HIDE DEF Good
    <3>3. Good(ExpireAtHorizon(w, s, fact))
      BY <1>5, <3>2 DEF ExpireAtHorizon, RetirementReason
    <3>4. w.touch.index = 0 => Good(ExpireAtHorizon(FlipTouch(w, s, fact), s, fact))
      BY <3>2 DEF ExpireAtHorizon, Present
    <3>5. Good(Retire(w, s, fact, "FAILED_BREAK")) /\ (w.touch.index # 0 => Good(Flip(w, s, fact)))
      BY <3>2 DEF RetirementReason, Present
    <3> QED
      BY <1>5, <3>1, <3>3, <3>4, <3>5 DEF ProcessBroken
  <2> QED
    BY <2>1, <2>2, <2>3
<1>7. n + 1 <= n + 1 /\ bar.timestamp + 1 <= bar.end /\ now <= now
  BY <1>1
<1>8. Kept(x, s, n + 1, bar.end, now)
  BY <1>1, <1>2, <1>6, <1>7, KeptLater
<1> QED
  BY <1>6, <1>8 DEF x

-----------------------------------------------------------------------------
(* The single call *)

(* The type invariant: every reachable scan holds well-formed working      *)
(* states for exactly the subjects visible at its processing time.         *)
THEOREM TypeCorrect == Spec => []TypeOK
<1>1. Init => TypeOK
  <2> SUFFICES ASSUME Init PROVE TypeOK
    OBVIOUS
  <2>1. working \in [{s \in Subject : ConfirmTimeOf[s] <= asOf} -> WorkingState]
    BY ActivateType DEF Init
  <2> QED
    BY <2>1 DEF Init, TypeOK, Status
<1>2. TypeOK /\ [Next]_vars => TypeOK'
  <2> SUFFICES ASSUME TypeOK, [Next]_vars PROVE TypeOK'
    OBVIOUS
  <2>1. ASSUME NEW bar \in BarUniverse, ReadBar(bar) PROVE TypeOK'
    <3> DEFINE ct == CumulativeAvailability(bar)
    <3>1. bar \in Bar /\ ct \in Nat
      BY SourceAssumption DEF Bar, TypeOK, CumulativeAvailability
    <3>2. IndexOfNext \in Nat
      BY DEF TypeOK, IndexOfNext
    <3>3. working' \in [{s \in Subject : ConfirmTimeOf[s] <= asOf} -> WorkingState]
      <4>1. working' = [s \in DOMAIN working |->
                           Process(working[s], s, bar, IndexOfNext, ct)]
        BY <2>1 DEF ReadBar
      <4> HIDE DEF ct
      <4> QED
        BY <3>1, <3>2, <4>1, ProcessType DEF TypeOK
    <3>4. prefix' \in Seq(BarUniverse) /\ running' \in Nat /\ asOf' = asOf
      BY <2>1, <3>1 DEF ReadBar, TypeOK
    <3>5. status' \in Status
      BY <2>1 DEF ReadBar, Status
    <3> QED
      BY <3>3, <3>4, <3>5 DEF TypeOK
  <2>2. ASSUME NEW bar \in BarUniverse, StopAtBlockedBar(bar) PROVE TypeOK'
    BY <2>2 DEF StopAtBlockedBar, TypeOK, Status
  <2>3. CASE ReachEndOfSource
    BY <2>3 DEF ReachEndOfSource, TypeOK, Status
  <2>4. CASE UNCHANGED vars
    BY <2>4 DEF vars, TypeOK
  <2> QED
    BY <2>1, <2>2, <2>3, <2>4 DEF Next
<1> QED
  BY <1>1, <1>2, PTL DEF Spec

-----------------------------------------------------------------------------

(* The inductive invariant behind NeverRaises and the reference definition *)
(* of Break: a subject is active exactly while it has no break, and its    *)
(* break is the first monitored bar that breaks.                           *)
BreakIsDecided(s) ==
    /\ working[s].state \in ActiveState <=> working[s].break.index = 0
    /\ working[s].break.index = 0 => Breaks(s) = {}
    /\ working[s].break.index # 0 =>
          /\ working[s].break.index \in Breaks(s)
          /\ \A i \in Breaks(s) : working[s].break.index <= i

HorizonInv ==
    /\ \A s \in DOMAIN working : BreakIsDecided(s)
    /\ BrokenInsideHorizon
    /\ status # "RAISED"

(* Reading a bar adds that bar, and no other, to the breaks of a subject   *)
(* that monitors it.                                                       *)
LEMMA BreaksGrow ==
    ASSUME NEW bar \in BarUniverse, TypeOK, ReadBar(bar), NEW s \in DOMAIN working
    PROVE  Breaks(s)' = IF bar.timestamp >= ConfirmTimeOf[s] /\ IsBreak(s, bar)
                        THEN Breaks(s) \cup {IndexOfNext} ELSE Breaks(s)
<1>1. /\ prefix \in Seq(BarUniverse)
      /\ prefix' = Append(prefix, bar)
      /\ Len(prefix) \in Nat /\ IndexOfNext = Len(prefix) + 1
  BY DEF TypeOK, ReadBar, IndexOfNext
<1>2. /\ DOMAIN prefix = 1 .. Len(prefix)
      /\ DOMAIN prefix' = 1 .. Len(prefix) + 1
      /\ \A i \in DOMAIN prefix : prefix'[i] = prefix[i]
      /\ prefix'[IndexOfNext] = bar
  BY <1>1
<1>3. /\ Breaks(s) = {i \in DOMAIN prefix : /\ prefix[i].timestamp >= ConfirmTimeOf[s]
                                            /\ IsBreak(s, prefix[i])}
      /\ Breaks(s)' = {i \in DOMAIN prefix' : /\ prefix'[i].timestamp >= ConfirmTimeOf[s]
                                              /\ IsBreak(s, prefix'[i])}
  BY DEF Breaks, MonitoredBars, IsBreak
<1>4. DOMAIN prefix' = DOMAIN prefix \cup {IndexOfNext} /\ IndexOfNext \notin DOMAIN prefix
  BY <1>1, <1>2
<1> QED
  BY <1>2, <1>3, <1>4

(* One bar keeps the invariant of one subject. *)
LEMMA SubjectStep ==
    ASSUME NEW bar \in BarUniverse, TypeOK, ReadBar(bar), HorizonInv,
           NEW s \in DOMAIN working
    PROVE  /\ BreakIsDecided(s)'
           /\ working'[s].state = "BROKEN" =>
                 /\ working'[s].break.index \in DOMAIN prefix'
                 /\ Len(prefix') - working'[s].break.index < FlipHorizon
                 /\ prefix'[Len(prefix')].end > ConfirmTimeOf[s]
<1> DEFINE w == working[s]
           n == IndexOfNext
           ct == CumulativeAvailability(bar)
           fact == [index |-> n, time |-> bar.timestamp, confirm |-> ct]
           next == Process(w, s, bar, n, ct)
           broke == bar.timestamp >= ConfirmTimeOf[s] /\ IsBreak(s, bar)
<1>1. /\ prefix \in Seq(BarUniverse) /\ prefix' = Append(prefix, bar)
      /\ Len(prefix) \in Nat /\ n = Len(prefix) + 1
      /\ Len(prefix') = n /\ prefix'[n] = bar
      /\ DOMAIN prefix = 1 .. Len(prefix) /\ DOMAIN prefix' = 1 .. n
  BY DEF TypeOK, ReadBar, IndexOfNext
<1>2. s \in Subject /\ w \in WorkingState /\ w.state \in SubjectState
  BY DEF TypeOK, WorkingState
<1>3. /\ bar \in Bar /\ bar.timestamp \in Nat /\ bar.end \in Nat /\ bar.timestamp < bar.end
      /\ ConfirmTimeOf[s] \in Nat /\ ct \in Nat /\ fact \in Fact
  BY <1>1, <1>2, SourceAssumption, SubjectAssumption
  DEF Bar, TypeOK, Fact, CumulativeAvailability
<1>4. working'[s] = next /\ s \in DOMAIN working'
  BY DEF ReadBar
<1>5. Breaks(s)' = IF broke THEN Breaks(s) \cup {n} ELSE Breaks(s)
  BY BreaksGrow
<1>6. Breaks(s) \subseteq 1 .. Len(prefix)
  BY <1>1 DEF Breaks, MonitoredBars
<1>7. w.break.index \in Nat
  <2>1. w.break \in Fact
    BY <1>2 DEF WorkingState
  <2> QED
    BY <2>1 DEF Fact
<1>8. /\ w.state \in ActiveState <=> w.break.index = 0
      /\ w.break.index = 0 => Breaks(s) = {}
      /\ w.break.index # 0 => /\ w.break.index \in Breaks(s)
                              /\ \A i \in Breaks(s) : w.break.index <= i
  BY DEF HorizonInv, BreakIsDecided
<1>9. w.state = "BROKEN" => /\ w.break.index \in 1 .. Len(prefix)
                            /\ Len(prefix) - w.break.index < FlipHorizon
                            /\ prefix[Len(prefix)].end > ConfirmTimeOf[s]
  BY <1>1 DEF HorizonInv, BrokenInsideHorizon
<1>10. next = IF ~Monitors(w, s, bar) THEN w
              ELSE IF w.state = "BROKEN" THEN ProcessBroken(w, s, bar, fact)
              ELSE ProcessActive(w, s, bar, fact)
  BY DEF Process
<1>11. w.state = "BROKEN" => bar.timestamp >= ConfirmTimeOf[s]
  <2> SUFFICES ASSUME w.state = "BROKEN" PROVE bar.timestamp >= ConfirmTimeOf[s]
    OBVIOUS
  <2>1. prefix[Len(prefix)].end <= bar.timestamp /\ prefix[Len(prefix)].end \in Nat
    <3>1. Len(prefix) \in DOMAIN prefix
      BY <1>1, <1>9
    <3>2. prefix[Len(prefix)] \in Bar
      BY <1>1, <3>1, SourceAssumption
    <3>3. prefix # <<>>
      BY <1>1, <3>1
    <3> QED
      BY <3>2, <3>3 DEF ReadBar, MayFollow, Bar
  <2> QED
    BY <1>3, <1>9, <2>1
<1>12. BreakIsDecided(s)' <=>
          /\ next.state \in ActiveState <=> next.break.index = 0
          /\ next.break.index = 0 => Breaks(s)' = {}
          /\ next.break.index # 0 => /\ next.break.index \in Breaks(s)'
                                     /\ \A i \in Breaks(s)' : next.break.index <= i
  BY <1>4 DEF BreakIsDecided
<1>13. fact.index = n
  OBVIOUS
<1> DEFINE grown == Breaks(s)'
<1> HIDE DEF w, n, ct, fact, next, broke, grown
<1>14. CASE ~Monitors(w, s, bar)
  <2>1. next = w /\ w.state # "BROKEN"
    BY <1>10, <1>11, <1>14 DEF Monitors, TerminalState
  <2>2. CASE w.state \in TerminalState
    <3>1. w.break.index # 0 /\ w.state \notin ActiveState
      BY <1>8, <2>2 DEF TerminalState, ActiveState
    <3>2. w.break.index \in Breaks(s)' /\ \A i \in Breaks(s)' : w.break.index <= i
      BY <1>1, <1>5, <1>6, <1>7, <1>8, <3>1
    <3> QED
      BY <1>4, <1>12, <2>1, <3>1, <3>2
  <2>3. CASE w.state \notin TerminalState
    <3>1. Breaks(s)' = Breaks(s)
      BY <1>5, <1>14, <2>3 DEF Monitors, broke
    <3> QED
      BY <1>4, <1>8, <1>12, <2>1, <3>1
  <2> QED
    BY <2>2, <2>3
<1>15. CASE Monitors(w, s, bar) /\ w.state = "BROKEN"
  <2>1. fact.index > w.break.index
    BY <1>1, <1>7, <1>9, <1>13, <1>15
  <2>2. /\ next.break = w.break
        /\ next.state \in TerminalState \cup {"BROKEN"}
        /\ next.state = "BROKEN" => ~AtHorizon(w, fact)
    BY <1>2, <1>3, <1>10, <1>15, <2>1, BrokenOutcome
  <2>3. w.break.index # 0 /\ next.state \notin ActiveState
    BY <1>8, <1>15, <2>2 DEF TerminalState, ActiveState
  <2>4. w.break.index \in Breaks(s)' /\ \A i \in Breaks(s)' : w.break.index <= i
    BY <1>1, <1>5, <1>6, <1>7, <1>8, <2>3
  <2>5. next.state = "BROKEN" => n - w.break.index < FlipHorizon
    <3>1. Len(prefix) \in Nat /\ n = Len(prefix) + 1 /\ w.break.index \in Nat
      BY <1>1, <1>7
    <3>2. Len(prefix) - w.break.index < FlipHorizon
      BY <1>9, <1>15
    <3>3. next.state = "BROKEN" => n - w.break.index # FlipHorizon
      BY <1>13, <2>2 DEF AtHorizon
    <3>4. FlipHorizon \in Nat
      BY ConfigAssumption
    <3> QED
      BY <3>1, <3>2, <3>3, <3>4
  <2>6. bar.end > ConfirmTimeOf[s]
    BY <1>3, <1>11, <1>15
  <2> QED
    BY <1>1, <1>4, <1>9, <1>12, <1>15, <2>2, <2>3, <2>4, <2>5, <2>6
<1>16. CASE Monitors(w, s, bar) /\ w.state # "BROKEN"
  <2>1. /\ w.state \in ActiveState /\ bar.timestamp >= ConfirmTimeOf[s]
        /\ next = ProcessActive(w, s, bar, fact)
    BY <1>2, <1>10, <1>16 DEF Monitors, SubjectState
  <2>2. /\ IsBreak(s, bar) => next.state = "BROKEN" /\ next.break = fact
        /\ ~IsBreak(s, bar) => next.state \in ActiveState /\ next.break = w.break
    BY <1>2, <1>3, <2>1, ActiveOutcome
  <2>3. Breaks(s) = {} /\ w.break.index = 0
    BY <1>8, <2>1
  <2>4. CASE IsBreak(s, bar)
    <3>1. Breaks(s)' = {n} /\ next.break.index = n /\ n # 0
      BY <1>1, <1>5, <1>13, <2>1, <2>2, <2>3, <2>4 DEF broke
    <3>2. next.state \notin ActiveState
      BY <2>2, <2>4 DEF ActiveState
    <3>3. n - n < FlipHorizon
      BY <1>1, ConfigAssumption
    <3>4. bar.end > ConfirmTimeOf[s]
      BY <1>3, <2>1
    <3> QED
      BY <1>1, <1>4, <1>12, <3>1, <3>2, <3>3, <3>4
  <2>5. CASE ~IsBreak(s, bar)
    <3>1. Breaks(s)' = {}
      BY <1>5, <2>3, <2>5 DEF broke
    <3>2. next.state # "BROKEN"
      BY <2>2, <2>5 DEF ActiveState
    <3> QED
      BY <1>4, <1>12, <2>2, <2>3, <2>5, <3>1, <3>2
  <2> QED
    BY <2>4, <2>5
<1> QED
  BY <1>14, <1>15, <1>16

(* The engine never reads a bar with a subject whose horizon has passed.   *)
LEMMA ReadDoesNotRaise ==
    ASSUME NEW bar \in BarUniverse, TypeOK, ReadBar(bar), HorizonInv
    PROVE  status' # "RAISED"
<1>1. ASSUME NEW s \in DOMAIN working, OutlivesHorizon(working[s], IndexOfNext)
      PROVE  FALSE
  <2>1. working[s].state = "BROKEN" /\ IndexOfNext - working[s].break.index > FlipHorizon
    BY <1>1 DEF OutlivesHorizon
  <2>2. /\ working[s].break.index \in DOMAIN prefix
        /\ Len(prefix) - working[s].break.index < FlipHorizon
    BY <2>1 DEF HorizonInv, BrokenInsideHorizon
  <2>3. /\ Len(prefix) \in Nat /\ IndexOfNext = Len(prefix) + 1
        /\ DOMAIN prefix = 1 .. Len(prefix)
    BY DEF TypeOK, IndexOfNext
  <2> QED
    BY <2>1, <2>2, <2>3, ConfigAssumption
<1> QED
  BY <1>1 DEF Raises, ReadBar

(* The horizon invariant holds of every reachable scan.                    *)
THEOREM HorizonCorrect == Spec => []HorizonInv
<1>1. Init => HorizonInv
  <2> SUFFICES ASSUME Init PROVE HorizonInv
    OBVIOUS
  <2>1. ASSUME NEW s \in DOMAIN working
        PROVE  working[s].state = "FRESH" /\ working[s].break = NoFact
    BY <2>1 DEF Init, Activate, Emit
  <2>2. ASSUME NEW s \in DOMAIN working PROVE Breaks(s) = {}
    BY DEF Init, Breaks, MonitoredBars
  <2> QED
    BY <2>1, <2>2
    DEF Init, HorizonInv, BreakIsDecided, BrokenInsideHorizon, NoFact, ActiveState
<1>2. TypeOK /\ HorizonInv /\ [Next]_vars => HorizonInv'
  <2> SUFFICES ASSUME TypeOK, HorizonInv, [Next]_vars PROVE HorizonInv'
    OBVIOUS
  <2>1. ASSUME NEW bar \in BarUniverse, ReadBar(bar) PROVE HorizonInv'
    <3>1. DOMAIN working' = DOMAIN working
      BY <2>1 DEF ReadBar
    <3>2. \A s \in DOMAIN working' : BreakIsDecided(s)'
      BY <2>1, <3>1, SubjectStep
    <3>3. BrokenInsideHorizon'
      BY <2>1, <3>1, SubjectStep DEF BrokenInsideHorizon
    <3> QED
      BY <2>1, <3>2, <3>3, ReadDoesNotRaise DEF HorizonInv
  <2>2. ASSUME UNCHANGED <<asOf, prefix, running, working>>, status' # "RAISED"
        PROVE  HorizonInv'
    BY <2>2 DEF HorizonInv, BrokenInsideHorizon, BreakIsDecided, Breaks, MonitoredBars
  <2>3. ASSUME NEW bar \in BarUniverse, StopAtBlockedBar(bar) PROVE HorizonInv'
    BY <2>2, <2>3 DEF StopAtBlockedBar
  <2>4. CASE ReachEndOfSource
    BY <2>2, <2>4 DEF ReachEndOfSource
  <2>5. CASE UNCHANGED vars
    BY <2>2, <2>5 DEF vars, HorizonInv
  <2> QED
    BY <2>1, <2>3, <2>4, <2>5 DEF Next
<1> QED
  BY <1>1, <1>2, TypeCorrect, PTL DEF Spec

(* The engine's horizon guard is dead code: no call of build_as_of raises  *)
(* because a broken subject outlived its horizon.                          *)
THEOREM HorizonGuardIsDead == Spec => []NeverRaises
<1>1. HorizonInv => NeverRaises
  BY DEF HorizonInv, NeverRaises
<1> QED
  BY <1>1, HorizonCorrect, PTL

(* A broken subject is always still inside its flip horizon.               *)
THEOREM BrokenAlwaysInsideHorizon == Spec => []BrokenInsideHorizon
<1>1. HorizonInv => BrokenInsideHorizon
  BY DEF HorizonInv
<1> QED
  BY <1>1, HorizonCorrect, PTL

(* A subject breaks on the first monitored close at or beyond its          *)
(* threshold, and never otherwise.                                         *)
THEOREM BreakMatchesReference == Spec => []BreakIsFirstDecisiveClose
<1>1. TypeOK /\ HorizonInv => BreakIsFirstDecisiveClose
  <2> SUFFICES ASSUME TypeOK, HorizonInv, NEW s \in DOMAIN working
               PROVE  working[s].break.index
                        = IF Breaks(s) = {} THEN 0 ELSE First(Breaks(s))
    BY DEF BreakIsFirstDecisiveClose
  <2> DEFINE k == working[s].break.index
  <2>1. /\ k = 0 => Breaks(s) = {}
        /\ k # 0 => k \in Breaks(s) /\ \A i \in Breaks(s) : k <= i
    BY DEF HorizonInv, BreakIsDecided
  <2>2. Breaks(s) \subseteq Nat
    BY DEF TypeOK, Breaks, MonitoredBars
  <2>3. CASE k = 0
    BY <2>1, <2>3
  <2>4. CASE k # 0
    <3>1. \A j \in Breaks(s) : (\A i \in Breaks(s) : j <= i) => j = k
      BY <2>1, <2>2, <2>4
    <3>2. First(Breaks(s)) = k
      BY <2>1, <2>4, <3>1 DEF First
    <3> QED
      BY <2>1, <2>4, <3>2
  <2> QED
    BY <2>3, <2>4
<1> QED
  BY <1>1, TypeCorrect, HorizonCorrect, PTL

-----------------------------------------------------------------------------
(* The inductive invariant behind ContractsAccept: every subject is sound, *)
(* and knows nothing beyond the bars read.                                 *)

EndOfPrefix == IF prefix = <<>> THEN 0 ELSE prefix[Len(prefix)].end

KeptInv ==
    /\ running <= asOf
    /\ \A s \in DOMAIN working : Kept(working[s], s, Len(prefix), EndOfPrefix, running)

(* What reading a bar means for one subject, in the terms of the rules.    *)
LEMMA ReadBarFacts ==
    ASSUME NEW bar \in BarUniverse, TypeOK, ReadBar(bar), NEW s \in DOMAIN working
    PROVE  LET now == CumulativeAvailability(bar)
           IN /\ s \in Subject /\ bar \in Bar /\ bar.complete
              /\ now \in Nat /\ running <= now /\ bar.available <= now
              /\ Len(prefix) \in Nat /\ EndOfPrefix \in Nat /\ running \in Nat
              /\ EndOfPrefix <= bar.timestamp
              /\ Len(prefix') = Len(prefix) + 1 /\ EndOfPrefix' = bar.end /\ running' = now
              /\ running <= asOf => now <= asOf
              /\ working'[s] = Process(working[s], s, bar, Len(prefix) + 1, now)
              /\ asOf' = asOf /\ DOMAIN working' = DOMAIN working
<1>1. /\ bar \in Bar /\ prefix \in Seq(BarUniverse) /\ running \in Nat /\ s \in Subject
      /\ asOf \in Nat
  BY SourceAssumption DEF TypeOK
<1>2. bar.available \in Nat /\ bar.timestamp \in Nat /\ bar.complete /\ bar.available <= asOf
  BY <1>1 DEF Bar, ReadBar, VisibleAt
<1>3. /\ CumulativeAvailability(bar) \in Nat /\ running <= CumulativeAvailability(bar)
      /\ bar.available <= CumulativeAvailability(bar)
      /\ running <= asOf => CumulativeAvailability(bar) <= asOf
  BY <1>1, <1>2 DEF CumulativeAvailability
<1>4. EndOfPrefix \in Nat /\ EndOfPrefix <= bar.timestamp
  <2>1. CASE prefix = <<>>
    BY <1>2, <2>1 DEF EndOfPrefix
  <2>2. CASE prefix # <<>>
    <3>1. prefix[Len(prefix)] \in Bar
      BY <1>1, <2>2, SourceAssumption
    <3> QED
      BY <2>2, <3>1 DEF EndOfPrefix, ReadBar, MayFollow, Bar
  <2> QED
    BY <2>1, <2>2
<1>5. prefix' = Append(prefix, bar) /\ Len(prefix') = Len(prefix) + 1 /\ EndOfPrefix' = bar.end
  <2>1. prefix' = Append(prefix, bar) /\ Len(prefix) \in Nat
    BY <1>1 DEF ReadBar
  <2>2. Len(prefix') = Len(prefix) + 1 /\ prefix' # <<>> /\ prefix'[Len(prefix')] = bar
    BY <1>1, <2>1
  <2> QED
    BY <2>1, <2>2 DEF EndOfPrefix
<1> QED
  BY <1>1, <1>2, <1>3, <1>4, <1>5 DEF ReadBar, IndexOfNext

(* Every reachable subject is sound and bounded by the prefix.            *)
THEOREM KeptCorrect == Spec => []KeptInv
<1>1. Init => KeptInv
  <2> SUFFICES ASSUME Init PROVE KeptInv
    OBVIOUS
  <2>1. Len(prefix) = 0 /\ EndOfPrefix = 0 /\ running = 0
    BY DEF Init, EndOfPrefix
  <2>2. ASSUME NEW s \in DOMAIN working PROVE working[s] = Activate(s) /\ s \in Subject
    BY <2>2 DEF Init
  <2>3. asOf \in Nat
    BY SourceAssumption DEF Init
  <2> QED
    BY <2>1, <2>2, <2>3, ActivateKept DEF KeptInv
<1>2. TypeOK /\ KeptInv /\ [Next]_vars => KeptInv'
  <2> SUFFICES ASSUME TypeOK, KeptInv, [Next]_vars PROVE KeptInv'
    OBVIOUS
  <2>1. ASSUME NEW bar \in BarUniverse, ReadBar(bar) PROVE KeptInv'
    <3>1. ASSUME NEW s \in DOMAIN working
          PROVE  Kept(working'[s], s, Len(prefix'), EndOfPrefix', running')
      <4> DEFINE now == CumulativeAvailability(bar)
                 n == Len(prefix)
                 time == EndOfPrefix
      <4>1. /\ s \in Subject /\ bar \in Bar /\ bar.complete
            /\ now \in Nat /\ running <= now /\ bar.available <= now
            /\ n \in Nat /\ time \in Nat /\ running \in Nat /\ time <= bar.timestamp
            /\ Len(prefix') = n + 1 /\ EndOfPrefix' = bar.end /\ running' = now
            /\ working'[s] = Process(working[s], s, bar, n + 1, now)
        BY <2>1, <3>1, ReadBarFacts
      <4>2. Kept(working[s], s, n, time, running)
        BY DEF KeptInv
      <4> HIDE DEF now, n, time
      <4>3. Kept(Process(working[s], s, bar, n + 1, now), s, n + 1, bar.end, now)
        BY <4>1, <4>2, ProcessKeeps
      <4> QED
        BY <4>1, <4>3
    <3>2. running' <= asOf'
      <4>1. running' = CumulativeAvailability(bar) /\ asOf' = asOf
        BY <2>1 DEF ReadBar
      <4>2. bar.available <= asOf
        BY <2>1 DEF ReadBar, VisibleAt
      <4> QED
        BY <4>1, <4>2 DEF KeptInv, CumulativeAvailability
    <3>3. DOMAIN working' = DOMAIN working
      BY <2>1 DEF ReadBar
    <3> QED
      BY <3>1, <3>2, <3>3 DEF KeptInv
  <2>2. ASSUME UNCHANGED <<asOf, prefix, running, working>> PROVE KeptInv'
    BY <2>2 DEF KeptInv, EndOfPrefix
  <2>3. ASSUME NEW bar \in BarUniverse, StopAtBlockedBar(bar) PROVE KeptInv'
    BY <2>2, <2>3 DEF StopAtBlockedBar
  <2>4. CASE ReachEndOfSource
    BY <2>2, <2>4 DEF ReachEndOfSource
  <2>5. CASE UNCHANGED vars
    BY <2>2, <2>5 DEF vars
  <2> QED
    BY <2>1, <2>3, <2>4, <2>5 DEF Next
<1> QED
  BY <1>1, <1>2, TypeCorrect, PTL DEF Spec

(* The validators of contracts.py accept what the engine built: no legal   *)
(* sequence of bars makes build_as_of raise on its own output.             *)
THEOREM ContractsAlwaysAccept == Spec => []ContractsAccept
<1>1. TypeOK /\ KeptInv => ContractsAccept
  <2> SUFFICES ASSUME TypeOK, KeptInv, NEW s \in DOMAIN working
               PROVE  Accepted(working[s], s, asOf)
    BY DEF ContractsAccept
  <2> DEFINE w == working[s]
  <2>1. w \in WorkingState /\ Accepted(w, s, w.confirm)
    BY DEF KeptInv, Kept, Sound
  <2>2. w.confirm = ConfirmTimeOf[s] \/ w.confirm <= running
    BY DEF KeptInv, Kept, Bounded
  <2>3. w.confirm <= asOf
    <3>1. /\ ConfirmTimeOf[s] \in Nat /\ ConfirmTimeOf[s] <= asOf /\ running \in Nat
          /\ asOf \in Nat /\ running <= asOf
      BY SubjectAssumption, SourceAssumption DEF TypeOK, KeptInv
    <3>2. w.confirm \in Nat
      BY <2>1 DEF WorkingState
    <3> QED
      BY <2>2, <3>1, <3>2
  <2> HIDE DEF w
  <2>4. StateOK(w, s, asOf)
    BY <2>1, <2>3 DEF Accepted, StateOK
  <2>5. Accepted(w, s, asOf)
    BY <2>1, <2>4 DEF Accepted
  <2> QED
    BY <2>5 DEF w
<1> QED
  BY <1>1, TypeCorrect, KeptCorrect, PTL

-----------------------------------------------------------------------------
(* The reference definition of tests                                       *)

(* First is the least element where there is one.                         *)
LEMMA LeastIsFirst ==
    ASSUME NEW S \in SUBSET Nat, NEW k \in S, \A i \in S : k <= i
    PROVE  First(S) = k
<1>1. \A j \in S : (\A i \in S : j <= i) => j = k
  OBVIOUS
<1> QED
  BY <1>1 DEF First

TestBars(own) == {own[k].bar : k \in PositionsOf(own, {"TEST", "WEAKENED"})}

(* Only a test adds its bar to the counted ones.                          *)
LEMMA TestBarsGrow ==
    ASSUME NEW L \in Seq(Event), NEW e \in Event
    PROVE  TestBars(Append(L, e)) = IF IsTest(e) THEN TestBars(L) \cup {e.bar} ELSE TestBars(L)
<1> DEFINE G == Append(L, e)
           n == Len(L)
           old == PositionsOf(L, {"TEST", "WEAKENED"})
           new == PositionsOf(G, {"TEST", "WEAKENED"})
<1>1. /\ n \in Nat /\ DOMAIN L = 1 .. n /\ DOMAIN G = 1 .. n + 1 /\ G[n + 1] = e
      /\ \A k \in 1 .. n : G[k] = L[k]
  BY AppendFacts
<1> HIDE DEF G, n
<1>2. /\ old = {k \in 1 .. n : IsTest(L[k])} /\ new = {k \in 1 .. n + 1 : IsTest(G[k])}
  BY <1>1 DEF PositionsOf, IsTest
<1>3. TestBars(L) = {L[k].bar : k \in old} /\ TestBars(G) = {G[k].bar : k \in new}
  BY DEF TestBars
<1> HIDE DEF old, new
<1>4. CASE IsTest(e)
  <2>1. new = old \cup {n + 1} /\ \A k \in old : G[k] = L[k]
    BY <1>1, <1>2, <1>4
  <2>2. {G[k].bar : k \in new} = {L[k].bar : k \in old} \cup {e.bar}
    BY <1>1, <2>1
  <2> QED
    BY <1>3, <1>4, <2>2 DEF G
<1>5. CASE ~IsTest(e)
  <2>1. new = old /\ \A k \in old : G[k] = L[k]
    BY <1>1, <1>2, <1>5
  <2>2. {G[k].bar : k \in new} = {L[k].bar : k \in old}
    BY <2>1
  <2> QED
    BY <1>3, <1>5, <2>2 DEF G
<1> QED
  BY <1>4, <1>5

(* An emission appends one event of its type and keeps the last test.     *)
LEMMA EmitAppends ==
    ASSUME NEW w \in WorkingState, NEW s, NEW type, NEW from, NEW to, NEW index, NEW fact, NEW reason
    PROVE  LET x == Emit(w, s, type, from, to, index, fact, reason)
           IN \E e : x.events = Append(w.events, e) /\ e.type = type /\ x.test = w.test
<1> DEFINE side == IF to = "FLIPPED" THEN Opposite(SideOf[s]) ELSE w.side
           e == [subject |-> s, type |-> type, from |-> from, to |-> to,
                 origin |-> fact.time, confirm |-> fact.confirm,
                 bar |-> index, tests |-> w.tests, side |-> side,
                 reason |-> reason, prior |-> Len(w.events)]
           x == Emit(w, s, type, from, to, index, fact, reason)
<1>1. x = [w EXCEPT !.events = Append(w.events, e), !.state = to,
                    !.confirm = fact.confirm, !.side = side]
  BY DEF Emit
<1>2. e.type = type
  OBVIOUS
<1> HIDE DEF e, x, side
<1>3. x.events = Append(w.events, e) /\ x.test = w.test
  BY <1>1 DEF WorkingState
<1>4. \E a : x.events = Append(w.events, a) /\ a.type = type /\ x.test = w.test
  BY <1>2, <1>3
<1> QED
  BY <1>4 DEF x

(* Breaking, flipping and retiring leave the counted tests alone.          *)
LEMMA BrokenTests ==
    ASSUME NEW w \in WorkingState, NEW s \in Subject, NEW bar, NEW fact \in Fact
    PROVE  LET x == ProcessBroken(w, s, bar, fact)
           IN TestBars(x.events) = TestBars(w.events) /\ x.test = w.test
<1>1. ASSUME NEW u \in WorkingState, NEW reason \in RetirementReason
      PROVE  /\ TestBars(Retire(u, s, fact, reason).events) = TestBars(u.events)
             /\ Retire(u, s, fact, reason).test = u.test
  <2> DEFINE x == Retire(u, s, fact, reason)
  <2>1. PICK e : x.events = Append(u.events, e) /\ e.type = "RETIRED" /\ x.test = u.test
    <3> DEFINE v == [u EXCEPT !.retire = fact, !.reason = reason]
    <3>1. v \in WorkingState /\ v.events = u.events /\ v.test = u.test
      BY DEF WorkingState
    <3>2. x = Emit(v, s, "RETIRED", "BROKEN", "RETIRED", fact.index, fact, reason)
      BY DEF Retire
    <3> HIDE DEF v, x
    <3> QED
      BY <3>1, <3>2, EmitAppends
  <2>2. u.events \in Seq(Event) /\ e \in Event
    <3>1. u.events \in Seq(Event) /\ x.events \in Seq(Event)
      BY OutcomeType DEF WorkingState
    <3> QED
      BY <2>1, <3>1
  <2> HIDE DEF x
  <2>3. TestBars(x.events) = TestBars(u.events)
    BY <2>1, <2>2, TestBarsGrow DEF IsTest
  <2> QED
    BY <2>1, <2>3 DEF x
<1>2. /\ TestBars(Flip(w, s, fact).events) = TestBars(w.events)
      /\ Flip(w, s, fact).test = w.test
  <2> DEFINE x == Flip(w, s, fact)
  <2>1. PICK e : x.events = Append(w.events, e) /\ e.type = "FLIPPED" /\ x.test = w.test
    <3> DEFINE v == [w EXCEPT !.flip = fact]
    <3>1. v \in WorkingState /\ v.events = w.events /\ v.test = w.test
      BY DEF WorkingState
    <3>2. x = Emit(v, s, "FLIPPED", "BROKEN", "FLIPPED", fact.index, fact, NoReason)
      BY DEF Flip
    <3> HIDE DEF v, x
    <3> QED
      BY <3>1, <3>2, EmitAppends
  <2>2. w.events \in Seq(Event) /\ e \in Event
    <3>1. w.events \in Seq(Event) /\ x.events \in Seq(Event)
      BY OutcomeType DEF WorkingState
    <3> QED
      BY <2>1, <3>1
  <2> HIDE DEF x
  <2>3. TestBars(x.events) = TestBars(w.events)
    BY <2>1, <2>2, TestBarsGrow DEF IsTest
  <2> QED
    BY <2>1, <2>3 DEF x
<1> DEFINE y == FlipTouch(w, s, fact)
<1>3. y \in WorkingState /\ TestBars(y.events) = TestBars(w.events) /\ y.test = w.test
  <2>1. PICK e : y.events = Append(w.events, e) /\ e.type = "FLIP_TOUCH" /\ y.test = w.test
    <3> DEFINE v == [w EXCEPT !.touch = fact]
    <3>1. v \in WorkingState /\ v.events = w.events /\ v.test = w.test
      BY DEF WorkingState
    <3>2. y = Emit(v, s, "FLIP_TOUCH", "BROKEN", "BROKEN", fact.index, fact, NoReason)
      BY DEF FlipTouch
    <3> HIDE DEF v, y
    <3> QED
      BY <3>1, <3>2, EmitAppends
  <2>2. y \in WorkingState
    BY OutcomeType
  <2>3. w.events \in Seq(Event) /\ e \in Event
    <3>1. w.events \in Seq(Event) /\ y.events \in Seq(Event)
      BY <2>2 DEF WorkingState
    <3> QED
      BY <2>1, <3>1
  <2> HIDE DEF y
  <2>4. TestBars(y.events) = TestBars(w.events)
    BY <2>1, <2>3, TestBarsGrow DEF IsTest
  <2> QED
    BY <2>1, <2>2, <2>4
<1> DEFINE Same(x) == TestBars(x.events) = TestBars(w.events) /\ x.test = w.test
<1> HIDE DEF y
<1>4. Same(ExpireAtHorizon(w, s, fact)) /\ Same(ExpireAtHorizon(y, s, fact))
  BY <1>1, <1>3 DEF ExpireAtHorizon, RetirementReason
<1>5. Same(w) /\ Same(Flip(w, s, fact)) /\ Same(Retire(w, s, fact, "FAILED_BREAK"))
  BY <1>1, <1>2 DEF RetirementReason
<1> HIDE DEF Same
<1>6. Same(ProcessBroken(w, s, bar, fact))
  BY <1>4, <1>5 DEF ProcessBroken, y
<1> QED
  BY <1>6 DEF Same

(* The inductive invariant behind TestsMatchReference: the last counted    *)
(* test is the greatest, so its distance decides the next one.             *)
Counted(s) == TestBars(working[s].events)

Touching(s) == {i \in MonitoredBars(s) : /\ Touches(prefix[i], s, TestTolerance)
                                         /\ Breaks(s) # {} => i < First(Breaks(s))}

TestsDecided(s) ==
    /\ Counted(s) = {i \in Touching(s) :
                        ~\E j \in Counted(s) : j < i /\ i - j < MinTestSeparation}
    /\ IF Present(working[s].test)
       THEN /\ working[s].test.index \in Counted(s)
            /\ \A i \in Counted(s) : i <= working[s].test.index
       ELSE Counted(s) = {}

TestsInv == \A s \in DOMAIN working : TestsDecided(s)

(* The greedy rule from one bar to the next. *)
GreedyRule(counted, touching) ==
    counted = {i \in touching : ~\E j \in counted : j < i /\ i - j < MinTestSeparation}

(* The next bar counts when it lies far enough behind the last one.       *)
LEMMA GreedyGrows ==
    ASSUME NEW n \in Nat, NEW counted \in SUBSET (1 .. n), NEW touching \in SUBSET (1 .. n),
           NEW last \in Nat, GreedyRule(counted, touching),
           IF last # 0 THEN last \in counted /\ \A i \in counted : i <= last ELSE counted = {}
    PROVE  IF last = 0 \/ n + 1 - last >= MinTestSeparation
           THEN GreedyRule(counted \cup {n + 1}, touching \cup {n + 1})
           ELSE GreedyRule(counted, touching \cup {n + 1})
<1>1. MinTestSeparation \in Nat /\ MinTestSeparation >= 1
  BY ConfigAssumption
<1>2. CASE last = 0 \/ n + 1 - last >= MinTestSeparation
  <2> DEFINE more == counted \cup {n + 1}
  <2>1. \A j \in counted : n + 1 - j >= MinTestSeparation
    BY <1>1, <1>2
  <2>2. ~\E j \in more : j < n + 1 /\ n + 1 - j < MinTestSeparation
    BY <1>1, <2>1
  <2>3. \A i \in touching : (\E j \in more : j < i /\ i - j < MinTestSeparation)
                              <=> \E j \in counted : j < i /\ i - j < MinTestSeparation
    OBVIOUS
  <2>4. more = {i \in touching \cup {n + 1} :
                  ~\E j \in more : j < i /\ i - j < MinTestSeparation}
    BY <2>2, <2>3 DEF GreedyRule
  <2> QED
    BY <1>2, <2>4 DEF GreedyRule
<1>3. CASE ~(last = 0 \/ n + 1 - last >= MinTestSeparation)
  <2>1. last \in counted /\ last < n + 1 /\ n + 1 - last < MinTestSeparation
    BY <1>1, <1>3
  <2>2. n + 1 \notin counted /\ n + 1 \notin touching
    OBVIOUS
  <2> QED
    BY <1>3, <2>1, <2>2 DEF GreedyRule
<1> QED
  BY <1>2, <1>3

(* Reading a bar extends the prefix and, from a subject's confirm time on, *)
(* the bars it monitors.                                                   *)
LEMMA MonitoredGrow ==
    ASSUME NEW bar \in BarUniverse, TypeOK, ReadBar(bar), NEW s \in DOMAIN working
    PROVE  /\ Len(prefix) \in Nat /\ IndexOfNext = Len(prefix) + 1
           /\ DOMAIN prefix = 1 .. Len(prefix) /\ DOMAIN prefix' = 1 .. Len(prefix) + 1
           /\ \A i \in 1 .. Len(prefix) : prefix'[i] = prefix[i]
           /\ prefix'[Len(prefix) + 1] = bar
           /\ MonitoredBars(s) \subseteq 1 .. Len(prefix) /\ Breaks(s) \subseteq MonitoredBars(s)
           /\ MonitoredBars(s)' = IF bar.timestamp >= ConfirmTimeOf[s]
                                  THEN MonitoredBars(s) \cup {Len(prefix) + 1} ELSE MonitoredBars(s)
<1>1. prefix \in Seq(BarUniverse) /\ prefix' = Append(prefix, bar)
  BY DEF TypeOK, ReadBar
<1>2. /\ Len(prefix) \in Nat /\ IndexOfNext = Len(prefix) + 1
      /\ DOMAIN prefix = 1 .. Len(prefix) /\ DOMAIN prefix' = 1 .. Len(prefix) + 1
      /\ \A i \in 1 .. Len(prefix) : prefix'[i] = prefix[i]
      /\ prefix'[Len(prefix) + 1] = bar
  BY <1>1, AppendFacts DEF IndexOfNext
<1>3. /\ MonitoredBars(s) = {i \in DOMAIN prefix : prefix[i].timestamp >= ConfirmTimeOf[s]}
      /\ MonitoredBars(s)' = {i \in DOMAIN prefix' : prefix'[i].timestamp >= ConfirmTimeOf[s]}
  BY DEF MonitoredBars
<1>4. Breaks(s) \subseteq MonitoredBars(s)
  BY DEF Breaks
<1> QED
  BY <1>2, <1>3, <1>4

(* How the bars that may count grow: only while the subject is unbroken.   *)
LEMMA TouchingGrows ==
    ASSUME NEW bar \in BarUniverse, TypeOK, ReadBar(bar), HorizonInv, NEW s \in DOMAIN working
    PROVE  LET m == Len(prefix) + 1
           IN /\ Touching(s) \subseteq 1 .. Len(prefix)
              /\ Touching(s)' =
                   IF /\ working[s].state \in ActiveState /\ bar.timestamp >= ConfirmTimeOf[s]
                      /\ ~IsBreak(s, bar) /\ Touches(bar, s, TestTolerance)
                   THEN Touching(s) \cup {m} ELSE Touching(s)
<1> DEFINE n == Len(prefix)
           k == working[s].break.index
<1>1. /\ n \in Nat /\ IndexOfNext = n + 1
      /\ \A i \in 1 .. n : prefix'[i] = prefix[i]
      /\ prefix'[n + 1] = bar
      /\ MonitoredBars(s) \subseteq 1 .. n /\ Breaks(s) \subseteq 1 .. n
      /\ MonitoredBars(s)' = IF bar.timestamp >= ConfirmTimeOf[s]
                             THEN MonitoredBars(s) \cup {n + 1} ELSE MonitoredBars(s)
  BY MonitoredGrow
<1>2. Breaks(s)' = IF bar.timestamp >= ConfirmTimeOf[s] /\ IsBreak(s, bar)
                   THEN Breaks(s) \cup {n + 1} ELSE Breaks(s)
  BY <1>1, BreaksGrow
<1>3. /\ working[s].state \in ActiveState <=> k = 0
      /\ k = 0 => Breaks(s) = {}
      /\ k # 0 => k \in Breaks(s) /\ \A i \in Breaks(s) : k <= i
  BY DEF HorizonInv, BreakIsDecided
<1>4. /\ Touching(s) = {i \in MonitoredBars(s) : /\ Touches(prefix[i], s, TestTolerance)
                                                 /\ Breaks(s) # {} => i < First(Breaks(s))}
      /\ Touching(s)' = {i \in MonitoredBars(s)' : /\ Touches(prefix'[i], s, TestTolerance)
                                                   /\ Breaks(s)' # {} => i < First(Breaks(s)')}
  BY DEF Touching, Touches, First
<1> DEFINE M == MonitoredBars(s)
           M2 == MonitoredBars(s)'
           B == Breaks(s)
           B2 == Breaks(s)'
           T == Touching(s)
           T2 == Touching(s)'
<1> HIDE DEF n, k, M, M2, B, B2, T, T2
<1>5. T \subseteq 1 .. n
  BY <1>1, <1>4 DEF T, M
<1>6. CASE working[s].state \notin ActiveState
  <2>1. k \in B /\ k \in Nat /\ k <= n /\ \A i \in B : k <= i
    BY <1>1, <1>3, <1>6 DEF B
  <2>2. k \in B2 /\ (\A i \in B2 : k <= i) /\ B \in SUBSET Nat /\ B2 \in SUBSET Nat
    BY <1>1, <1>2, <2>1 DEF B, B2
  <2>3. First(B) = k /\ First(B2) = k
    BY <2>1, <2>2, LeastIsFirst
  <2>4. /\ T = {i \in M : Touches(prefix[i], s, TestTolerance) /\ i < k}
        /\ T2 = {i \in M2 : Touches(prefix'[i], s, TestTolerance) /\ i < k}
    BY <1>4, <2>1, <2>2, <2>3 DEF T, T2, M, M2, B, B2
  <2>5. \A i \in M2 : i < k => i \in M /\ prefix'[i] = prefix[i]
    BY <1>1, <2>1 DEF M, M2
  <2>6. \A i \in M : i \in M2 /\ prefix'[i] = prefix[i]
    BY <1>1 DEF M, M2
  <2>7. T2 = T
    BY <2>4, <2>5, <2>6
  <2> QED
    BY <1>5, <1>6, <2>7 DEF T, T2, n
<1>7. CASE working[s].state \in ActiveState
  <2>1. B = {}
    BY <1>3, <1>7 DEF B
  <2>2. T = {i \in M : Touches(prefix[i], s, TestTolerance)}
    BY <1>4, <2>1 DEF T, M, B
  <2>3. CASE bar.timestamp >= ConfirmTimeOf[s] /\ IsBreak(s, bar)
    <3>1. B2 = {n + 1} /\ B2 \in SUBSET Nat
      BY <1>1, <1>2, <2>1, <2>3 DEF B, B2
    <3>2. First(B2) = n + 1
      BY <1>1, <3>1, LeastIsFirst
    <3>3. T2 = {i \in M2 : Touches(prefix'[i], s, TestTolerance) /\ i < n + 1}
      BY <1>4, <3>1, <3>2 DEF T2, M2, B2
    <3>4. /\ \A i \in M2 : i < n + 1 => i \in M /\ prefix'[i] = prefix[i]
          /\ \A i \in M : i \in M2 /\ prefix'[i] = prefix[i] /\ i < n + 1
      BY <1>1 DEF M, M2
    <3>5. T2 = T
      BY <2>2, <3>3, <3>4
    <3> QED
      BY <1>5, <2>3, <3>5 DEF T, T2, n
  <2>4. CASE ~(bar.timestamp >= ConfirmTimeOf[s] /\ IsBreak(s, bar))
    <3>1. B2 = {}
      BY <1>2, <2>1, <2>4 DEF B, B2
    <3>2. T2 = {i \in M2 : Touches(prefix'[i], s, TestTolerance)}
      BY <1>4, <3>1 DEF T2, M2, B2
    <3>3. \A i \in M : i # n + 1 /\ prefix'[i] = prefix[i]
      BY <1>1 DEF M
    <3>4. T2 = IF bar.timestamp >= ConfirmTimeOf[s] /\ Touches(bar, s, TestTolerance)
               THEN T \cup {n + 1} ELSE T
      BY <1>1, <2>2, <3>2, <3>3 DEF M, M2
    <3> QED
      BY <1>5, <1>7, <2>4, <3>4 DEF T, T2, n
  <2> QED
    BY <2>3, <2>4
<1> QED
  BY <1>6, <1>7

(* One bar counts for a subject exactly when the rule says so.             *)
LEMMA CountedStep ==
    ASSUME NEW w \in WorkingState, NEW s \in Subject, NEW bar \in Bar, NEW i \in Nat, NEW now \in Nat,
           Sound(w, s)
    PROVE  LET x == Process(w, s, bar, i, now)
               counts == /\ w.state \in ActiveState /\ bar.timestamp >= ConfirmTimeOf[s]
                         /\ ~IsBreak(s, bar) /\ CountsAsTest(w, s, bar, i)
           IN IF counts
              THEN TestBars(x.events) = TestBars(w.events) \cup {i} /\ x.test.index = i
              ELSE TestBars(x.events) = TestBars(w.events) /\ x.test = w.test
<1> DEFINE fact == [index |-> i, time |-> bar.timestamp, confirm |-> now]
           x == Process(w, s, bar, i, now)
           Same(y) == TestBars(y.events) = TestBars(w.events) /\ y.test = w.test
<1>1. fact \in Fact /\ fact.index = i
  BY DEF Fact, Bar
<1>2. x = IF ~Monitors(w, s, bar) THEN w
          ELSE IF w.state = "BROKEN" THEN ProcessBroken(w, s, bar, fact)
          ELSE ProcessActive(w, s, bar, fact)
  BY DEF Process
<1>3. w.state \in SubjectState /\ w.events \in Seq(Event)
  BY DEF WorkingState
<1> HIDE DEF fact, x
<1>4. CASE w.state \notin ActiveState \/ ~(bar.timestamp >= ConfirmTimeOf[s])
  <2>1. x = w \/ x = ProcessBroken(w, s, bar, fact)
    BY <1>2, <1>3, <1>4 DEF Monitors, SubjectState
  <2>2. Same(x)
    BY <1>1, <2>1, BrokenTests
  <2> QED
    BY <1>4, <2>2 DEF x
<1>5. CASE w.state \in ActiveState /\ bar.timestamp >= ConfirmTimeOf[s]
  <2>1. x = ProcessActive(w, s, bar, fact)
    BY <1>2, <1>5 DEF Monitors, ActiveState, TerminalState
  <2>2. CASE IsBreak(s, bar)
    <3> DEFINE e == Emitted(w, s, "BROKEN", "BROKEN", w.tests, fact, NoReason)
    <3>1. x = Break(w, s, fact)
      BY <2>1, <2>2 DEF ProcessActive
    <3>2. Emits(w, x, s, e, fact) /\ e.type = "BROKEN"
      BY <1>1, <1>5, <3>1, BreakEmits DEF Emitted
    <3> HIDE DEF e
    <3>3. x.events = Append(w.events, e) /\ e \in Event /\ ~IsTest(e) /\ x.test = w.test
      BY <3>2 DEF Emits, IsTest
    <3>4. Same(x)
      BY <1>3, <3>3, TestBarsGrow
    <3> QED
      BY <2>2, <3>4 DEF x
  <2>3. CASE ~IsBreak(s, bar) /\ CountsAsTest(w, s, bar, i)
    <3> DEFINE e == Emitted(w, s, TestType(w), TestTo(w), w.tests + 1, fact, NoReason)
    <3>1. x = Test(w, s, fact)
      BY <1>1, <2>1, <2>3 DEF ProcessActive
    <3>2. Emits(w, x, s, e, fact) /\ e.type \in {"TEST", "WEAKENED"}
      BY <1>1, <1>5, <3>1, TestEmits DEF Emitted, TestType
    <3> HIDE DEF e
    <3>3. /\ x.events = Append(w.events, e) /\ e \in Event /\ IsTest(e)
          /\ x.test = fact /\ e.bar = i
      BY <1>1, <3>2 DEF Emits, IsTest
    <3>4. TestBars(x.events) = TestBars(w.events) \cup {i} /\ x.test.index = i
      BY <1>1, <1>3, <3>3, TestBarsGrow
    <3> QED
      BY <1>5, <2>3, <3>4 DEF x
  <2>4. CASE ~IsBreak(s, bar) /\ ~CountsAsTest(w, s, bar, i)
    <3>1. x = w
      BY <1>1, <2>1, <2>4 DEF ProcessActive
    <3> QED
      BY <2>4, <3>1 DEF x
  <2> QED
    BY <2>2, <2>3, <2>4
<1> QED
  BY <1>4, <1>5

(* One bar keeps the greedy count of one subject.                         *)
LEMMA TestsStep ==
    ASSUME NEW bar \in BarUniverse, TypeOK, ReadBar(bar), HorizonInv, KeptInv,
           NEW s \in DOMAIN working, TestsDecided(s)
    PROVE  TestsDecided(s)'
<1> DEFINE n == Len(prefix)
           w == working[s]
           now == CumulativeAvailability(bar)
           x == Process(w, s, bar, n + 1, now)
           C == Counted(s)
           T == Touching(s)
           C2 == TestBars(x.events)
           T2 == Touching(s)'
           last == w.test.index
           open == w.state \in ActiveState /\ bar.timestamp >= ConfirmTimeOf[s] /\ ~IsBreak(s, bar)
<1>1. /\ s \in Subject /\ bar \in Bar /\ now \in Nat /\ n \in Nat /\ n + 1 \in Nat
      /\ working'[s] = x
  BY ReadBarFacts
<1>2. w \in WorkingState /\ Sound(w, s)
  BY DEF KeptInv, Kept
<1>3. /\ T \subseteq 1 .. n
      /\ T2 = IF open /\ Touches(bar, s, TestTolerance) THEN T \cup {n + 1} ELSE T
  BY TouchingGrows
<1>4. IF open /\ CountsAsTest(w, s, bar, n + 1)
      THEN C2 = C \cup {n + 1} /\ x.test.index = n + 1
      ELSE C2 = C /\ x.test = w.test
  <2> HIDE DEF x, n, now
  <2>1. IF /\ w.state \in ActiveState /\ bar.timestamp >= ConfirmTimeOf[s]
           /\ ~IsBreak(s, bar) /\ CountsAsTest(w, s, bar, n + 1)
        THEN TestBars(x.events) = TestBars(w.events) \cup {n + 1} /\ x.test.index = n + 1
        ELSE TestBars(x.events) = TestBars(w.events) /\ x.test = w.test
    BY <1>1, <1>2, CountedStep DEF x
  <2> QED
    BY <2>1 DEF Counted
<1>5. /\ GreedyRule(C, T)
      /\ IF last # 0 THEN last \in C /\ \A i \in C : i <= last ELSE C = {}
  BY DEF TestsDecided, GreedyRule, Present
<1>6. last \in Nat
  <2>1. w.test \in Fact
    BY <1>2 DEF WorkingState
  <2> QED
    BY <2>1 DEF Fact
<1>7. C \subseteq 1 .. n
  BY <1>3, <1>5 DEF GreedyRule
<1>8. TestsDecided(s)' <=> /\ GreedyRule(C2, T2)
                           /\ IF x.test.index # 0
                              THEN x.test.index \in C2 /\ \A i \in C2 : i <= x.test.index
                              ELSE C2 = {}
  BY <1>1 DEF TestsDecided, GreedyRule, Present, Counted
<1>9. CountsAsTest(w, s, bar, n + 1)
        <=> /\ Touches(bar, s, TestTolerance)
            /\ last = 0 \/ n + 1 - last >= MinTestSeparation
  BY <1>1, <1>6 DEF CountsAsTest
<1> HIDE DEF n, w, now, x, C, T, C2, T2, last, open
<1>10. CASE ~(open /\ Touches(bar, s, TestTolerance))
  BY <1>3, <1>4, <1>5, <1>8, <1>9, <1>10 DEF last
<1>11. CASE open /\ CountsAsTest(w, s, bar, n + 1)
  <2>1. C2 = C \cup {n + 1} /\ T2 = T \cup {n + 1} /\ x.test.index = n + 1
    BY <1>3, <1>4, <1>9, <1>11
  <2>2. GreedyRule(C \cup {n + 1}, T \cup {n + 1})
    BY <1>1, <1>3, <1>5, <1>6, <1>7, <1>9, <1>11, GreedyGrows
  <2>3. \A i \in C2 : i <= n + 1
    BY <1>1, <1>7, <2>1
  <2>4. GreedyRule(C2, T2) /\ n + 1 \in C2 /\ n + 1 # 0
    BY <1>1, <2>1, <2>2
  <2> QED
    BY <1>8, <2>1, <2>3, <2>4
<1>12. CASE open /\ Touches(bar, s, TestTolerance) /\ ~CountsAsTest(w, s, bar, n + 1)
  <2>1. C2 = C /\ T2 = T \cup {n + 1} /\ x.test.index = last
    BY <1>3, <1>4, <1>12 DEF last
  <2>2. GreedyRule(C, T \cup {n + 1})
    BY <1>1, <1>3, <1>5, <1>6, <1>7, <1>9, <1>12, GreedyGrows
  <2> QED
    BY <1>5, <1>8, <2>1, <2>2
<1> QED
  BY <1>9, <1>10, <1>11, <1>12

(* Every reachable subject has counted its tests greedily so far.          *)
THEOREM TestsCorrect == Spec => []TestsInv
<1>1. Init => TestsInv
  <2> SUFFICES ASSUME Init, NEW s \in DOMAIN working PROVE TestsDecided(s)
    BY DEF TestsInv
  <2>1. working[s] = Activate(s) /\ s \in Subject /\ prefix = <<>>
    BY DEF Init
  <2>2. Kept(working[s], s, 0, 0, 0)
    BY <2>1, ActivateKept
  <2>3. working[s].test = NoFact /\ working[s].state = "FRESH"
    BY <2>1 DEF Activate, Emit
  <2>4. Counted(s) = {}
    <3>1. Len(working[s].events) = 1 /\ working[s].events[1].type = "ACTIVATED"
          /\ DOMAIN working[s].events = 1 .. Len(working[s].events)
      BY <2>1 DEF Activate, Emit
    <3> QED
      BY <3>1 DEF Counted, TestBars, PositionsOf
  <2>5. Touching(s) = {}
    BY <2>1 DEF Touching, MonitoredBars
  <2> QED
    BY <2>3, <2>4, <2>5 DEF TestsDecided, Present, NoFact
<1>2. TypeOK /\ HorizonInv /\ KeptInv /\ TestsInv /\ [Next]_vars => TestsInv'
  <2> SUFFICES ASSUME TypeOK, HorizonInv, KeptInv, TestsInv, [Next]_vars PROVE TestsInv'
    OBVIOUS
  <2>1. ASSUME NEW bar \in BarUniverse, ReadBar(bar) PROVE TestsInv'
    <3>1. DOMAIN working' = DOMAIN working
      BY <2>1 DEF ReadBar
    <3> QED
      BY <2>1, <3>1, TestsStep DEF TestsInv
  <2>2. ASSUME UNCHANGED <<asOf, prefix, running, working>> PROVE TestsInv'
    BY <2>2 DEF TestsInv, TestsDecided, Counted, Touching, Breaks, MonitoredBars
  <2>3. ASSUME NEW bar \in BarUniverse, StopAtBlockedBar(bar) PROVE TestsInv'
    BY <2>2, <2>3 DEF StopAtBlockedBar
  <2>4. CASE ReachEndOfSource
    BY <2>2, <2>4 DEF ReachEndOfSource
  <2>5. CASE UNCHANGED vars
    BY <2>2, <2>5 DEF vars
  <2> QED
    BY <2>1, <2>3, <2>4, <2>5 DEF Next
<1> QED
  BY <1>1, <1>2, TypeCorrect, HorizonCorrect, KeptCorrect, PTL DEF Spec

(* The tests the engine counts, one bar at a time and remembering only the *)
(* last one, are those a greedy reading of the whole prefix counts, and    *)
(* their number alone tells FRESH, TESTED and WEAKENED apart.              *)
THEOREM TestsAreGreedy == Spec => []TestsMatchReference
<1>1. TypeOK /\ HorizonInv /\ KeptInv /\ TestsInv => TestsMatchReference
  <2> SUFFICES ASSUME TypeOK, HorizonInv, KeptInv, TestsInv, NEW s \in DOMAIN working
               PROVE  LET counted == Counted(s)
                          touching == Touching(s)
                      IN /\ GreedyRule(counted, touching)
                         /\ Breaks(s) = {} =>
                               /\ working[s].state = "FRESH" <=> counted = {}
                               /\ working[s].state = "WEAKENED"
                                      <=> working[s].tests >= WeakeningTestCount
    BY DEF TestsMatchReference, Counted, TestBars, Touching, GreedyRule
  <2> DEFINE w == working[s]
  <2>1. TestsDecided(s) /\ BreakIsDecided(s) /\ Sound(w, s) /\ w \in WorkingState
    BY DEF TestsInv, HorizonInv, KeptInv, Kept
  <2>2. GreedyRule(Counted(s), Touching(s))
    BY <2>1 DEF TestsDecided, GreedyRule
  <2>3. ASSUME Breaks(s) = {}
        PROVE  /\ w.state = "FRESH" <=> Counted(s) = {}
               /\ w.state = "WEAKENED" <=> w.tests >= WeakeningTestCount
    <3>1. w.state \in ActiveState
      BY <2>1, <2>3 DEF BreakIsDecided
    <3>2. /\ w.tests = 0 <=> ~Present(w.test)
          /\ w.state = "FRESH" => w.tests = 0
          /\ w.state \in {"TESTED", "WEAKENED"} => w.tests >= 1
      BY <2>1 DEF Sound, Accepted, StateOK
    <3>3. Present(w.test) <=> Counted(s) # {}
      BY <2>1 DEF TestsDecided
    <3>4. CountsFit(w) /\ w.tests \in Nat /\ WeakeningTestCount \in Nat /\ WeakeningTestCount >= 2
      BY <2>1, ConfigAssumption DEF Sound, WorkingState
    <3> HIDE DEF w
    <3>5. CASE w.state = "FRESH"
      BY <3>2, <3>3, <3>4, <3>5
    <3>6. CASE w.state = "TESTED"
      BY <3>2, <3>3, <3>4, <3>6 DEF CountsFit
    <3>7. CASE w.state = "WEAKENED"
      BY <3>2, <3>3, <3>4, <3>7 DEF CountsFit
    <3> QED
      BY <3>1, <3>5, <3>6, <3>7 DEF ActiveState
  <2> QED
    BY <2>2, <2>3
<1> QED
  BY <1>1, TypeCorrect, HorizonCorrect, KeptCorrect, TestsCorrect, PTL

-----------------------------------------------------------------------------
(* The reference definition of what becomes of a break                     *)

(* What one bar of the flip window does to a broken subject.               *)
LEMMA BrokenResult ==
    ASSUME NEW w \in WorkingState, NEW s \in Subject, NEW bar, NEW fact \in Fact,
           w.state = "BROKEN", w.break.index < fact.index, w.touch.index < fact.index
    PROVE  LET x == ProcessBroken(w, s, bar, fact)
               touches == w.touch.index = 0 /\ Touches(bar, s, FlipTolerance)
               confirms == w.touch.index # 0 /\ IsFlipConfirmation(s, bar)
               expired == /\ x.state = "RETIRED" /\ x.reason = "FLIP_HORIZON_EXPIRED"
                          /\ x.retire = fact
           IN /\ IsFailedBreak(s, bar) =>
                    x.state = "RETIRED" /\ x.reason = "FAILED_BREAK" /\ x.retire = fact
              /\ ~IsFailedBreak(s, bar) /\ confirms => x.state = "FLIPPED" /\ x.flip = fact
              /\ ~IsFailedBreak(s, bar) /\ ~confirms =>
                    IF AtHorizon(w, fact) THEN expired
                    ELSE x.state = "BROKEN" /\ x.touch = IF touches THEN fact ELSE w.touch
<1> DEFINE touches == w.touch.index = 0 /\ Touches(bar, s, FlipTolerance)
           confirms == w.touch.index # 0 /\ IsFlipConfirmation(s, bar)
           y == FlipTouch(w, s, fact)
           Retired(x, reason) == x.state = "RETIRED" /\ x.reason = reason /\ x.retire = fact
<1>1. ASSUME NEW u \in WorkingState, NEW reason PROVE Retired(Retire(u, s, fact, reason), reason)
  BY DEF Retire, Emit, WorkingState
<1>2. Flip(w, s, fact).state = "FLIPPED" /\ Flip(w, s, fact).flip = fact
  BY DEF Flip, Emit, WorkingState
<1>3. y \in WorkingState /\ y.state = "BROKEN" /\ y.touch = fact /\ y.break = w.break
  <2>1. y.state = "BROKEN" /\ y.touch = fact /\ y.break = w.break
    BY DEF FlipTouch, Emit, WorkingState
  <2> QED
    BY <2>1, OutcomeType
<1>4. fact.index \in Nat /\ w.break.index \in Nat /\ w.touch.index \in Nat
  <2>1. w.break \in Fact /\ w.touch \in Fact
    BY DEF WorkingState
  <2> QED
    BY <2>1 DEF Fact
<1>5. ~(fact.index <= w.break.index) /\ (w.touch.index # 0 => fact.index > w.touch.index)
  BY <1>4
<1> DEFINE x == ProcessBroken(w, s, bar, fact)
<1>6. x = IF IsFailedBreak(s, bar) THEN Retire(w, s, fact, "FAILED_BREAK")
          ELSE IF touches THEN ExpireAtHorizon(y, s, fact)
          ELSE IF confirms THEN Flip(w, s, fact)
          ELSE ExpireAtHorizon(w, s, fact)
  BY <1>5 DEF ProcessBroken
<1>7. AtHorizon(y, fact) <=> AtHorizon(w, fact)
  BY <1>3 DEF AtHorizon
<1> HIDE DEF y, x
<1>8. touches => ~confirms
  OBVIOUS
<1> HIDE DEF touches, confirms, Retired
<1>9. /\ IsFailedBreak(s, bar) => Retired(x, "FAILED_BREAK")
      /\ ~IsFailedBreak(s, bar) /\ confirms => x.state = "FLIPPED" /\ x.flip = fact
      /\ ~IsFailedBreak(s, bar) /\ ~confirms =>
            IF AtHorizon(w, fact) THEN Retired(x, "FLIP_HORIZON_EXPIRED")
            ELSE x.state = "BROKEN" /\ x.touch = IF touches THEN fact ELSE w.touch
  BY <1>1, <1>2, <1>3, <1>6, <1>7, <1>8 DEF ExpireAtHorizon
<1> QED
  BY <1>9 DEF x, touches, confirms, Retired

(* The inductive invariant behind ResolutionMatchesReference: while the    *)
(* subject is broken nothing of its window resolves it and the engine      *)
(* remembers the first touch; afterwards it remembers the resolution.      *)
ResolvedAt(w) == IF w.state = "FLIPPED" THEN w.flip.index ELSE w.retire.index

ResolutionDecided(s) ==
    LET w == working[s]
        at == ResolvedAt(w)
    IN Breaks(s) # {} =>
        IF w.state = "BROKEN"
        THEN /\ Resolutions(s) = {}
             /\ IF w.touch.index = 0 THEN TouchesInWindow(s) = {}
                ELSE /\ w.touch.index \in TouchesInWindow(s)
        ELSE /\ at \in Resolutions(s) /\ \A j \in Resolutions(s) : at <= j
             /\ IF at \in FailuresInWindow(s)
                THEN w.state = "RETIRED" /\ w.reason = "FAILED_BREAK"
                ELSE IF at \in ConfirmationsInWindow(s) THEN w.state = "FLIPPED"
                ELSE w.state = "RETIRED" /\ w.reason = "FLIP_HORIZON_EXPIRED"

ResolutionInv == \A s \in DOMAIN working : ResolutionDecided(s)

(* The bars of a window, by what they do, and how they grow by one bar.    *)
LEMMA WindowGrows ==
    ASSUME NEW bar \in BarUniverse, TypeOK, ReadBar(bar), NEW s \in DOMAIN working,
           First(Breaks(s))' = First(Breaks(s))
    PROVE  LET m == Len(prefix) + 1
               b == First(Breaks(s))
               inside == b < m /\ m <= b + FlipHorizon
           IN /\ FlipWindow(s) \subseteq 1 .. Len(prefix)
              /\ TouchesInWindow(s) \subseteq FlipWindow(s)
              /\ Resolutions(s) \subseteq FlipWindow(s)
              /\ TouchesInWindow(s)' = TouchesInWindow(s)
                    \cup {i \in {m} : inside /\ Touches(bar, s, FlipTolerance)}
              /\ FailuresInWindow(s)' = FailuresInWindow(s)
                    \cup {i \in {m} : inside /\ IsFailedBreak(s, bar)}
              /\ ConfirmationsInWindow(s)' = ConfirmationsInWindow(s)
                    \cup {i \in {m} : /\ inside /\ IsFlipConfirmation(s, bar)
                                      /\ TouchesInWindow(s) # {}}
              /\ Resolutions(s)' = Resolutions(s)
                    \cup {i \in {m} : /\ inside
                                      /\ \/ IsFailedBreak(s, bar)
                                         \/ IsFlipConfirmation(s, bar) /\ TouchesInWindow(s) # {}
                                         \/ m = b + FlipHorizon}
<1> DEFINE n == Len(prefix)
           m == n + 1
           b == First(Breaks(s))
           inside == b < m /\ m <= b + FlipHorizon
           W == FlipWindow(s)
           W2 == FlipWindow(s)'
           T == TouchesInWindow(s)
           T2 == TouchesInWindow(s)'
           F == FailuresInWindow(s)
           F2 == FailuresInWindow(s)'
           C == ConfirmationsInWindow(s)
           C2 == ConfirmationsInWindow(s)'
           E == {i \in FlipWindow(s) : i = First(Breaks(s)) + FlipHorizon}
           E2 == {i \in FlipWindow(s)' : i = First(Breaks(s))' + FlipHorizon}
<1>1. /\ n \in Nat /\ DOMAIN prefix = 1 .. n /\ DOMAIN prefix' = 1 .. m
      /\ \A i \in 1 .. n : prefix'[i] = prefix[i]
      /\ prefix'[m] = bar
  BY MonitoredGrow
<1>2. W = {i \in 1 .. n : b < i /\ i <= b + FlipHorizon}
  BY <1>1 DEF FlipWindow
<1>3. W2 = {i \in 1 .. m : b < i /\ i <= b + FlipHorizon}
  BY <1>1 DEF FlipWindow
<1>4. T = {i \in W : Touches(prefix[i], s, FlipTolerance)}
      /\ T2 = {i \in W2 : Touches(prefix'[i], s, FlipTolerance)}
  BY DEF TouchesInWindow, Touches
<1>5. F = {i \in W : IsFailedBreak(s, prefix[i])}
      /\ F2 = {i \in W2 : IsFailedBreak(s, prefix'[i])}
  BY DEF FailuresInWindow, IsFailedBreak
<1>6. C = {i \in W : IsFlipConfirmation(s, prefix[i]) /\ \E j \in T : j < i}
      /\ C2 = {i \in W2 : IsFlipConfirmation(s, prefix'[i]) /\ \E j \in T2 : j < i}
  BY DEF ConfirmationsInWindow, IsFlipConfirmation
<1>7. E = {i \in W : i = b + FlipHorizon} /\ E2 = {i \in W2 : i = b + FlipHorizon}
  OBVIOUS
<1>8. Resolutions(s) = F \cup C \cup E /\ Resolutions(s)' = F2 \cup C2 \cup E2
  BY DEF Resolutions
<1> HIDE DEF n, b, W, W2, T, T2, F, F2, C, C2, E, E2
<1>9. W \subseteq 1 .. n
  BY <1>2
<1>10. W2 = W \cup {i \in {m} : inside}
  <2> DEFINE In(i) == b < i /\ i <= b + FlipHorizon
  <2>1. 1 .. m = (1 .. n) \cup {m}
    BY <1>1
  <2>2. W = {i \in 1 .. n : In(i)} /\ W2 = {i \in 1 .. m : In(i)} /\ (inside <=> In(m))
    BY <1>2, <1>3
  <2> HIDE DEF m, inside, In
  <2> QED
    BY <2>1, <2>2
<1>11. \A i \in W : i # m /\ i < m /\ prefix'[i] = prefix[i]
  <2> SUFFICES ASSUME NEW i \in W PROVE i # m /\ i < m /\ prefix'[i] = prefix[i]
    OBVIOUS
  <2>1. i \in 1 .. n
    BY <1>9
  <2> QED
    BY <1>1, <2>1
<1>12. T2 = T \cup {i \in {m} : inside /\ Touches(bar, s, FlipTolerance)}
  BY <1>1, <1>4, <1>10, <1>11
<1>13. F2 = F \cup {i \in {m} : inside /\ IsFailedBreak(s, bar)}
  BY <1>1, <1>5, <1>10, <1>11
<1>14. C2 = C \cup {i \in {m} : inside /\ IsFlipConfirmation(s, bar) /\ T # {}}
  <2>1. T \subseteq W
    BY <1>4
  <2>2. \A i \in W : (\E j \in T2 : j < i) <=> \E j \in T : j < i
    <3>1. \A i \in W : ~(m < i)
      BY <1>1, <1>9
    <3> QED
      BY <1>12, <3>1
  <2>3. (\E j \in T2 : j < m) <=> T # {}
    <3>1. ~(m < m)
      BY <1>1
    <3> QED
      BY <1>11, <1>12, <2>1, <3>1
  <2> QED
    BY <1>1, <1>6, <1>10, <1>11, <2>2, <2>3
<1>15. E2 = E \cup {i \in {m} : inside /\ m = b + FlipHorizon}
  BY <1>7, <1>10
<1>16. F2 \cup C2 \cup E2 = (F \cup C \cup E)
          \cup {i \in {m} : /\ inside
                            /\ \/ IsFailedBreak(s, bar)
                               \/ IsFlipConfirmation(s, bar) /\ T # {}
                               \/ m = b + FlipHorizon}
  BY <1>13, <1>14, <1>15
<1>17. T \subseteq W /\ (F \cup C \cup E) \subseteq W
  BY <1>4, <1>5, <1>6, <1>7
<1> QED
  BY <1>8, <1>9, <1>12, <1>13, <1>14, <1>16, <1>17 DEF n, b, W, T, T2, F, F2, C, C2

(* A subject that breaks now starts with an empty window.                  *)
LEMMA BreakingStep ==
    ASSUME NEW bar \in BarUniverse, TypeOK, ReadBar(bar), HorizonInv, KeptInv,
           NEW s \in DOMAIN working, working[s].state \in ActiveState
    PROVE  ResolutionDecided(s)'
<1> DEFINE n == Len(prefix)
           m == n + 1
           w == working[s]
           now == CumulativeAvailability(bar)
           fact == [index |-> m, time |-> bar.timestamp, confirm |-> now]
           x == Process(w, s, bar, m, now)
<1>1. /\ s \in Subject /\ bar \in Bar /\ now \in Nat /\ n \in Nat /\ working'[s] = x
  BY ReadBarFacts
<1>2. w \in WorkingState /\ Sound(w, s)
  BY DEF KeptInv, Kept
<1>3. Breaks(s) = {}
  BY DEF HorizonInv, BreakIsDecided
<1>4. Breaks(s)' = IF bar.timestamp >= ConfirmTimeOf[s] /\ IsBreak(s, bar) THEN {m} ELSE {}
  BY <1>3, BreaksGrow DEF IndexOfNext
<1>5. CASE ~(bar.timestamp >= ConfirmTimeOf[s] /\ IsBreak(s, bar))
  BY <1>4, <1>5 DEF ResolutionDecided
<1>6. CASE bar.timestamp >= ConfirmTimeOf[s] /\ IsBreak(s, bar)
  <2>1. x = Break(w, s, fact)
    BY <1>6 DEF Process, Monitors, ProcessActive, ActiveState, TerminalState
  <2>2. x.state = "BROKEN" /\ x.touch = w.touch
    BY <1>2, <2>1 DEF Break, Emit, WorkingState
  <2>3. w.touch.index = 0
    BY <1>2 DEF Sound, Accepted, StateOK, Causes, Present
  <2>4. First(Breaks(s)') = m
    <3>1. Breaks(s)' = {m} /\ m \in Nat
      BY <1>1, <1>4, <1>6
    <3>2. {m} \in SUBSET Nat /\ m \in {m} /\ \A i \in {m} : m <= i
      BY <3>1
    <3> HIDE DEF m
    <3> QED
      BY <3>1, <3>2, LeastIsFirst
  <2>5. FlipWindow(s)' = {}
    <3>1. DOMAIN prefix' = 1 .. m
      BY MonitoredGrow
    <3>2. FlipWindow(s)' = {i \in 1 .. m : m < i /\ i <= m + FlipHorizon}
      BY <2>4, <3>1 DEF FlipWindow, First
    <3> QED
      BY <1>1, <3>2
  <2>6. TouchesInWindow(s)' = {} /\ Resolutions(s)' = {}
    BY <2>5 DEF TouchesInWindow, Resolutions, FailuresInWindow, ConfirmationsInWindow
  <2> QED
    BY <1>1, <2>2, <2>3, <2>6 DEF ResolutionDecided
<1> QED
  BY <1>5, <1>6

(* One bar keeps the resolution of one subject in step with its window.    *)
LEMMA ResolutionStep ==
    ASSUME NEW bar \in BarUniverse, TypeOK, ReadBar(bar), HorizonInv, KeptInv,
           NEW s \in DOMAIN working, ResolutionDecided(s)
    PROVE  ResolutionDecided(s)'
<1> DEFINE n == Len(prefix)
           m == n + 1
           w == working[s]
           now == CumulativeAvailability(bar)
           fact == [index |-> m, time |-> bar.timestamp, confirm |-> now]
           x == Process(w, s, bar, m, now)
           b == w.break.index
<1>1. /\ s \in Subject /\ bar \in Bar /\ now \in Nat /\ n \in Nat /\ working'[s] = x
      /\ EndOfPrefix \in Nat /\ EndOfPrefix <= bar.timestamp
  BY ReadBarFacts
<1>2. w \in WorkingState /\ w.state \in SubjectState
  BY DEF KeptInv, Kept, WorkingState
<1>3. CASE w.state \in ActiveState
  BY <1>3, BreakingStep
<1>4. CASE w.state \notin ActiveState
  <2>1. b # 0 /\ b \in Breaks(s) /\ (\A i \in Breaks(s) : b <= i) /\ Breaks(s) \subseteq 1 .. n
    BY <1>4, MonitoredGrow DEF HorizonInv, BreakIsDecided
  <2>2. Breaks(s)' = Breaks(s) \/ Breaks(s)' = Breaks(s) \cup {m}
    BY BreaksGrow DEF IndexOfNext
  <2>3. First(Breaks(s)) = b /\ First(Breaks(s)') = b /\ b \in 1 .. n
    <3>1. /\ b \in Breaks(s) /\ b \in Breaks(s)' /\ b \in 1 .. n
          /\ Breaks(s) \in SUBSET Nat /\ Breaks(s)' \in SUBSET Nat
          /\ \A i \in Breaks(s)' : b <= i
      BY <1>1, <2>1, <2>2
    <3> HIDE DEF b
    <3> QED
      BY <2>1, <3>1, LeastIsFirst
  <2>4. First(Breaks(s))' = First(Breaks(s))
    BY <2>3 DEF First
  <2> DEFINE T == TouchesInWindow(s)
             F == FailuresInWindow(s)
             C == ConfirmationsInWindow(s)
             R == Resolutions(s)
             T2 == TouchesInWindow(s)'
             F2 == FailuresInWindow(s)'
             C2 == ConfirmationsInWindow(s)'
             R2 == Resolutions(s)'
             inside == b < m /\ m <= b + FlipHorizon
  <2>5. /\ T \subseteq 1 .. n /\ R \subseteq 1 .. n
        /\ T2 = T \cup {i \in {m} : inside /\ Touches(bar, s, FlipTolerance)}
        /\ F2 = F \cup {i \in {m} : inside /\ IsFailedBreak(s, bar)}
        /\ C2 = C \cup {i \in {m} : inside /\ IsFlipConfirmation(s, bar) /\ T # {}}
        /\ R2 = R \cup {i \in {m} : /\ inside
                                    /\ \/ IsFailedBreak(s, bar)
                                       \/ IsFlipConfirmation(s, bar) /\ T # {}
                                       \/ m = b + FlipHorizon}
    BY <2>3, <2>4, WindowGrows
  <2>6. F \subseteq R /\ C \subseteq R /\ Breaks(s) # {} /\ Breaks(s)' # {}
    BY <2>1, <2>2 DEF Resolutions
  <2>7. IF w.state = "BROKEN"
        THEN R = {} /\ (IF w.touch.index = 0 THEN T = {} ELSE w.touch.index \in T)
        ELSE LET at == ResolvedAt(w)
             IN /\ at \in R /\ \A j \in R : at <= j
                /\ IF at \in F THEN w.state = "RETIRED" /\ w.reason = "FAILED_BREAK"
                   ELSE IF at \in C THEN w.state = "FLIPPED"
                   ELSE w.state = "RETIRED" /\ w.reason = "FLIP_HORIZON_EXPIRED"
    BY <2>6 DEF ResolutionDecided
  <2>8. ResolutionDecided(s)' <=>
          IF x.state = "BROKEN"
          THEN R2 = {} /\ (IF x.touch.index = 0 THEN T2 = {} ELSE x.touch.index \in T2)
          ELSE LET at == ResolvedAt(x)
               IN /\ at \in R2 /\ \A j \in R2 : at <= j
                  /\ IF at \in F2 THEN x.state = "RETIRED" /\ x.reason = "FAILED_BREAK"
                     ELSE IF at \in C2 THEN x.state = "FLIPPED"
                     ELSE x.state = "RETIRED" /\ x.reason = "FLIP_HORIZON_EXPIRED"
    BY <1>1, <2>6 DEF ResolutionDecided, ResolvedAt
  <2>9. CASE w.state # "BROKEN"
    <3>1. x = w
      BY <1>2, <1>4, <2>9 DEF Process, Monitors, SubjectState
    <3> DEFINE at == ResolvedAt(w)
    <3>2. at \in R /\ (\A j \in R : at <= j) /\ at \in 1 .. n
      BY <2>5, <2>7, <2>9
    <3> HIDE DEF T, F, C, R, T2, F2, C2, R2, x, w, b, n, at
    <3>3. at # m /\ at \in R2 /\ (\A j \in R2 : at <= j) /\ (at \in F2 <=> at \in F) /\ (at \in C2 <=> at \in C)
      BY <1>1, <2>5, <3>2
    <3>4. x.state # "BROKEN" /\ ResolvedAt(x) = at
      BY <2>9, <3>1 DEF at
    <3> QED
      BY <2>7, <2>8, <2>9, <3>1, <3>3, <3>4 DEF at
  <2>10. CASE w.state = "BROKEN"
    <3>1. inside
      <4>1. n - b < FlipHorizon
        BY <2>10 DEF HorizonInv, BrokenInsideHorizon
      <4> QED
        BY <1>1, <2>3, <4>1, ConfigAssumption
    <3>2. bar.timestamp >= ConfirmTimeOf[s]
      <4>1. prefix[n].end > ConfirmTimeOf[s]
        BY <2>10 DEF HorizonInv, BrokenInsideHorizon
      <4>2. EndOfPrefix = prefix[n].end
        <5>1. prefix # <<>>
          BY <2>3
        <5> QED
          BY <5>1 DEF EndOfPrefix
      <4>3. ConfirmTimeOf[s] \in Nat /\ bar.timestamp \in Nat
        BY <1>1, SubjectAssumption DEF Bar
      <4> QED
        BY <1>1, <4>1, <4>2, <4>3
    <3>3. x = ProcessBroken(w, s, bar, fact)
      BY <2>10, <3>2 DEF Process, Monitors, TerminalState
    <3>4. fact \in Fact /\ fact.index = m /\ b < m
      BY <1>1, <2>3 DEF Fact, Bar
    <3>5. R = {} /\ (w.touch.index = 0 <=> T = {}) /\ (w.touch.index # 0 => w.touch.index \in T)
      BY <2>5, <2>7, <2>10
    <3>6. w.touch.index < m /\ m # 0
      BY <1>1, <2>5, <3>5
    <3>7. AtHorizon(w, fact) <=> m = b + FlipHorizon
      <4>1. m \in Nat /\ b \in Nat /\ FlipHorizon \in Nat
        BY <1>1, <2>3, ConfigAssumption
      <4>2. AtHorizon(w, fact) <=> fact.index - w.break.index = FlipHorizon
        BY DEF AtHorizon
      <4>3. AtHorizon(w, fact) <=> m - b = FlipHorizon
        BY <3>4, <4>2
      <4> HIDE DEF m, b, fact
      <4> QED
        BY <4>1, <4>3
    <3> DEFINE touches == w.touch.index = 0 /\ Touches(bar, s, FlipTolerance)
               confirms == w.touch.index # 0 /\ IsFlipConfirmation(s, bar)
               failed == IsFailedBreak(s, bar)
    <3> HIDE DEF fact, x, n, w
    <3>8. /\ failed => x.state = "RETIRED" /\ x.reason = "FAILED_BREAK" /\ x.retire.index = m
          /\ ~failed /\ confirms => x.state = "FLIPPED" /\ x.flip.index = m
          /\ ~failed /\ ~confirms =>
                IF m = b + FlipHorizon
                THEN /\ x.state = "RETIRED" /\ x.reason = "FLIP_HORIZON_EXPIRED"
                     /\ x.retire.index = m
                ELSE x.state = "BROKEN" /\ x.touch = IF touches THEN fact ELSE w.touch
      BY <1>1, <1>2, <2>10, <3>3, <3>4, <3>6, <3>7, BrokenResult
    <3> HIDE DEF b, T, F, C, R, T2, F2, C2, R2, inside, m, failed
    <3>9. /\ F = {} /\ C = {}
      BY <2>6, <3>5
    <3>10. /\ F2 = {i \in {m} : failed}
           /\ C2 = {i \in {m} : confirms}
           /\ R2 = {i \in {m} : failed \/ confirms \/ m = b + FlipHorizon}
           /\ T2 = T \cup {i \in {m} : Touches(bar, s, FlipTolerance)}
      BY <2>5, <3>1, <3>5, <3>9 DEF failed
    <3>11. m \in Nat /\ m <= m
      BY <1>1 DEF m
    <3>12. CASE failed
      <4>1. x.state = "RETIRED" /\ x.reason = "FAILED_BREAK" /\ ResolvedAt(x) = m
        BY <3>8, <3>12 DEF ResolvedAt
      <4>2. m \in F2 /\ m \in R2 /\ \A j \in R2 : m <= j
        BY <3>10, <3>11, <3>12
      <4> QED
        BY <2>8, <4>1, <4>2
    <3>13. CASE ~failed /\ confirms
      <4>1. x.state = "FLIPPED" /\ ResolvedAt(x) = m
        BY <3>8, <3>13 DEF ResolvedAt
      <4>2. m \notin F2 /\ m \in C2 /\ m \in R2 /\ \A j \in R2 : m <= j
        BY <3>10, <3>11, <3>13
      <4> QED
        BY <2>8, <4>1, <4>2
    <3>14. CASE ~failed /\ ~confirms /\ m = b + FlipHorizon
      <4>1. x.state = "RETIRED" /\ x.reason = "FLIP_HORIZON_EXPIRED" /\ ResolvedAt(x) = m
        BY <3>8, <3>14 DEF ResolvedAt
      <4>2. m \notin F2 /\ m \notin C2 /\ m \in R2 /\ \A j \in R2 : m <= j
        BY <3>10, <3>11, <3>14
      <4> QED
        BY <2>8, <4>1, <4>2
    <3>15. CASE ~failed /\ ~confirms /\ m # b + FlipHorizon
      <4>1. x.state = "BROKEN" /\ x.touch = IF touches THEN fact ELSE w.touch
        BY <3>8, <3>15
      <4>2. R2 = {}
        BY <3>10, <3>15
      <4>3. CASE touches
        <5>1. x.touch.index = m /\ m \in T2
          BY <3>4, <3>10, <4>1, <4>3
        <5> QED
          BY <2>8, <3>6, <4>1, <4>2, <5>1
      <4>4. CASE ~touches
        <5>1. x.touch = w.touch
          BY <4>1, <4>4
        <5>2. w.touch.index = 0 => T2 = {}
          BY <3>5, <3>10, <4>4
        <5>3. w.touch.index # 0 => w.touch.index \in T2
          BY <3>5, <3>10
        <5> QED
          BY <2>8, <4>1, <4>2, <5>1, <5>2, <5>3
      <4> QED
        BY <4>3, <4>4
    <3> QED
      BY <3>12, <3>13, <3>14, <3>15
  <2> QED
    BY <2>9, <2>10
<1> QED
  BY <1>3, <1>4

(* Every reachable break is resolved, or open, as its window so far says.  *)
THEOREM ResolutionCorrect == Spec => []ResolutionInv
<1>1. Init => ResolutionInv
  <2> SUFFICES ASSUME Init, NEW s \in DOMAIN working PROVE ResolutionDecided(s)
    BY DEF ResolutionInv
  <2>1. Breaks(s) = {}
    BY DEF Init, Breaks, MonitoredBars
  <2> QED
    BY <2>1 DEF ResolutionDecided
<1>2. TypeOK /\ HorizonInv /\ KeptInv /\ ResolutionInv /\ [Next]_vars => ResolutionInv'
  <2> SUFFICES ASSUME TypeOK, HorizonInv, KeptInv, ResolutionInv, [Next]_vars
               PROVE  ResolutionInv'
    OBVIOUS
  <2>1. ASSUME NEW bar \in BarUniverse, ReadBar(bar) PROVE ResolutionInv'
    <3>1. DOMAIN working' = DOMAIN working
      BY <2>1 DEF ReadBar
    <3> QED
      BY <2>1, <3>1, ResolutionStep DEF ResolutionInv
  <2>2. ASSUME UNCHANGED <<asOf, prefix, running, working>> PROVE ResolutionInv'
    BY <2>2
    DEF ResolutionInv, ResolutionDecided, ResolvedAt, Resolutions, FailuresInWindow,
        ConfirmationsInWindow, TouchesInWindow, FlipWindow, Breaks, MonitoredBars
  <2>3. ASSUME NEW bar \in BarUniverse, StopAtBlockedBar(bar) PROVE ResolutionInv'
    BY <2>2, <2>3 DEF StopAtBlockedBar
  <2>4. CASE ReachEndOfSource
    BY <2>2, <2>4 DEF ReachEndOfSource
  <2>5. CASE UNCHANGED vars
    BY <2>2, <2>5 DEF vars
  <2> QED
    BY <2>1, <2>3, <2>4, <2>5 DEF Next
<1> QED
  BY <1>1, <1>2, TypeCorrect, HorizonCorrect, KeptCorrect, PTL DEF Spec

(* A break is failed, confirmed or expired exactly as the first bar of its *)
(* window that could do any of these says, with failure before             *)
(* confirmation before expiry on one bar.                                  *)
THEOREM ResolutionIsFirst == Spec => []ResolutionMatchesReference
<1>1. TypeOK /\ HorizonInv /\ ResolutionInv => ResolutionMatchesReference
  <2> SUFFICES ASSUME TypeOK, HorizonInv, ResolutionInv, NEW s \in DOMAIN working, Breaks(s) # {}
               PROVE  LET w == working[s]
                          at == First(Resolutions(s))
                      IN IF Resolutions(s) = {} THEN w.state = "BROKEN"
                         ELSE IF at \in FailuresInWindow(s)
                              THEN w.reason = "FAILED_BREAK" /\ w.retire.index = at
                         ELSE IF at \in ConfirmationsInWindow(s) THEN w.flip.index = at
                         ELSE w.reason = "FLIP_HORIZON_EXPIRED" /\ w.retire.index = at
    BY DEF ResolutionMatchesReference
  <2> DEFINE w == working[s]
             R == Resolutions(s)
             at == ResolvedAt(w)
  <2>1. IF w.state = "BROKEN" THEN R = {}
        ELSE /\ at \in R /\ \A j \in R : at <= j
             /\ IF at \in FailuresInWindow(s) THEN w.state = "RETIRED" /\ w.reason = "FAILED_BREAK"
                ELSE IF at \in ConfirmationsInWindow(s) THEN w.state = "FLIPPED"
                ELSE w.state = "RETIRED" /\ w.reason = "FLIP_HORIZON_EXPIRED"
    BY DEF ResolutionInv, ResolutionDecided
  <2>2. R \in SUBSET Nat
    <3>1. R \subseteq DOMAIN prefix
      BY DEF Resolutions, FailuresInWindow, ConfirmationsInWindow, FlipWindow
    <3>2. DOMAIN prefix = 1 .. Len(prefix)
      BY DEF TypeOK
    <3> QED
      BY <3>1, <3>2
  <2>3. w.state # "BROKEN" => First(R) = at
    <3> HIDE DEF w, at, R
    <3> QED
      BY <2>1, <2>2, LeastIsFirst
  <2>4. /\ w.state = "FLIPPED" => at = w.flip.index
        /\ w.state = "RETIRED" => at = w.retire.index
    BY DEF ResolvedAt
  <2> HIDE DEF w, at, R
  <2>5. IF R = {} THEN w.state = "BROKEN"
        ELSE IF First(R) \in FailuresInWindow(s)
             THEN w.reason = "FAILED_BREAK" /\ w.retire.index = First(R)
        ELSE IF First(R) \in ConfirmationsInWindow(s) THEN w.flip.index = First(R)
        ELSE w.reason = "FLIP_HORIZON_EXPIRED" /\ w.retire.index = First(R)
    BY <2>1, <2>3, <2>4
  <2> QED
    BY <2>5 DEF w, R
<1> QED
  BY <1>1, TypeCorrect, HorizonCorrect, ResolutionCorrect, PTL

-----------------------------------------------------------------------------
(* The history of calls.  Natural numbers and finite sets *)

(* A set that holds zero and the successor of each number it holds.        *)
LEMMA Induction ==
    ASSUME NEW T, 0 \in T, \A n \in Nat : n \in T => n + 1 \in T
    PROVE  Nat \subseteq T
<1> DEFINE Less == OpToRel(<, Nat)
           S == Nat \ T
<1>1. IsWellFoundedOn(Less, Nat)
  BY NatLessThanWellFounded
<1> SUFFICES ASSUME S # {} PROVE FALSE
  OBVIOUS
<1>2. PICK m \in S : \A n \in S : ~(<<n, m>> \in Less)
  <2>1. S \in SUBSET Nat
    OBVIOUS
  <2> HIDE DEF Less, S
  <2> QED
    BY <1>1, <2>1, WFMin
<1>3. m \in Nat /\ m # 0 /\ m - 1 \in Nat
  OBVIOUS
<1>4. m - 1 \notin S
  <2>1. ASSUME NEW n \in S PROVE ~(n < m)
    <3>1. m \in Nat /\ n \in Nat
      OBVIOUS
    <3> QED
      BY <1>2, <3>1 DEF OpToRel
  <2> HIDE DEF S
  <2> QED
    BY <1>3, <2>1
<1>5. m - 1 \in T /\ (m - 1) + 1 = m
  BY <1>3, <1>4
<1> QED
  BY <1>3, <1>5

(* A nonempty finite list of instants has a latest one.                    *)
LEMMA LatestOfList ==
    ASSUME NEW n \in Nat, n # 0, NEW f, \A i \in 1 .. n : f[i] \in Int
    PROVE  \E j \in 1 .. n : \A i \in 1 .. n : f[i] <= f[j]
<1> DEFINE T == {k \in Nat : k = 0 \/ k > n \/ \E j \in 1 .. k : \A i \in 1 .. k : f[i] <= f[j]}
<1>1. 0 \in T
  OBVIOUS
<1>2. ASSUME NEW k \in Nat, k \in T PROVE k + 1 \in T
  <2>1. CASE k + 1 > n
    BY <2>1
  <2>2. CASE k = 0 /\ k + 1 <= n
    <3>1. 1 \in 1 .. n /\ f[1] \in Int
      OBVIOUS
    <3>2. \A i \in 1 .. 1 : f[i] <= f[1]
      BY <3>1
    <3> QED
      BY <2>2, <3>2
  <2>3. CASE k # 0 /\ k + 1 <= n
    <3>1. PICK j \in 1 .. k : \A i \in 1 .. k : f[i] <= f[j]
      BY <1>2, <2>3
    <3>2. /\ k + 1 \in 1 .. n /\ f[k + 1] \in Int /\ f[j] \in Int
          /\ \A i \in 1 .. k : f[i] \in Int
      BY <2>3
    <3>3. CASE f[k + 1] <= f[j]
      <4>1. \A i \in 1 .. k + 1 : f[i] <= f[j]
        BY <3>1, <3>3
      <4> QED
        BY <4>1
    <3>4. CASE ~(f[k + 1] <= f[j])
      <4>1. \A i \in 1 .. k + 1 : f[i] <= f[k + 1]
        BY <3>1, <3>2, <3>4
      <4> QED
        BY <4>1
    <3> QED
      BY <3>3, <3>4
  <2> QED
    BY <2>1, <2>2, <2>3
<1> HIDE DEF T
<1>3. n \in T
  BY <1>1, <1>2, Induction
<1> QED
  BY <1>3 DEF T

(* So has a nonempty finite set.                                           *)
LEMMA LatestOfSet ==
    ASSUME NEW S \in SUBSET Int, S # {}, IsFiniteSet(S)
    PROVE  Max(S) \in S /\ \A t \in S : t <= Max(S)
<1>1. Cardinality(S) \in Nat /\ ExistsBijection(1 .. Cardinality(S), S)
  BY FS_CardinalityType
<1>2. PICK f \in Bijection(1 .. Cardinality(S), S) : TRUE
  BY <1>1 DEF ExistsBijection
<1>3. /\ Cardinality(S) # 0
      /\ \A i \in 1 .. Cardinality(S) : f[i] \in S
      /\ \A t \in S : \E i \in 1 .. Cardinality(S) : f[i] = t
  BY <1>2, FS_EmptySet DEF Bijection, Injection, Surjection
<1>4. PICK j \in 1 .. Cardinality(S) : \A i \in 1 .. Cardinality(S) : f[i] <= f[j]
  <2>1. \A i \in 1 .. Cardinality(S) : f[i] \in Int
    BY <1>3
  <2> QED
    BY <1>1, <1>3, <2>1, LatestOfList
<1>5. f[j] \in S /\ \A t \in S : f[j] >= t
  BY <1>3, <1>4
<1>6. Max(S) \in S /\ \A t \in S : Max(S) >= t
  BY <1>5 DEF Max
<1> QED
  BY <1>6

(* The image of a finite set is finite.                                    *)
LEMMA FiniteImage ==
    ASSUME NEW S, IsFiniteSet(S), NEW f, DOMAIN f = S, f = [x \in S |-> f[x]]
    PROVE  IsFiniteSet({f[x] : x \in S})
<1>1. f \in Surjection(S, {f[x] : x \in S})
  BY DEF Surjection
<1> QED
  BY <1>1, FS_Surjection

-----------------------------------------------------------------------------
(* Causal prefixes *)

(* There is one causal prefix at every processing time.                    *)
LEMMA PrefixExists ==
    ASSUME NEW bars \in Seq(Bar), NEW time \in Int
    PROVE  /\ PrefixLength(bars, time) \in 0 .. Len(bars)
           /\ \A i \in 1 .. PrefixLength(bars, time) : VisibleAt(bars[i], time)
           /\ PrefixLength(bars, time) < Len(bars) =>
                 ~VisibleAt(bars[PrefixLength(bars, time) + 1], time)
<1> DEFINE Good(n) == /\ \A i \in 1 .. n : VisibleAt(bars[i], time)
                      /\ n < Len(bars) => ~VisibleAt(bars[n + 1], time)
           T == {n \in Nat : n > Len(bars) \/ (\A i \in 1 .. n : VisibleAt(bars[i], time))}
<1>1. Len(bars) \in Nat
  OBVIOUS
<1>2. \E n \in 0 .. Len(bars) : Good(n)
  <2> SUFFICES ASSUME \A n \in 0 .. Len(bars) : ~Good(n) PROVE FALSE
    OBVIOUS
  <2>1. 0 \in T
    OBVIOUS
  <2>2. ASSUME NEW n \in Nat, n \in T PROVE n + 1 \in T
    <3>1. CASE n + 1 > Len(bars)
      BY <3>1
    <3>2. CASE n + 1 <= Len(bars)
      <4>1. n \in 0 .. Len(bars) /\ n < Len(bars) /\ \A i \in 1 .. n : VisibleAt(bars[i], time)
        BY <1>1, <2>2, <3>2
      <4>2. VisibleAt(bars[n + 1], time)
        BY <4>1
      <4>3. \A i \in 1 .. n + 1 : i \in 1 .. n \/ i = n + 1
        OBVIOUS
      <4> QED
        BY <4>1, <4>2, <4>3
    <3> QED
      BY <1>1, <3>1, <3>2
  <2> HIDE DEF T
  <2>3. Len(bars) \in T
    BY <1>1, <2>1, <2>2, Induction
  <2>4. Good(Len(bars))
    BY <1>1, <2>3 DEF T
  <2> QED
    BY <1>1, <2>4
<1>3. PrefixLength(bars, time) = CHOOSE n \in 0 .. Len(bars) : Good(n)
  BY DEF PrefixLength
<1> QED
  BY <1>2, <1>3

(* What ends a prefix determines its length.                               *)
LEMMA PrefixIsUnique ==
    ASSUME NEW bars \in Seq(Bar), NEW time \in Int, NEW n \in 0 .. Len(bars),
           \A i \in 1 .. n : VisibleAt(bars[i], time),
           n < Len(bars) => ~VisibleAt(bars[n + 1], time)
    PROVE  PrefixLength(bars, time) = n
<1> DEFINE m == PrefixLength(bars, time)
<1>1. /\ m \in 0 .. Len(bars)
      /\ \A i \in 1 .. m : VisibleAt(bars[i], time)
      /\ m < Len(bars) => ~VisibleAt(bars[m + 1], time)
  BY PrefixExists
<1>2. Len(bars) \in Nat
  OBVIOUS
<1> HIDE DEF m
<1>3. ~(m < n)
  <2> SUFFICES ASSUME m < n PROVE FALSE
    OBVIOUS
  <2>1. m + 1 \in 1 .. n /\ m < Len(bars)
    BY <1>1, <1>2
  <2> QED
    BY <1>1, <2>1
<1>4. ~(n < m)
  <2> SUFFICES ASSUME n < m PROVE FALSE
    OBVIOUS
  <2>1. n + 1 \in 1 .. m /\ n < Len(bars)
    BY <1>1, <1>2
  <2> QED
    BY <1>1, <2>1
<1>5. m = n
  BY <1>1, <1>2, <1>3, <1>4
<1> QED
  BY <1>5 DEF m

(* A later processing time sees at least as many bars.                     *)
LEMMA PrefixGrows ==
    ASSUME NEW bars \in Seq(Bar), NEW time \in Int, NEW later \in Int, time <= later
    PROVE  PrefixLength(bars, time) <= PrefixLength(bars, later)
<1> DEFINE m == PrefixLength(bars, time)
           n == PrefixLength(bars, later)
<1>1. /\ m \in 0 .. Len(bars) /\ n \in 0 .. Len(bars)
      /\ \A i \in 1 .. m : VisibleAt(bars[i], time)
      /\ n < Len(bars) => ~VisibleAt(bars[n + 1], later)
  BY PrefixExists
<1>2. Len(bars) \in Nat
  OBVIOUS
<1> HIDE DEF m, n
<1>3. ~(n < m)
  <2> SUFFICES ASSUME n < m PROVE FALSE
    OBVIOUS
  <2>1. n + 1 \in 1 .. m /\ n < Len(bars) /\ n + 1 \in 1 .. Len(bars)
    BY <1>1, <1>2
  <2>2. VisibleAt(bars[n + 1], time) /\ ~VisibleAt(bars[n + 1], later)
    BY <1>1, <2>1
  <2>3. bars[n + 1].available \in Nat
    <3>1. bars[n + 1] \in Bar
      BY <2>1
    <3> QED
      BY <3>1 DEF Bar
  <2> QED
    BY <2>2, <2>3 DEF VisibleAt
<1> QED
  BY <1>1, <1>2, <1>3 DEF m, n

(* The prefix time is the latest availability in the prefix.               *)
LEMMA PrefixTimeFacts ==
    ASSUME NEW bars \in Seq(Bar), NEW n \in 1 .. Len(bars)
    PROVE  /\ PrefixTime(bars, n) \in Nat
           /\ \E i \in 1 .. n : PrefixTime(bars, n) = bars[i].available
           /\ \A i \in 1 .. n : bars[i].available <= PrefixTime(bars, n)
<1> DEFINE f == [i \in 1 .. n |-> bars[i].available]
           S == {bars[i].available : i \in 1 .. n}
<1>1. n \in Nat /\ n # 0 /\ Len(bars) \in Nat
  OBVIOUS
<1>2. \A i \in 1 .. n : bars[i].available \in Nat /\ f[i] = bars[i].available
  <2> SUFFICES ASSUME NEW i \in 1 .. n PROVE bars[i].available \in Nat
    OBVIOUS
  <2>1. bars[i] \in Bar
    BY <1>1
  <2> QED
    BY <2>1 DEF Bar
<1>3. PICK j \in 1 .. n : \A i \in 1 .. n : f[i] <= f[j]
  <2>1. \A i \in 1 .. n : f[i] \in Int
    BY <1>2
  <2> HIDE DEF f
  <2> QED
    BY <1>1, <2>1, LatestOfList
<1>4. \E t \in S : \A i \in 1 .. n : bars[i].available <= t
  BY <1>2, <1>3
<1>5. PrefixTime(bars, n) = CHOOSE t \in S : \A i \in 1 .. n : bars[i].available <= t
  BY DEF PrefixTime
<1>6. PrefixTime(bars, n) \in S /\ \A i \in 1 .. n : bars[i].available <= PrefixTime(bars, n)
  <2> HIDE DEF S
  <2> QED
    BY <1>4, <1>5
<1> QED
  BY <1>2, <1>6

(* Cutting a source after n bars changes no bar and no prefix time up to n.*)
LEMMA CutFacts ==
    ASSUME NEW bars \in Seq(Bar), NEW n \in 0 .. Len(bars)
    PROVE  /\ SubSeq(bars, 1, n) \in Seq(Bar) /\ Len(SubSeq(bars, 1, n)) = n
           /\ \A i \in 1 .. n : SubSeq(bars, 1, n)[i] = bars[i]
           /\ \A i \in 1 .. n : PrefixTime(SubSeq(bars, 1, n), i) = PrefixTime(bars, i)
<1> DEFINE cut == SubSeq(bars, 1, n)
<1>1. Len(bars) \in Nat /\ n \in Nat
  OBVIOUS
<1>2. /\ cut \in Seq(Bar) /\ Len(cut) = n
      /\ \A i \in 1 .. n : cut[i] = bars[i]
  BY <1>1
<1>3. ASSUME NEW i \in 1 .. n PROVE PrefixTime(cut, i) = PrefixTime(bars, i)
  <2> DEFINE S(b) == {b[k].available : k \in 1 .. i}
  <2> HIDE DEF cut
  <2>1. \A k \in 1 .. i : cut[k] = bars[k]
    BY <1>1, <1>2
  <2>2. S(cut) = S(bars)
    BY <2>1
  <2>3. \A t : (\A k \in 1 .. i : cut[k].available <= t)
            <=> (\A k \in 1 .. i : bars[k].available <= t)
    BY <2>1
  <2>4. (CHOOSE t \in S(cut) : \A k \in 1 .. i : cut[k].available <= t)
          = (CHOOSE t \in S(bars) : \A k \in 1 .. i : bars[k].available <= t)
    <3> HIDE DEF S
    <3> QED
      BY <2>2, <2>3
  <2> QED
    BY <2>4 DEF PrefixTime
<1> QED
  BY <1>2, <1>3

-----------------------------------------------------------------------------
(* One subject along a source *)

(* The states of a subject after each of the first m bars of a source.     *)
RunTo(f, s, bars, m) ==
    f = [n \in 0 .. m |->
            IF n = 0 THEN Activate(s)
            ELSE Process(f[n - 1], s, bars[n], n, PrefixTime(bars, n))]

(* There is such a run, to every length.                                   *)
LEMMA RunExists ==
    ASSUME NEW s, NEW bars, NEW m \in Nat
    PROVE  \E f : RunTo(f, s, bars, m)
<1> DEFINE T == {k \in Nat : \E f : RunTo(f, s, bars, k)}
<1>1. 0 \in T
  <2> DEFINE f == [n \in 0 .. 0 |-> Activate(s)]
  <2>1. \A n \in 0 .. 0 : n = 0
    OBVIOUS
  <2>2. RunTo(f, s, bars, 0)
    BY <2>1 DEF RunTo
  <2> QED
    BY <2>2
<1>2. ASSUME NEW k \in Nat, k \in T PROVE k + 1 \in T
  <2>1. PICK f : RunTo(f, s, bars, k)
    BY <1>2
  <2> DEFINE last == Process(f[k], s, bars[k + 1], k + 1, PrefixTime(bars, k + 1))
             g == [n \in 0 .. k + 1 |-> IF n = k + 1 THEN last ELSE f[n]]
  <2>2. \A n \in 0 .. k : f[n] = IF n = 0 THEN Activate(s)
                                 ELSE Process(f[n - 1], s, bars[n], n, PrefixTime(bars, n))
    BY <2>1 DEF RunTo
  <2>3. ASSUME NEW n \in 0 .. k + 1
        PROVE  g[n] = IF n = 0 THEN Activate(s)
                      ELSE Process(g[n - 1], s, bars[n], n, PrefixTime(bars, n))
    <3>1. CASE n = k + 1
      <4>1. n - 1 = k /\ k \in 0 .. k + 1 /\ k # k + 1 /\ n # 0
        BY <3>1
      <4>2. g[n] = last /\ g[n - 1] = f[k]
        BY <3>1, <4>1
      <4> HIDE DEF g
      <4> QED
        BY <3>1, <4>1, <4>2
    <3>2. CASE n # k + 1
      <4>1. n \in 0 .. k /\ (n # 0 => n - 1 \in 0 .. k /\ n - 1 # k + 1)
        BY <3>2
      <4>2. g[n] = f[n] /\ (n # 0 => g[n - 1] = f[n - 1])
        BY <3>2, <4>1
      <4> HIDE DEF g
      <4> QED
        BY <2>2, <4>1, <4>2
    <3> QED
      BY <3>1, <3>2
  <2>4. g = [n \in 0 .. k + 1 |-> g[n]]
    OBVIOUS
  <2>5. RunTo(g, s, bars, k + 1)
    <3> HIDE DEF g
    <3> QED
      BY <2>3, <2>4 DEF RunTo
  <2> HIDE DEF g
  <2> QED
    BY <2>5
<1> HIDE DEF T
<1>3. m \in T
  BY <1>1, <1>2, Induction
<1> QED
  BY <1>3 DEF T

(* Runs over sources that agree on the first bars agree on the states.     *)
LEMMA RunsAgree ==
    ASSUME NEW s, NEW a, NEW b, NEW f, NEW g, NEW m \in Nat, NEW n \in Nat, m <= n,
           RunTo(f, s, a, m), RunTo(g, s, b, n),
           \A i \in 1 .. m : a[i] = b[i] /\ PrefixTime(a, i) = PrefixTime(b, i)
    PROVE  \A k \in 0 .. m : f[k] = g[k]
<1> DEFINE T == {k \in Nat : k > m \/ f[k] = g[k]}
<1>1. /\ \A k \in 0 .. m : f[k] = IF k = 0 THEN Activate(s)
                                 ELSE Process(f[k - 1], s, a[k], k, PrefixTime(a, k))
      /\ \A k \in 0 .. n : g[k] = IF k = 0 THEN Activate(s)
                                 ELSE Process(g[k - 1], s, b[k], k, PrefixTime(b, k))
  BY DEF RunTo
<1>2. 0 \in T
  BY <1>1
<1>3. ASSUME NEW k \in Nat, k \in T PROVE k + 1 \in T
  <2>1. CASE k + 1 > m
    BY <2>1
  <2>2. CASE k + 1 <= m
    <3>1. /\ k + 1 \in 0 .. m /\ k + 1 \in 0 .. n /\ k + 1 \in 1 .. m
          /\ k + 1 # 0 /\ (k + 1) - 1 = k
      BY <2>2
    <3>2. f[k] = g[k]
      BY <1>3, <2>2
    <3>3. /\ f[k + 1] = Process(f[k], s, a[k + 1], k + 1, PrefixTime(a, k + 1))
          /\ g[k + 1] = Process(g[k], s, b[k + 1], k + 1, PrefixTime(b, k + 1))
      BY <1>1, <3>1
    <3>4. a[k + 1] = b[k + 1] /\ PrefixTime(a, k + 1) = PrefixTime(b, k + 1)
      BY <3>1
    <3>5. f[k + 1] = g[k + 1]
      BY <3>2, <3>3, <3>4
    <3> QED
      BY <3>5
  <2> QED
    BY <2>1, <2>2
<1> HIDE DEF T
<1>4. Nat \subseteq T
  BY <1>2, <1>3, Induction
<1> QED
  BY <1>4 DEF T

(* What SubjectAfter computes is the end of such a run.                    *)
LEMMA SubjectAfterIsRun ==
    ASSUME NEW s, NEW bars \in Seq(Bar)
    PROVE  \E f : RunTo(f, s, bars, Len(bars)) /\ SubjectAfter(s, bars) = f[Len(bars)]
<1> DEFINE after == CHOOSE f : RunTo(f, s, bars, Len(bars))
<1>1. Len(bars) \in Nat
  OBVIOUS
<1>2. RunTo(after, s, bars, Len(bars))
  BY <1>1, RunExists
<1>3. SubjectAfter(s, bars) = after[Len(bars)]
  BY DEF SubjectAfter, RunTo
<1> HIDE DEF after
<1> QED
  BY <1>2, <1>3

(* The state of a subject after the first n bars of a source.              *)
At(bars, s, n) == SubjectAfter(s, SubSeq(bars, 1, n))

(* It starts activated, and each bar takes it one step further.            *)
LEMMA AtSteps ==
    ASSUME NEW bars \in Seq(Bar), NEW s
    PROVE  /\ At(bars, s, 0) = Activate(s)
           /\ \A n \in 0 .. Len(bars) - 1 :
                 At(bars, s, n + 1)
                   = Process(At(bars, s, n), s, bars[n + 1], n + 1, PrefixTime(bars, n + 1))
<1>1. Len(bars) \in Nat
  OBVIOUS
<1>2. PICK g : RunTo(g, s, bars, Len(bars))
  BY <1>1, RunExists
<1>3. ASSUME NEW n \in 0 .. Len(bars) PROVE At(bars, s, n) = g[n]
  <2> DEFINE cut == SubSeq(bars, 1, n)
  <2>1. /\ cut \in Seq(Bar) /\ Len(cut) = n /\ n \in Nat /\ n <= Len(bars)
        /\ \A i \in 1 .. n : cut[i] = bars[i] /\ PrefixTime(cut, i) = PrefixTime(bars, i)
    BY <1>1, CutFacts
  <2>2. At(bars, s, n) = SubjectAfter(s, cut)
    BY DEF At
  <2> HIDE DEF cut
  <2>3. PICK f : RunTo(f, s, cut, n) /\ SubjectAfter(s, cut) = f[n]
    BY <2>1, SubjectAfterIsRun
  <2>4. \A k \in 0 .. n : f[k] = g[k]
    BY <1>1, <1>2, <2>1, <2>3, RunsAgree
  <2>5. n \in 0 .. n
    BY <2>1
  <2> QED
    BY <2>2, <2>3, <2>4, <2>5
<1>4. \A n \in 0 .. Len(bars) : g[n] = IF n = 0 THEN Activate(s)
                                ELSE Process(g[n - 1], s, bars[n], n, PrefixTime(bars, n))
  BY <1>2 DEF RunTo
<1>5. At(bars, s, 0) = Activate(s)
  BY <1>1, <1>3, <1>4
<1>6. ASSUME NEW n \in 0 .. Len(bars) - 1
      PROVE  At(bars, s, n + 1)
               = Process(At(bars, s, n), s, bars[n + 1], n + 1, PrefixTime(bars, n + 1))
  <2>1. n \in 0 .. Len(bars) /\ n + 1 \in 0 .. Len(bars) /\ n + 1 # 0 /\ (n + 1) - 1 = n
    BY <1>1
  <2>2. g[n + 1] = Process(g[n], s, bars[n + 1], n + 1, PrefixTime(bars, n + 1))
    BY <1>4, <2>1
  <2>3. At(bars, s, n) = g[n] /\ At(bars, s, n + 1) = g[n + 1]
    <3> DEFINE n2 == n + 1
    <3>1. n2 \in 0 .. Len(bars)
      BY <2>1
    <3> HIDE DEF n2
    <3>2. At(bars, s, n2) = g[n2]
      BY <1>3, <3>1
    <3> QED
      BY <1>3, <2>1, <3>2 DEF n2
  <2> QED
    BY <2>2, <2>3
<1> QED
  BY <1>5, <1>6

(* The time by which the first n bars have closed, and are available.      *)
ClosedBy(bars, n) == IF n = 0 THEN 0 ELSE bars[n].end
ShownBy(bars, n) == IF n = 0 THEN 0 ELSE PrefixTime(bars, n)

(* One more bar keeps a subject, and its new events are confirmed then.    *)
LEMMA AtStepKeeps ==
    ASSUME NEW bars \in Seq(Bar), IsSource(bars), NEW s \in Subject,
           NEW n \in Nat, n + 1 <= Len(bars), bars[n + 1].complete,
           Kept(At(bars, s, n), s, n, ClosedBy(bars, n), ShownBy(bars, n))
    PROVE  /\ Kept(At(bars, s, n + 1), s, n + 1, ClosedBy(bars, n + 1), ShownBy(bars, n + 1))
           /\ Extends(At(bars, s, n).events, At(bars, s, n + 1).events, PrefixTime(bars, n + 1))
<1> DEFINE bar == bars[n + 1]
           now == PrefixTime(bars, n + 1)
           w == At(bars, s, n)
           time == ClosedBy(bars, n)
           ct == ShownBy(bars, n)
<1>1. /\ Len(bars) \in Nat /\ n + 1 \in 1 .. Len(bars) /\ n \in 0 .. Len(bars) - 1
      /\ n # 0 => n \in 1 .. Len(bars)
  OBVIOUS
<1>2. bar \in Bar /\ bar.available \in Nat /\ bar.timestamp \in Nat
  <2>1. bar \in Bar
    BY <1>1
  <2> QED
    BY <2>1 DEF Bar
<1>3. now \in Nat /\ \A i \in 1 .. n + 1 : bars[i].available <= now
  <2> DEFINE k == n + 1
  <2>1. k \in 1 .. Len(bars)
    BY <1>1
  <2> HIDE DEF k
  <2>2. PrefixTime(bars, k) \in Nat /\ \A i \in 1 .. k : bars[i].available <= PrefixTime(bars, k)
    BY <2>1, PrefixTimeFacts
  <2> QED
    BY <2>2 DEF k
<1>4. bar.available <= now
  BY <1>1, <1>3
<1>5. time \in Nat /\ time <= bar.timestamp
  <2>1. CASE n = 0
    BY <1>2, <2>1 DEF ClosedBy
  <2>2. CASE n # 0
    <3>1. bars[n] \in Bar /\ time = bars[n].end
      BY <1>1, <2>2 DEF ClosedBy
    <3>2. bars[n].end <= bar.timestamp
      <4>1. n \in DOMAIN bars /\ n + 1 \in DOMAIN bars /\ n < n + 1
        BY <1>1, <2>2
      <4> QED
        BY <4>1 DEF IsSource
    <3> QED
      BY <3>1, <3>2 DEF Bar
  <2> QED
    BY <2>1, <2>2
<1>6. ct \in Nat /\ ct <= now
  <2>1. CASE n = 0
    BY <1>3, <2>1 DEF ShownBy
  <2>2. CASE n # 0
    <3>1. ct = PrefixTime(bars, n)
      BY <2>2 DEF ShownBy
    <3>2. PrefixTime(bars, n) \in Nat /\ \E i \in 1 .. n : PrefixTime(bars, n) = bars[i].available
      BY <1>1, <2>2, PrefixTimeFacts
    <3>3. \A i \in 1 .. n : i \in 1 .. n + 1
      OBVIOUS
    <3> QED
      BY <1>3, <3>1, <3>2, <3>3
  <2> QED
    BY <2>1, <2>2
<1>7. At(bars, s, n + 1) = Process(w, s, bar, n + 1, now)
  BY <1>1, AtSteps
<1>8. ClosedBy(bars, n + 1) = bar.end /\ ShownBy(bars, n + 1) = now
  BY DEF ClosedBy, ShownBy
<1>9. bar.complete /\ Kept(w, s, n, time, ct)
  OBVIOUS
<1> HIDE DEF bar, now, w, time, ct
<1>10. /\ Kept(Process(w, s, bar, n + 1, now), s, n + 1, bar.end, now)
       /\ Extends(w.events, Process(w, s, bar, n + 1, now).events, now)
  BY <1>2, <1>3, <1>4, <1>5, <1>6, <1>9, ProcessKeeps
<1> QED
  BY <1>7, <1>8, <1>10 DEF w, now

Completed(bars, n) == \A i \in 1 .. n : bars[i].complete

(* After any number of completed bars a subject is kept.                   *)
LEMMA AtKept ==
    ASSUME NEW bars \in Seq(Bar), IsSource(bars), NEW s \in Subject,
           NEW n \in 0 .. Len(bars), Completed(bars, n)
    PROVE  Kept(At(bars, s, n), s, n, ClosedBy(bars, n), ShownBy(bars, n))
<1> DEFINE T == {k \in Nat : k > n \/ Kept(At(bars, s, k), s, k, ClosedBy(bars, k), ShownBy(bars, k))}
<1>1. 0 \in T
  BY AtSteps, ActivateKept DEF ClosedBy, ShownBy
<1>2. ASSUME NEW k \in Nat, k \in T PROVE k + 1 \in T
  <2>1. CASE k + 1 > n
    BY <2>1
  <2>2. CASE k + 1 <= n
    <3>1. k + 1 \in 1 .. n /\ k + 1 <= Len(bars) /\ ~(k > n)
      BY <2>2
    <3>2. bars[k + 1].complete /\ Kept(At(bars, s, k), s, k, ClosedBy(bars, k), ShownBy(bars, k))
      BY <1>2, <3>1 DEF Completed
    <3>3. Kept(At(bars, s, k + 1), s, k + 1, ClosedBy(bars, k + 1), ShownBy(bars, k + 1))
      BY <3>1, <3>2, AtStepKeeps
    <3> QED
      BY <3>3
  <2> QED
    BY <2>1, <2>2
<1> HIDE DEF T
<1>3. n \in T
  <2>1. n \in Nat
    OBVIOUS
  <2> QED
    BY <1>1, <1>2, <2>1, Induction
<1> QED
  BY <1>3 DEF T

(* Events only join a subject's ledger, at the prefix time of their bar.   *)
Gains(bars, old, new, m, n) ==
    /\ Len(old) <= Len(new)
    /\ \A k \in DOMAIN old : new[k] = old[k]
    /\ \A k \in DOMAIN new \ DOMAIN old :
          \E j \in m + 1 .. n : new[k].confirm = PrefixTime(bars, j)

(* A subject after n bars has gained on itself after fewer.                *)
LEMMA AtGains ==
    ASSUME NEW bars \in Seq(Bar), IsSource(bars), NEW s \in Subject,
           NEW n \in 0 .. Len(bars), Completed(bars, n), NEW m \in 0 .. n
    PROVE  Gains(bars, At(bars, s, m).events, At(bars, s, n).events, m, n)
<1> DEFINE L(k) == At(bars, s, k).events
           T == {k \in Nat : m + k > n \/ Gains(bars, L(m), L(m + k), m, m + k)}
<1>1. Len(bars) \in Nat
  OBVIOUS
<1>2. ASSUME NEW k \in 0 .. n
      PROVE  /\ Kept(At(bars, s, k), s, k, ClosedBy(bars, k), ShownBy(bars, k))
             /\ L(k) \in Seq(Event) /\ Len(L(k)) \in Nat /\ DOMAIN L(k) = 1 .. Len(L(k))
  <2>1. k \in 0 .. Len(bars) /\ Completed(bars, k)
    BY <1>1 DEF Completed
  <2>2. Kept(At(bars, s, k), s, k, ClosedBy(bars, k), ShownBy(bars, k))
    BY <2>1, AtKept
  <2>3. L(k) \in Seq(Event)
    BY <2>2 DEF Kept, WorkingState
  <2> QED
    BY <2>2, <2>3
<1>3. 0 \in T
  <2>1. m + 0 = m /\ m \in 0 .. n
    OBVIOUS
  <2>2. Gains(bars, L(m), L(m), m, m)
    BY <1>2, <2>1 DEF Gains
  <2> HIDE DEF L
  <2> QED
    BY <2>1, <2>2
<1>4. ASSUME NEW k \in Nat, k \in T PROVE k + 1 \in T
  <2> DEFINE p == m + k
             q == p + 1
  <2>0. m + (k + 1) = q
    OBVIOUS
  <2>1. CASE q > n
    BY <2>0, <2>1
  <2>2. CASE q <= n
    <3>1. /\ p \in Nat /\ p + 1 <= Len(bars) /\ p + 1 \in 1 .. n /\ p \in 0 .. n /\ q \in 0 .. n
          /\ ~(p > n) /\ m \in 0 .. n
      BY <1>1, <2>2
    <3>2. Gains(bars, L(m), L(p), m, p)
      BY <1>4, <3>1
    <3> HIDE DEF p
    <3>3. Extends(L(p), L(q), PrefixTime(bars, q))
      BY <1>2, <3>1, AtStepKeeps DEF Completed
    <3>4. /\ Len(L(m)) \in Nat /\ DOMAIN L(m) = 1 .. Len(L(m))
          /\ Len(L(p)) \in Nat /\ DOMAIN L(p) = 1 .. Len(L(p))
          /\ Len(L(q)) \in Nat /\ DOMAIN L(q) = 1 .. Len(L(q))
      BY <1>2, <3>1
    <3>5. q \in m + 1 .. q /\ \A j \in m + 1 .. p : j \in m + 1 .. q
      BY <3>1 DEF p
    <3> HIDE DEF L, q
    <3>6. Gains(bars, L(m), L(q), m, q)
      BY <3>2, <3>3, <3>4, <3>5 DEF Gains, Extends
    <3> QED
      BY <2>0, <3>6
  <2> QED
    BY <2>1, <2>2, <2>0
<1>5. n - m \in T
  <2>1. n - m \in Nat
    OBVIOUS
  <2> HIDE DEF T
  <2> QED
    BY <1>3, <1>4, <2>1, Induction
<1>6. m + (n - m) = n
  OBVIOUS
<1> HIDE DEF L
<1>7. Gains(bars, L(m), L(n), m, n)
  BY <1>5, <1>6
<1> QED
  BY <1>7 DEF L

-----------------------------------------------------------------------------
(* One subject in a snapshot *)

(* The ledger of one subject at a processing time.                         *)
Log(bars, time, s) == At(bars, s, PrefixLength(bars, time)).events

(* The instants at which anything can be confirmed.                        *)
Instants(bars) == {ConfirmTimeOf[s] : s \in Subject} \cup {bars[k].available : k \in DOMAIN bars}

(* A snapshot holds, of each visible subject, a state its contracts accept *)
(* whose ledger is ordered and confirmed by now, at known instants.        *)
LEMMA LogFacts ==
    ASSUME NEW bars \in Seq(Bar), IsSource(bars), NEW time \in Int,
           NEW s \in Subject, ConfirmTimeOf[s] <= time
    PROVE  /\ Sound(At(bars, s, PrefixLength(bars, time)), s)
           /\ Log(bars, time, s) \in Seq(Event) /\ Log(bars, time, s) # <<>>
           /\ Ordered(Log(bars, time, s))
           /\ \A k \in DOMAIN Log(bars, time, s) :
                 LET event == Log(bars, time, s)[k]
                 IN /\ event \in Event /\ event.subject = s
                    /\ ConfirmTimeOf[s] <= event.confirm /\ event.confirm <= time
                    /\ event.confirm \in Instants(bars)
<1> DEFINE n == PrefixLength(bars, time)
           w == At(bars, s, n)
           L == w.events
<1>1. n \in 0 .. Len(bars) /\ Completed(bars, n) /\ \A i \in 1 .. n : VisibleAt(bars[i], time)
  BY PrefixExists DEF VisibleAt, Completed
<1>2. /\ Len(bars) \in Nat /\ ConfirmTimeOf[s] \in Nat /\ n \in Nat /\ n <= Len(bars)
      /\ Log(bars, time, s) = L
  <2> USE SubjectAssumption
  <2> QED
    BY <1>1 DEF Log
<1> HIDE DEF n
<1>3. Kept(w, s, n, ClosedBy(bars, n), ShownBy(bars, n))
  BY <1>1, AtKept
<1>4. /\ L \in Seq(Event) /\ L # <<>> /\ Len(L) \in Nat /\ DOMAIN L = 1 .. Len(L) /\ Len(L) >= 1
      /\ Ordered(L) /\ L[1].confirm = ConfirmTimeOf[s] /\ Sound(w, s)
      /\ \A k \in DOMAIN L : L[k].subject = s
      /\ \A k \in DOMAIN L : k > 1 => L[k].confirm <= ShownBy(bars, n)
  BY <1>3 DEF Kept, WorkingState, Sound, Accepted, LedgerOK, BeginsLedger, Bounded
<1>5. \A k \in DOMAIN L : L[k] \in Event /\ L[k].confirm \in Nat
  BY <1>4, EventFields
<1>6. ShownBy(bars, n) <= time /\ ShownBy(bars, n) \in Nat
  <2>1. CASE n = 0
    BY <1>2, <2>1 DEF ShownBy
  <2>2. CASE n # 0
    <3>1. n \in 1 .. Len(bars)
      BY <1>1, <1>2, <2>2
    <3>2. PICK i \in 1 .. n : PrefixTime(bars, n) = bars[i].available
      BY <3>1, PrefixTimeFacts
    <3>3. PrefixTime(bars, n) \in Nat
      BY <3>1, PrefixTimeFacts
    <3> QED
      BY <1>1, <2>2, <3>2, <3>3 DEF ShownBy, VisibleAt
  <2> QED
    BY <2>1, <2>2
<1>7. ASSUME NEW k \in DOMAIN L
      PROVE  ConfirmTimeOf[s] <= L[k].confirm /\ L[k].confirm <= time
  <2>1. CASE k = 1
    BY <1>2, <1>4, <2>1
  <2>2. CASE k # 1
    <3>1. 1 \in DOMAIN L /\ 1 < k
      BY <1>4, <2>2
    <3>2. L[1].confirm <= L[k].confirm /\ L[k].confirm <= ShownBy(bars, n)
      BY <1>4, <3>1 DEF Ordered
    <3> QED
      BY <1>2, <1>4, <1>5, <1>6, <3>2
  <2> QED
    BY <2>1, <2>2
<1>8. ASSUME NEW k \in DOMAIN L PROVE L[k].confirm \in Instants(bars)
  <2> DEFINE old == At(bars, s, 0).events
  <2>1. Gains(bars, old, L, 0, n)
    BY <1>1, <1>2, AtGains
  <2>2. CASE k \in DOMAIN old
    <3>1. k = 1
      <4>1. At(bars, s, 0) = Activate(s)
        BY AtSteps
      <4>2. DOMAIN Activate(s).events = {1}
        <5> DEFINE at == [index |-> 0, time |-> ConfirmTimeOf[s], confirm |-> ConfirmTimeOf[s]]
                   fresh == [state |-> "FRESH", side |-> SideOf[s], confirm |-> ConfirmTimeOf[s],
                             tests |-> 0, test |-> NoFact, break |-> NoFact, touch |-> NoFact,
                             flip |-> NoFact, retire |-> NoFact, reason |-> NoReason,
                             events |-> <<>>]
        <5>1. Activate(s) = Emit(fresh, s, "ACTIVATED", "CONFIRMED", "FRESH", 0, at, NoReason)
          BY DEF Activate
        <5>2. fresh = [fresh EXCEPT !.events = <<>>] /\ fresh.events = <<>>
          OBVIOUS
        <5> HIDE DEF at
        <5>3. \E e : Activate(s).events = Append(<<>>, e)
          BY <5>1, <5>2 DEF Emit
        <5>4. PICK e : Activate(s).events = Append(<<>>, e)
          BY <5>3
        <5>5. Append(<<>>, e) = <<e>>
          OBVIOUS
        <5> QED
          BY <5>4, <5>5
      <4> QED
        BY <2>2, <4>1, <4>2
    <3> QED
      BY <1>4, <3>1 DEF Instants
  <2>3. CASE k \notin DOMAIN old
    <3>1. PICK j \in 1 .. n : L[k].confirm = PrefixTime(bars, j)
      <4> HIDE DEF old, L
      <4>1. \E j \in 0 + 1 .. n : L[k].confirm = PrefixTime(bars, j)
        BY <1>8, <2>1, <2>3 DEF Gains
      <4> QED
        BY <4>1
    <3>2. j \in 1 .. Len(bars)
      BY <1>1, <1>2
    <3>3. PICK i \in 1 .. j : PrefixTime(bars, j) = bars[i].available
      BY <3>2, PrefixTimeFacts
    <3>4. i \in DOMAIN bars
      BY <1>2, <3>2
    <3> QED
      BY <3>1, <3>3, <3>4 DEF Instants
  <2> QED
    BY <2>2, <2>3
<1> HIDE DEF L
<1>9. Sound(At(bars, s, PrefixLength(bars, time)), s)
  BY <1>4 DEF n
<1> QED
  BY <1>2, <1>4, <1>5, <1>7, <1>8, <1>9

(* By a later time it has only gained events confirmed since.              *)
LEMMA LogGrows ==
    ASSUME NEW bars \in Seq(Bar), IsSource(bars), NEW time \in Int, NEW later \in Int,
           NEW s \in Subject, ConfirmTimeOf[s] <= time, time <= later
    PROVE  LET old == Log(bars, time, s)
               new == Log(bars, later, s)
           IN /\ Len(old) <= Len(new)
              /\ \A k \in DOMAIN old : new[k] = old[k]
              /\ \A k \in DOMAIN new \ DOMAIN old : time < new[k].confirm
<1> DEFINE m == PrefixLength(bars, time)
           n == PrefixLength(bars, later)
           old == At(bars, s, m).events
           new == At(bars, s, n).events
<1>1. /\ m \in 0 .. Len(bars) /\ n \in 0 .. Len(bars) /\ m <= n
      /\ \A i \in 1 .. n : VisibleAt(bars[i], later)
      /\ m < Len(bars) => ~VisibleAt(bars[m + 1], time)
  BY PrefixExists, PrefixGrows
<1>2. Log(bars, time, s) = old /\ Log(bars, later, s) = new
  BY DEF Log
<1>3. Len(bars) \in Nat
  OBVIOUS
<1> HIDE DEF m, n
<1>4. Completed(bars, n) /\ m \in 0 .. n
  BY <1>1 DEF Completed, VisibleAt
<1>5. Gains(bars, old, new, m, n)
  BY <1>1, <1>4, AtGains
<1>6. ASSUME NEW j \in m + 1 .. n PROVE time < PrefixTime(bars, j)
  <2>1. /\ j \in 1 .. Len(bars) /\ m + 1 \in 1 .. j /\ m < Len(bars) /\ m + 1 \in 1 .. n
        /\ m + 1 \in 1 .. Len(bars)
    BY <1>1, <1>3
  <2>2. bars[m + 1].complete /\ ~VisibleAt(bars[m + 1], time)
    BY <1>1, <2>1 DEF VisibleAt
  <2>3. bars[m + 1].available \in Nat
    <3>1. bars[m + 1] \in Bar
      BY <2>1
    <3> QED
      BY <3>1 DEF Bar
  <2>4. bars[m + 1].available <= PrefixTime(bars, j) /\ PrefixTime(bars, j) \in Nat
    <3> DEFINE i == m + 1
    <3>1. i \in 1 .. j
      BY <2>1
    <3> HIDE DEF i
    <3>2. bars[i].available <= PrefixTime(bars, j) /\ PrefixTime(bars, j) \in Nat
      BY <2>1, <3>1, PrefixTimeFacts
    <3> QED
      BY <3>2 DEF i
  <2> QED
    BY <2>2, <2>3, <2>4 DEF VisibleAt
<1> HIDE DEF old, new
<1>7. \A k \in DOMAIN new \ DOMAIN old : time < new[k].confirm
  BY <1>5, <1>6 DEF Gains
<1> QED
  BY <1>2, <1>5, <1>7 DEF Gains

-----------------------------------------------------------------------------
(* Sorting events *)

(* The order of events is strict and transitive.                           *)
LEMMA PrecedesIsStrict ==
    ASSUME NEW a \in Event, NEW b \in Event, NEW c \in Event
    PROVE  /\ ~Precedes(a, a)
           /\ Precedes(a, b) /\ Precedes(b, c) => Precedes(a, c)
<1>1. \A e \in Event : /\ e.confirm \in Nat /\ e.origin \in Nat /\ e.subject \in Nat
                       /\ EventRank(e) \in Nat
  BY SubjectAssumption DEF Event, EventType, EventRank
<1> QED
  BY <1>1 DEF Precedes

Sortable(S) ==
    /\ IsFiniteSet(S) /\ S \subseteq Event
    /\ \A a, b \in S : a = b \/ Precedes(a, b) \/ Precedes(b, a)

Before(S, event) == {other \in S : Precedes(other, event)}
Rank(S, event) == Cardinality(Before(S, event))
Sorted(S) == [k \in 1 .. Cardinality(S) |-> CHOOSE event \in S : Rank(S, event) = k - 1]

(* The number of events before an event says where it comes.               *)
LEMMA RankOrders ==
    ASSUME NEW S, Sortable(S)
    PROVE  /\ Cardinality(S) \in Nat
           /\ \A a \in S : Rank(S, a) \in 0 .. Cardinality(S) - 1
           /\ \A a, b \in S : Precedes(a, b) => Rank(S, a) < Rank(S, b)
           /\ \A a, b \in S : Rank(S, a) = Rank(S, b) => a = b
<1>1. Cardinality(S) \in Nat
  BY FS_CardinalityType DEF Sortable
<1>2. ASSUME NEW a \in S
      PROVE  /\ Before(S, a) \in SUBSET S /\ IsFiniteSet(Before(S, a)) /\ Rank(S, a) \in Nat
             /\ a \notin Before(S, a)
  <2>1. Before(S, a) \in SUBSET S
    BY DEF Before
  <2>2. IsFiniteSet(Before(S, a))
    BY <2>1, FS_Subset DEF Sortable
  <2>3. a \notin Before(S, a)
    BY PrecedesIsStrict DEF Before, Sortable
  <2> QED
    BY <2>1, <2>2, <2>3, FS_CardinalityType DEF Rank
<1>3. ASSUME NEW a \in S PROVE Rank(S, a) \in 0 .. Cardinality(S) - 1
  <2>1. /\ Cardinality(Before(S, a)) <= Cardinality(S)
        /\ Cardinality(S) = Cardinality(Before(S, a)) => S = Before(S, a)
    BY <1>2, FS_Subset DEF Sortable
  <2>2. Rank(S, a) <= Cardinality(S) /\ Rank(S, a) # Cardinality(S)
    BY <1>2, <2>1 DEF Rank
  <2> QED
    BY <1>1, <1>2, <2>2
<1>4. ASSUME NEW a \in S, NEW b \in S, Precedes(a, b) PROVE Rank(S, a) < Rank(S, b)
  <2>1. Before(S, a) \in SUBSET Before(S, b)
    BY <1>4, PrecedesIsStrict DEF Before, Sortable
  <2>2. a \in Before(S, b) /\ a \notin Before(S, a)
    BY <1>2, <1>4 DEF Before
  <2>3. /\ Cardinality(Before(S, a)) <= Cardinality(Before(S, b))
        /\ Cardinality(Before(S, b)) = Cardinality(Before(S, a)) => Before(S, b) = Before(S, a)
    BY <1>2, <2>1, FS_Subset
  <2>4. Rank(S, a) <= Rank(S, b) /\ Rank(S, a) # Rank(S, b)
    BY <2>2, <2>3 DEF Rank
  <2> QED
    BY <1>2, <2>4
<1>5. ASSUME NEW a \in S, NEW b \in S, Rank(S, a) = Rank(S, b) PROVE a = b
  <2>1. Rank(S, a) \in Nat /\ ~(Rank(S, a) < Rank(S, b)) /\ ~(Rank(S, b) < Rank(S, a))
    BY <1>2, <1>5
  <2> QED
    BY <1>4, <2>1 DEF Sortable
<1> QED
  BY <1>1, <1>3, <1>4, <1>5

(* A sorted set holds each event at its place.                             *)
LEMMA SortedFacts ==
    ASSUME NEW S, Sortable(S)
    PROVE  /\ Sorted(S) \in Seq(S) /\ Len(Sorted(S)) = Cardinality(S)
           /\ DOMAIN Sorted(S) = 1 .. Cardinality(S)
           /\ \A k \in 1 .. Cardinality(S) : Sorted(S)[k] \in S /\ Rank(S, Sorted(S)[k]) = k - 1
           /\ \A a \in S : Rank(S, a) + 1 \in 1 .. Cardinality(S) /\ Sorted(S)[Rank(S, a) + 1] = a
<1> DEFINE N == Cardinality(S)
           L == Sorted(S)
           f == [a \in S |-> Rank(S, a) + 1]
<1>1. /\ N \in Nat
      /\ \A a \in S : Rank(S, a) \in 0 .. N - 1
      /\ \A a, b \in S : Rank(S, a) = Rank(S, b) => a = b
  BY RankOrders
<1>2. f \in Injection(S, 1 .. N)
  <2>1. f \in [S -> 1 .. N]
    BY <1>1
  <2>2. \A a, b \in S : f[a] = f[b] => a = b
    BY <1>1
  <2> QED
    BY <2>1, <2>2 DEF Injection, IsInjective
<1>3. IsFiniteSet(1 .. N) /\ Cardinality(1 .. N) = N
  <2>1. 1 \in Int /\ N \in Int
    BY <1>1
  <2> HIDE DEF N
  <2>2. /\ IsFiniteSet(1 .. N)
        /\ Cardinality(1 .. N) = IF 1 > N THEN 0 ELSE N - 1 + 1
    BY <2>1, FS_Interval
  <2> QED
    BY <1>1, <2>2
<1>4. f \in Surjection(S, 1 .. N)
  <2> HIDE DEF f
  <2>1. Cardinality(S) = Cardinality(1 .. N)
    BY <1>3
  <2> QED
    BY <1>2, <1>3, <2>1, FS_Injection
<1>5. ASSUME NEW k \in 1 .. N PROVE \E a \in S : Rank(S, a) = k - 1
  <2>1. PICK a \in S : f[a] = k
    BY <1>4 DEF Surjection
  <2>2. Rank(S, a) = k - 1
    BY <1>1, <2>1
  <2> QED
    BY <2>2
<1>6. L = [k \in 1 .. N |-> CHOOSE a \in S : Rank(S, a) = k - 1]
  BY DEF Sorted
<1> HIDE DEF f, N, L
<1>7. \A k \in 1 .. N : L[k] \in S /\ Rank(S, L[k]) = k - 1
  BY <1>5, <1>6
<1>8. DOMAIN L = 1 .. N /\ L \in Seq(S) /\ Len(L) = N
  <2>1. L \in [1 .. N -> S]
    BY <1>6, <1>7
  <2> QED
    BY <1>1, <2>1
<1>9. ASSUME NEW a \in S PROVE Rank(S, a) + 1 \in 1 .. N /\ L[Rank(S, a) + 1] = a
  <2> DEFINE k == Rank(S, a) + 1
  <2>1. k \in 1 .. N /\ k - 1 = Rank(S, a)
    BY <1>1
  <2> HIDE DEF k
  <2>2. L[k] \in S /\ Rank(S, L[k]) = Rank(S, a)
    BY <1>7, <2>1
  <2>3. L[k] = a
    BY <1>1, <2>2
  <2> QED
    BY <2>1, <2>3 DEF k
<1> QED
  BY <1>7, <1>8, <1>9 DEF N, L

(* Positions in a sorted set follow the order of the events.               *)
LEMMA SortedIsOrdered ==
    ASSUME NEW S, Sortable(S), NEW j \in 1 .. Cardinality(S), NEW k \in 1 .. Cardinality(S)
    PROVE  j < k <=> Precedes(Sorted(S)[j], Sorted(S)[k])
<1> DEFINE a == Sorted(S)[j]
           b == Sorted(S)[k]
<1>1. /\ a \in S /\ b \in S /\ Rank(S, a) = j - 1 /\ Rank(S, b) = k - 1
  BY SortedFacts
<1>2. /\ Precedes(a, b) => Rank(S, a) < Rank(S, b)
      /\ Precedes(b, a) => Rank(S, b) < Rank(S, a)
      /\ a = b \/ Precedes(a, b) \/ Precedes(b, a)
      /\ Cardinality(S) \in Nat
  BY <1>1, RankOrders DEF Sortable
<1> HIDE DEF a, b
<1>3. j < k <=> Precedes(a, b)
  BY <1>1, <1>2
<1> QED
  BY <1>3 DEF a, b

(* An initial part of a set sorts to an initial part of its sequence.      *)
LEMMA SortedPrefix ==
    ASSUME NEW S, NEW P, Sortable(S), P \subseteq S,
           \A a \in S, b \in P : Precedes(a, b) => a \in P
    PROVE  /\ Sortable(P) /\ Cardinality(P) <= Cardinality(S)
           /\ \A k \in 1 .. Cardinality(P) : Sorted(S)[k] = Sorted(P)[k]
           /\ \A k \in 1 .. Cardinality(S) : k > Cardinality(P) => Sorted(S)[k] \notin P
<1>1. Sortable(P) /\ Cardinality(P) <= Cardinality(S)
  <2>1. P \in SUBSET S /\ IsFiniteSet(S)
    BY DEF Sortable
  <2>2. IsFiniteSet(P) /\ Cardinality(P) <= Cardinality(S)
    BY <2>1, FS_Subset
  <2> QED
    BY <2>2 DEF Sortable
<1>2. ASSUME NEW a \in P PROVE Rank(S, a) = Rank(P, a)
  <2>1. Before(S, a) = Before(P, a)
    BY DEF Before
  <2> QED
    BY <2>1 DEF Rank
<1>3. Cardinality(P) \in Nat /\ Cardinality(S) \in Nat
  BY <1>1, RankOrders
<1>4. ASSUME NEW k \in 1 .. Cardinality(P) PROVE Sorted(S)[k] = Sorted(P)[k]
  <2> DEFINE a == Sorted(P)[k]
  <2>1. a \in P /\ Rank(P, a) = k - 1
    BY <1>1, SortedFacts
  <2>2. a \in S /\ Rank(S, a) = k - 1
    BY <1>2, <2>1
  <2>3. Rank(S, a) + 1 = k
    BY <1>3, <2>2
  <2>4. Sorted(S)[Rank(S, a) + 1] = a
    BY <2>2, SortedFacts
  <2> HIDE DEF a
  <2>5. Sorted(S)[k] = a
    BY <2>3, <2>4
  <2> QED
    BY <2>5 DEF a
<1>5. ASSUME NEW k \in 1 .. Cardinality(S), k > Cardinality(P), Sorted(S)[k] \in P
      PROVE  FALSE
  <2> DEFINE a == Sorted(S)[k]
  <2>1. Rank(S, a) = k - 1
    BY SortedFacts
  <2>2. Rank(P, a) \in 0 .. Cardinality(P) - 1
    BY <1>1, <1>5, RankOrders
  <2>3. Rank(P, a) = k - 1
    BY <1>2, <1>5, <2>1
  <2> HIDE DEF a
  <2> QED
    BY <1>3, <1>5, <2>2, <2>3
<1> QED
  BY <1>1, <1>4, <1>5

-----------------------------------------------------------------------------
(* The events of a snapshot *)

Seen(time) == {s \in Subject : ConfirmTimeOf[s] <= time}
Known(bars, time) == UNION {ToSet(Log(bars, time, s)) : s \in Seen(time)}

(* A snapshot's ledger is its subjects' events, sorted.                    *)
LEMMA LedgerIsSorted ==
    ASSUME NEW bars, NEW time
    PROVE  /\ DOMAIN BuildStates(bars, time) = Seen(time)
           /\ \A s \in Seen(time) :
                 /\ BuildStates(bars, time)[s] = At(bars, s, PrefixLength(bars, time))
                 /\ BuildStates(bars, time)[s].events = Log(bars, time, s)
           /\ LedgerOf(BuildStates(bars, time)) = Sorted(Known(bars, time))
<1> DEFINE built == BuildStates(bars, time)
<1>1. built = [s \in Seen(time) |-> At(bars, s, PrefixLength(bars, time))]
  BY DEF BuildStates, Seen, At, CausalPrefix
<1> HIDE DEF built
<1>2. DOMAIN built = Seen(time) /\ \A s \in Seen(time) : built[s].events = Log(bars, time, s)
  BY <1>1 DEF Log
<1>3. UNION {ToSet(built[s].events) : s \in DOMAIN built} = Known(bars, time)
  <2>1. {ToSet(built[s].events) : s \in DOMAIN built} = {ToSet(Log(bars, time, s)) : s \in Seen(time)}
    BY <1>2
  <2> QED
    BY <2>1 DEF Known
<1>4. LedgerOf(built) = Sorted(Known(bars, time))
  <2> DEFINE events == UNION {ToSet(built[s].events) : s \in DOMAIN built}
  <2>1. LedgerOf(built) = Sorted(events)
    BY Zenon DEF LedgerOf, Sorted, Rank, Before
  <2> HIDE DEF events
  <2>2. events = Known(bars, time)
    BY <1>3 DEF events
  <2> QED
    BY <2>1, <2>2
<1> QED
  BY <1>1, <1>2, <1>4 DEF built

(* Each of them is in the ledger of its own subject, and known by now.     *)
LEMMA KnownFacts ==
    ASSUME NEW bars \in Seq(Bar), IsSource(bars), NEW time \in Int
    PROVE  /\ Known(bars, time) \subseteq Event
           /\ \A e \in Known(bars, time) :
                 /\ e.subject \in Seen(time) /\ e.confirm \in Nat
                 /\ \E k \in DOMAIN Log(bars, time, e.subject) : Log(bars, time, e.subject)[k] = e
                 /\ ConfirmTimeOf[e.subject] <= e.confirm /\ e.confirm <= time
                 /\ e.confirm \in Instants(bars)
<1> SUFFICES ASSUME NEW e \in Known(bars, time)
             PROVE  /\ e \in Event /\ e.subject \in Seen(time) /\ e.confirm \in Nat
                    /\ \E k \in DOMAIN Log(bars, time, e.subject) : Log(bars, time, e.subject)[k] = e
                    /\ ConfirmTimeOf[e.subject] <= e.confirm /\ e.confirm <= time
                    /\ e.confirm \in Instants(bars)
  OBVIOUS
<1>1. PICK s \in Seen(time) : e \in ToSet(Log(bars, time, s))
  BY DEF Known
<1>2. PICK k \in DOMAIN Log(bars, time, s) : Log(bars, time, s)[k] = e
  BY <1>1 DEF ToSet
<1>3. s \in Subject /\ ConfirmTimeOf[s] <= time
  BY DEF Seen
<1>4. /\ e \in Event /\ e.subject = s
      /\ ConfirmTimeOf[s] <= e.confirm /\ e.confirm <= time
      /\ e.confirm \in Instants(bars)
  BY <1>2, <1>3, LogFacts
<1>5. e.confirm \in Nat
  BY <1>4, EventFields
<1> QED
  BY <1>2, <1>4, <1>5

(* Along one subject's ledger the events ascend in the snapshot's order.   *)
LEMMA LogAscends ==
    ASSUME NEW bars \in Seq(Bar), IsSource(bars), NEW time \in Int, NEW s \in Seen(time),
           NEW j \in DOMAIN Log(bars, time, s), NEW k \in DOMAIN Log(bars, time, s), j < k
    PROVE  Precedes(Log(bars, time, s)[j], Log(bars, time, s)[k])
<1> DEFINE a == Log(bars, time, s)[j]
           b == Log(bars, time, s)[k]
<1>1. s \in Subject /\ ConfirmTimeOf[s] <= time
  BY DEF Seen
<1>2. Ordered(Log(bars, time, s)) /\ a \in Event /\ b \in Event /\ a.subject = s /\ b.subject = s
  BY <1>1, LogFacts
<1>3. a.confirm <= b.confirm /\ Earlier(a, b)
  BY <1>2 DEF Ordered
<1> HIDE DEF a, b
<1>4. /\ a.confirm \in Nat /\ b.confirm \in Nat
      /\ a.origin \in Nat /\ b.origin \in Nat
  BY <1>2, EventFields
<1>5. /\ a.type = "ACTIVATED" /\ b.type # "ACTIVATED" => EventRank(a) < EventRank(b)
      /\ a.type = "FLIP_TOUCH" /\ b.type = "RETIRED" => EventRank(a) < EventRank(b)
  <2>1. a.type \in EventType /\ b.type \in EventType
    BY <1>2 DEF Event
  <2> QED
    BY <2>1 DEF EventRank, EventType
<1>6. Precedes(a, b)
  BY <1>2, <1>3, <1>4, <1>5 DEF Earlier, Precedes
<1> QED
  BY <1>6 DEF a, b

(* There are finitely many, and the order tells any two of them apart.     *)
LEMMA KnownIsSortable ==
    ASSUME NEW bars \in Seq(Bar), IsSource(bars), NEW time \in Int
    PROVE  Sortable(Known(bars, time))
<1>1. IsFiniteSet(Known(bars, time))
  <2> DEFINE logs == [s \in Seen(time) |-> ToSet(Log(bars, time, s))]
  <2>1. IsFiniteSet(Seen(time))
    <3>1. Seen(time) \in SUBSET Subject
      BY DEF Seen
    <3> QED
      BY <3>1, HistoryAssumption, FS_Subset
  <2>2. ASSUME NEW s \in Seen(time) PROVE IsFiniteSet(ToSet(Log(bars, time, s)))
    <3> DEFINE L == Log(bars, time, s)
    <3>1. L \in Seq(Event)
      BY LogFacts DEF Seen
    <3>2. DOMAIN L = 1 .. Len(L) /\ Len(L) \in Nat /\ L = [k \in 1 .. Len(L) |-> L[k]]
      BY <3>1
    <3>3. IsFiniteSet(1 .. Len(L))
      BY <3>2, FS_Interval
    <3> HIDE DEF L
    <3>4. IsFiniteSet({L[k] : k \in 1 .. Len(L)})
      BY <3>2, <3>3, FiniteImage
    <3>5. ToSet(L) = {L[k] : k \in 1 .. Len(L)}
      BY <3>2 DEF ToSet
    <3> QED
      BY <3>4, <3>5 DEF L
  <2>3. DOMAIN logs = Seen(time) /\ logs = [s \in Seen(time) |-> logs[s]]
    OBVIOUS
  <2>4. \A s \in Seen(time) : logs[s] = ToSet(Log(bars, time, s))
    OBVIOUS
  <2>5. Known(bars, time) = UNION {logs[s] : s \in Seen(time)}
    BY <2>4 DEF Known
  <2> HIDE DEF logs
  <2>6. IsFiniteSet({logs[s] : s \in Seen(time)})
    BY <2>1, <2>3, FiniteImage
  <2>7. \A S \in {logs[s] : s \in Seen(time)} : IsFiniteSet(S)
    BY <2>2, <2>4
  <2> QED
    BY <2>5, <2>6, <2>7, FS_UNION
<1>2. Known(bars, time) \subseteq Event
  BY KnownFacts
<1>3. ASSUME NEW a \in Known(bars, time), NEW b \in Known(bars, time)
      PROVE  a = b \/ Precedes(a, b) \/ Precedes(b, a)
  <2>1. CASE a.subject = b.subject
    <3> DEFINE s == a.subject
    <3>1. s \in Seen(time)
      BY KnownFacts
    <3>2. PICK j \in DOMAIN Log(bars, time, s) : Log(bars, time, s)[j] = a
      BY KnownFacts
    <3>3. PICK k \in DOMAIN Log(bars, time, s) : Log(bars, time, s)[k] = b
      BY <2>1, KnownFacts
    <3>4. j \in Nat /\ k \in Nat
      <4>1. Log(bars, time, s) \in Seq(Event)
        BY <3>1, LogFacts DEF Seen
      <4> QED
        BY <4>1
    <3> HIDE DEF s
    <3>5. (j < k => Precedes(a, b)) /\ (k < j => Precedes(b, a)) /\ (j = k => a = b)
      BY <3>1, <3>2, <3>3, LogAscends
    <3> QED
      BY <3>4, <3>5
  <2>2. CASE a.subject # b.subject
    <3>1. a \in Event /\ b \in Event
      BY <1>2
    <3>2. /\ a.confirm \in Nat /\ b.confirm \in Nat /\ a.subject \in Nat /\ b.subject \in Nat
      BY <3>1, EventFields, SubjectAssumption
    <3> QED
      BY <2>2, <3>2 DEF Precedes
  <2> QED
    BY <2>1, <2>2
<1> QED
  BY <1>1, <1>2, <1>3 DEF Sortable

(* What a later snapshot holds that was confirmed by an earlier time is    *)
(* exactly what the snapshot at that time held.                            *)
LEMMA KnownGrows ==
    ASSUME NEW bars \in Seq(Bar), IsSource(bars), NEW time \in Int, NEW later \in Int,
           time <= later
    PROVE  Known(bars, time) = {e \in Known(bars, later) : e.confirm <= time}
<1>1. ASSUME NEW e \in Known(bars, time) PROVE e \in Known(bars, later) /\ e.confirm <= time
  <2>1. /\ e.subject \in Seen(time) /\ e.confirm <= time
        /\ \E k \in DOMAIN Log(bars, time, e.subject) : Log(bars, time, e.subject)[k] = e
    BY KnownFacts
  <2> DEFINE s == e.subject
             old == Log(bars, time, s)
             new == Log(bars, later, s)
  <2>2. PICK k \in DOMAIN old : old[k] = e
    BY <2>1
  <2>3. s \in Subject /\ ConfirmTimeOf[s] <= time /\ ConfirmTimeOf[s] <= later /\ s \in Seen(later)
    <3>1. s \in Subject /\ ConfirmTimeOf[s] <= time
      BY <2>1 DEF Seen
    <3>2. ConfirmTimeOf[s] \in Nat
      BY <3>1, SubjectAssumption
    <3>3. ConfirmTimeOf[s] <= later
      BY <3>1, <3>2
    <3> QED
      BY <3>1, <3>3 DEF Seen
  <2>4. Len(old) <= Len(new) /\ new[k] = old[k]
    BY <2>2, <2>3, LogGrows
  <2>5. old \in Seq(Event) /\ new \in Seq(Event)
    BY <2>3, LogFacts
  <2> HIDE DEF s, old, new
  <2>6. k \in DOMAIN new
    BY <2>4, <2>5
  <2>7. e \in ToSet(new)
    BY <2>2, <2>4, <2>6 DEF ToSet
  <2> QED
    BY <2>1, <2>3, <2>7 DEF Known, new
<1>2. ASSUME NEW e \in Known(bars, later), e.confirm <= time PROVE e \in Known(bars, time)
  <2>1. /\ e.subject \in Seen(later) /\ e.confirm \in Nat
        /\ ConfirmTimeOf[e.subject] <= e.confirm
        /\ \E k \in DOMAIN Log(bars, later, e.subject) : Log(bars, later, e.subject)[k] = e
    BY KnownFacts
  <2> DEFINE s == e.subject
             old == Log(bars, time, s)
             new == Log(bars, later, s)
  <2>2. PICK k \in DOMAIN new : new[k] = e
    BY <2>1
  <2>3. s \in Subject /\ ConfirmTimeOf[s] <= time /\ s \in Seen(time)
    <3>1. s \in Subject /\ ConfirmTimeOf[s] <= e.confirm
      BY <2>1 DEF Seen
    <3>2. ConfirmTimeOf[s] \in Nat /\ e.confirm \in Nat
      BY <2>1, <3>1, SubjectAssumption
    <3>3. ConfirmTimeOf[s] <= time
      BY <1>2, <3>1, <3>2
    <3> QED
      BY <3>1, <3>3 DEF Seen
  <2>4. /\ \A i \in DOMAIN old : new[i] = old[i]
        /\ \A i \in DOMAIN new \ DOMAIN old : time < new[i].confirm
    BY <2>3, LogGrows
  <2> HIDE DEF s, old, new
  <2>5. k \in DOMAIN old
    BY <1>2, <2>1, <2>2, <2>4
  <2>6. e \in ToSet(old)
    BY <2>2, <2>4, <2>5 DEF ToSet
  <2> QED
    BY <2>3, <2>6 DEF Known, old
<1> QED
  BY <1>1, <1>2

-----------------------------------------------------------------------------
(* The calls *)

(* What makes the history provable: nothing is carried from call to call,  *)
(* so a snapshot is always the one its own processing time determines.     *)
Inv ==
    /\ source \in Sources
    /\ mode \in Mode
    /\ snapshotTime \in Nat \cup {-1}
    /\ states = BuildStates(source, snapshotTime)
    /\ ledger = LedgerOf(states)

(* The sources are those the data stage lets through.                      *)
LEMMA SourceFacts ==
    ASSUME NEW bars \in Sources
    PROVE  bars \in Seq(Bar) /\ IsSource(bars) /\ bars # <<>>
<1>1. bars \in Seq(BarUniverse) /\ BarUniverse \subseteq Bar /\ IsSource(bars) /\ bars # <<>>
  BY HistoryAssumption
<1>2. \A k \in 1 .. Len(bars) : bars[k] \in Bar
  BY <1>1
<1>3. Len(bars) \in Nat /\ bars = [k \in 1 .. Len(bars) |-> bars[k]]
  BY <1>1
<1>4. bars \in [1 .. Len(bars) -> Bar]
  BY <1>2, <1>3
<1> QED
  BY <1>1, <1>3, <1>4

(* Every call is made at an instant of the clock.                          *)
LEMMA StepBuilds ==
    ASSUME Inv, HistoryNext
    PROVE  \E time \in Nat : BuildAsOf(time)
<1>1. ReplayTimes \subseteq Nat
  BY HistoryAssumption
<1>2. BatchSchedule \subseteq Nat
  <2>1. source \in Seq(Bar)
    BY SourceFacts DEF Inv
  <2>2. \A k \in DOMAIN source : source[k].available \in Nat
    <3>1. \A k \in DOMAIN source : source[k] \in Bar
      BY <2>1
    <3> QED
      BY <3>1 DEF Bar
  <2>3. \A s \in Subject : ConfirmTimeOf[s] \in Nat
    BY SubjectAssumption
  <2> QED
    BY <2>2, <2>3 DEF BatchSchedule
<1> QED
  BY <1>1, <1>2 DEF HistoryNext, BatchStep, ReplayStep, AsOfStep

(* Before any call nothing is known.                                       *)
LEMMA InitInv == HistoryInit => Inv
<1> SUFFICES ASSUME HistoryInit PROVE Inv
  OBVIOUS
<1>1. Seen(-1) = {}
  <2>1. \A s \in Subject : ConfirmTimeOf[s] \in Nat
    BY SubjectAssumption
  <2> QED
    BY <2>1 DEF Seen
<1>2. BuildStates(source, -1) = [s \in {} |-> <<>>]
  BY <1>1 DEF BuildStates, Seen
<1>3. LedgerOf(BuildStates(source, -1)) = <<>>
  <2>1. Known(source, -1) = {}
    BY <1>1 DEF Known
  <2>2. Sorted({}) = <<>>
    <3>1. Cardinality({}) = 0
      BY FS_EmptySet
    <3> QED
      BY <3>1 DEF Sorted
  <2> QED
    BY <2>1, <2>2, LedgerIsSorted
<1> QED
  BY <1>2, <1>3 DEF HistoryInit, Inv

(* A call builds its snapshot from the source alone.                       *)
LEMMA NextKeepsInv == Inv /\ [HistoryNext]_historyVars => Inv'
<1> SUFFICES ASSUME Inv, [HistoryNext]_historyVars PROVE Inv'
  OBVIOUS
<1>1. CASE HistoryNext
  <2>1. PICK time \in Nat : BuildAsOf(time)
    BY <1>1, StepBuilds
  <2> QED
    BY <2>1 DEF Inv, BuildAsOf
<1>2. CASE UNCHANGED historyVars
  BY <1>2 DEF historyVars, Inv
<1> QED
  BY <1>1, <1>2

(* Every snapshot is the one its processing time determines, whatever the  *)
(* calls before it were.                                                   *)
THEOREM SnapshotsAreStateless == HistorySpec => []Inv
BY InitInv, NextKeepsInv, PTL DEF HistorySpec

SnapshotsAccepted == \A s \in DOMAIN states : Accepted(states[s], s, snapshotTime)

(* No snapshot the engine builds is refused: the contracts accept every    *)
(* subject's state and ledger at every processing time.                    *)
THEOREM EverySnapshotAccepted == HistorySpec => []SnapshotsAccepted
<1>1. Inv => SnapshotsAccepted
  <2> SUFFICES ASSUME Inv, NEW s \in DOMAIN states PROVE Accepted(states[s], s, snapshotTime)
    BY DEF SnapshotsAccepted
  <2>1. source \in Seq(Bar) /\ IsSource(source) /\ snapshotTime \in Int
    BY SourceFacts DEF Inv
  <2>2. s \in Seen(snapshotTime) /\ states[s] = At(source, s, PrefixLength(source, snapshotTime))
    BY LedgerIsSorted DEF Inv
  <2> DEFINE w == states[s]
  <2>3. /\ s \in Subject /\ Sound(w, s)
        /\ w.events = Log(source, snapshotTime, s) /\ w.events \in Seq(Event) /\ w.events # <<>>
        /\ \A k \in DOMAIN w.events : w.events[k].confirm <= snapshotTime
    BY <2>1, <2>2, LogFacts DEF Seen, Log
  <2> HIDE DEF w
  <2>4. w.confirm <= snapshotTime
    <3>1. w.confirm = w.events[Len(w.events)].confirm
      BY <2>3 DEF Sound, Accepted, StateMatchesLedger
    <3>2. Len(w.events) \in DOMAIN w.events
      BY <2>3
    <3> QED
      BY <2>3, <3>1, <3>2
  <2>5. Accepted(w, s, snapshotTime)
    BY <2>3, <2>4 DEF Sound, Accepted, StateOK
  <2> QED
    BY <2>5 DEF w
<1> QED
  BY <1>1, SnapshotsAreStateless, PTL

-----------------------------------------------------------------------------
(* One append-only ledger *)

(* The ledger of a snapshot is ordered by confirm time.                    *)
LEMMA LedgerFacts ==
    ASSUME NEW bars \in Seq(Bar), IsSource(bars), NEW time \in Int
    PROVE  /\ Sorted(Known(bars, time)) \in Seq(Event)
           /\ Ledger!OrderedByConfirm(Sorted(Known(bars, time)))
<1> DEFINE S == Known(bars, time)
           L == Sorted(S)
<1>1. Sortable(S)
  BY KnownIsSortable
<1> HIDE DEF S
<1>2. /\ L \in Seq(S) /\ DOMAIN L = 1 .. Cardinality(S) /\ Len(L) = Cardinality(S)
      /\ \A k \in 1 .. Cardinality(S) : L[k] \in S
  BY <1>1, SortedFacts
<1>3. S \subseteq Event /\ Cardinality(S) \in Nat
  BY <1>1, RankOrders DEF Sortable
<1>4. L \in Seq(Event)
  <2>1. L \in [1 .. Cardinality(S) -> Event]
    <3>1. L = [k \in 1 .. Cardinality(S) |-> L[k]]
      BY <1>2
    <3> QED
      BY <1>2, <1>3, <3>1
  <2> QED
    BY <1>3, <2>1
<1>5. ASSUME NEW j \in DOMAIN L, NEW k \in DOMAIN L, j <= k
      PROVE  L[j].confirm <= L[k].confirm
  <2>1. L[j] \in Event /\ L[k] \in Event
    BY <1>2, <1>3
  <2>2. L[j].confirm \in Nat /\ L[k].confirm \in Nat
    BY <2>1, EventFields
  <2>3. j < k => Precedes(L[j], L[k])
    BY <1>1, <1>2, SortedIsOrdered
  <2>4. j \in Nat /\ k \in Nat
    BY <1>2, <1>3
  <2> HIDE DEF L
  <2> QED
    BY <1>5, <2>2, <2>3, <2>4 DEF Precedes
<1>6. L \in Seq(Event) /\ Ledger!OrderedByConfirm(L)
  BY <1>4, <1>5 DEF Ledger!OrderedByConfirm
<1> QED
  BY <1>6 DEF S

(* A later call keeps the ledger and adds what was confirmed in between.   *)
LEMMA BuildAdvances ==
    ASSUME Inv, NEW time \in Nat, BuildAsOf(time)
    PROVE  /\ Ledger!Advance
           /\ \A k \in DOMAIN ledger' \ DOMAIN ledger :
                 /\ snapshotTime < ledger'[k].confirm /\ ledger'[k].confirm <= time
                 /\ ledger'[k] \in Known(source, time)
<1> DEFINE S == Known(source, time)
           P == Known(source, snapshotTime)
<1>1. /\ source \in Seq(Bar) /\ IsSource(source) /\ snapshotTime \in Int /\ time \in Int
      /\ snapshotTime < time /\ snapshotTime <= time /\ snapshotTime' = time
  BY SourceFacts DEF Inv, BuildAsOf
<1>2. ledger = Sorted(P) /\ ledger' = Sorted(S)
  BY LedgerIsSorted DEF Inv, BuildAsOf
<1>3. Sortable(S) /\ P = {e \in S : e.confirm <= snapshotTime}
  BY <1>1, KnownIsSortable, KnownGrows
<1>4. \A e \in S : e \in Event /\ e.confirm \in Nat /\ e.confirm <= time
  BY <1>1, KnownFacts
<1> HIDE DEF S, P
<1>5. \A a \in S, b \in P : Precedes(a, b) => a \in P
  BY <1>1, <1>3, <1>4 DEF Precedes
<1>6. /\ Sortable(P) /\ Cardinality(P) <= Cardinality(S)
      /\ \A k \in 1 .. Cardinality(P) : Sorted(S)[k] = Sorted(P)[k]
      /\ \A k \in 1 .. Cardinality(S) : k > Cardinality(P) => Sorted(S)[k] \notin P
  BY <1>3, <1>5, SortedPrefix
<1>7. /\ Len(ledger) = Cardinality(P) /\ DOMAIN ledger = 1 .. Cardinality(P)
      /\ Len(ledger') = Cardinality(S) /\ DOMAIN ledger' = 1 .. Cardinality(S)
      /\ \A k \in 1 .. Cardinality(S) : ledger'[k] \in S
      /\ Cardinality(P) \in Nat /\ Cardinality(S) \in Nat
  BY <1>2, <1>3, <1>6, SortedFacts, RankOrders
<1>8. ASSUME NEW k \in DOMAIN ledger' \ DOMAIN ledger
      PROVE  snapshotTime < ledger'[k].confirm /\ ledger'[k].confirm <= time /\ ledger'[k] \in S
  <2>1. k \in 1 .. Cardinality(S) /\ k > Cardinality(P)
    BY <1>7
  <2>2. ledger'[k] \in S /\ ledger'[k] \notin P
    BY <1>2, <1>6, <1>7, <2>1
  <2> QED
    BY <1>1, <1>3, <1>4, <2>2
<1>9. ledger' \in Seq(Event) /\ Ledger!OrderedByConfirm(ledger')
  BY <1>1, <1>2, LedgerFacts DEF S
<1>10. Len(ledger) <= Len(ledger') /\ \A k \in DOMAIN ledger : ledger'[k] = ledger[k]
  BY <1>2, <1>6, <1>7
<1>11. Ledger!Advance
  BY <1>1, <1>8, <1>9, <1>10 DEF Ledger!Advance
<1> QED
  BY <1>8, <1>11 DEF S

(* The snapshots of one source, taken at any ascending times by calls that *)
(* share nothing, are the states of one append-only causal ledger.         *)
THEOREM HistoryIsCausalLedger == HistorySpec => ImplementsCausalLedger
<1>1. HistoryInit => Ledger!Init
  BY DEF HistoryInit, Ledger!Init
<1>2. Inv /\ [HistoryNext]_historyVars => [Ledger!Advance]_(Ledger!vars)
  <2> SUFFICES ASSUME Inv, [HistoryNext]_historyVars PROVE [Ledger!Advance]_(Ledger!vars)
    OBVIOUS
  <2>1. CASE HistoryNext
    <3>1. PICK time \in Nat : BuildAsOf(time)
      BY <2>1, StepBuilds
    <3> QED
      BY <3>1, BuildAdvances
  <2>2. CASE UNCHANGED historyVars
    BY <2>2 DEF historyVars, Ledger!vars
  <2> QED
    BY <2>1, <2>2
<1> QED
  BY <1>1, <1>2, SnapshotsAreStateless, PTL
  DEF HistorySpec, ImplementsCausalLedger, Ledger!Spec

(* A stage of the causal ledger keeps every held event known and in order. *)
LEMMA AdvanceKeepsKnown ==
    ASSUME Ledger!TypeOK, Ledger!KnownByNow, [Ledger!Advance]_(Ledger!vars)
    PROVE  Ledger!TypeOK' /\ Ledger!KnownByNow'
<1>1. CASE Ledger!Advance
  <2>1. Ledger!TypeOK'
    BY <1>1 DEF Ledger!Advance, Ledger!TypeOK
  <2>2. ASSUME NEW k \in DOMAIN ledger' PROVE ledger'[k].confirm <= snapshotTime'
    <3>1. CASE k \in DOMAIN ledger
      <4>1. ledger'[k] = ledger[k] /\ ledger[k].confirm <= snapshotTime /\ snapshotTime' > snapshotTime
        BY <1>1, <3>1 DEF Ledger!Advance, Ledger!KnownByNow
      <4>2. ledger[k] \in Event /\ snapshotTime \in Int /\ snapshotTime' \in Int
        BY <2>1, <3>1 DEF Ledger!TypeOK
      <4>3. ledger[k].confirm \in Int
        BY <4>2 DEF Event
      <4> QED
        BY <4>1, <4>2, <4>3
    <3>2. CASE k \notin DOMAIN ledger
      BY <1>1, <2>2, <3>2 DEF Ledger!Advance
    <3> QED
      BY <3>1, <3>2
  <2> QED
    BY <1>1, <2>1, <2>2 DEF Ledger!Advance, Ledger!KnownByNow
<1>2. CASE UNCHANGED Ledger!vars
  BY <1>2 DEF Ledger!vars, Ledger!TypeOK, Ledger!KnownByNow, Ledger!OrderedByConfirm
<1> QED
  BY <1>1, <1>2

LEMMA LedgerStaysKnown == HistorySpec => [](Ledger!TypeOK /\ Ledger!KnownByNow)
<1>1. Ledger!Init => Ledger!TypeOK /\ Ledger!KnownByNow
  BY DEF Ledger!Init, Ledger!TypeOK, Ledger!KnownByNow, Ledger!OrderedByConfirm
<1> QED
  BY <1>1, AdvanceKeepsKnown, HistoryIsCausalLedger, PTL
  DEF ImplementsCausalLedger, Ledger!Spec

(* No snapshot holds an event before its confirm time, and each holds its  *)
(* events in that order.                                                   *)
THEOREM NothingIsEarly == HistorySpec => []Ledger!KnownByNow
  BY LedgerStaysKnown, PTL

(* The part of a later snapshot that was confirmed by the time of an       *)
(* earlier one is exactly the earlier one: nothing is inserted, dropped or *)
(* rewritten.                                                              *)
THEOREM SnapshotsAreExactPrefixes == HistorySpec => Ledger!ExactPrefix
<1>1. Ledger!TypeOK /\ Ledger!KnownByNow /\ [Ledger!Advance]_(Ledger!vars)
        => [\A k \in DOMAIN ledger' : ledger'[k].confirm <= snapshotTime <=> k <= Len(ledger)]_(Ledger!vars)
  <2> SUFFICES ASSUME Ledger!TypeOK, Ledger!KnownByNow, Ledger!Advance,
                      NEW k \in DOMAIN ledger'
               PROVE  ledger'[k].confirm <= snapshotTime <=> k <= Len(ledger)
    OBVIOUS
  <2>1. /\ ledger \in Seq(Event) /\ ledger' \in Seq(Event)
        /\ DOMAIN ledger = 1 .. Len(ledger) /\ DOMAIN ledger' = 1 .. Len(ledger')
        /\ Len(ledger) \in Nat /\ Len(ledger') \in Nat /\ snapshotTime \in Int
    BY DEF Ledger!TypeOK, Ledger!Advance
  <2>2. ledger'[k] \in Event
    BY <2>1
  <2>3. ledger'[k].confirm \in Int
    BY <2>2 DEF Event
  <2>4. CASE k \in DOMAIN ledger
    BY <2>1, <2>4 DEF Ledger!KnownByNow, Ledger!Advance
  <2>5. CASE k \notin DOMAIN ledger
    <3>1. snapshotTime < ledger'[k].confirm
      BY <2>5 DEF Ledger!Advance
    <3> QED
      BY <2>1, <2>3, <2>5, <3>1
  <2> QED
    BY <2>4, <2>5
<1> QED
  BY <1>1, LedgerStaysKnown, HistoryIsCausalLedger, PTL
  DEF ImplementsCausalLedger, Ledger!Spec, Ledger!ExactPrefix

(* The times of the batch schedule are the only ones anything is confirmed *)
(* at, and the last of them sees everything.                               *)
LEMMA ScheduleFacts ==
    ASSUME Inv
    PROVE  /\ BatchSchedule = Instants(source)
           /\ Max(BatchSchedule) \in Nat
           /\ \A time \in BatchSchedule : time \in Nat /\ time <= Max(BatchSchedule)
<1>1. /\ source \in Seq(Bar) /\ source # <<>> /\ DOMAIN source = 1 .. Len(source)
      /\ Len(source) \in Nat /\ 1 \in DOMAIN source
      /\ \A k \in DOMAIN source : source[k].available \in Nat
  <2>1. source \in Seq(Bar) /\ source # <<>>
    BY SourceFacts DEF Inv
  <2>2. \A k \in DOMAIN source : source[k] \in Bar
    BY <2>1
  <2>3. \A b \in Bar : b.available \in Nat
    BY DEF Bar
  <2> QED
    BY <2>1, <2>2, <2>3
<1>2. \A s \in Subject : ConfirmTimeOf[s] \in Nat
  BY SubjectAssumption
<1> DEFINE shown == [k \in DOMAIN source |-> source[k].available]
<1>3. IsFiniteSet(BatchSchedule)
  <2>1. IsFiniteSet({shown[k] : k \in DOMAIN source})
    <3>1. IsFiniteSet(DOMAIN source)
      BY <1>1, FS_Interval
    <3>2. DOMAIN shown = DOMAIN source /\ shown = [k \in DOMAIN source |-> shown[k]]
      OBVIOUS
    <3> HIDE DEF shown
    <3> QED
      BY <3>1, <3>2, FiniteImage
  <2>2. IsFiniteSet({ConfirmTimeOf[s] : s \in Subject})
    <3>1. DOMAIN ConfirmTimeOf = Subject /\ ConfirmTimeOf = [s \in Subject |-> ConfirmTimeOf[s]]
      BY SubjectAssumption
    <3>2. IsFiniteSet(Subject)
      BY HistoryAssumption
    <3> QED
      BY <3>1, <3>2, FiniteImage
  <2>3. BatchSchedule = {ConfirmTimeOf[s] : s \in Subject} \cup {shown[k] : k \in DOMAIN source}
    BY DEF BatchSchedule
  <2> HIDE DEF shown
  <2> QED
    BY <2>1, <2>2, <2>3, FS_Union
<1>4. BatchSchedule \in SUBSET Nat /\ BatchSchedule \in SUBSET Int /\ BatchSchedule # {}
  <2>1. \A t \in BatchSchedule : t \in Nat
    BY <1>1, <1>2 DEF BatchSchedule
  <2>2. source[1].available \in BatchSchedule
    BY <1>1 DEF BatchSchedule
  <2>3. \A t \in Nat : t \in Int
    OBVIOUS
  <2> QED
    BY <2>1, <2>2, <2>3
<1>5. Max(BatchSchedule) \in BatchSchedule /\ \A t \in BatchSchedule : t <= Max(BatchSchedule)
  BY <1>3, <1>4, LatestOfSet
<1>6. BatchSchedule = Instants(source)
  BY DEF BatchSchedule, Instants
<1> QED
  BY <1>4, <1>5, <1>6

(* Every event ever known is one of the batch run's.                       *)
LEMMA KnownIsTrue ==
    ASSUME Inv, NEW time \in Nat, NEW e \in Known(source, time)
    PROVE  e.confirm \in BatchSchedule /\ e.confirm \in TrueEventTimes
<1> DEFINE final == Max(BatchSchedule)
<1>1. source \in Seq(Bar) /\ IsSource(source) /\ final \in Nat
  BY SourceFacts, ScheduleFacts DEF Inv
<1>2. e.confirm \in BatchSchedule /\ e.confirm \in Nat /\ e.confirm <= final
  BY <1>1, KnownFacts, ScheduleFacts
<1> HIDE DEF final
<1>3. e \in Known(source, final)
  <2>1. CASE time <= final
    BY <1>1, <2>1, KnownGrows
  <2>2. CASE final <= time
    BY <1>1, <1>2, <2>2, KnownGrows
  <2> QED
    BY <1>1, <2>1, <2>2
<1>4. e \in ToSet(LedgerOf(BuildStates(source, final)))
  <2> DEFINE S == Known(source, final)
  <2>1. Sortable(S) /\ LedgerOf(BuildStates(source, final)) = Sorted(S)
    BY <1>1, KnownIsSortable, LedgerIsSorted
  <2>2. e \in S
    BY <1>3
  <2> HIDE DEF S
  <2>3. /\ Rank(S, e) + 1 \in DOMAIN Sorted(S)
        /\ Sorted(S)[Rank(S, e) + 1] = e
    BY <2>1, <2>2, SortedFacts
  <2>4. e \in ToSet(Sorted(S))
    BY <2>3 DEF ToSet
  <2> QED
    BY <2>1, <2>4
<1> QED
  BY <1>2, <1>4 DEF TrueEventTimes, final

(* In a batch or an accepted replay an event is first seen in the snapshot *)
(* taken at its confirm time.                                              *)
THEOREM FirstSeenExactlyThen == HistorySpec => FirstSeenAtConfirm
<1>1. Inv /\ [HistoryNext]_historyVars
        => [mode # "AS_OF" =>
              \A k \in DOMAIN ledger' \ DOMAIN ledger : ledger'[k].confirm = snapshotTime']_historyVars
  <2> SUFFICES ASSUME Inv, HistoryNext, mode # "AS_OF", NEW k \in DOMAIN ledger' \ DOMAIN ledger
               PROVE  ledger'[k].confirm = snapshotTime'
    OBVIOUS
  <2> DEFINE e == ledger'[k]
  <2>1. ASSUME NEW time \in Nat, BuildAsOf(time)
        PROVE  /\ snapshotTime < e.confirm /\ e.confirm <= time /\ snapshotTime' = time /\ e.confirm \in Nat
               /\ e.confirm \in BatchSchedule /\ e.confirm \in TrueEventTimes
    <3>1. snapshotTime < e.confirm /\ e.confirm <= time /\ e \in Known(source, time)
      BY <2>1, BuildAdvances
    <3>2. e.confirm \in BatchSchedule /\ e.confirm \in TrueEventTimes
      BY <3>1, KnownIsTrue
    <3>3. e.confirm \in Nat
      BY <3>2, ScheduleFacts
    <3> QED
      BY <2>1, <3>1, <3>2, <3>3 DEF BuildAsOf
  <2>2. CASE BatchStep
    <3>1. PICK time \in BatchSchedule :
             /\ \A other \in BatchSchedule : other > snapshotTime => time <= other
             /\ BuildAsOf(time)
      BY <2>2 DEF BatchStep
    <3>2. time \in Nat
      BY ScheduleFacts
    <3> HIDE DEF e
    <3>3. /\ snapshotTime < e.confirm /\ e.confirm <= time /\ snapshotTime' = time /\ e.confirm \in Nat
          /\ e.confirm \in BatchSchedule
      BY <2>1, <3>1, <3>2
    <3>4. snapshotTime \in Int
      BY DEF Inv
    <3>5. time <= e.confirm
      BY <3>1, <3>3, <3>4
    <3>6. e.confirm = snapshotTime'
      BY <3>2, <3>3, <3>5
    <3> QED
      BY <3>6 DEF e
  <2>3. CASE ReplayStep
    <3>1. PICK time \in ReplayTimes :
             /\ \A seen \in {t \in TrueEventTimes : t > snapshotTime} : time <= seen
             /\ BuildAsOf(time)
      BY <2>3 DEF ReplayStep
    <3>2. time \in Nat
      BY HistoryAssumption
    <3> HIDE DEF e
    <3>3. /\ snapshotTime < e.confirm /\ e.confirm <= time /\ snapshotTime' = time /\ e.confirm \in Nat
          /\ e.confirm \in TrueEventTimes
      BY <2>1, <3>1, <3>2
    <3>4. snapshotTime \in Int
      BY DEF Inv
    <3>5. time <= e.confirm
      BY <3>1, <3>3, <3>4
    <3>6. e.confirm = snapshotTime'
      BY <3>2, <3>3, <3>5
    <3> QED
      BY <3>6 DEF e
  <2>4. ~AsOfStep
    BY DEF AsOfStep
  <2> QED
    BY <2>2, <2>3, <2>4 DEF HistoryNext
<1> QED
  BY <1>1, SnapshotsAreStateless, PTL DEF HistorySpec, FirstSeenAtConfirm

-----------------------------------------------------------------------------
(* What a snapshot does not depend on *)

(* Sources that agree on the causal prefix, and end it at the same bar,    *)
(* are the same to the engine.                                             *)
LEMMA SamePrefixSameStates ==
    ASSUME NEW a \in Seq(Bar), NEW b \in Seq(Bar), NEW time \in Int,
           PrefixLength(a, time) <= Len(b),
           \A i \in 1 .. PrefixLength(a, time) : a[i] = b[i],
           PrefixLength(a, time) < Len(b) =>
              ~VisibleAt(b[PrefixLength(a, time) + 1], time)
    PROVE  BuildStates(b, time) = BuildStates(a, time)
<1> DEFINE n == PrefixLength(a, time)
<1>1. n \in 0 .. Len(a) /\ \A i \in 1 .. n : VisibleAt(a[i], time)
  BY PrefixExists
<1>0. Len(a) \in Nat /\ Len(b) \in Nat
  OBVIOUS
<1> HIDE DEF n
<1>2. n \in 0 .. Len(b)
  BY <1>0, <1>1 DEF n
<1>3. PrefixLength(b, time) = n
  <2>1. \A i \in 1 .. n : VisibleAt(b[i], time)
    BY <1>1 DEF n
  <2>2. n < Len(b) => ~VisibleAt(b[n + 1], time)
    BY DEF n
  <2> QED
    BY <1>2, <2>1, <2>2, PrefixIsUnique
<1>4. CausalPrefix(b, time) = CausalPrefix(a, time)
  <2>1. /\ CausalPrefix(a, time) = SubSeq(a, 1, n)
        /\ CausalPrefix(b, time) = SubSeq(b, 1, n)
    BY <1>3 DEF CausalPrefix, n
  <2>2. /\ SubSeq(a, 1, n) \in Seq(Bar) /\ SubSeq(b, 1, n) \in Seq(Bar)
        /\ Len(SubSeq(a, 1, n)) = n /\ Len(SubSeq(b, 1, n)) = n
        /\ \A i \in 1 .. n : SubSeq(a, 1, n)[i] = a[i] /\ SubSeq(b, 1, n)[i] = b[i]
    BY <1>0, <1>1, <1>2, CutFacts
  <2>3. \A i \in 1 .. n : a[i] = b[i]
    BY DEF n
  <2> DEFINE p == SubSeq(a, 1, n)
             q == SubSeq(b, 1, n)
  <2>4. /\ p \in Seq(Bar) /\ q \in Seq(Bar) /\ Len(p) = n /\ Len(q) = n
        /\ \A i \in 1 .. n : p[i] = q[i]
    BY <2>2, <2>3
  <2> HIDE DEF p, q
  <2>5. p = q
    BY <2>4
  <2> QED
    BY <2>1, <2>5 DEF p, q
<1> QED
  BY <1>4 DEF BuildStates

(* Bars a processing time cannot see may be changed, delayed further or    *)
(* cut off: the snapshot stays the same.                                   *)
THEOREM FutureNeverMatters == HistorySpec => []FutureDoesNotMatter
<1>1. Inv => FutureDoesNotMatter
  <2> SUFFICES ASSUME Inv, NEW hidden \in DOMAIN source, ~VisibleAt(source[hidden], snapshotTime)
               PROVE  /\ BuildStates(SubSeq(source, 1, hidden), snapshotTime) = states
                      /\ \A bar \in BarUniverse :
                            ~VisibleAt(bar, snapshotTime)
                            => BuildStates([source EXCEPT ![hidden] = bar], snapshotTime) = states
    BY DEF FutureDoesNotMatter
  <2> DEFINE n == PrefixLength(source, snapshotTime)
  <2>1. source \in Seq(Bar) /\ snapshotTime \in Int /\ states = BuildStates(source, snapshotTime)
    BY SourceFacts DEF Inv
  <2>2. /\ n \in 0 .. Len(source) /\ Len(source) \in Nat /\ hidden \in 1 .. Len(source)
        /\ \A i \in 1 .. n : VisibleAt(source[i], snapshotTime)
        /\ n < Len(source) => ~VisibleAt(source[n + 1], snapshotTime)
    <3>1. Len(source) \in Nat /\ hidden \in 1 .. Len(source)
      BY <2>1
    <3>2. /\ n \in 0 .. Len(source)
          /\ \A i \in 1 .. n : VisibleAt(source[i], snapshotTime)
          /\ n < Len(source) => ~VisibleAt(source[n + 1], snapshotTime)
      BY <2>1, PrefixExists
    <3> QED
      BY <3>1, <3>2
  <2> HIDE DEF n
  <2>3. n < hidden
    BY <2>2
  <2>4. BuildStates(SubSeq(source, 1, hidden), snapshotTime) = states
    <3> DEFINE cut == SubSeq(source, 1, hidden)
    <3>1. /\ cut \in Seq(Bar) /\ Len(cut) = hidden
          /\ \A i \in 1 .. hidden : cut[i] = source[i]
      BY <2>1, <2>2, CutFacts
    <3> HIDE DEF cut
    <3>2. n <= Len(cut) /\ \A i \in 1 .. n : source[i] = cut[i]
      BY <2>2, <2>3, <3>1
    <3>3. n < Len(cut) => ~VisibleAt(cut[n + 1], snapshotTime)
      <4>1. n + 1 \in 1 .. hidden /\ n < Len(source)
        BY <2>2, <2>3
      <4>2. cut[n + 1] = source[n + 1]
        BY <3>1, <4>1
      <4> QED
        BY <2>2, <4>1, <4>2
    <3>4. BuildStates(cut, snapshotTime) = BuildStates(source, snapshotTime)
      BY <2>1, <3>1, <3>2, <3>3, SamePrefixSameStates DEF n
    <3> QED
      BY <2>1, <3>4 DEF cut
  <2>5. ASSUME NEW bar \in BarUniverse, ~VisibleAt(bar, snapshotTime)
        PROVE  BuildStates([source EXCEPT ![hidden] = bar], snapshotTime) = states
    <3> DEFINE other == [source EXCEPT ![hidden] = bar]
    <3>1. bar \in Bar
      BY HistoryAssumption
    <3>2. /\ other \in Seq(Bar) /\ Len(other) = Len(source) /\ other[hidden] = bar
          /\ \A i \in 1 .. Len(source) : i # hidden => other[i] = source[i]
      BY <2>1, <2>2, <3>1
    <3> HIDE DEF other
    <3>3. n <= Len(other) /\ \A i \in 1 .. n : source[i] = other[i]
      BY <2>2, <2>3, <3>2
    <3>4. n < Len(other) => ~VisibleAt(other[n + 1], snapshotTime)
      <4>1. CASE n + 1 = hidden
        BY <2>5, <3>2, <4>1
      <4>2. CASE n + 1 # hidden
        <5>1. n + 1 \in 1 .. Len(source) /\ n < Len(source)
          BY <2>2, <2>3
        <5>2. other[n + 1] = source[n + 1]
          BY <3>2, <4>2, <5>1
        <5> QED
          BY <2>2, <5>1, <5>2
      <4> QED
        BY <4>1, <4>2
    <3>5. BuildStates(other, snapshotTime) = BuildStates(source, snapshotTime)
      BY <2>1, <3>2, <3>3, <3>4, SamePrefixSameStates DEF n
    <3> QED
      BY <2>1, <3>5 DEF other
  <2> QED
    BY <2>4, <2>5
<1> QED
  BY <1>1, SnapshotsAreStateless, PTL

-----------------------------------------------------------------------------
(* Merging the subjects' ledgers *)

(* Counting along ascending positions.                                     *)
LEMMA CountAscending ==
    ASSUME NEW n \in Nat, NEW f, DOMAIN f = 1 .. n, f = [i \in 1 .. n |-> f[i]],
           \A i \in 1 .. n : f[i] \in Int,
           \A i, j \in 1 .. n : i < j => f[i] < f[j]
    PROVE  Cardinality({f[i] : i \in 1 .. n}) = n
<1> DEFINE T == {f[i] : i \in 1 .. n}
<1>1. f \in Bijection(1 .. n, T)
  <2>1. f \in [1 .. n -> T]
    OBVIOUS
  <2>2. \A i, j \in 1 .. n : f[i] = f[j] => i = j
    <3> SUFFICES ASSUME NEW i \in 1 .. n, NEW j \in 1 .. n, f[i] = f[j] PROVE i = j
      OBVIOUS
    <3>1. f[i] \in Int /\ f[j] \in Int /\ ~(f[i] < f[j]) /\ ~(f[j] < f[i])
      OBVIOUS
    <3>2. ~(i < j) /\ ~(j < i)
      BY <3>1
    <3> QED
      BY <3>2
  <2>3. \A t \in T : \E i \in 1 .. n : f[i] = t
    OBVIOUS
  <2> HIDE DEF T
  <2> QED
    BY <2>1, <2>2, <2>3 DEF Bijection, Injection, IsInjective, Surjection
<1>2. IsFiniteSet(1 .. n) /\ Cardinality(1 .. n) = n
  <2>0. 1 \in Int /\ n \in Int
    OBVIOUS
  <2>1. /\ IsFiniteSet(1 .. n)
        /\ Cardinality(1 .. n) = IF 1 > n THEN 0 ELSE n - 1 + 1
    BY <2>0, FS_Interval
  <2> QED
    BY <2>1
<1> HIDE DEF T
<1>3. Cardinality(T) = n
  <2>1. ExistsBijection(1 .. n, T)
    BY <1>1 DEF ExistsBijection
  <2> QED
    BY <1>2, <2>1, FS_Bijection
<1> QED
  BY <1>3 DEF T

(* The merge loses none of a subject's events and keeps their order.       *)
THEOREM MergeNeverReorders == HistorySpec => []MergeKeepsSubjectOrder
<1>1. Inv => MergeKeepsSubjectOrder
  <2> SUFFICES ASSUME Inv, NEW s \in DOMAIN states
               PROVE  LET own == {k \in DOMAIN ledger : ledger[k].subject = s}
                      IN /\ Cardinality(own) = Len(states[s].events)
                         /\ \A k \in own :
                               ledger[k] = states[s].events[Cardinality({j \in own : j <= k})]
    BY DEF MergeKeepsSubjectOrder
  <2> DEFINE own == {k \in DOMAIN ledger : ledger[k].subject = s}
             S == Known(source, snapshotTime)
             L == Log(source, snapshotTime, s)
             n == Len(L)
             f == [i \in 1 .. n |-> Rank(S, L[i]) + 1]
  <2>1. source \in Seq(Bar) /\ IsSource(source) /\ snapshotTime \in Int
    BY SourceFacts DEF Inv
  <2>2. s \in Seen(snapshotTime) /\ states[s].events = L /\ ledger = Sorted(S)
    BY LedgerIsSorted DEF Inv
  <2>3. Sortable(S)
    BY <2>1, KnownIsSortable
  <2>4. /\ L \in Seq(Event) /\ n \in Nat /\ DOMAIN L = 1 .. n
        /\ \A i \in 1 .. n : L[i].subject = s
    <3>1. L \in Seq(Event) /\ \A i \in DOMAIN L : L[i].subject = s
      BY <2>1, <2>2, LogFacts DEF Seen
    <3> HIDE DEF L
    <3>2. Len(L) \in Nat /\ DOMAIN L = 1 .. Len(L)
      BY <3>1
    <3> QED
      BY <3>1, <3>2
  <2>5. \A i \in 1 .. n : L[i] \in S
    BY <2>2, <2>4 DEF Known, ToSet
  <2>6. \A e \in S : e.subject = s => \E i \in 1 .. n : L[i] = e
    BY <2>1, <2>4, KnownFacts
  <2>7. \A i, j \in 1 .. n : i < j => Precedes(L[i], L[j])
    BY <2>1, <2>2, <2>4, LogAscends
  <2> HIDE DEF S, L, n
  <2>8. /\ DOMAIN ledger = 1 .. Cardinality(S) /\ Cardinality(S) \in Nat
        /\ \A k \in 1 .. Cardinality(S) : ledger[k] \in S /\ Rank(S, ledger[k]) = k - 1
        /\ \A e \in S : /\ Rank(S, e) + 1 \in 1 .. Cardinality(S)
                        /\ ledger[Rank(S, e) + 1] = e /\ Rank(S, e) \in Nat
    <3>1. Cardinality(S) \in Nat /\ \A e \in S : Rank(S, e) \in 0 .. Cardinality(S) - 1
      BY <2>3, RankOrders
    <3>2. \A e \in S : Rank(S, e) \in Nat
      BY <3>1
    <3>3. /\ DOMAIN ledger = 1 .. Cardinality(S)
          /\ \A k \in 1 .. Cardinality(S) : ledger[k] \in S /\ Rank(S, ledger[k]) = k - 1
          /\ \A e \in S : /\ Rank(S, e) + 1 \in 1 .. Cardinality(S)
                          /\ ledger[Rank(S, e) + 1] = e
      BY <2>2, <2>3, SortedFacts
    <3> QED
      BY <3>1, <3>2, <3>3
  <2>9. /\ DOMAIN f = 1 .. n /\ f = [i \in 1 .. n |-> f[i]]
        /\ \A i \in 1 .. n : /\ f[i] = Rank(S, L[i]) + 1 /\ f[i] \in Int
                             /\ f[i] \in DOMAIN ledger /\ ledger[f[i]] = L[i]
    BY <2>5, <2>8
  <2>10. ASSUME NEW i \in 1 .. n, NEW j \in 1 .. n, i < j PROVE f[i] < f[j]
    <3>1. Rank(S, L[i]) < Rank(S, L[j])
      BY <2>3, <2>5, <2>7, <2>10, RankOrders
    <3>2. Rank(S, L[i]) \in Nat /\ Rank(S, L[j]) \in Nat
      BY <2>5, <2>8
    <3> QED
      BY <3>1, <3>2
  <2>11. own = {f[i] : i \in 1 .. n}
    <3>1. ASSUME NEW k \in own PROVE \E i \in 1 .. n : f[i] = k
      <4>1. ledger[k] \in S /\ ledger[k].subject = s /\ Rank(S, ledger[k]) = k - 1 /\ k \in Nat
        BY <2>8
      <4>2. PICK i \in 1 .. n : L[i] = ledger[k]
        BY <2>6, <4>1
      <4>3. f[i] = k
        BY <2>9, <4>1, <4>2
      <4> QED
        BY <4>3
    <3>2. ASSUME NEW i \in 1 .. n PROVE f[i] \in own
      BY <2>4, <2>9
    <3> HIDE DEF own, f
    <3> QED
      BY <3>1, <3>2
  <2> HIDE DEF own, f
  <2>12. Cardinality(own) = n
    BY <2>4, <2>9, <2>10, <2>11, CountAscending
  <2>13. ASSUME NEW k \in own
         PROVE  ledger[k] = L[Cardinality({j \in own : j <= k})]
    <3>1. PICK i \in 1 .. n : f[i] = k
      BY <2>11
    <3> DEFINE g == [j \in 1 .. i |-> f[j]]
    <3>2. /\ i \in Nat /\ DOMAIN g = 1 .. i /\ g = [j \in 1 .. i |-> g[j]]
          /\ \A j \in 1 .. i : j \in 1 .. n /\ g[j] = f[j]
      BY <2>4
    <3>3. {j \in own : j <= k} = {g[j] : j \in 1 .. i}
      <4> SUFFICES ASSUME NEW p
                   PROVE  p \in own /\ p <= k <=> \E j \in 1 .. i : p = g[j]
        OBVIOUS
      <4> HIDE DEF g
      <4>1. ASSUME p \in own, p <= k PROVE \E j \in 1 .. i : p = g[j]
        <5>1. PICK j \in 1 .. n : f[j] = p
          BY <2>11, <4>1
        <5>2. ~(i < j)
          BY <2>9, <2>10, <3>1, <4>1, <5>1
        <5>3. j \in 1 .. i
          BY <2>4, <5>2
        <5> QED
          BY <3>2, <5>1, <5>3
      <4>2. ASSUME NEW j \in 1 .. i, p = g[j] PROVE p \in own /\ p <= k
        <5>1. j \in 1 .. n /\ p = f[j] /\ (j = i \/ j < i)
          BY <3>2, <4>2
        <5>2. f[j] <= f[i]
          BY <2>9, <2>10, <5>1
        <5> QED
          BY <2>11, <3>1, <5>1, <5>2
      <4> QED
        BY <4>1, <4>2
    <3>4. /\ \A j \in 1 .. i : g[j] \in Int
          /\ \A j, m \in 1 .. i : j < m => g[j] < g[m]
      BY <2>9, <2>10, <3>2
    <3> HIDE DEF g
    <3>5. Cardinality({g[j] : j \in 1 .. i}) = i
      BY <3>2, <3>4, CountAscending
    <3> QED
      BY <2>9, <3>1, <3>3, <3>5
  <2> QED
    BY <2>2, <2>12, <2>13 DEF own, n
<1> QED
  BY <1>1, SnapshotsAreStateless, PTL
=============================================================================
