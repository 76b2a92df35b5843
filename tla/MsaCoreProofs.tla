---------------------------- MODULE MsaCoreProofs ----------------------------
(***************************************************************************)
(* Theorems about MsaCore, for every input, scoring configuration and      *)
(* schedule.                                                               *)
(***************************************************************************)
EXTENDS MsaCore, SharedProofs, FiniteSetTheorems

-----------------------------------------------------------------------------
(* Zones lie apart *)

(* A subject lies below another by more than the tolerance.                *)
Below(a, b) == LowOf[b] - HighOf[a] > Scoring.tolerance

LEMMA SubjectFacts ==
    ASSUME NEW s \in Subject
    PROVE  /\ LowOf[s] \in Nat /\ HighOf[s] \in Nat /\ LowOf[s] <= HighOf[s]
           /\ Scoring.tolerance \in Nat
  BY SubjectAssumption, ScoringAssumption DEF ConfigAccepts, Positive

LEMMA GapCases ==
    ASSUME NEW left, left.low \in Nat, left.high \in Nat, left.low <= left.high,
           NEW right, right.low \in Nat, right.high \in Nat, right.low <= right.high
    PROVE  RangeGap(left, right) =
              IF left.high < right.low THEN right.low - left.high
              ELSE IF right.high < left.low THEN left.low - right.high ELSE 0
  BY DEF RangeGap

(* Two subjects are near, or one is below the other.                       *)
LEMMA NearOrBelow ==
    ASSUME NEW a \in Subject, NEW b \in Subject
    PROVE  /\ Near(a, b) <=> ~Below(a, b) /\ ~Below(b, a)
           /\ ~(Below(a, b) /\ Below(b, a))
<1> DEFINE p == LowOf[a]  q == HighOf[a]  r == LowOf[b]  s == HighOf[b]  t == Scoring.tolerance
<1>1. p \in Nat /\ q \in Nat /\ p <= q /\ r \in Nat /\ s \in Nat /\ r <= s /\ t \in Nat
  BY SubjectFacts
<1>2. RangeGap([low |-> p, high |-> q], [low |-> r, high |-> s]) =
         IF q < r THEN r - q ELSE IF s < p THEN p - s ELSE 0
  <2> DEFINE left == [low |-> p, high |-> q]
             right == [low |-> r, high |-> s]
  <2>1. left.low = p /\ left.high = q /\ right.low = r /\ right.high = s
    OBVIOUS
  <2> HIDE DEF p, q, r, s, left, right
  <2>2. RangeGap(left, right) =
           IF left.high < right.low THEN right.low - left.high
           ELSE IF right.high < left.low THEN left.low - right.high ELSE 0
    BY <1>1, <2>1, GapCases
  <2> QED
    BY <2>1, <2>2 DEF left, right
<1>3. Near(a, b) <=> (IF q < r THEN r - q ELSE IF s < p THEN p - s ELSE 0) <= t
  BY <1>2 DEF Near
<1>4. (Below(a, b) <=> r - q > t) /\ (Below(b, a) <=> p - s > t)
  BY DEF Below
<1> HIDE DEF p, q, r, s, t
<1> QED
  BY <1>1, <1>3, <1>4

(* What is near to one below is not above.                                 *)
LEMMA NothingBetween ==
    ASSUME NEW a \in Subject, NEW b \in Subject, NEW c \in Subject, Below(a, b), Below(b, c)
    PROVE  ~Near(a, c) /\ ~Near(c, a)
<1>1. Below(a, c)
  BY SubjectFacts DEF Below
<1> QED
  BY <1>1, NearOrBelow

(* The price components are the single linkage of nearness.                *)
LEMMA NearBlocksAreLinked ==
    ASSUME NEW S \in SUBSET Subject
    PROVE  IsSingleLinkage(NearBlocks(S), S, NearPairs(S))
<1>1. ASSUME NEW a \in S, NEW b \in S PROVE <<a, b>> \in NearPairs(S) <=> Near(a, b)
  BY DEF NearPairs
<1>2. ASSUME NEW a \in S, NEW b \in S PROVE Near(a, b) <=> Near(b, a)
  BY NearOrBelow
<1>3. NearPairs(S) \subseteq S \X S
  BY DEF NearPairs
<1>4. IsGraph(S, NearPairs(S))
  BY <1>1, <1>2, <1>3 DEF IsGraph
<1>5. SubjectCount \in Nat /\ S \in SUBSET (1 .. SubjectCount)
  BY SubjectAssumption DEF Subject
<1> QED
  BY <1>4, <1>5, ComponentsAreSingleLinkage DEF NearBlocks

(* A subject outside a component has all of it on one side.                *)
LEMMA OneSideOf ==
    ASSUME NEW S \in SUBSET Subject, NEW A \in NearBlocks(S), NEW B \in NearBlocks(S), A # B,
           NEW b \in B
    PROVE  (\A a \in A : Below(a, b)) \/ (\A a \in A : Below(b, a))
<1>1. /\ UNION NearBlocks(S) = S
      /\ \A x \in A, y \in B : <<x, y>> \notin NearPairs(S)
      /\ \A part \in (SUBSET A) \ {{}, A} : \E x \in part, y \in A \ part : <<x, y>> \in NearPairs(S)
  BY NearBlocksAreLinked DEF IsSingleLinkage
<1>2. A \subseteq S /\ B \subseteq S /\ A \subseteq Subject /\ B \subseteq Subject
  BY <1>1
<1>3. ASSUME NEW a \in A, ~Below(a, b) PROVE Below(b, a)
  <2>1. <<a, b>> \in S \X S /\ <<a, b>> \notin NearPairs(S)
    BY <1>1, <1>2
  <2>2. ~Near(a, b)
    BY <2>1 DEF NearPairs
  <2> QED
    BY <1>2, <1>3, <2>2, NearOrBelow
<1> DEFINE part == {a \in A : Below(a, b)}
<1>4. CASE part = {}
  BY <1>3, <1>4
<1>5. CASE part = A
  BY <1>5
<1>6. CASE part # {} /\ part # A
  <2>1. part \in (SUBSET A) \ {{}, A}
    BY <1>6
  <2>2. PICK x \in part, y \in A \ part : <<x, y>> \in NearPairs(S)
    <3> HIDE DEF part
    <3> QED
      BY <1>1, <2>1
  <2>3. Below(x, b) /\ Below(b, y) /\ Near(x, y)
    BY <1>3, <2>2 DEF NearPairs
  <2> QED
    BY <1>2, <2>2, <2>3, NothingBetween
<1> QED
  BY <1>4, <1>5, <1>6

(* Of two components one lies below the other.                             *)
LEMMA OneBelowTheOther ==
    ASSUME NEW S \in SUBSET Subject, NEW A \in NearBlocks(S), NEW B \in NearBlocks(S), A # B
    PROVE  (\A a \in A, b \in B : Below(a, b)) \/ (\A a \in A, b \in B : Below(b, a))
<1>1. UNION NearBlocks(S) = S /\ {} \notin NearBlocks(S)
  BY NearBlocksAreLinked DEF IsSingleLinkage
<1>2. A \subseteq Subject /\ B \subseteq Subject
  BY <1>1
<1>3. PICK first \in B : TRUE
  BY <1>1
<1>4. CASE \A a \in A : Below(a, first)
  <2>1. ASSUME NEW a \in A PROVE \A b \in B : Below(a, b)
    <3>1. (\A b \in B : Below(b, a)) \/ (\A b \in B : Below(a, b))
      BY OneSideOf
    <3>2. ~Below(first, a)
      BY <1>2, <1>3, <1>4, NearOrBelow
    <3> QED
      BY <1>3, <3>1, <3>2
  <2> QED
    BY <2>1
<1>5. CASE \A a \in A : Below(first, a)
  <2>1. ASSUME NEW a \in A PROVE \A b \in B : Below(b, a)
    <3>1. (\A b \in B : Below(b, a)) \/ (\A b \in B : Below(a, b))
      BY OneSideOf
    <3>2. ~Below(a, first)
      BY <1>2, <1>3, <1>5, NearOrBelow
    <3> QED
      BY <1>3, <3>1, <3>2
  <2> QED
    BY <2>1
<1> QED
  BY <1>4, <1>5, <1>3, OneSideOf

(* The hull of members that lie below others ends below where theirs       *)
(* begins.                                                                 *)
LEMMA HullsBelow ==
    ASSUME NEW A \in (SUBSET Subject) \ {{}}, NEW B \in (SUBSET Subject) \ {{}},
           \A a \in A, b \in B : Below(a, b)
    PROVE  Min({LowOf[s] : s \in B}) - Max({HighOf[s] : s \in A}) > Scoring.tolerance
<1> DEFINE lows == {LowOf[s] : s \in B}
           highs == {HighOf[s] : s \in A}
<1>1. lows \in SUBSET Nat /\ lows # {} /\ highs \in SUBSET Nat /\ highs # {}
  BY SubjectFacts
<1>2. PICK b \in B : LowOf[b] = Min(lows)
  <2>1. Min(lows) \in lows
    <3> HIDE DEF lows, highs
    <3> QED
      BY <1>1, MinFacts
  <2> QED
    BY <2>1
<1>3. LowOf[b] \in Nat /\ \A h \in highs : h <= LowOf[b]
  BY SubjectFacts DEF Below
<1>4. PICK a \in A : HighOf[a] = Max(highs)
  <2>1. Max(highs) \in highs
    <3> HIDE DEF lows, highs
    <3> QED
      BY <1>1, <1>3, MaxFacts
  <2> QED
    BY <2>1
<1> QED
  BY <1>2, <1>4 DEF Below

(* The zone keys of a frame: the selector finds the zones of each side     *)
(* separated.                                                              *)
LEMMA KeysAreSeparated ==
    ASSUME NEW frame, \A e \in frame.evidence : e.subject \in Subject
    PROVE  Selector!Separated(KeysOf(frame))
<1> SUFFICES ASSUME NEW j \in KeysOf(frame), NEW k \in KeysOf(frame), j # k, Sides[j] = Sides[k]
             PROVE  Selector!Apart(j, k)
  BY DEF Selector!Separated
<1>1. ASSUME NEW side PROVE SubjectsOn(frame, side) \in SUBSET Subject
  BY DEF SubjectsOn
<1>2. ASSUME NEW key \in KeysOf(frame)
      PROVE  /\ key \in ZoneKeys /\ Sides[key] = key.side
             /\ key = [side |-> key.side, members |-> key.members]
             /\ key.members \in NearBlocks(SubjectsOn(frame, key.side))
             /\ key.members \in (SUBSET Subject) \ {{}}
             /\ ZoneLow[key] = Min({LowOf[s] : s \in key.members})
             /\ ZoneHigh[key] = Max({HighOf[s] : s \in key.members})
  <2>0. PICK side \in {"UPPER", "LOWER"} :
            \E block \in NearBlocks(SubjectsOn(frame, side)) : key = [side |-> side, members |-> block]
    BY DEF KeysOf
  <2>1. PICK block \in NearBlocks(SubjectsOn(frame, side)) : key = [side |-> side, members |-> block]
    BY <2>0
  <2>2. block \in (SUBSET Subject) \ {{}}
    <3>1. UNION NearBlocks(SubjectsOn(frame, side)) = SubjectsOn(frame, side)
          /\ {} \notin NearBlocks(SubjectsOn(frame, side))
      BY <1>1, NearBlocksAreLinked DEF IsSingleLinkage
    <3> QED
      BY <1>1, <3>1
  <2>3. key \in ZoneKeys
    BY <2>1, <2>2 DEF ZoneKeys
  <2>4. Sides[key] = key.side
    BY <2>3 DEF Sides
  <2>5. ZoneLow[key] = Min({LowOf[s] : s \in key.members})
        /\ ZoneHigh[key] = Max({HighOf[s] : s \in key.members})
    BY <2>3 DEF ZoneLow, ZoneHigh
  <2> QED
    BY <2>1, <2>2, <2>3, <2>4, <2>5
<1>3. j.side = k.side /\ j.members # k.members
  BY <1>2
<1>4. \/ \A a \in j.members, b \in k.members : Below(a, b)
      \/ \A a \in j.members, b \in k.members : Below(b, a)
  <2>1. SubjectsOn(frame, j.side) \in SUBSET Subject
    BY <1>1
  <2> QED
    BY <1>2, <1>3, <2>1, OneBelowTheOther
<1>5. \/ ZoneLow[k] - ZoneHigh[j] > Scoring.tolerance
      \/ ZoneLow[j] - ZoneHigh[k] > Scoring.tolerance
  BY <1>2, <1>4, HullsBelow
<1> QED
  BY <1>5 DEF Selector!Apart

-----------------------------------------------------------------------------
(* Times in order *)

(* In a finite set of numbers there is one with any smaller number of the  *)
(* set's elements below it.                                                *)
LEMMA RanksAreTaken ==
    ASSUME NEW S \in SUBSET Nat, IsFiniteSet(S)
    PROVE  \A k \in Nat : k < Cardinality(S) => \E t \in S : Cardinality({u \in S : u < t}) = k
<1> DEFINE below(t) == {u \in S : u < t}
           ranked(k) == \E t \in S : Cardinality(below(t)) = k
           T == {k \in Nat : k < Cardinality(S) => ranked(k)}
<1>0. Cardinality(S) \in Nat /\ \A t \in S : IsFiniteSet(below(t))
  BY FS_CardinalityType, FS_Subset
<1>1. 0 \in T
  <2>1. ASSUME 0 < Cardinality(S) PROVE ranked(0)
    <3>1. S # {}
      BY <2>1, FS_EmptySet
    <3>2. PICK t \in S : \A u \in S : t <= u
      BY <3>1, LeastExists
    <3>3. below(t) = {}
      <4>1. \A u \in S : u \in Nat /\ t \in Nat /\ ~(u < t)
        BY <3>2
      <4> QED
        BY <4>1
    <3> QED
      BY <3>2, <3>3, FS_EmptySet
  <2> QED
    BY <2>1
<1>2. ASSUME NEW k \in Nat, k \in T PROVE k + 1 \in T
  <2>1. ASSUME k + 1 < Cardinality(S) PROVE ranked(k + 1)
    <3>1. PICK t \in S : Cardinality(below(t)) = k
      BY <1>0, <1>2, <2>1
    <3> DEFINE above == {u \in S : t < u}
               upTo == below(t) \cup {t}
    <3>2. t \notin below(t) /\ Cardinality(upTo) = k + 1
      <4>1. t \notin below(t)
        OBVIOUS
      <4> HIDE DEF below
      <4> QED
        BY <1>0, <3>1, <4>1, FS_AddElement
    <3>3. above # {}
      <4>1. SUFFICES ASSUME above = {} PROVE FALSE
        OBVIOUS
      <4>2. ASSUME NEW u \in S PROVE u \in upTo
        <5>1. u \in Nat /\ t \in Nat /\ ~(t < u)
          BY <4>1
        <5> QED
          BY <5>1
      <4>3. upTo = S
        BY <4>2
      <4> QED
        BY <1>0, <2>1, <3>2, <4>3
    <3>4. PICK next \in above : \A u \in above : next <= u
      <4>1. above \in SUBSET Nat
        OBVIOUS
      <4> HIDE DEF above
      <4> QED
        BY <3>3, <4>1, LeastExists
    <3>5. below(next) = upTo
      <4>1. ASSUME NEW u \in below(next) PROVE u \in upTo
        <5>1. u \in Nat /\ t \in Nat /\ next \in Nat /\ u \in S /\ u < next
          OBVIOUS
        <5>2. ~(t < u)
          BY <3>4, <5>1
        <5> QED
          BY <5>1, <5>2
      <4>2. ASSUME NEW u \in upTo PROVE u \in below(next)
        <5>1. u \in Nat /\ t \in Nat /\ next \in Nat /\ u \in S /\ t < next /\ u <= t
          OBVIOUS
        <5> QED
          BY <5>1
      <4> QED
        BY <4>1, <4>2
    <3>6. next \in S
      OBVIOUS
    <3> HIDE DEF below, upTo, above
    <3> QED
      BY <3>2, <3>5, <3>6
  <2> HIDE DEF ranked
  <2> QED
    BY <1>0, <2>1
<1> HIDE DEF T
<1>3. Nat \subseteq T
  BY <1>1, <1>2, NatSetInduction
<1> QED
  BY <1>3 DEF T

(* The times in order are those times.                                     *)
LEMMA InOrderTyped ==
    ASSUME NEW S \in SUBSET Nat, IsFiniteSet(S)
    PROVE  \A k \in DOMAIN InOrder(S) : InOrder(S)[k] \in S
<1>1. Cardinality(S) \in Nat
  BY FS_CardinalityType
<1>2. ASSUME NEW k \in 1 .. Cardinality(S) PROVE InOrder(S)[k] \in S
  <2>1. k - 1 \in Nat /\ k - 1 < Cardinality(S)
    BY <1>1
  <2>2. \E t \in S : Cardinality({u \in S : u < t}) = k - 1
    BY <2>1, RanksAreTaken
  <2>3. InOrder(S)[k] = CHOOSE t \in S : Cardinality({u \in S : u < t}) = k - 1
    BY DEF InOrder
  <2> QED
    BY <2>2, <2>3
<1>3. DOMAIN InOrder(S) = 1 .. Cardinality(S)
  BY DEF InOrder
<1> QED
  BY <1>2, <1>3

-----------------------------------------------------------------------------
(* Frames *)

EvidenceTyped(e) ==
    /\ e.subject \in Subject /\ e.side \in {"UPPER", "LOWER"}
    /\ e.tier \in {"CANDIDATE", "CONFIRMED"} /\ e.context \in Context
    /\ e.direction \in Direction /\ e.state \in Effective
    /\ e.confirm \in Nat /\ e.touches \in Nat

FrameTyped(frame) ==
    /\ frame.asOf \in Nat /\ frame.bar.close \in Nat
    /\ \A e \in frame.evidence : EvidenceTyped(e)

(* The snapshot and the bar of a frame are of the input.                   *)
LEMMA SnapshotIsThere ==
    ASSUME NEW data, InputTyped(data), NEW time \in Nat, VisibleSnapshots(data, time) # {}
    PROVE  SnapshotTime(data, time) \in DOMAIN data.lifecycle
<1>1. VisibleSnapshots(data, time) \in SUBSET Nat
      /\ \A t \in VisibleSnapshots(data, time) : t <= time
  BY DEF VisibleSnapshots, InputTyped
<1>2. Max(VisibleSnapshots(data, time)) \in VisibleSnapshots(data, time)
  BY <1>1, MaxFacts
<1> QED
  BY <1>2 DEF SnapshotTime, VisibleSnapshots

LEMMA BarIsThere ==
    ASSUME NEW data, InputTyped(data), NEW time \in Nat, VisibleBars(data, time) # {}
    PROVE  ReferenceBar(data, time) \in data.bars
<1> DEFINE visible == VisibleBars(data, time)
           availables == {bar.available : bar \in visible}
           last == {bar \in visible : bar.available = Max(availables)}
           stamp == [bar \in last |-> bar.timestamp]
           stamps == {stamp[bar] : bar \in last}
<1>1. /\ visible \subseteq data.bars /\ IsFiniteSet(visible)
      /\ \A bar \in visible : bar.available \in Nat /\ bar.timestamp \in Nat /\ bar.available <= time
  <2>1. visible \subseteq data.bars /\ \A bar \in visible : bar.available <= time
    BY DEF VisibleBars
  <2>2. IsFiniteSet(visible)
    BY <2>1, FS_Subset DEF InputTyped
  <2> QED
    BY <2>1, <2>2 DEF InputTyped
<1>2. availables \in SUBSET Nat /\ availables # {} /\ \A a \in availables : a <= time
  BY <1>1
<1>3. Max(availables) \in availables /\ \A a \in availables : a <= Max(availables)
  <2> HIDE DEF availables
  <2> QED
    BY <1>2, MaxFacts
<1>4. last # {} /\ IsFiniteSet(last)
  <2>1. last # {}
    BY <1>3
  <2>2. IsFiniteSet(last)
    BY <1>1, FS_Subset
  <2> QED
    BY <2>1, <2>2
<1>5. stamps \in SUBSET Nat /\ stamps # {}
  BY <1>1, <1>4
<1>6. IsFiniteSet(stamps)
  <2> HIDE DEF stamp, last
  <2> QED
    BY <1>4, FiniteImage
<1>7. Max(stamps) \in stamps /\ \A t \in stamps : t <= Max(stamps)
  <2> HIDE DEF stamps
  <2> QED
    BY <1>5, <1>6, MaxOfFinite
<1>8. PICK bar \in last : bar.timestamp = Max(stamps)
  BY <1>7
<1>9. ASSUME NEW other \in visible
      PROVE  \/ bar.available > other.available
             \/ bar.available = other.available /\ bar.timestamp >= other.timestamp
  <2>1. other.available \in availables /\ other.available \in Nat /\ Max(availables) \in Nat
    BY <1>1, <1>2, <1>3
  <2>2. other.available <= Max(availables) /\ bar.available = Max(availables)
    BY <1>3, <2>1
  <2>3. CASE other.available = Max(availables)
    <3>1. other \in last
      BY <2>3
    <3>2. other.timestamp \in stamps /\ bar.timestamp \in Nat /\ other.timestamp \in Nat
      BY <1>1, <3>1
    <3>3. other.timestamp <= bar.timestamp
      BY <1>7, <1>8, <3>2
    <3> QED
      BY <2>2, <2>3, <3>2, <3>3
  <2> HIDE DEF availables
  <2> QED
    BY <2>1, <2>2, <2>3
<1>10. bar \in visible
  OBVIOUS
<1>11. ReferenceBar(data, time) \in visible
  <2> HIDE DEF last
  <2> QED
    BY <1>9, <1>10 DEF ReferenceBar
<1> QED
  BY <1>1, <1>11

(* What a frame holds.                                                     *)
LEMMA FrameAtIs ==
    ASSUME NEW data, NEW time
    PROVE  LET snapshot == SnapshotTime(data, time)
               states == data.lifecycle[snapshot]
           IN /\ FrameAt(data, time).asOf = time
              /\ FrameAt(data, time).snapshot = snapshot
              /\ FrameAt(data, time).bar = ReferenceBar(data, time)
              /\ FrameAt(data, time).evidence =
                    {EvidenceOf(s, states[s], [c \in Context |-> data.directions[c][snapshot]][ContextOf[s]]) :
                        s \in {s \in Configured(states) : states[s].state \in Effective}}
  BY Zenon DEF FrameAt

LEMMA FrameAtTyped ==
    ASSUME NEW data, InputTyped(data), InputAccepts(data), NEW time \in Nat, Answerable(data, time)
    PROVE  FrameTyped(FrameAt(data, time))
<1> DEFINE snapshot == SnapshotTime(data, time)
           states == data.lifecycle[snapshot]
           direction(s) == [c \in Context |-> data.directions[c][snapshot]][ContextOf[s]]
<1>1. snapshot \in DOMAIN data.lifecycle /\ ReferenceBar(data, time) \in data.bars
  BY SnapshotIsThere, BarIsThere DEF Answerable
<1>2. \A c \in Context : data.directions[c][snapshot] \in Direction
  BY DEF Answerable, InputAccepts, InputTyped
<1>3. ASSUME NEW s \in Configured(states), states[s].state \in Effective
      PROVE  EvidenceTyped(EvidenceOf(s, states[s], direction(s)))
  <2>1. s \in Subject /\ states[s].confirm \in Nat /\ states[s].touches \in Nat /\ ContextOf[s] \in Context
    BY <1>1 DEF Configured, InputTyped
  <2>2. direction(s) \in Direction
    BY <1>2, <2>1
  <2>3. EffectiveSide(s, states[s].state) \in {"UPPER", "LOWER"}
    BY <2>1, SubjectAssumption DEF EffectiveSide, Opposite
  <2> HIDE DEF states, direction
  <2> QED
    BY <1>3, <2>1, <2>2, <2>3 DEF EvidenceOf, EvidenceTyped
<1>4. \A e \in FrameAt(data, time).evidence :
         \E s \in Configured(states) : states[s].state \in Effective
                                       /\ e = EvidenceOf(s, states[s], direction(s))
  <2>1. FrameAt(data, time).evidence =
            {EvidenceOf(s, states[s], direction(s)) :
                s \in {s \in Configured(states) : states[s].state \in Effective}}
    BY FrameAtIs
  <2> HIDE DEF states, direction
  <2> QED
    BY <2>1
<1>5. \A e \in FrameAt(data, time).evidence : EvidenceTyped(e)
  <2> HIDE DEF states, direction
  <2> QED
    BY <1>3, <1>4
<1>6. FrameAt(data, time).asOf = time /\ FrameAt(data, time).bar.close \in Nat
  BY <1>1, FrameAtIs DEF InputTyped
<1> QED
  BY <1>5, <1>6 DEF FrameTyped

-----------------------------------------------------------------------------
(* What evidence contributes *)

LEMMA ProductGrows ==
    ASSUME NEW a \in Nat, NEW b \in Nat, a <= b, NEW c \in Nat
    PROVE  a * c \in Nat /\ b * c \in Nat /\ a * c <= b * c
<1>1. PICK d \in Nat : b = a + d
  <2>1. b - a \in Nat /\ b = a + (b - a)
    OBVIOUS
  <2> QED
    BY <2>1
<1>2. a * c \in Nat /\ d * c \in Nat /\ b * c = a * c + d * c
  BY <1>1
<1> QED
  BY <1>2

LEMMA LargerFacts ==
    ASSUME NEW a \in Int, NEW b \in Int
    PROVE  /\ Larger(a, b) \in Int /\ Larger(a, b) >= a /\ Larger(a, b) >= b
           /\ Smaller(a, b) \in Int /\ Smaller(a, b) \in {a, b} /\ Larger(a, b) \in {a, b}
  BY DEF Larger, Smaller

(* Evidence contributes less as it grows older.                            *)
LEMMA ContributionFades ==
    ASSUME NEW e, EvidenceTyped(e), NEW early \in Nat, NEW late \in Nat, early <= late
    PROVE  /\ RawContribution(e, early) \in Nat /\ RawContribution(e, late) \in Nat
           /\ RawContribution(e, late) <= RawContribution(e, early)
<1> DEFINE weight == Scoring.contextWeight[e.context] * Scoring.tierWeight[e.tier]
                        * Scoring.lifecycleWeight[e.state]
           fresh(t) == Freshness(t - e.confirm)
           touch == TouchFactor(e)
           factor == Scoring.directionFactor[Relation(e.side, e.direction)]
<1>1. weight \in Nat
  <2>1. /\ Scoring.contextWeight[e.context] \in Nat /\ Scoring.tierWeight[e.tier] \in Nat
        /\ Scoring.lifecycleWeight[e.state] \in Nat
    BY ScoringAssumption DEF ConfigAccepts, EvidenceTyped, Positive
  <2>2. Scoring.contextWeight[e.context] * Scoring.tierWeight[e.tier] \in Nat
    BY <2>1, ProductGrows
  <2> QED
    BY <2>1, <2>2, ProductGrows
<1>2. fresh(early) \in Nat /\ fresh(late) \in Nat /\ fresh(late) <= fresh(early)
  <2>1. /\ Scoring.freshnessFloor \in Nat /\ Scoring.freshnessHorizon \in Nat /\ e.confirm \in Nat
    BY ScoringAssumption DEF ConfigAccepts, EvidenceTyped, Positive
  <2>2. Scoring.freshnessHorizon - (late - e.confirm) <= Scoring.freshnessHorizon - (early - e.confirm)
    BY <2>1
  <2> QED
    BY <2>1, <2>2 DEF Freshness, Larger
<1>3. touch \in Nat
  <2>1. ExtraTouches(e) \in Nat
    BY DEF ExtraTouches, Larger, EvidenceTyped
  <2>2. Scoring.touchFloor \in Nat /\ Scoring.touchUnit \in Nat /\ Scoring.touchPenalty \in Nat
    BY ScoringAssumption DEF ConfigAccepts, Positive
  <2>3. ExtraTouches(e) * Scoring.touchPenalty \in Nat
    BY <2>1, <2>2, ProductGrows
  <2> QED
    BY <2>2, <2>3 DEF TouchFactor, Larger
<1>4. factor \in Nat
  <2>1. Relation(e.side, e.direction) \in Relations
    <3>1. e.direction \in {"UP", "DOWN", "RANGE", "TURNING", "UNKNOWN"}
      BY DEF EvidenceTyped, Direction
    <3> QED
      BY <3>1 DEF Relation, Relations
  <2> QED
    BY <2>1, ScoringAssumption DEF ConfigAccepts
<1>5. ASSUME NEW t PROVE RawContribution(e, t) = weight * fresh(t) * touch * factor
  BY DEF RawContribution
<1> HIDE DEF weight, fresh, touch, factor
<1>6. weight * fresh(late) \in Nat /\ weight * fresh(early) \in Nat
      /\ weight * fresh(late) <= weight * fresh(early)
  <2>1. /\ fresh(late) * weight \in Nat /\ fresh(early) * weight \in Nat
        /\ fresh(late) * weight <= fresh(early) * weight
    BY <1>1, <1>2, ProductGrows
  <2>2. fresh(late) * weight = weight * fresh(late) /\ fresh(early) * weight = weight * fresh(early)
    BY <1>1, <1>2
  <2> QED
    BY <2>1, <2>2
<1>7. weight * fresh(late) * touch \in Nat /\ weight * fresh(early) * touch \in Nat
      /\ weight * fresh(late) * touch <= weight * fresh(early) * touch
  BY <1>3, <1>6, ProductGrows
<1>8. weight * fresh(late) * touch * factor \in Nat /\ weight * fresh(early) * touch * factor \in Nat
      /\ weight * fresh(late) * touch * factor <= weight * fresh(early) * touch * factor
  BY <1>4, <1>7, ProductGrows
<1> QED
  BY <1>5, <1>8

-----------------------------------------------------------------------------
(* What a dependency component adds *)

(* A component adds less when none of its members contributes more.        *)
LEMMA ComponentFades ==
    ASSUME NEW block, IsFiniteSet(block), block # {}, NEW low, NEW high,
           \A s \in block : low[s] \in Nat /\ high[s] \in Nat /\ low[s] <= high[s]
    PROVE  /\ DependencyComponent(block, low).adjusted \in Nat
           /\ DependencyComponent(block, high).adjusted \in Nat
           /\ DependencyComponent(block, low).adjusted <= DependencyComponent(block, high).adjusted
<1> DEFINE terms(raw) == [s \in block |-> raw[s]]
           primary(raw) == Max({raw[s] : s \in block})
           sum(raw) == SumFunction(terms(raw))
           k == Scoring.creditUnit - Scoring.repeatCredit
           r == Scoring.repeatCredit
<1>1. k \in Nat /\ r \in Nat /\ Scoring.creditUnit \in Nat /\ Scoring.creditUnit = k + r
  BY ScoringAssumption DEF ConfigAccepts, Positive
<1>2. ASSUME NEW raw, \A s \in block : raw[s] \in Nat
      PROVE  /\ primary(raw) \in Nat /\ (\E s \in block : primary(raw) = raw[s])
             /\ (\A s \in block : raw[s] <= primary(raw))
             /\ sum(raw) \in Nat /\ primary(raw) <= sum(raw)
             /\ DependencyComponent(block, raw).adjusted =
                   primary(raw) * Scoring.creditUnit + r * (sum(raw) - primary(raw))
  <2> DEFINE values == {raw[s] : s \in block}
  <2>1. values \in SUBSET Nat /\ values # {}
    BY <1>2
  <2>2. IsFiniteSet(values)
    BY FiniteImage
  <2>3. Max(values) \in values /\ \A y \in values : y <= Max(values)
    <3> HIDE DEF values
    <3> QED
      BY <2>1, <2>2, MaxOfFinite
  <2>4. /\ primary(raw) \in Nat /\ (\E s \in block : primary(raw) = raw[s])
        /\ (\A s \in block : raw[s] <= primary(raw))
    BY <2>1, <2>3
  <2>5. DOMAIN terms(raw) = block /\ \A s \in block : terms(raw)[s] \in Nat /\ terms(raw)[s] = raw[s]
    BY <1>2
  <2>6. sum(raw) \in Nat /\ \A s \in block : raw[s] <= sum(raw)
    <3> HIDE DEF terms
    <3>1. sum(raw) \in Nat
      BY <2>5, SumIsNat
    <3>2. ASSUME NEW s \in block PROVE raw[s] <= sum(raw)
      <4>1. terms(raw)[s] <= SumFunction(terms(raw))
        BY <2>5, SumHolds
      <4> QED
        BY <2>5, <4>1
    <3> QED
      BY <3>1, <3>2
  <2>7. DependencyComponent(block, raw).adjusted =
           primary(raw) * Scoring.creditUnit + r * (sum(raw) - primary(raw))
    BY Zenon DEF DependencyComponent
  <2>8. primary(raw) <= sum(raw)
    <3> HIDE DEF primary, sum
    <3> QED
      BY <2>4, <2>6
  <2> HIDE DEF primary, sum, r
  <2> QED
    BY <2>4, <2>6, <2>7, <2>8
<1>3. sum(low) <= sum(high)
  <2>1. /\ DOMAIN terms(low) = block /\ DOMAIN terms(high) = block
        /\ \A s \in block : terms(low)[s] \in Nat /\ terms(high)[s] \in Nat /\ terms(low)[s] <= terms(high)[s]
    OBVIOUS
  <2> HIDE DEF terms
  <2> QED
    BY <2>1, SumIsMonotonic
<1> HIDE DEF primary, sum, terms, k, r
<1>4. primary(low) <= primary(high)
  <2>1. PICK s \in block : primary(low) = low[s]
    BY <1>2
  <2>2. high[s] <= primary(high) /\ primary(high) \in Nat
    BY <1>2
  <2> QED
    BY <2>1, <2>2
<1>5. ASSUME NEW p \in Nat, NEW n \in Nat
      PROVE  p * Scoring.creditUnit + r * (n - p) = p * k + n * r
  <2>1. p * Scoring.creditUnit = p * k + p * r
    BY <1>1
  <2>2. r * (n - p) = n * r - p * r
    BY <1>1
  <2> QED
    BY <1>1, <2>1, <2>2
<1>6. /\ DependencyComponent(block, low).adjusted = primary(low) * k + sum(low) * r
      /\ DependencyComponent(block, high).adjusted = primary(high) * k + sum(high) * r
  BY <1>2, <1>5
<1>7. /\ primary(low) \in Nat /\ primary(high) \in Nat /\ sum(low) \in Nat /\ sum(high) \in Nat
  BY <1>2
<1>8. /\ primary(low) * k \in Nat /\ primary(high) * k \in Nat /\ primary(low) * k <= primary(high) * k
      /\ sum(low) * r \in Nat /\ sum(high) * r \in Nat /\ sum(low) * r <= sum(high) * r
  BY <1>1, <1>3, <1>4, <1>7, ProductGrows
<1> QED
  BY <1>6, <1>8

-----------------------------------------------------------------------------
(* What a zone scores *)

LEMMA BonusTyped ==
    ASSUME NEW n \in Nat, NEW per \in Nat, NEW cap \in Nat
    PROVE  Bonus(n, per, cap) \in Nat
<1>1. Larger(0, n - 1) \in Nat
  BY DEF Larger
<1>2. Larger(0, n - 1) * per \in Nat
  BY <1>1, ProductGrows
<1> QED
  BY <1>2 DEF Bonus, Smaller

LEMMA MembersFinite ==
    ASSUME NEW members \in SUBSET Subject
    PROVE  IsFiniteSet(members) /\ IsFiniteSet(ContextsOf(members)) /\ IsFiniteSet(SourceTypes(members))
<1>1. IsFiniteSet(members)
  <2>1. 1 \in Int /\ SubjectCount \in Int
    BY SubjectAssumption, SMT
  <2>2. IsFiniteSet(1 .. SubjectCount)
    BY <2>1, FS_Interval, Zenon
  <2>3. IsFiniteSet(Subject)
    BY <2>2 DEF Subject
  <2> QED
    BY <2>3, FS_Subset
<1>2. IsFiniteSet(ContextsOf(members))
  <2>1. IsFiniteSet({ContextOf[s] : s \in members})
    BY <1>1, FiniteImage
  <2> QED
    BY <2>1 DEF ContextsOf
<1>3. IsFiniteSet(SourceTypes(members))
  <2> DEFINE types == {SourcesOf[s] : s \in members}
  <2>1. IsFiniteSet(types)
    BY <1>1, FiniteImage
  <2>2. \A T \in types : IsFiniteSet(T)
    BY SubjectAssumption
  <2>3. IsFiniteSet(UNION types)
    <3> HIDE DEF types
    <3> QED
      BY <2>1, <2>2, FS_UNION
  <2> QED
    BY <2>3 DEF SourceTypes
<1> QED
  BY <1>1, <1>2, <1>3

(* The dependency components are some parts of the members.                *)
LEMMA DependentParts ==
    ASSUME NEW members \in SUBSET Subject
    PROVE  /\ IsFiniteSet(DependentBlocks(members))
           /\ \A block \in DependentBlocks(members) : block # {} /\ block \subseteq members /\ IsFiniteSet(block)
<1> DEFINE parent == Joined(SubjectCount, DependentPairs(members))
           blocks == {{i \in members : Find(parent, i) = root} : root \in {Find(parent, i) : i \in members}}
<1>1. DependentBlocks(members) = blocks
  BY DEF DependentBlocks, ComponentsOf
<1>2. \A block \in blocks : block # {} /\ block \subseteq members
  OBVIOUS
<1>3. IsFiniteSet(members)
  BY MembersFinite
<1>4. IsFiniteSet(SUBSET members)
  BY <1>3, FS_SUBSET
<1>5. blocks \in SUBSET (SUBSET members)
  OBVIOUS
<1> HIDE DEF blocks
<1>6. IsFiniteSet(blocks)
  BY <1>4, <1>5, FS_Subset
<1>7. \A block \in blocks : IsFiniteSet(block)
  BY <1>2, <1>3, FS_Subset
<1> QED
  BY <1>1, <1>2, <1>6, <1>7

(* A zone scores less when no member contributes more.                     *)
ZoneQuality(members, raw) ==
    SumFunction([c \in {DependencyComponent(block, raw) : block \in DependentBlocks(members)} |-> c.adjusted])
      + Bonus(Cardinality(SourceTypes(members)), Scoring.sourceBonus, Scoring.sourceBonusCap)
      + Bonus(Cardinality(ContextsOf(members)), Scoring.contextBonus, Scoring.contextBonusCap)

LEMMA QualityFalls ==
    ASSUME NEW members \in SUBSET Subject, NEW low, NEW high,
           \A s \in members : low[s] \in Nat /\ high[s] \in Nat /\ low[s] <= high[s]
    PROVE  /\ ZoneQuality(members, low) \in Nat /\ ZoneQuality(members, high) \in Nat
           /\ ZoneQuality(members, low) <= ZoneQuality(members, high)
<1> DEFINE blocks == DependentBlocks(members)
           of(raw) == [block \in blocks |-> DependencyComponent(block, raw)]
           parts(raw) == {DependencyComponent(block, raw) : block \in blocks}
           added(raw) == [c \in parts(raw) |-> c.adjusted]
           bonus == Bonus(Cardinality(SourceTypes(members)), Scoring.sourceBonus, Scoring.sourceBonusCap)
           other == Bonus(Cardinality(ContextsOf(members)), Scoring.contextBonus, Scoring.contextBonusCap)
           match == [c \in parts(low) |-> DependencyComponent(c.members, high)]
<1>1. bonus \in Nat /\ other \in Nat
  <2>1. Cardinality(SourceTypes(members)) \in Nat /\ Cardinality(ContextsOf(members)) \in Nat
    BY MembersFinite, FS_CardinalityType
  <2>2. /\ Scoring.sourceBonus \in Nat /\ Scoring.sourceBonusCap \in Nat
        /\ Scoring.contextBonus \in Nat /\ Scoring.contextBonusCap \in Nat
    BY ScoringAssumption DEF ConfigAccepts
  <2> QED
    BY <2>1, <2>2, BonusTyped
<1>2. IsFiniteSet(blocks) /\ \A block \in blocks : block # {} /\ block \subseteq members /\ IsFiniteSet(block)
  BY DependentParts
<1>3. ASSUME NEW block \in blocks
      PROVE  /\ DependencyComponent(block, low).adjusted \in Nat
             /\ DependencyComponent(block, high).adjusted \in Nat
             /\ DependencyComponent(block, low).adjusted <= DependencyComponent(block, high).adjusted
  <2>1. \A s \in block : low[s] \in Nat /\ high[s] \in Nat /\ low[s] <= high[s]
    BY <1>2
  <2> HIDE DEF blocks
  <2> QED
    BY <1>2, <2>1, ComponentFades
<1>4. ASSUME NEW block, NEW raw PROVE DependencyComponent(block, raw).members = block
  BY Zenon DEF DependencyComponent
<1>5. ASSUME NEW raw PROVE IsFiniteSet(parts(raw)) /\ DOMAIN added(raw) = parts(raw)
  <2>1. parts(raw) = {of(raw)[block] : block \in blocks}
    OBVIOUS
  <2>2. IsFiniteSet({of(raw)[block] : block \in blocks})
    <3> HIDE DEF of, blocks
    <3> QED
      BY <1>2, FiniteImage
  <2> QED
    BY <2>1, <2>2
<1> HIDE DEF blocks
<1>6. \A x \in parts(low) : added(low)[x] \in Nat
  BY <1>3
<1>7. \A y \in parts(high) : added(high)[y] \in Nat
  BY <1>3
<1>8. match \in [parts(low) -> parts(high)]
  BY <1>4
<1>9. \A x, y \in parts(low) : match[x] = match[y] => x = y
  <2> SUFFICES ASSUME NEW b \in blocks, NEW c \in blocks,
                      DependencyComponent(b, high) = DependencyComponent(c, high)
               PROVE  b = c
    BY <1>4
  <2> QED
    BY <1>4
<1>10. \A x \in parts(low) : added(low)[x] <= added(high)[match[x]]
  <2> SUFFICES ASSUME NEW block \in blocks
               PROVE  added(low)[DependencyComponent(block, low)]
                        <= added(high)[match[DependencyComponent(block, low)]]
    OBVIOUS
  <2>1. match[DependencyComponent(block, low)] = DependencyComponent(block, high)
    BY <1>4
  <2>2. added(low)[DependencyComponent(block, low)] = DependencyComponent(block, low).adjusted
    OBVIOUS
  <2>3. added(high)[DependencyComponent(block, high)] = DependencyComponent(block, high).adjusted
    OBVIOUS
  <2> QED
    BY <1>3, <2>1, <2>2, <2>3
<1>11. SumFunction(added(low)) \in Nat /\ SumFunction(added(high)) \in Nat
       /\ SumFunction(added(low)) <= SumFunction(added(high))
  <2> HIDE DEF added, parts, match
  <2>1. IsFiniteSet(DOMAIN added(low)) /\ IsFiniteSet(DOMAIN added(high))
        /\ match \in [DOMAIN added(low) -> DOMAIN added(high)]
    BY <1>5, <1>8
  <2>2. /\ \A x \in DOMAIN added(low) : added(low)[x] \in Nat
        /\ \A y \in DOMAIN added(high) : added(high)[y] \in Nat
        /\ \A x, y \in DOMAIN added(low) : match[x] = match[y] => x = y
        /\ \A x \in DOMAIN added(low) : added(low)[x] <= added(high)[match[x]]
    BY <1>5, <1>6, <1>7, <1>9, <1>10
  <2>3. SumFunction(added(low)) \in Nat /\ SumFunction(added(high)) \in Nat
    BY <2>1, <2>2, SumIsNat
  <2>4. SumFunction(added(low)) <= SumFunction(added(high))
    BY <2>1, <2>2, SumIsMatched
  <2> QED
    BY <2>3, <2>4
<1>12. ASSUME NEW raw PROVE ZoneQuality(members, raw) = SumFunction(added(raw)) + bonus + other
  BY DEF ZoneQuality, blocks
<1> HIDE DEF added, bonus, other
<1> QED
  BY <1>1, <1>11, <1>12

(* What the selector reads of the scores of a frame.                       *)
Raw(frame, members) ==
    [s \in members |-> RawContribution(EvidenceFor(frame, s), frame.asOf)]

LEMMA ZoneOfIs ==
    ASSUME NEW frame, NEW key
    PROVE  /\ ZoneOf(frame, key).key = key
           /\ ZoneOf(frame, key).quality = ZoneQuality(key.members, Raw(frame, key.members))
<1>1. ZoneOf(frame, key) = Draft(frame, key, Raw(frame, key.members))
  BY DEF ZoneOf, Raw
<1> DEFINE raw == Raw(frame, key.members)
<1> HIDE DEF raw
<1>2. Draft(frame, key, raw).key = key
      /\ Draft(frame, key, raw).quality = ZoneQuality(key.members, raw)
  BY Zenon DEF Draft, ZoneFrom, ZoneQuality
<1> QED
  BY <1>1, <1>2 DEF raw

LEMMA FactsOf ==
    ASSUME NEW scored
    PROVE  /\ Facts(scored).price = scored.frame.bar.close
           /\ Facts(scored).quality =
                 [key \in {z.key : z \in scored.zones} |->
                    (CHOOSE z \in scored.zones : z.key = key).quality]
  BY DEF Facts

LEMMA FactsAre ==
    ASSUME NEW frame
    PROVE  /\ Facts(ScoreOf(frame)).price = frame.bar.close
           /\ DOMAIN Facts(ScoreOf(frame)).quality = KeysOf(frame)
           /\ \A key \in KeysOf(frame) :
                 Facts(ScoreOf(frame)).quality[key] = ZoneQuality(key.members, Raw(frame, key.members))
           /\ {z.key : z \in ScoreOf(frame).zones} = KeysOf(frame)
<1> DEFINE scored == ScoreOf(frame)
           zones == {ZoneOf(frame, key) : key \in KeysOf(frame)}
           keys == {z.key : z \in scored.zones}
<1>1. scored.frame = frame /\ scored.zones = zones
  BY Zenon DEF ScoreOf, ScoreFrom
<1>2. keys = KeysOf(frame)
  BY <1>1, ZoneOfIs
<1>3. ASSUME NEW key \in KeysOf(frame)
      PROVE  (CHOOSE z \in scored.zones : z.key = key) = ZoneOf(frame, key)
  <2>1. ZoneOf(frame, key) \in zones /\ ZoneOf(frame, key).key = key
    BY ZoneOfIs
  <2>2. \A z \in zones : z.key = key => z = ZoneOf(frame, key)
    BY ZoneOfIs
  <2> HIDE DEF zones
  <2> QED
    BY <1>1, <2>1, <2>2
<1> HIDE DEF scored
<1>4. Facts(scored).price = scored.frame.bar.close
      /\ Facts(scored).quality =
            [key \in keys |-> (CHOOSE z \in scored.zones : z.key = key).quality]
  BY FactsOf
<1> HIDE DEF keys, zones
<1>5. DOMAIN Facts(scored).quality = KeysOf(frame)
  BY <1>2, <1>4
<1>6. ASSUME NEW key \in KeysOf(frame)
      PROVE  Facts(scored).quality[key] = ZoneQuality(key.members, Raw(frame, key.members))
  <2>1. Facts(scored).quality[key] = (CHOOSE z \in scored.zones : z.key = key).quality
    BY <1>2, <1>4
  <2>2. Facts(scored).quality[key] = ZoneOf(frame, key).quality
    BY <1>3, <2>1
  <2> QED
    BY <2>2, ZoneOfIs
<1> QED
  BY <1>1, <1>2, <1>4, <1>5, <1>6 DEF scored, keys

(* The keys of a frame are zone keys, of members with evidence.            *)
LEMMA KeyFacts ==
    ASSUME NEW frame, FrameTyped(frame), NEW key \in KeysOf(frame)
    PROVE  /\ key \in ZoneKeys /\ key.members \in (SUBSET Subject) \ {{}}
           /\ key.side \in {"UPPER", "LOWER"}
           /\ \A s \in key.members : \E e \in frame.evidence : e.subject = s
<1>1. PICK side \in {"UPPER", "LOWER"} :
          \E block \in NearBlocks(SubjectsOn(frame, side)) : key = [side |-> side, members |-> block]
  BY DEF KeysOf
<1>2. PICK block \in NearBlocks(SubjectsOn(frame, side)) : key = [side |-> side, members |-> block]
  BY <1>1
<1>3. SubjectsOn(frame, side) \in SUBSET Subject
      /\ \A s \in SubjectsOn(frame, side) : \E e \in frame.evidence : e.subject = s
  BY DEF SubjectsOn, FrameTyped, EvidenceTyped
<1>4. UNION NearBlocks(SubjectsOn(frame, side)) = SubjectsOn(frame, side)
      /\ {} \notin NearBlocks(SubjectsOn(frame, side))
  BY <1>3, NearBlocksAreLinked DEF IsSingleLinkage
<1>5. block \subseteq SubjectsOn(frame, side) /\ block # {}
  BY <1>4
<1>6. key.members = block /\ key.side = side /\ block \in (SUBSET Subject) \ {{}}
  BY <1>2, <1>3, <1>5
<1>7. key \in ZoneKeys
  BY <1>2, <1>6 DEF ZoneKeys
<1> QED
  BY <1>3, <1>5, <1>6, <1>7

LEMMA ZoneRange ==
    ASSUME NEW key \in ZoneKeys
    PROVE  /\ ZoneLow[key] \in Nat /\ ZoneHigh[key] \in Nat /\ ZoneLow[key] <= ZoneHigh[key]
           /\ Sides[key] \in {"UPPER", "LOWER"}
<1> DEFINE lows == {LowOf[s] : s \in key.members}
           highs == {HighOf[s] : s \in key.members}
<1>1. key.members \in (SUBSET Subject) \ {{}} /\ key.side \in {"UPPER", "LOWER"}
  BY DEF ZoneKeys
<1>2. lows \in SUBSET Nat /\ lows # {} /\ highs \in SUBSET Nat /\ highs # {}
  BY <1>1, SubjectFacts
<1>3. IsFiniteSet(highs)
  BY <1>1, MembersFinite, FiniteImage
<1>4. Min(lows) \in lows /\ \A y \in lows : Min(lows) <= y
  <2> HIDE DEF lows
  <2> QED
    BY <1>2, MinFacts
<1>5. Max(highs) \in highs /\ \A y \in highs : y <= Max(highs)
  <2> HIDE DEF highs
  <2> QED
    BY <1>2, <1>3, MaxOfFinite
<1>6. PICK s \in key.members : LowOf[s] = Min(lows)
  BY <1>4
<1>7. LowOf[s] <= HighOf[s] /\ HighOf[s] <= Max(highs) /\ LowOf[s] \in Nat /\ HighOf[s] \in Nat
  BY <1>1, <1>5, SubjectFacts
<1>8. ZoneLow[key] = Min(lows) /\ ZoneHigh[key] = Max(highs) /\ Sides[key] = key.side
  BY DEF ZoneLow, ZoneHigh, Sides
<1>9. Max(highs) \in Nat
  BY <1>2, <1>5
<1> HIDE DEF lows, highs
<1> QED
  BY <1>1, <1>6, <1>7, <1>8, <1>9

-----------------------------------------------------------------------------
(* What the selector does with it *)

(* Scores whose zones have keys, ranges and quality as those of a frame.   *)
FactsTyped(facts) ==
    /\ facts.price \in Nat
    /\ DOMAIN facts.quality \subseteq ZoneKeys
    /\ \A key \in DOMAIN facts.quality : facts.quality[key] \in Nat
    /\ Selector!Separated(DOMAIN facts.quality)

LEMMA ScoredFactsTyped ==
    ASSUME NEW frame, FrameTyped(frame)
    PROVE  FactsTyped(Facts(ScoreOf(frame)))
<1>1. \A e \in frame.evidence : e.subject \in Subject
  BY DEF FrameTyped, EvidenceTyped
<1>2. Selector!Separated(KeysOf(frame))
  BY <1>1, KeysAreSeparated
<1>3. KeysOf(frame) \subseteq ZoneKeys
  BY KeyFacts
<1>4. ASSUME NEW key \in KeysOf(frame)
      PROVE  ZoneQuality(key.members, Raw(frame, key.members)) \in Nat
  <2> DEFINE members == key.members
             raw == Raw(frame, members)
  <2>1. members \in SUBSET Subject
    BY <1>4, KeyFacts
  <2>2. ASSUME NEW s \in members PROVE raw[s] \in Nat
    <3>1. \E e \in frame.evidence : e.subject = s
      BY <1>4, KeyFacts
    <3>2. EvidenceFor(frame, s) \in frame.evidence
      BY <3>1 DEF EvidenceFor
    <3>3. RawContribution(EvidenceFor(frame, s), frame.asOf) \in Nat
      BY <3>2, ContributionFades DEF FrameTyped
    <3> QED
      BY <3>3 DEF Raw
  <2> HIDE DEF members, raw
  <2>3. ZoneQuality(members, raw) \in Nat
    BY <2>1, <2>2, QualityFalls
  <2> QED
    BY <2>3 DEF members, raw
<1> QED
  BY <1>2, <1>3, <1>4, FactsAre DEF FactsTyped, FrameTyped

(* A zone's distance tells it from every other eligible zone of its side.  *)
LEMMA DistanceFacts ==
    ASSUME NEW facts, FactsTyped(facts), NEW key \in DOMAIN facts.quality
    PROVE  /\ Selector!Distance(key, facts.price) \in Nat
           /\ Selector!DistanceFactor(key, facts.price) \in Nat
<1>1. ZoneLow[key] \in Nat /\ ZoneHigh[key] \in Nat /\ facts.price \in Nat /\ ZoneLow[key] <= ZoneHigh[key]
  BY ZoneRange DEF FactsTyped
<1>2. Scoring.distanceHorizon \in Nat
  BY ScoringAssumption DEF ConfigAccepts, Positive
<1>3. Selector!Distance(key, facts.price) \in Nat
  BY <1>1 DEF Selector!Distance
<1> QED
  BY <1>2, <1>3 DEF Selector!DistanceFactor

LEMMA DistancesDiffer ==
    ASSUME NEW facts, FactsTyped(facts), NEW side,
           NEW j \in Selector!EligibleZones(facts, side), NEW k \in Selector!EligibleZones(facts, side), j # k
    PROVE  Selector!Distance(j, facts.price) # Selector!Distance(k, facts.price)
<1>1. /\ j \in DOMAIN facts.quality /\ k \in DOMAIN facts.quality /\ Sides[j] = side /\ Sides[k] = side
      /\ Selector!ExpectedSide(j, facts.price) /\ Selector!ExpectedSide(k, facts.price)
  BY DEF Selector!EligibleZones, Selector!SideZones, Selector!Zones, Selector!Eligible
<1>2. /\ ZoneLow[j] \in Nat /\ ZoneHigh[j] \in Nat /\ ZoneLow[j] <= ZoneHigh[j]
      /\ ZoneLow[k] \in Nat /\ ZoneHigh[k] \in Nat /\ ZoneLow[k] <= ZoneHigh[k]
      /\ side \in {"UPPER", "LOWER"} /\ facts.price \in Nat
  BY <1>1, ZoneRange DEF FactsTyped
<1>3. ZoneLow[j] - ZoneHigh[k] > Scoring.tolerance \/ ZoneLow[k] - ZoneHigh[j] > Scoring.tolerance
  BY <1>1 DEF FactsTyped, Selector!Separated, Selector!Apart
<1>4. Scoring.tolerance \in Nat
  BY ScoringAssumption DEF ConfigAccepts, Positive
<1>5. CASE side = "UPPER"
  <2>1. ZoneLow[j] > facts.price /\ ZoneLow[k] > facts.price
    BY <1>1, <1>5 DEF Selector!ExpectedSide
  <2>2. Selector!Distance(j, facts.price) = ZoneLow[j] - facts.price
        /\ Selector!Distance(k, facts.price) = ZoneLow[k] - facts.price
    BY <1>2, <2>1 DEF Selector!Distance
  <2> QED
    BY <1>2, <1>3, <1>4, <2>2
<1>6. CASE side = "LOWER"
  <2>1. ZoneHigh[j] < facts.price /\ ZoneHigh[k] < facts.price
    BY <1>1, <1>6 DEF Selector!ExpectedSide
  <2>2. Selector!Distance(j, facts.price) = facts.price - ZoneHigh[j]
        /\ Selector!Distance(k, facts.price) = facts.price - ZoneHigh[k]
    BY <1>2, <2>1 DEF Selector!Distance
  <2> QED
    BY <1>2, <1>3, <1>4, <2>2
<1> QED
  BY <1>2, <1>5, <1>6

(* So some zone goes before all others.                                    *)
LEMMA FirstIsThere ==
    ASSUME NEW facts, FactsTyped(facts), NEW side,
           NEW keys \in SUBSET Selector!EligibleZones(facts, side), keys # {}
    PROVE  Selector!First(facts, keys) \in keys
<1> DEFINE far(k) == Selector!Distance(k, facts.price)
           distances == {far(k) : k \in keys}
<1>1. \A k \in keys : k \in DOMAIN facts.quality
  BY DEF Selector!EligibleZones, Selector!SideZones, Selector!Zones
<1>2. \A k \in keys : far(k) \in Nat
  BY <1>1, DistanceFacts
<1>3. distances \in SUBSET Nat /\ distances # {}
  BY <1>2
<1>4. PICK least \in distances : \A d \in distances : least <= d
  <2> HIDE DEF distances
  <2> QED
    BY <1>3, LeastExists
<1>5. PICK j \in keys : far(j) = least
  OBVIOUS
<1>6. ASSUME NEW k \in keys \ {j} PROVE Selector!Precedes(facts, j, k)
  <2>1. far(j) # far(k)
    BY DistancesDiffer
  <2>2. far(j) <= far(k) /\ far(j) \in Nat /\ far(k) \in Nat
    BY <1>2, <1>4, <1>5
  <2>3. far(j) < far(k)
    <3> HIDE DEF far
    <3> QED
      BY <2>1, <2>2
  <2> QED
    BY <2>3 DEF Selector!Precedes
<1> QED
  BY <1>6 DEF Selector!First

(* A side with an eligible zone selects one, a side without selects none.  *)
LEMMA SelectedIsThere ==
    ASSUME NEW facts, FactsTyped(facts), NEW side, NEW current
    PROVE  Selector!Selected(facts, side, current) # None
             <=> Selector!EligibleZones(facts, side) # {}
<1> DEFINE eligible == Selector!EligibleZones(facts, side)
           chosen == Selector!Selected(facts, side, current)
<1>1. None \notin eligible
  BY SelectionAssumption DEF Selector!EligibleZones, Selector!SideZones, Selector!Zones, FactsTyped
<1>2. CASE eligible = {}
  BY <1>2 DEF Selector!Selected
<1>3. CASE eligible # {}
  <2>1. Selector!First(facts, eligible) \in eligible
    BY <1>3, FirstIsThere
  <2>2. ASSUME eligible # {current}, current \in eligible
        PROVE  Selector!Challenger(facts, side, current) \in eligible
    <3>1. eligible \ {current} # {} /\ eligible \ {current} \in SUBSET Selector!EligibleZones(facts, side)
      BY <2>2
    <3>2. Selector!First(facts, eligible \ {current}) \in eligible \ {current}
      BY <3>1, FirstIsThere
    <3> QED
      BY <3>2 DEF Selector!Challenger
  <2>3. chosen \in eligible
    <3>1. CASE current \notin eligible
      BY <1>3, <2>1, <3>1 DEF Selector!Selected
    <3>2. CASE current \in eligible
      BY <1>3, <2>1, <2>2, <3>2 DEF Selector!Selected
    <3> QED
      BY <3>1, <3>2
  <2> QED
    BY <1>1, <1>3, <2>3
<1> QED
  BY <1>2, <1>3

(* Both sides have an eligible zone.                                       *)
PairThere(facts) ==
    Selector!EligibleZones(facts, "LOWER") # {} /\ Selector!EligibleZones(facts, "UPPER") # {}

BoxTyped(snapshot) == snapshot = [episode |-> snapshot.episode, asOf |-> snapshot.asOf]

(* There is a box exactly when there is a pair.                            *)
LEMMA BoxMeansPair ==
    ASSUME NEW facts, FactsTyped(facts), NEW previous, BoxTyped(previous), NEW time \in Nat \ {0}
    PROVE  /\ Selector!BoxAfter(facts, previous, time) # Selector!NoBox <=> PairThere(facts)
           /\ BoxTyped(Selector!BoxAfter(facts, previous, time))
<1> DEFINE pair == Selector!SelectedPair(facts, previous)
           next == Selector!BoxAfter(facts, previous, time)
<1>1. Selector!Complete(pair) <=> PairThere(facts)
  BY SelectedIsThere DEF Selector!Complete, Selector!SelectedPair, PairThere
<1>2. Selector!NoBox = [episode |-> None, asOf |-> 0]
  BY DEF Selector!NoBox
<1>3. CASE ~Selector!Complete(pair)
  <2>1. next = Selector!NoBox
    BY <1>3 DEF Selector!BoxAfter
  <2> QED
    BY <1>1, <1>2, <1>3, <2>1 DEF BoxTyped
<1>4. CASE Selector!Complete(pair) /\ pair = Selector!Keys(previous)
  <2>1. next = [previous EXCEPT !.asOf = time]
    BY <1>4 DEF Selector!BoxAfter, Selector!Observed
  <2>2. next = [episode |-> previous.episode, asOf |-> time]
    BY <2>1 DEF BoxTyped
  <2>3. next.asOf = time /\ Selector!NoBox.asOf = 0 /\ BoxTyped(next)
    BY <1>2, <2>2 DEF BoxTyped
  <2> QED
    BY <1>1, <1>4, <2>3
<1>5. CASE Selector!Complete(pair) /\ pair # Selector!Keys(previous)
  <2>1. next = Selector!Created(pair.lower, pair.upper, facts, time)
    BY <1>5 DEF Selector!BoxAfter
  <2>2. next.asOf = time /\ BoxTyped(next)
    BY <2>1 DEF Selector!Created, BoxTyped
  <2>3. Selector!NoBox.asOf = 0
    BY <1>2
  <2> QED
    BY <1>1, <1>5, <2>2, <2>3
<1> QED
  BY <1>3, <1>4, <1>5

-----------------------------------------------------------------------------
(* Quiet times *)

(* A zone eligible for the later of two frames of the same evidence and    *)
(* bar was eligible for the earlier.                                       *)
LEMMA EligibilityFades ==
    ASSUME NEW early, FrameTyped(early), NEW late, FrameTyped(late), early.asOf <= late.asOf,
           early.evidence = late.evidence, early.bar = late.bar, NEW side
    PROVE  Selector!EligibleZones(Facts(ScoreOf(late)), side)
             \subseteq Selector!EligibleZones(Facts(ScoreOf(early)), side)
<1> DEFINE before == Facts(ScoreOf(early))
           after == Facts(ScoreOf(late))
<1>1. KeysOf(early) = KeysOf(late)
  BY DEF KeysOf, SubjectsOn
<1>2. /\ before.price = early.bar.close /\ after.price = early.bar.close /\ early.bar.close \in Nat
      /\ DOMAIN before.quality = KeysOf(early) /\ DOMAIN after.quality = KeysOf(early)
  BY <1>1, FactsAre DEF FrameTyped
<1>3. FactsTyped(before) /\ FactsTyped(after)
  BY ScoredFactsTyped
<1>4. ASSUME NEW key \in KeysOf(early)
      PROVE  after.quality[key] <= before.quality[key]
  <2> DEFINE members == key.members
             raw(frame) == Raw(frame, members)
  <2>1. members \in SUBSET Subject /\ \A s \in members : \E e \in early.evidence : e.subject = s
    BY KeyFacts
  <2>2. ASSUME NEW s \in members
        PROVE  raw(late)[s] \in Nat /\ raw(early)[s] \in Nat /\ raw(late)[s] <= raw(early)[s]
    <3>1. EvidenceFor(early, s) \in early.evidence
      BY <2>1 DEF EvidenceFor
    <3>2. EvidenceTyped(EvidenceFor(early, s)) /\ EvidenceFor(late, s) = EvidenceFor(early, s)
          /\ early.asOf \in Nat /\ late.asOf \in Nat
      BY <3>1 DEF EvidenceFor, FrameTyped
    <3>3. raw(late)[s] = RawContribution(EvidenceFor(early, s), late.asOf)
          /\ raw(early)[s] = RawContribution(EvidenceFor(early, s), early.asOf)
      BY <3>2 DEF Raw
    <3> QED
      BY <3>2, <3>3, ContributionFades
  <2> HIDE DEF members, raw
  <2>3. ZoneQuality(members, raw(late)) <= ZoneQuality(members, raw(early))
    BY <2>1, <2>2, QualityFalls
  <2> QED
    BY <1>1, <2>3, FactsAre DEF members, raw
<1>5. ASSUME NEW key \in KeysOf(early), Selector!Eligible(after, key)
      PROVE  Selector!Eligible(before, key)
  <2> DEFINE factor == Selector!DistanceFactor(key, early.bar.close)
  <2>1. after.quality[key] \in Nat /\ before.quality[key] \in Nat /\ factor \in Nat
    BY <1>2, <1>3, DistanceFacts DEF FactsTyped
  <2>2. after.quality[key] * factor <= before.quality[key] * factor
        /\ after.quality[key] * factor \in Nat /\ before.quality[key] * factor \in Nat
    BY <1>4, <2>1, ProductGrows
  <2>3. Selector!SelectionScore(after, key) = after.quality[key] * factor
        /\ Selector!SelectionScore(before, key) = before.quality[key] * factor
    BY <1>2 DEF Selector!SelectionScore
  <2>4. /\ Selector!ExpectedSide(key, early.bar.close) /\ ZoneClass[key] \in AllowedClasses
        /\ after.quality[key] >= MinimumQuality
        /\ Selector!SelectionScore(after, key) >= MinimumSelection /\ factor > 0
    BY <1>2, <1>5 DEF Selector!Eligible
  <2>5. before.quality[key] >= MinimumQuality
        /\ Selector!SelectionScore(before, key) >= MinimumSelection
    <3> HIDE DEF before, after, factor
    <3> QED
      BY <1>4, <2>1, <2>2, <2>3, <2>4, SelectionAssumption
  <2> HIDE DEF before, after
  <2> QED
    BY <1>2, <2>4, <2>5 DEF Selector!Eligible
<1> HIDE DEF before, after
<1>6. Selector!EligibleZones(after, side) \subseteq Selector!EligibleZones(before, side)
  BY <1>2, <1>5 DEF Selector!EligibleZones, Selector!SideZones, Selector!Zones
<1> QED
  BY <1>6 DEF before, after

-----------------------------------------------------------------------------
(* Sources *)

LEMMA TruncatedTyped ==
    ASSUME NEW data, InputTyped(data), NEW cutoff
    PROVE  InputTyped(Truncated(data, cutoff))
<1> DEFINE less == Truncated(data, cutoff)
<1>1. /\ less.lifecycle = [t \in {t \in DOMAIN data.lifecycle : t <= cutoff} |-> data.lifecycle[t]]
      /\ less.directions = [c \in DOMAIN data.directions |->
             [t \in {t \in DOMAIN data.directions[c] : t <= cutoff} |-> data.directions[c][t]]]
      /\ less.bars = {bar \in data.bars : bar.available <= cutoff}
  BY DEF Truncated
<1> HIDE DEF less
<1>2. DOMAIN less.lifecycle \subseteq DOMAIN data.lifecycle
      /\ \A t \in DOMAIN less.lifecycle : less.lifecycle[t] = data.lifecycle[t]
  BY <1>1
<1>3. IsFiniteSet(DOMAIN less.lifecycle) /\ DOMAIN less.lifecycle \subseteq Nat
  BY <1>2, FS_Subset DEF InputTyped
<1>4. ASSUME NEW c \in DOMAIN less.directions, NEW t \in DOMAIN less.directions[c]
      PROVE  less.directions[c][t] \in Direction
  <2>1. c \in DOMAIN data.directions
        /\ less.directions[c] =
              [u \in {u \in DOMAIN data.directions[c] : u <= cutoff} |-> data.directions[c][u]]
    BY <1>1
  <2>2. t \in DOMAIN data.directions[c] /\ less.directions[c][t] = data.directions[c][t]
    BY <2>1
  <2> QED
    BY <2>1, <2>2 DEF InputTyped
<1>5. less.bars \subseteq data.bars
  BY <1>1
<1>6. IsFiniteSet(less.bars)
  BY <1>5, FS_Subset DEF InputTyped
<1>7. InputTyped(less)
  BY <1>2, <1>3, <1>4, <1>5, <1>6 DEF InputTyped
<1> QED
  BY <1>7 DEF less

LEMMA DefaultIsFinite ==
    ASSUME NEW data, InputTyped(data)
    PROVE  DefaultSchedule(data) \in SUBSET Nat /\ IsFiniteSet(DefaultSchedule(data))
<1> DEFINE availableOf == [bar \in data.bars |-> bar.available]
           available == {bar.available : bar \in data.bars}
<1>1. available = {availableOf[bar] : bar \in data.bars}
  OBVIOUS
<1>2. IsFiniteSet({availableOf[bar] : bar \in data.bars})
  <2> HIDE DEF availableOf
  <2> QED
    BY FiniteImage DEF InputTyped
<1>3. available \in SUBSET Nat
  BY DEF InputTyped
<1>4. IsFiniteSet(DOMAIN data.lifecycle \cup available)
  <2> HIDE DEF available, availableOf
  <2> QED
    BY <1>1, <1>2, FS_Union DEF InputTyped
<1>5. DefaultSchedule(data) \subseteq DOMAIN data.lifecycle \cup available
  BY DEF DefaultSchedule
<1> HIDE DEF available
<1> QED
  BY <1>3, <1>4, <1>5, FS_Subset DEF InputTyped

LEMMA DefaultIsThere ==
    ASSUME NEW data, InputTyped(data), InputAccepts(data)
    PROVE  DefaultSchedule(data) # {}
<1> DEFINE available == {bar.available : bar \in data.bars}
           start == Larger(Min(DOMAIN data.lifecycle), Min(available))
<1>1. available \in SUBSET Nat /\ available # {}
  BY DEF InputTyped, InputAccepts
<1>2. Min(available) \in available
  <2> HIDE DEF available
  <2> QED
    BY <1>1, MinFacts
<1>3. Min(DOMAIN data.lifecycle) \in DOMAIN data.lifecycle /\ DOMAIN data.lifecycle \subseteq Nat
  BY MinFacts DEF InputTyped, InputAccepts
<1>4. start \in DOMAIN data.lifecycle \cup available /\ start \in Nat
  <2> HIDE DEF available
  <2> QED
    BY <1>1, <1>2, <1>3 DEF Larger
<1>5. start \in DefaultSchedule(data)
  <2>1. start >= start
    BY <1>4
  <2> HIDE DEF start
  <2> QED
    BY <1>4, <2>1 DEF DefaultSchedule, start
<1> QED
  BY <1>5

(* A finite set of times in order is a sequence of times.                  *)
LEMMA OrderedTimes ==
    ASSUME NEW S \in SUBSET Nat, IsFiniteSet(S)
    PROVE  InOrder(S) \in Seq(Nat) /\ (S # {} => Len(InOrder(S)) > 0)
<1>0. Cardinality(S) = 0 <=> S = {}
  BY FS_EmptySet
<1>1. Cardinality(S) \in Nat
  BY FS_CardinalityType
<1>2. DOMAIN InOrder(S) = 1 .. Cardinality(S)
      /\ InOrder(S) = [k \in 1 .. Cardinality(S) |-> InOrder(S)[k]]
  <2> DEFINE first(k) == CHOOSE t \in S : Cardinality({u \in S : u < t}) = k - 1
  <2>1. InOrder(S) = [k \in 1 .. Cardinality(S) |-> first(k)]
    BY DEF InOrder
  <2> HIDE DEF first
  <2> QED
    BY <2>1
<1>3. \A k \in 1 .. Cardinality(S) : InOrder(S)[k] \in Nat
  BY <1>2, InOrderTyped
<1>4. InOrder(S) \in [1 .. Cardinality(S) -> Nat]
  BY <1>2, <1>3
<1>5. ASSUME NEW n \in Nat, NEW f \in [1 .. n -> Nat] PROVE f \in Seq(Nat) /\ Len(f) = n
  <2>1. f \in Seq(Nat)
    OBVIOUS
  <2>2. DOMAIN f = 1 .. Len(f) /\ DOMAIN f = 1 .. n /\ Len(f) \in Nat
    BY <2>1
  <2>3. Len(f) = n
    BY <2>2
  <2> QED
    BY <2>1, <2>3
<1>6. InOrder(S) \in Seq(Nat) /\ Len(InOrder(S)) = Cardinality(S)
  BY <1>1, <1>4, <1>5
<1>7. ASSUME S # {} PROVE Len(InOrder(S)) > 0
  <2>1. Cardinality(S) # 0
    BY <1>0, <1>7
  <2> QED
    BY <1>1, <1>6, <2>1
<1> QED
  BY <1>6, <1>7

-----------------------------------------------------------------------------
(* The invariant *)

FramesOf == {FrameAt(source, t) : t \in Nat}
ScoresOf == {ScoreOf(frame) : frame \in FramesOf}

(* The source and the times are typed, and what is left to do of a stage   *)
(* is there to be done.                                                    *)
InputInv ==
    /\ InputTyped(source) /\ schedule \in Seq(Nat)
    /\ status = "ASSEMBLING" => InputAccepts(source) /\ Len(frames) < Len(schedule)

(* Frames and scores are those of the source, and the history of frames    *)
(* was accepted before any was scored.                                     *)
StagesInv ==
    /\ frames \in Seq(FramesOf) /\ scores \in Seq(ScoresOf)
    /\ \A i \in 1 .. Len(frames) : FrameTyped(frames[i])
    /\ Len(scores) <= Len(frames)
    /\ \A i \in 1 .. Len(scores) : scores[i] = ScoreOf(frames[i])
    /\ status = "READY" => frames = <<>>
    /\ status \in {"READY", "ASSEMBLING"} => scores = <<>>
    /\ status = "SCORING" => Len(scores) < Len(frames)
    /\ status \in {"SCORING", "SELECTING"} => FramesAccept(frames)

(* There is no box only where there was no pair.                           *)
BoxInv ==
    /\ now \in 0 .. Len(scores)
    /\ status \in {"READY", "ASSEMBLING", "SCORING"} => now = 0
    /\ BoxTyped(box)
    /\ now > 0 /\ box = Selector!NoBox => ~PairThere(Facts(scores[now]))

CoreInv == InputInv /\ StagesInv /\ BoxInv

LEMMA InitCore ==
    Init => CoreInv
<1> SUFFICES ASSUME Init PROVE CoreInv
  OBVIOUS
<1>1. InputTyped(full)
  BY InputsAssumption DEF Init
<1>2. InputTyped(source) /\ schedule \in Seq(Nat)
  <2>1. CASE mode = "BATCH" /\ source = full /\ schedule = <<>>
    BY <1>1, <2>1
  <2>2. CASE /\ mode = "REPLAY" /\ source = full
             /\ \E extra \in ExtraTimes, omitted \in BOOLEAN :
                   LET default == IF InputAccepts(full) THEN DefaultSchedule(full) ELSE {}
                   IN schedule = InOrder(extra \cup IF omitted THEN {} ELSE default)
    <3>1. PICK extra \in ExtraTimes, times \in {{}, DefaultSchedule(full)} :
              schedule = InOrder(extra \cup times)
      BY <2>2
    <3>2. IsFiniteSet(times) /\ times \subseteq Nat
      BY <1>1, DefaultIsFinite, FS_EmptySet
    <3>3. IsFiniteSet(extra \cup times) /\ extra \cup times \in SUBSET Nat
      BY <3>2, InputsAssumption, FS_Union
    <3> QED
      BY <1>1, <2>2, <3>1, <3>3, OrderedTimes
  <2>3. CASE /\ mode = "CUTOFF" /\ schedule = <<>>
             /\ \E cutoff \in DefaultSchedule(full) : source = Truncated(full, cutoff)
    BY <1>1, <2>3, TruncatedTyped
  <2> QED
    BY <2>1, <2>2, <2>3 DEF Init
<1>3. InputInv
  BY <1>2 DEF Init, InputInv
<1>4. StagesInv
  BY DEF Init, StagesInv
<1>5. BoxInv
  <2>1. BoxTyped(box)
    BY DEF Init, BoxTyped, Selector!NoBox
  <2> QED
    BY <2>1 DEF Init, BoxInv
<1> QED
  BY <1>3, <1>4, <1>5 DEF CoreInv

LEMMA StartKeepsCore ==
    ASSUME CoreInv, Start PROVE CoreInv'
<1> USE DEF CoreInv
<1>1. /\ UNCHANGED <<source, mode, full, frames, scores, boxes, selectorVars>>
      /\ status = "READY" /\ frames = <<>> /\ scores = <<>>
  BY DEF Start, StagesInv
<1>2. InputInv'
  <2>1. CASE status' = "REFUSED" /\ UNCHANGED schedule
    BY <1>1, <2>1 DEF InputInv
  <2>2. CASE /\ InputAccepts(source) /\ status' = "ASSEMBLING"
             /\ ~(mode = "REPLAY" /\ ScheduleRefused(source, ToSet(schedule)))
             /\ schedule' = IF mode = "REPLAY" THEN schedule ELSE InOrder(DefaultSchedule(source))
    <3>1. schedule' \in Seq(Nat) /\ Len(schedule') > 0
      <4>1. CASE mode = "REPLAY"
        <5>1. ToSet(schedule) # {}
          BY <2>2, <4>1 DEF ScheduleRefused
        <5>2. schedule # <<>>
          BY <5>1 DEF ToSet
        <5> QED
          BY <2>2, <4>1, <5>2 DEF InputInv
      <4>2. CASE mode # "REPLAY"
        <5>1. DefaultSchedule(source) \in SUBSET Nat /\ IsFiniteSet(DefaultSchedule(source))
              /\ DefaultSchedule(source) # {}
          BY <2>2, DefaultIsFinite, DefaultIsThere DEF InputInv
        <5> QED
          BY <2>2, <4>2, <5>1, OrderedTimes
      <4> QED
        BY <4>1, <4>2
    <3> QED
      BY <1>1, <2>2, <3>1 DEF InputInv
  <2> QED
    BY <2>1, <2>2 DEF Start
<1>3. status' \in {"REFUSED", "ASSEMBLING"}
  BY DEF Start
<1>4. FramesOf' = FramesOf /\ ScoresOf' = ScoresOf
  BY <1>1 DEF FramesOf, ScoresOf
<1>5. StagesInv'
  BY <1>1, <1>3, <1>4 DEF StagesInv
<1>6. BoxInv'
  BY <1>1, <1>3 DEF BoxInv, selectorVars
<1> QED
  BY <1>2, <1>5, <1>6

LEMMA AssembleFrameKeepsCore ==
    ASSUME CoreInv, AssembleFrame PROVE CoreInv'
<1> USE DEF CoreInv
<1> DEFINE time == schedule[Len(frames) + 1]
           built == Append(frames, FrameAt(source, time))
<1>1. /\ UNCHANGED <<inputVars, scores, boxes, selectorVars>>
      /\ status = "ASSEMBLING" /\ scores = <<>> /\ now = 0
      /\ InputAccepts(source) /\ Len(frames) < Len(schedule)
  BY DEF AssembleFrame, InputInv, StagesInv, BoxInv
<1>2. /\ UNCHANGED <<source, mode, full, schedule, scores>>
      /\ FramesOf' = FramesOf /\ ScoresOf' = ScoresOf
  BY <1>1 DEF inputVars, FramesOf, ScoresOf
<1>3. CASE status' = "REFUSED" /\ UNCHANGED frames
  <2>1. InputInv' /\ StagesInv'
    BY <1>2, <1>3, <1>1 DEF InputInv, StagesInv
  <2>2. BoxInv'
    BY <1>1, <1>3 DEF BoxInv, selectorVars
  <2> QED
    BY <2>1, <2>2
<1>4. CASE /\ Answerable(source, time) /\ frames' = built
           /\ status' = IF ~FrameAccepts(Last(built)) THEN "RAISED"
                        ELSE IF Len(built) < Len(schedule) THEN "ASSEMBLING"
                        ELSE IF FramesAccept(built) THEN "SCORING" ELSE "RAISED"
  <2>1. time \in Nat
    BY <1>1 DEF InputInv, StagesInv
  <2>2. FrameTyped(FrameAt(source, time)) /\ FrameAt(source, time) \in FramesOf
    BY <1>1, <1>4, <2>1, FrameAtTyped DEF InputInv, FramesOf
  <2>3. /\ status' \in {"RAISED", "ASSEMBLING", "SCORING"}
        /\ status' = "ASSEMBLING" => Len(built) < Len(schedule)
        /\ status' = "SCORING" => FramesAccept(built)
    BY <1>4
  <2>4. /\ built \in Seq(FramesOf) /\ Len(built) = Len(frames) + 1 /\ Len(frames) \in Nat
        /\ \A i \in 1 .. Len(frames) : built[i] = frames[i]
        /\ built[Len(frames) + 1] = FrameAt(source, time)
    <3> DEFINE frame == FrameAt(source, time)
    <3> HIDE DEF frame
    <3>1. frame \in FramesOf /\ frames \in Seq(FramesOf)
      BY <2>2 DEF StagesInv, frame
    <3>2. /\ Append(frames, frame) \in Seq(FramesOf) /\ Len(Append(frames, frame)) = Len(frames) + 1
          /\ Len(frames) \in Nat
          /\ \A i \in 1 .. Len(frames) : Append(frames, frame)[i] = frames[i]
          /\ Append(frames, frame)[Len(frames) + 1] = frame
      BY <3>1
    <3> QED
      BY <3>2 DEF frame
  <2>5. \A i \in 1 .. Len(built) : FrameTyped(built[i])
    <3> SUFFICES ASSUME NEW i \in 1 .. Len(built) PROVE FrameTyped(built[i])
      OBVIOUS
    <3> HIDE DEF built, time
    <3>1. i \in 1 .. Len(frames) \/ i = Len(frames) + 1
      BY <2>4
    <3> QED
      BY <2>2, <2>4, <3>1 DEF StagesInv
  <2> HIDE DEF built, time
  <2>6. InputInv'
    BY <1>1, <1>2, <1>4, <2>3 DEF InputInv
  <2>7. StagesInv'
    BY <1>1, <1>2, <1>4, <2>3, <2>4, <2>5 DEF StagesInv
  <2>8. BoxInv'
    BY <1>1, <2>3 DEF BoxInv, selectorVars
  <2> QED
    BY <2>6, <2>7, <2>8
<1> QED
  BY <1>3, <1>4 DEF AssembleFrame

LEMMA ScoreFrameKeepsCore ==
    ASSUME CoreInv, ScoreFrame PROVE CoreInv'
<1> USE DEF CoreInv
<1> DEFINE built == Append(scores, ScoreOf(frames[Len(scores) + 1]))
<1>1. /\ UNCHANGED <<inputVars, frames, boxes, selectorVars>>
      /\ status = "SCORING" /\ now = 0 /\ Len(scores) < Len(frames) /\ FramesAccept(frames)
      /\ scores' = built
      /\ status' \in {"RAISED", "SCORING", "SELECTING"}
      /\ status' = "SCORING" => Len(built) < Len(frames)
  BY DEF ScoreFrame, StagesInv, BoxInv
<1>2. /\ UNCHANGED <<source, mode, full, schedule, frames>>
      /\ FramesOf' = FramesOf /\ ScoresOf' = ScoresOf
  BY <1>1 DEF inputVars, FramesOf, ScoresOf
<1>3. InputInv'
  BY <1>1, <1>2 DEF InputInv
<1>4. /\ built \in Seq(ScoresOf) /\ Len(built) = Len(scores) + 1 /\ Len(scores) \in Nat
      /\ \A i \in 1 .. Len(scores) : built[i] = scores[i]
      /\ built[Len(scores) + 1] = ScoreOf(frames[Len(scores) + 1])
  <2> DEFINE scored == ScoreOf(frames[Len(scores) + 1])
  <2>1. frames[Len(scores) + 1] \in FramesOf
    BY <1>1 DEF StagesInv
  <2>2. scored \in ScoresOf /\ scores \in Seq(ScoresOf)
    BY <2>1 DEF StagesInv, ScoresOf
  <2> HIDE DEF scored
  <2>3. /\ Append(scores, scored) \in Seq(ScoresOf) /\ Len(Append(scores, scored)) = Len(scores) + 1
        /\ Len(scores) \in Nat
        /\ \A i \in 1 .. Len(scores) : Append(scores, scored)[i] = scores[i]
        /\ Append(scores, scored)[Len(scores) + 1] = scored
    BY <2>2
  <2> QED
    BY <2>3 DEF scored
<1>5. \A i \in 1 .. Len(built) : built[i] = ScoreOf(frames[i])
  <2> SUFFICES ASSUME NEW i \in 1 .. Len(built) PROVE built[i] = ScoreOf(frames[i])
    OBVIOUS
  <2> HIDE DEF built
  <2>1. i \in 1 .. Len(scores) \/ i = Len(scores) + 1
    BY <1>4
  <2> QED
    BY <1>4, <2>1 DEF StagesInv
<1> HIDE DEF built
<1>6. Len(built) <= Len(frames)
  BY <1>1, <1>4 DEF StagesInv
<1>7. StagesInv'
  BY <1>1, <1>2, <1>4, <1>5, <1>6 DEF StagesInv
<1>8. BoxInv'
  BY <1>1, <1>4 DEF BoxInv, selectorVars
<1> QED
  BY <1>3, <1>7, <1>8

(* What a turn of the selector does to its box.                            *)
LEMMA SelectFrameIs ==
    ASSUME CoreInv, SelectFrame
    PROVE  /\ UNCHANGED <<inputVars, frames, scores>>
           /\ status = "SELECTING" /\ now \in Nat /\ now + 1 \in 1 .. Len(scores)
           /\ status' \in {"SELECTING", "RAISED"}
           /\ \/ UNCHANGED <<now, box>>
              \/ now' = now + 1 /\ box' = Selector!BoxAfter(Facts(scores[now + 1]), box, now + 1)
<1>1. Len(scores) \in Nat /\ now \in Nat
  BY DEF CoreInv, StagesInv, BoxInv
<1> DEFINE facts == Facts(scores[now + 1])
<1>2. Selector!SelectFrame(facts, box) /\ UNCHANGED <<inputVars, frames, scores>>
      /\ status = "SELECTING" /\ now < Len(scores) /\ status' \in {"SELECTING", "RAISED"}
  BY DEF SelectFrame
<1> HIDE DEF facts
<1>3. \/ UNCHANGED <<now, box>>
      \/ now' = now + 1 /\ box' = Selector!BoxAfter(facts, box, now + 1)
  BY <1>2 DEF Selector!SelectFrame
<1> QED
  BY <1>1, <1>2, <1>3 DEF facts

LEMMA ScoreFactsTyped ==
    ASSUME CoreInv, NEW i \in 1 .. Len(scores)
    PROVE  /\ i \in 1 .. Len(frames) /\ FrameTyped(frames[i]) /\ scores[i] = ScoreOf(frames[i])
           /\ FactsTyped(Facts(scores[i]))
<1>1. i \in 1 .. Len(frames) /\ FrameTyped(frames[i]) /\ scores[i] = ScoreOf(frames[i])
  BY DEF CoreInv, StagesInv
<1> QED
  BY <1>1, ScoredFactsTyped

LEMMA SelectFrameKeepsCore ==
    ASSUME CoreInv, SelectFrame PROVE CoreInv'
<1>1. /\ UNCHANGED <<source, mode, full, schedule, frames, scores>>
      /\ FramesOf' = FramesOf /\ ScoresOf' = ScoresOf
      /\ status' \in {"SELECTING", "RAISED"} /\ status = "SELECTING"
  BY SelectFrameIs DEF inputVars, FramesOf, ScoresOf
<1>2. InputInv' /\ StagesInv'
  BY <1>1 DEF CoreInv, InputInv, StagesInv
<1>3. CASE UNCHANGED <<now, box>>
  BY <1>1, <1>2, <1>3 DEF CoreInv, BoxInv
<1>4. CASE now' = now + 1 /\ box' = Selector!BoxAfter(Facts(scores[now + 1]), box, now + 1)
  <2> DEFINE facts == Facts(scores[now + 1])
  <2>1. now \in Nat /\ now + 1 \in 1 .. Len(scores) /\ now + 1 \in Nat \ {0}
    BY SelectFrameIs
  <2>2. FactsTyped(facts) /\ BoxTyped(box)
    BY <2>1, ScoreFactsTyped DEF CoreInv, BoxInv
  <2> HIDE DEF facts
  <2>3. /\ Selector!BoxAfter(facts, box, now + 1) # Selector!NoBox <=> PairThere(facts)
        /\ BoxTyped(Selector!BoxAfter(facts, box, now + 1))
    BY <2>1, <2>2, BoxMeansPair
  <2>4. BoxTyped(box') /\ (box' # Selector!NoBox <=> PairThere(facts))
    BY <1>4, <2>3 DEF facts
  <2>5. Len(scores) \in Nat /\ now' \in 0 .. Len(scores)
    BY <1>4, <2>1 DEF CoreInv, StagesInv
  <2>7. box' = Selector!NoBox => ~PairThere(Facts(scores'[now']))
    BY <1>1, <1>4, <2>4 DEF facts
  <2>8. BoxInv'
    BY <1>1, <2>4, <2>5, <2>7 DEF BoxInv
  <2> QED
    BY <1>2, <2>8 DEF CoreInv
<1> QED
  BY <1>3, <1>4, SelectFrameIs

LEMMA CoreIsInductive ==
    ASSUME CoreInv, [Next]_vars PROVE CoreInv'
<1>1. ASSUME UNCHANGED vars PROVE CoreInv'
  <2>1. /\ UNCHANGED <<source, schedule, frames, scores, now, box, status>>
        /\ FramesOf' = FramesOf /\ ScoresOf' = ScoresOf
    BY <1>1 DEF vars, inputVars, selectorVars, FramesOf, ScoresOf
  <2> QED
    BY <2>1 DEF CoreInv, InputInv, StagesInv, BoxInv
<1>2. ASSUME Finish PROVE CoreInv'
  <2>1. /\ UNCHANGED <<source, schedule, frames, scores, now, box>> /\ status' \in {"DONE", "RAISED"}
        /\ FramesOf' = FramesOf /\ ScoresOf' = ScoresOf
    BY <1>2 DEF Finish, inputVars, selectorVars, FramesOf, ScoresOf
  <2> QED
    BY <2>1 DEF CoreInv, InputInv, StagesInv, BoxInv
<1> QED
  BY <1>1, <1>2, StartKeepsCore, AssembleFrameKeepsCore, ScoreFrameKeepsCore, SelectFrameKeepsCore
     DEF Next

(* Sources and schedules stay typed; frames are frames of the source, and  *)
(* their scores the scores of these frames, one stage after the other; the *)
(* selector holds no box exactly where the scores before it had no pair    *)
(* (msa_core/pipeline.py run, the loops of the assembler, the scorer and   *)
(* the selector).                                                          *)
THEOREM CoreIsTyped == Spec => []CoreInv
<1>1. Init => CoreInv
  BY InitCore
<1>2. CoreInv /\ [Next]_vars => CoreInv'
  BY CoreIsInductive
<1> QED
  BY <1>1, <1>2, PTL DEF Spec

-----------------------------------------------------------------------------
(* The theorems *)

(* The zones of every score frame suit the selector: two zones of one side *)
(* lie further apart than the tolerance (scoring.py:67 _price_components,  *)
(* active_box/policy.py).                                                  *)
THEOREM ScoresAlwaysSuitSelector == Spec => []ScoresSuitSelector
<1>1. CoreInv => ScoresSuitSelector
  <2> SUFFICES ASSUME CoreInv, NEW i \in 1 .. Len(scores)
               PROVE  Selector!Separated({z.key : z \in scores[i].zones})
    BY DEF ScoresSuitSelector
  <2>1. FrameTyped(frames[i]) /\ scores[i] = ScoreOf(frames[i])
    BY ScoreFactsTyped
  <2>2. {z.key : z \in scores[i].zones} = KeysOf(frames[i])
    BY <2>1, FactsAre
  <2>3. \A e \in frames[i].evidence : e.subject \in Subject
    BY <2>1 DEF FrameTyped, EvidenceTyped
  <2> QED
    BY <2>2, <2>3, KeysAreSeparated
<1> QED
  BY <1>1, CoreIsTyped, PTL

LEMMA QuietFrameOpensNothing ==
    ASSUME CoreInv, SelectFrame, now' = now + 1, now > 0, box = Selector!NoBox,
           frames[now].snapshot = frames[now + 1].snapshot, frames[now].bar = frames[now + 1].bar
    PROVE  box' = Selector!NoBox
<1> DEFINE early == frames[now]
           late == frames[now + 1]
<1>1. /\ now \in Nat /\ now + 1 \in 1 .. Len(scores) /\ status = "SELECTING" /\ now # now'
      /\ box' = Selector!BoxAfter(Facts(scores[now + 1]), box, now + 1)
  BY SelectFrameIs
<1>2. now \in 1 .. Len(scores) /\ now \in 1 .. Len(frames) - 1 /\ now + 1 \in Nat \ {0}
  BY <1>1 DEF CoreInv, StagesInv
<1>3. /\ FrameTyped(early) /\ scores[now] = ScoreOf(early)
      /\ FrameTyped(late) /\ scores[now + 1] = ScoreOf(late) /\ FactsTyped(Facts(scores[now + 1]))
  BY <1>1, <1>2, ScoreFactsTyped
<1>4. FramesAccept(frames)
  BY <1>1 DEF CoreInv, StagesInv
<1>5. late.asOf > early.asOf /\ late.evidence = early.evidence
  BY <1>2, <1>4 DEF FramesAccept
<1>6. early.asOf <= late.asOf
  BY <1>3, <1>5 DEF FrameTyped
<1> HIDE DEF early, late
<1>7. PairThere(Facts(ScoreOf(late))) => PairThere(Facts(ScoreOf(early)))
  BY <1>3, <1>5, <1>6, EligibilityFades DEF PairThere, early, late
<1>8. ~PairThere(Facts(scores[now])) /\ BoxTyped(box)
  BY DEF CoreInv, BoxInv
<1> QED
  BY <1>1, <1>2, <1>3, <1>7, <1>8, BoxMeansPair

(* While no snapshot and no bar arrives no box opens where none was: what  *)
(* evidence contributes only falls with its age, so no zone becomes        *)
(* eligible (scoring.py:272-377, msa_core/pipeline.py).                    *)
THEOREM QuietTimesNeverOpen == Spec => QuietTimesOpenNothing
<1> DEFINE Quiet == /\ now' = now + 1 /\ now > 0 /\ box = Selector!NoBox
                    /\ frames[now].snapshot = frames[now + 1].snapshot
                    /\ frames[now].bar = frames[now + 1].bar
                    => box' = Selector!NoBox
<1>1. CoreInv /\ [Next]_vars => [Quiet]_vars
  <2> SUFFICES ASSUME CoreInv, Next,
                      now' = now + 1, now > 0, box = Selector!NoBox,
                      frames[now].snapshot = frames[now + 1].snapshot,
                      frames[now].bar = frames[now + 1].bar
               PROVE  box' = Selector!NoBox
    OBVIOUS
  <2>1. now \in Nat /\ now' # now
    BY DEF CoreInv, StagesInv, BoxInv
  <2>2. ~Start /\ ~AssembleFrame /\ ~ScoreFrame /\ ~Finish
    BY <2>1 DEF Start, AssembleFrame, ScoreFrame, Finish, selectorVars
  <2>3. SelectFrame
    BY <2>2 DEF Next
  <2> QED
    BY <2>3, QuietFrameOpensNothing
<1> QED
  BY <1>1, CoreIsTyped, PTL DEF Spec, QuietTimesOpenNothing
=============================================================================
