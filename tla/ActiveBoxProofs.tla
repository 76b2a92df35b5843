-------------------------- MODULE ActiveBoxProofs --------------------------
(***************************************************************************)
(* Theorems about ActiveBox, for every set of zones, every policy and any  *)
(* number of frames.                                                       *)
(***************************************************************************)
EXTENDS ActiveBox, SequenceTheorems, WellFoundedInduction, TLAPS

USE ZoneAssumption, PolicyAssumption, LastTimeAssumption

Side == {"LOWER", "UPPER"}

-----------------------------------------------------------------------------
(* The least element of a set of natural numbers *)

LEMMA LeastNatural ==
    ASSUME NEW S \in SUBSET Nat, S # {}
    PROVE  \E m \in S : \A n \in S : m <= n
<1> DEFINE Less == OpToRel(<, Nat)
<1>1. IsWellFoundedOn(Less, Nat)
  BY NatLessThanWellFounded
<1>2. PICK m \in S : \A n \in S : ~(<<n, m>> \in Less)
  <2> HIDE DEF Less
  <2> QED
    BY <1>1, WFMin
<1>3. ASSUME NEW n \in S PROVE m <= n
  <2>1. m \in Nat /\ n \in Nat
    OBVIOUS
  <2>2. ~(n < m)
    BY <1>2, <2>1 DEF OpToRel
  <2> QED
    BY <2>1, <2>2
<1> QED
  BY <1>3

-----------------------------------------------------------------------------
(* Score frames *)

LEMMA FrameType ==
    ASSUME NEW frame \in ScoreFrame
    PROVE  /\ frame.price \in Price /\ frame.price \in Nat
           /\ Zones(frame) \in SUBSET ZoneKey
           /\ Separated(Zones(frame))
           /\ \A k \in Zones(frame) : frame.quality[k] \in Nat
<1>1. PICK keys \in SUBSET ZoneKey :
        /\ Separated(keys)
        /\ frame \in [price : Price,
                      quality : {q \in [keys -> UNION {QualitiesOf[k] : k \in keys}] :
                                    \A k \in keys : q[k] \in QualitiesOf[k]}]
  BY ZoneSetsAssumption DEF ScoreFrame
<1>2. frame.price \in Price /\ DOMAIN frame.quality = keys
      /\ \A k \in keys : frame.quality[k] \in QualitiesOf[k]
  BY <1>1
<1>3. \A k \in keys : QualitiesOf[k] \subseteq Nat
  BY <1>1
<1> QED
  BY <1>1, <1>2, <1>3 DEF Zones

(* A zone of a side that qualifies lies wholly beyond the price. *)
LEMMA EligibleIsBeyond ==
    ASSUME NEW frame \in ScoreFrame, NEW side \in Side, NEW k \in EligibleZones(frame, side)
    PROVE  /\ k \in ZoneKey /\ k \in Zones(frame) /\ SideOf[k] = side
           /\ frame.price \in Nat /\ LowOf[k] \in Int /\ HighOf[k] \in Int /\ LowOf[k] <= HighOf[k]
           /\ side = "LOWER" => /\ HighOf[k] < frame.price
                                /\ Distance(k, frame.price) = frame.price - HighOf[k]
           /\ side = "UPPER" => /\ LowOf[k] > frame.price
                                /\ Distance(k, frame.price) = LowOf[k] - frame.price
           /\ Distance(k, frame.price) \in Nat
<1>1. k \in ZoneKey /\ k \in Zones(frame) /\ SideOf[k] = side /\ frame.price \in Nat
  BY FrameType DEF EligibleZones, SideZones
<1>2. LowOf[k] \in Int /\ HighOf[k] \in Int /\ LowOf[k] <= HighOf[k]
  BY <1>1
<1>3. ExpectedSide(k, frame.price)
  BY DEF EligibleZones, Eligible
<1> QED
  BY <1>1, <1>2, <1>3 DEF ExpectedSide, Distance, Side

(* Zones of one side that qualify have different distances: they lie apart *)
(* on the same side of the price.                                          *)
LEMMA DistancesDiffer ==
    ASSUME NEW frame \in ScoreFrame, NEW side \in Side,
           NEW j \in EligibleZones(frame, side), NEW k \in EligibleZones(frame, side), j # k
    PROVE  Distance(j, frame.price) # Distance(k, frame.price)
<1>1. Apart(j, k)
  BY FrameType, EligibleIsBeyond DEF Separated
<1>2. LowOf[j] - HighOf[k] > 0 \/ LowOf[k] - HighOf[j] > 0
  <2>1. LowOf[j] \in Int /\ HighOf[j] \in Int /\ LowOf[k] \in Int /\ HighOf[k] \in Int
    BY EligibleIsBeyond
  <2> QED
    BY <1>1, <2>1 DEF Apart
<1>3. CASE side = "LOWER"
  BY <1>2, <1>3, EligibleIsBeyond
<1>4. CASE side = "UPPER"
  BY <1>2, <1>4, EligibleIsBeyond
<1> QED
  BY <1>3, <1>4 DEF Side

(* Hence the first zone is the nearest one. *)
LEMMA FirstIsNearest ==
    ASSUME NEW frame \in ScoreFrame, NEW side \in Side,
           NEW keys \in SUBSET EligibleZones(frame, side), keys # {}
    PROVE  /\ First(frame, keys) \in keys
           /\ \A k \in keys \ {First(frame, keys)} :
                Distance(First(frame, keys), frame.price) < Distance(k, frame.price)
<1> DEFINE D(k) == Distance(k, frame.price)
           S == {D(k) : k \in keys}
<1>1. \A k \in keys : D(k) \in Nat
  BY EligibleIsBeyond
<1>2. \A j, k \in keys : j # k => D(j) # D(k)
  BY DistancesDiffer
<1> HIDE DEF D
<1>3. PICK m \in S : \A n \in S : m <= n
  <2>1. S \in SUBSET Nat /\ S # {}
    BY <1>1
  <2> HIDE DEF S
  <2> QED
    BY <2>1, LeastNatural
<1>4. PICK j \in keys : m = D(j)
  BY <1>3
<1>5. ASSUME NEW k \in keys \ {j} PROVE D(j) < D(k)
  <2>1. D(j) <= D(k)
    BY <1>3, <1>4
  <2>2. D(j) # D(k)
    BY <1>2
  <2> QED
    BY <1>1, <2>1, <2>2
<1>6. \A k \in keys \ {j} : Precedes(frame, j, k)
  BY <1>5 DEF Precedes, D
<1>7. ASSUME NEW i \in keys, \A k \in keys \ {i} : Precedes(frame, i, k)
      PROVE  i = j
  <2> SUFFICES ASSUME i # j PROVE FALSE
    OBVIOUS
  <2>1. D(i) < D(j) \/ D(i) = D(j)
    BY <1>7 DEF Precedes, D
  <2> QED
    BY <1>1, <1>5, <2>1
<1>8. First(frame, keys) = j
  BY <1>6, <1>7 DEF First
<1> QED
  BY <1>5, <1>8 DEF D

LEMMA FirstOfMore ==
    ASSUME NEW frame \in ScoreFrame, NEW side \in Side,
           NEW current \in EligibleZones(frame, side),
           First(frame, EligibleZones(frame, side)) # current
    PROVE  Challenger(frame, side, current) = First(frame, EligibleZones(frame, side))
<1> DEFINE eligible == EligibleZones(frame, side)
           f == First(frame, eligible)
           c == First(frame, eligible \ {current})
<1>1. f \in eligible \ {current} /\ \A k \in eligible \ {f} : Distance(f, frame.price) < Distance(k, frame.price)
  BY FirstIsNearest
<1>2. c \in eligible \ {current} /\ \A k \in (eligible \ {current}) \ {c} : Distance(c, frame.price) < Distance(k, frame.price)
  BY <1>1, FirstIsNearest
<1>3. ASSUME c # f PROVE FALSE
  <2>1. Distance(f, frame.price) < Distance(c, frame.price) /\ Distance(c, frame.price) < Distance(f, frame.price)
    BY <1>1, <1>2, <1>3
  <2>2. Distance(f, frame.price) \in Nat /\ Distance(c, frame.price) \in Nat
    BY <1>1, <1>2, EligibleIsBeyond
  <2> QED
    BY <2>1, <2>2
<1> QED
  BY <1>3 DEF Challenger

LEMMA MarginIsNatural ==
    ASSUME NEW price \in Nat
    PROVE  EffectiveMargin(price) \in Nat
<1>1. \A a, b \in Nat : a * b \in Nat
  OBVIOUS
<1> QED
  BY <1>1 DEF EffectiveMargin

(* What the selection of a side gives, for any zone held before. *)
LEMMA SelectedCases ==
    ASSUME NEW frame \in ScoreFrame, NEW side \in Side, NEW current
    PROVE  LET eligible == EligibleZones(frame, side)
               f == First(frame, eligible)
               s == Selected(frame, side, current)
           IN /\ eligible = {} <=> s = None
              /\ eligible # {} => s \in eligible /\ f \in eligible
              /\ current \notin eligible /\ eligible # {} => s = f
              /\ current \in eligible =>
                   \/ s = current /\ f = current
                   \/ s = current /\ f # current /\ ~Beats(frame, f, current)
                   \/ s = f /\ f # current /\ Beats(frame, f, current)
<1> DEFINE eligible == EligibleZones(frame, side)
           f == First(frame, eligible)
<1>1. None \notin eligible
  BY FrameType DEF EligibleZones, SideZones
<1>2. eligible # {} => f \in eligible
  BY FirstIsNearest
<1>3. current \in eligible /\ f # current => Challenger(frame, side, current) = f
  BY FirstOfMore
<1>4. eligible = {current} => f = current
  BY <1>2
<1> HIDE DEF eligible, f
<1> QED
  BY <1>1, <1>2, <1>3, <1>4 DEF Selected, eligible, f

(* A zone that beats one that qualifies is strictly nearer. *)
LEMMA BeatsIsNearer ==
    ASSUME NEW frame \in ScoreFrame, NEW side \in Side,
           NEW j \in EligibleZones(frame, side), NEW k \in EligibleZones(frame, side), j # k,
           Beats(frame, j, k)
    PROVE  Distance(j, frame.price) < Distance(k, frame.price)
<1> DEFINE gain == Distance(k, frame.price) - Distance(j, frame.price)
<1>1. /\ Distance(j, frame.price) \in Nat /\ Distance(k, frame.price) \in Nat
      /\ Distance(j, frame.price) # Distance(k, frame.price)
      /\ frame.price \in Nat
  BY EligibleIsBeyond, DistancesDiffer
<1>2. gain \in Int /\ Unit \in Nat /\ EffectiveMargin(frame.price) \in Nat
  BY <1>1, MarginIsNatural
<1>3. gain * Unit > EffectiveMargin(frame.price) \/ gain >= 0
  BY DEF Beats
<1>4. gain >= 0
  <2>1. \A a \in Int, b \in Nat, c \in Nat : a * b > c => a >= 0
    OBVIOUS
  <2> HIDE DEF gain
  <2> QED
    BY <1>2, <1>3, <2>1
<1> QED
  BY <1>1, <1>4

(* Selecting again from the same frame changes nothing. *)
LEMMA SelectedIsStable ==
    ASSUME NEW frame \in ScoreFrame, NEW side \in Side, NEW current
    PROVE  Selected(frame, side, Selected(frame, side, current)) = Selected(frame, side, current)
<1> DEFINE eligible == EligibleZones(frame, side)
           f == First(frame, eligible)
           s == Selected(frame, side, current)
           t == Selected(frame, side, s)
<1>1. CASE eligible = {}
  BY <1>1, SelectedCases
<1>2. CASE eligible # {} /\ s = f
  <2>1. f \in eligible
    BY <1>2, SelectedCases
  <2>2. t = s \/ f # s
    BY <1>2, <2>1, SelectedCases
  <2> QED
    BY <1>2, <2>2
<1>3. CASE eligible # {} /\ s # f
  <2>1. s = current /\ current \in eligible /\ ~Beats(frame, f, s)
    BY <1>3, SelectedCases
  <2>2. \/ t = s
        \/ t = f /\ Beats(frame, f, s)
    BY <2>1, SelectedCases
  <2> QED
    BY <2>1, <2>2
<1> QED
  BY <1>1, <1>2, <1>3

(* The selected zone lags the nearest by at most the margin. *)
LEMMA SelectedTracks ==
    ASSUME NEW frame \in ScoreFrame, NEW side \in Side, NEW current, EligibleZones(frame, side) # {}
    PROVE  (Distance(Selected(frame, side, current), frame.price)
              - Distance(First(frame, EligibleZones(frame, side)), frame.price)) * Unit
                <= EffectiveMargin(frame.price)
<1> DEFINE eligible == EligibleZones(frame, side)
           f == First(frame, eligible)
           s == Selected(frame, side, current)
           lag == Distance(s, frame.price) - Distance(f, frame.price)
<1>1. s \in eligible /\ f \in eligible
  BY SelectedCases
<1>2. /\ Distance(s, frame.price) \in Nat /\ Distance(f, frame.price) \in Nat
      /\ frame.price \in Nat /\ EffectiveMargin(frame.price) \in Nat
  BY <1>1, EligibleIsBeyond, MarginIsNatural
<1>3. CASE s = f
  <2>1. lag = 0
    BY <1>2, <1>3
  <2>2. lag * Unit = 0
    BY <2>1
  <2> QED
    BY <1>2, <2>2
<1>4. CASE s # f
  <2>1. ~Beats(frame, f, s)
    BY <1>1, <1>4, SelectedCases
  <2>2. ~(lag * Unit > EffectiveMargin(frame.price))
    BY <2>1 DEF Beats
  <2>3. \A a \in Int, b \in Nat : a * b \in Int
    OBVIOUS
  <2>4. lag * Unit \in Int
    BY <1>2, <2>3
  <2> QED
    BY <1>2, <2>2, <2>4
<1> QED
  BY <1>3, <1>4

-----------------------------------------------------------------------------
(* The selected box *)

LEMMA KeysType ==
    ASSUME NEW previous \in Snapshot \cup {NoBox}
    PROVE  /\ Keys(previous) = [lower |-> Keys(previous).lower, upper |-> Keys(previous).upper]
           /\ previous = NoBox <=> ~Complete(Keys(previous))
           /\ previous # NoBox => /\ previous \in Snapshot
                                  /\ Keys(previous).lower = previous.episode.lower
                                  /\ Keys(previous).upper = previous.episode.upper
  BY DEF Keys, Complete, Snapshot, Episode

LEMMA SelectedPairType ==
    ASSUME NEW frame \in ScoreFrame, NEW previous \in Snapshot \cup {NoBox}
    PROVE  LET pair == SelectedPair(frame, previous)
           IN /\ pair = [lower |-> pair.lower, upper |-> pair.upper]
              /\ Complete(pair) <=> /\ EligibleZones(frame, "LOWER") # {}
                                    /\ EligibleZones(frame, "UPPER") # {}
              /\ Complete(pair) => /\ pair.lower \in EligibleZones(frame, "LOWER")
                                   /\ pair.upper \in EligibleZones(frame, "UPPER")
<1>1. "LOWER" \in Side /\ "UPPER" \in Side
  BY DEF Side
<1> QED
  BY <1>1, SelectedCases DEF SelectedPair, Complete

(* The pair of the previous box is complete and selected again: the box is *)
(* observed.                                                               *)
LEMMA BoxObserved ==
    ASSUME NEW frame \in ScoreFrame, NEW previous \in Snapshot \cup {NoBox},
           NEW time \in Nat \ {0},
           Complete(SelectedPair(frame, previous)), SelectedPair(frame, previous) = Keys(previous)
    PROVE  /\ BoxAfter(frame, previous, time) \in Snapshot
           /\ BoxAfter(frame, previous, time) # NoBox
           /\ BoxAfter(frame, previous, time).asOf = time
           /\ Keys(BoxAfter(frame, previous, time)) = SelectedPair(frame, previous)
           /\ previous # NoBox
           /\ BoxAfter(frame, previous, time) = Observed(previous, time)
           /\ BoxAfter(frame, previous, time).episode = previous.episode
<1> DEFINE next == BoxAfter(frame, previous, time)
<1>1. previous # NoBox /\ previous \in Snapshot
  BY KeysType
<1>2. next = Observed(previous, time)
  BY DEF BoxAfter
<1>3. next \in Snapshot /\ next.asOf = time /\ next.episode = previous.episode
  BY <1>1, <1>2 DEF Observed, Snapshot
<1>4. next # NoBox
  BY <1>3 DEF NoBox
<1>5. Keys(next) = Keys(previous)
  BY <1>1, <1>3, <1>4 DEF Keys
<1> QED
  BY <1>1, <1>2, <1>3, <1>4, <1>5

(* Another complete pair is selected: the box is a new episode. *)
LEMMA BoxCreated ==
    ASSUME NEW frame \in ScoreFrame, NEW previous \in Snapshot \cup {NoBox},
           NEW time \in Nat \ {0},
           Complete(SelectedPair(frame, previous)), SelectedPair(frame, previous) # Keys(previous)
    PROVE  /\ BoxAfter(frame, previous, time) \in Snapshot
           /\ BoxAfter(frame, previous, time) # NoBox
           /\ BoxAfter(frame, previous, time).asOf = time
           /\ Keys(BoxAfter(frame, previous, time)) = SelectedPair(frame, previous)
           /\ BoxAfter(frame, previous, time).episode.created = time
           /\ BoxAfter(frame, previous, time).episode.price = frame.price
<1> DEFINE next == BoxAfter(frame, previous, time)
           pair == SelectedPair(frame, previous)
<1>1. /\ pair.lower \in ZoneKey /\ pair.upper \in ZoneKey /\ frame.price \in Price
      /\ pair = [lower |-> pair.lower, upper |-> pair.upper]
  <2>1. "LOWER" \in Side /\ "UPPER" \in Side
    BY DEF Side
  <2>2. \A side \in Side : EligibleZones(frame, side) \subseteq ZoneKey
    BY EligibleIsBeyond
  <2> QED
    BY <2>1, <2>2, SelectedPairType, FrameType
<1>2. next = [episode |-> [created |-> time, lower |-> pair.lower, upper |-> pair.upper,
                           price |-> frame.price],
              asOf |-> time]
  BY DEF BoxAfter, Created
<1> HIDE DEF next, pair
<1>3. next \in Snapshot /\ next.asOf = time
  BY <1>1, <1>2 DEF Snapshot, Episode
<1>4. next # NoBox
  BY <1>3 DEF NoBox
<1>5. next.episode = [created |-> time, lower |-> pair.lower, upper |-> pair.upper,
                      price |-> frame.price]
  BY <1>2
<1>6. Keys(next) = [lower |-> pair.lower, upper |-> pair.upper]
  BY <1>4, <1>5 DEF Keys
<1> QED
  BY <1>1, <1>3, <1>4, <1>5, <1>6 DEF next, pair

LEMMA BoxAfterPair ==
    ASSUME NEW frame \in ScoreFrame, NEW previous \in Snapshot \cup {NoBox},
           NEW time \in Nat \ {0}
    PROVE  /\ BoxAfter(frame, previous, time) \in Snapshot \cup {NoBox}
           /\ BoxAfter(frame, previous, time) = NoBox <=> ~Complete(SelectedPair(frame, previous))
           /\ BoxAfter(frame, previous, time) # NoBox =>
                /\ BoxAfter(frame, previous, time).asOf = time
                /\ Keys(BoxAfter(frame, previous, time)) = SelectedPair(frame, previous)
<1>1. CASE ~Complete(SelectedPair(frame, previous))
  BY <1>1 DEF BoxAfter
<1>2. CASE Complete(SelectedPair(frame, previous)) /\ SelectedPair(frame, previous) = Keys(previous)
  BY <1>2, BoxObserved
<1>3. CASE Complete(SelectedPair(frame, previous)) /\ SelectedPair(frame, previous) # Keys(previous)
  BY <1>3, BoxCreated
<1> QED
  BY <1>1, <1>2, <1>3

LEMMA EventsAfterType ==
    ASSUME NEW frame \in ScoreFrame, NEW previous \in Snapshot \cup {NoBox},
           NEW time \in Nat \ {0}
    PROVE  EventsAfter(frame, previous, time) \in Seq(Event)
<1> DEFINE next == BoxAfter(frame, previous, time)
<1>1. next \in Snapshot \cup {NoBox}
  BY BoxAfterPair
<1>2. ASSUME NEW s \in Snapshot, NEW reason \in {"PAIR_CHANGED", "PAIR_UNAVAILABLE", "INITIAL_PAIR"}
      PROVE  /\ reason # "PAIR_UNAVAILABLE" => CreatedEvent(reason, s, time) \in Event
             /\ reason # "INITIAL_PAIR" => FrozenEvent(reason, s, time) \in Event
  BY DEF CreatedEvent, FrozenEvent, Event, Snapshot
<1> HIDE DEF next
<1>3. CASE previous = NoBox /\ next # NoBox
  <2>1. EventsAfter(frame, previous, time) = <<CreatedEvent("INITIAL_PAIR", next, time)>>
    BY <1>3 DEF EventsAfter, EventsBetween, next
  <2> QED
    BY <1>1, <1>2, <1>3, <2>1
<1>4. CASE previous # NoBox /\ next = NoBox
  <2>1. EventsAfter(frame, previous, time) = <<FrozenEvent("PAIR_UNAVAILABLE", previous, time)>>
    BY <1>4 DEF EventsAfter, EventsBetween, next
  <2> QED
    BY <1>2, <1>4, <2>1
<1>5. CASE previous # NoBox /\ next # NoBox /\ Keys(next) # Keys(previous)
  <2>1. EventsAfter(frame, previous, time)
          = <<FrozenEvent("PAIR_CHANGED", previous, time), CreatedEvent("PAIR_CHANGED", next, time)>>
    BY <1>5 DEF EventsAfter, EventsBetween, next
  <2> QED
    BY <1>1, <1>2, <1>5, <2>1
<1>6. CASE /\ ~(previous = NoBox /\ next # NoBox)
           /\ ~(previous # NoBox /\ next = NoBox)
           /\ ~(previous # NoBox /\ next # NoBox /\ Keys(next) # Keys(previous))
  <2>1. EventsAfter(frame, previous, time) = <<>>
    BY <1>6 DEF EventsAfter, EventsBetween, next
  <2> QED
    BY <2>1
<1> QED
  BY <1>3, <1>4, <1>5, <1>6

(* No call is refused on a box whose own price its inner edges hold.       *)
HoldsPrice(s) == InnerEdgesHold(s.episode.lower, s.episode.upper, s.episode.price)

LEMMA NeverRefused ==
    ASSUME NEW frame \in ScoreFrame, NEW previous \in Snapshot \cup {NoBox},
           NEW time \in Nat \ {0}, previous # NoBox => HoldsPrice(previous)
    PROVE  LET next == BoxAfter(frame, previous, time)
           IN /\ ~Refused(frame, previous, time)
              /\ next # NoBox => HoldsPrice(next)
<1> DEFINE next == BoxAfter(frame, previous, time)
           pair == SelectedPair(frame, previous)
<1> SUFFICES ASSUME next # NoBox
             PROVE  ~Refused(frame, previous, time) /\ HoldsPrice(next)
  BY DEF Refused
<1>1. /\ Keys(next) = pair /\ next \in Snapshot /\ Complete(pair)
      /\ \/ previous # NoBox /\ next.episode = previous.episode
         \/ next.episode.price = frame.price
  <2>1. Complete(pair)
    BY BoxAfterPair
  <2> QED
    BY <2>1, BoxObserved, BoxCreated
<1>2. pair.lower \in EligibleZones(frame, "LOWER") /\ pair.upper \in EligibleZones(frame, "UPPER")
  BY <1>1, SelectedPairType
<1>3. pair.lower = next.episode.lower /\ pair.upper = next.episode.upper
  BY <1>1, KeysType
<1>4. /\ InnerEdgesHold(pair.lower, pair.upper, frame.price)
      /\ pair.lower \in Zones(frame) /\ pair.upper \in Zones(frame)
  <2>1. "LOWER" \in Side /\ "UPPER" \in Side
    BY DEF Side
  <2> QED
    BY <1>2, <2>1, EligibleIsBeyond DEF InnerEdgesHold
<1>5. HoldsPrice(next)
  BY <1>1, <1>3, <1>4 DEF HoldsPrice
<1> QED
  BY <1>3, <1>4, <1>5 DEF Refused, HoldsPrice

-----------------------------------------------------------------------------
(* Calls *)

(* Every box handed out so far can be given to a call again. *)
HandedOK ==
    /\ box \in handed \cup {NoBox}
    /\ \A s \in handed : s.asOf \in 1 .. now /\ HoldsPrice(s)

(* Selecting again from the last frame would change nothing. *)
Settled == box # NoBox => SelectedPair(score, box) = Keys(box)

CallInv == TypeOK /\ NeverRaises /\ HandedOK /\ BoxTracksNearest /\ Settled

LEMMA HandedIsSnapshot ==
    ASSUME TypeOK, HandedOK, NEW s \in handed
    PROVE  s \in Snapshot /\ s # NoBox /\ s.asOf \in Nat /\ s.asOf > 0
<1>1. s \in Snapshot /\ s.asOf \in Nat /\ s.asOf > 0
  <2>1. now \in Nat
    BY DEF TypeOK
  <2> QED
    BY <2>1 DEF TypeOK, HandedOK
<1> QED
  BY <1>1 DEF NoBox

(* What an accepted call does to the state. *)
LEMMA CallEffect ==
    ASSUME TypeOK, NeverRaises, HandedOK, NEW frame \in ScoreFrame, NEW previous \in handed \cup {NoBox},
           SelectFrame(frame, previous)
    PROVE  /\ now' = now + 1 /\ now' \in Nat \ {0} /\ now' <= LastTime /\ now \in Nat
           /\ score' = frame
           /\ previous \in Snapshot \cup {NoBox}
           /\ box' = BoxAfter(frame, previous, now')
           /\ events' = events \o EventsAfter(frame, previous, now')
           /\ handed' = handed \cup ({box'} \ {NoBox})
           /\ chained' \in BOOLEAN /\ accepted' \in BOOLEAN
           /\ accepted' = (accepted /\ Continues(box, previous, frame, now') /\ LedgerOK(events', handed'))
           /\ raised' = FALSE
           /\ box' # NoBox => HoldsPrice(box')
<1>1. now \in Nat /\ now < LastTime /\ now + 1 \in Nat \ {0} /\ now + 1 <= LastTime
  BY DEF TypeOK, SelectFrame
<1>2. previous \in Snapshot \cup {NoBox} /\ (previous # NoBox => HoldsPrice(previous))
  BY HandedIsSnapshot DEF HandedOK
<1>3. /\ ~Refused(frame, previous, now + 1)
      /\ BoxAfter(frame, previous, now + 1) # NoBox => HoldsPrice(BoxAfter(frame, previous, now + 1))
  BY <1>1, <1>2, NeverRefused
<1>4. /\ now' = now + 1 /\ score' = frame
      /\ box' = BoxAfter(frame, previous, now + 1)
      /\ events' = events \o EventsAfter(frame, previous, now + 1)
      /\ handed' = handed \cup ({box'} \ {NoBox})
      /\ chained' = (chained /\ box' = BoxAfter(frame, box, now + 1)
                       /\ EventsAfter(frame, previous, now + 1) = EventsAfter(frame, box, now + 1))
      /\ accepted' = (accepted /\ Continues(box, previous, frame, now + 1) /\ LedgerOK(events', handed'))
      /\ raised' = raised
  BY <1>3 DEF SelectFrame
<1>5. chained' \in BOOLEAN /\ accepted' \in BOOLEAN /\ raised' = FALSE
  <2>1. raised = FALSE
    BY DEF TypeOK, NeverRaises
  <2>2. (accepted /\ Continues(box, previous, frame, now + 1) /\ LedgerOK(events', handed')) \in BOOLEAN
    OBVIOUS
  <2>3. (chained /\ box' = BoxAfter(frame, box, now + 1)
           /\ EventsAfter(frame, previous, now + 1) = EventsAfter(frame, box, now + 1)) \in BOOLEAN
    OBVIOUS
  <2> QED
    BY <1>4, <2>1, <2>2, <2>3, Zenon
<1> QED
  BY <1>1, <1>2, <1>3, <1>4, <1>5, Zenon

LEMMA CallTracks ==
    ASSUME NEW frame \in ScoreFrame, NEW previous \in Snapshot \cup {NoBox}, now' \in Nat \ {0},
           score' = frame, box' = BoxAfter(frame, previous, now')
    PROVE  BoxTracksNearest' /\ Settled'
<1> DEFINE pair == SelectedPair(frame, previous)
<1>1. "LOWER" \in Side /\ "UPPER" \in Side
  BY DEF Side
<1>2. /\ box' = NoBox <=> ~Complete(pair)
      /\ box' # NoBox => Keys(box') = pair
  <2> DEFINE next == BoxAfter(frame, previous, now')
  <2>1. /\ next = NoBox <=> ~Complete(pair)
        /\ next # NoBox => Keys(next) = pair
    BY BoxAfterPair
  <2> HIDE DEF next, pair
  <2>2. box' = next
    BY DEF next
  <2> QED
    BY <2>1, <2>2
<1>3. /\ Complete(pair) <=> EligibleZones(frame, "LOWER") # {} /\ EligibleZones(frame, "UPPER") # {}
      /\ Complete(pair) => /\ pair.lower \in EligibleZones(frame, "LOWER")
                           /\ pair.upper \in EligibleZones(frame, "UPPER")
  BY SelectedPairType
<1>4. ASSUME Complete(pair)
      PROVE  /\ Lag("LOWER", pair.lower)' * Unit <= EffectiveMargin(frame.price)
             /\ Lag("UPPER", pair.upper)' * Unit <= EffectiveMargin(frame.price)
  <2>1. /\ pair.lower = Selected(frame, "LOWER", Keys(previous).lower)
        /\ pair.upper = Selected(frame, "UPPER", Keys(previous).upper)
    BY DEF SelectedPair
  <2>2. /\ Lag("LOWER", pair.lower)'
             = Distance(pair.lower, frame.price) - Distance(First(frame, EligibleZones(frame, "LOWER")), frame.price)
        /\ Lag("UPPER", pair.upper)'
             = Distance(pair.upper, frame.price) - Distance(First(frame, EligibleZones(frame, "UPPER")), frame.price)
    BY DEF Lag
  <2> HIDE DEF pair
  <2> QED
    BY <1>1, <1>3, <1>4, <2>1, <2>2, SelectedTracks
<1>5. BoxTracksNearest'
  BY <1>2, <1>3, <1>4 DEF BoxTracksNearest, Lag
<1>6. Settled'
  <2>1. SUFFICES ASSUME box' # NoBox PROVE SelectedPair(frame, box') = pair
    BY <1>2 DEF Settled
  <2>2. Keys(box').lower = pair.lower /\ Keys(box').upper = pair.upper
    BY <1>2, <2>1
  <2>3. /\ pair.lower = Selected(frame, "LOWER", Keys(previous).lower)
        /\ pair.upper = Selected(frame, "UPPER", Keys(previous).upper)
    BY DEF SelectedPair
  <2> QED
    BY <1>1, <2>2, <2>3, SelectedIsStable DEF SelectedPair
<1> QED
  BY <1>5, <1>6

LEMMA CallInvInit == Init => CallInv
<1> SUFFICES ASSUME Init PROVE CallInv
  OBVIOUS
<1>1. TypeOK
  <2>1. <<>> \in Seq(Event) /\ 0 \in 0 .. LastTime
    OBVIOUS
  <2> QED
    BY <2>1 DEF Init, TypeOK
<1>2. NeverRaises /\ HandedOK
  BY DEF Init, NeverRaises, HandedOK
<1>3. \A side \in Side : EligibleZones(score, side) = {}
  BY DEF Init, EligibleZones, SideZones
<1>4. BoxTracksNearest /\ Settled
  BY <1>3 DEF Init, BoxTracksNearest, Settled, Side
<1> QED
  BY <1>1, <1>4, <1>2 DEF CallInv

LEMMA CallInvStep ==
    ASSUME CallInv, NEW frame \in ScoreFrame, NEW previous \in handed \cup {NoBox},
           SelectFrame(frame, previous)
    PROVE  CallInv'
<1> USE DEF CallInv
<1>1. /\ now' = now + 1 /\ now' \in Nat \ {0} /\ now' <= LastTime /\ now \in Nat
      /\ score' = frame
      /\ previous \in Snapshot \cup {NoBox}
      /\ box' = BoxAfter(frame, previous, now')
      /\ events' = events \o EventsAfter(frame, previous, now')
      /\ handed' = handed \cup ({box'} \ {NoBox})
      /\ chained' \in BOOLEAN /\ accepted' \in BOOLEAN
      /\ raised' = FALSE
      /\ box' # NoBox => HoldsPrice(box')
  BY CallEffect
<1>2. box' \in Snapshot \cup {NoBox} /\ (box' # NoBox => box'.asOf = now')
  <2> DEFINE next == BoxAfter(frame, previous, now')
  <2>1. next # NoBox => next \in Snapshot /\ next.asOf = now'
    BY <1>1, BoxAfterPair
  <2> HIDE DEF next
  <2>2. box' = next
    BY <1>1 DEF next
  <2> QED
    BY <2>1, <2>2
<1>3. events' \in Seq(Event)
  <2>1. EventsAfter(frame, previous, now') \in Seq(Event) /\ events \in Seq(Event)
    BY <1>1, EventsAfterType DEF TypeOK
  <2> QED
    BY <1>1, <2>1
<1>4. TypeOK'
  <2>1. now' \in 0 .. LastTime
    BY <1>1
  <2>2. handed' \in SUBSET Snapshot
    BY <1>1, <1>2 DEF TypeOK
  <2> QED
    BY <1>1, <1>2, <1>3, <2>1, <2>2 DEF TypeOK
<1>5. NeverRaises'
  BY <1>1 DEF NeverRaises
<1>6. HandedOK'
  <2>1. \A s \in handed : s.asOf \in 1 .. now' /\ HoldsPrice(s)
    BY <1>1 DEF HandedOK
  <2> QED
    BY <1>1, <1>2, <2>1 DEF HandedOK
<1>7. BoxTracksNearest' /\ Settled'
  BY <1>1, CallTracks
<1> QED
  BY <1>4, <1>5, <1>6, <1>7

LEMMA CallInvStutter == CallInv /\ UNCHANGED vars => CallInv'
  BY DEF CallInv, vars, TypeOK, NeverRaises, HandedOK, BoxTracksNearest, Lag, Settled

(* The inductive invariant of the selector's calls, in any order a caller  *)
(* may make them.                                                          *)
THEOREM CallInvariant == Calls => []CallInv
<1>1. CallInv /\ [CallStep]_vars => CallInv'
  BY CallInvStep, CallInvStutter DEF CallStep
<1> QED
  BY <1>1, CallInvInit, PTL DEF Calls

(* Every step of a batch is a call, so what calls never do batches never   *)
(* do.                                                                     *)
THEOREM BatchIsCalls == Batch => Calls
<1>1. HandedOK /\ [BatchStep]_vars => [CallStep]_vars
  BY DEF HandedOK, BatchStep, CallStep
<1>2. CallInv /\ [BatchStep]_vars => CallInv'
  BY CallInvStep, CallInvStutter DEF BatchStep, CallInv, HandedOK
<1>3. CallInv => HandedOK
  BY DEF CallInv
<1> QED
  BY <1>1, <1>2, <1>3, CallInvInit, PTL DEF Batch, Calls

(* Every state of the selector is well typed, whatever box each call gets. *)
THEOREM TypeCorrect == Calls => []TypeOK
  BY CallInvariant, PTL DEF CallInv

(* No call fails on valid input, whatever box it is given                  *)
(* (observe_active_box_snapshot and the validators of the box and of the   *)
(* selection frame).                                                       *)
THEOREM NoCallRaises == Calls => []NeverRaises
  BY CallInvariant, PTL DEF CallInv

(* The zones of a side that qualify never tie in distance, for any         *)
(* tolerance and any placement of the zones (selection_key).               *)
THEOREM DistanceDecides == Calls => []NoTies
<1>1. TypeOK => NoTies
  BY DistancesDiffer DEF TypeOK, NoTies, Side
<1> QED
  BY <1>1, TypeCorrect, PTL

(* A box exists exactly when both sides have an eligible zone, and follows *)
(* the nearest ones within the margin (build_side_decision).               *)
THEOREM BoxFollowsNearest == Calls => []BoxTracksNearest
  BY CallInvariant, PTL DEF CallInv

-----------------------------------------------------------------------------
(* Batches *)

LEMMA BatchInvariant == Batch => []CallInv
  BY BatchIsCalls, CallInvariant, PTL

(* The same scores again keep the box and the ledger (build_side_decision, *)
(* select_frame): replacements never feed each other.                      *)
THEOREM SameScoresChangeNothing == Batch => SameScoresKeepBox
<1>1. ASSUME CallInv, BatchStep, score' = score, now' # now
      PROVE  Keys(box') = Keys(box) /\ events' = events
  <2>1. SelectFrame(score, box) /\ score \in ScoreFrame /\ box \in handed \cup {NoBox}
    <3>1. PICK frame \in ScoreFrame : SelectFrame(frame, box)
      BY <1>1 DEF BatchStep
    <3>2. score' = frame
      BY <1>1, <3>1, CallEffect DEF CallInv, HandedOK
    <3> QED
      BY <1>1, <3>1, <3>2 DEF CallInv, HandedOK
  <2>2. /\ now' \in Nat \ {0} /\ box \in Snapshot \cup {NoBox}
        /\ box' = BoxAfter(score, box, now')
        /\ events' = events \o EventsAfter(score, box, now')
    BY <1>1, <2>1, CallEffect DEF CallInv
  <2>3. events \in Seq(Event) /\ events \o <<>> = events
    BY <1>1 DEF CallInv, TypeOK
  <2>4. CASE box = NoBox
    <3>1. ~Complete(SelectedPair(score, box))
      BY <1>1, <2>1, <2>2, <2>4, SelectedPairType DEF CallInv, BoxTracksNearest
    <3>2. box' = NoBox
      BY <2>2, <3>1 DEF BoxAfter
    <3>3. EventsAfter(score, box, now') = <<>>
      BY <2>2, <2>4, <3>2 DEF EventsAfter, EventsBetween
    <3> QED
      BY <2>2, <2>3, <2>4, <3>2, <3>3
  <2>5. CASE box # NoBox
    <3>1. SelectedPair(score, box) = Keys(box)
      BY <1>1, <2>5 DEF CallInv, Settled
    <3>2. Complete(Keys(box))
      BY <2>2, <2>5, KeysType
    <3>3. box' # NoBox /\ Keys(box') = Keys(box)
      BY <2>1, <2>2, <3>1, <3>2, BoxObserved
    <3>4. EventsAfter(score, box, now') = <<>>
      BY <2>2, <2>5, <3>3 DEF EventsAfter, EventsBetween
    <3> QED
      BY <2>2, <2>3, <3>3, <3>4
  <2> QED
    BY <2>4, <2>5
<1>2. CallInv /\ [BatchStep]_vars =>
        [score' = score /\ now' # now => Keys(box') = Keys(box) /\ events' = events]_vars
  BY <1>1
<1> QED
  BY <1>2, BatchInvariant, PTL DEF Batch, SameScoresKeepBox

(* A replacement of a box whose zones still qualify only tightens it       *)
(* (build_side_decision, select_frame), whatever margin and improvement    *)
(* are configured.                                                         *)
LEMMA SelectedTightens ==
    ASSUME NEW frame \in ScoreFrame, NEW side \in Side, NEW current \in EligibleZones(frame, side)
    PROVE  \/ Selected(frame, side, current) = current
           \/ /\ Selected(frame, side, current) \in EligibleZones(frame, side)
              /\ side = "LOWER" => HighOf[current] < HighOf[Selected(frame, side, current)]
              /\ side = "UPPER" => LowOf[Selected(frame, side, current)] < LowOf[current]
<1> DEFINE s == Selected(frame, side, current)
<1> SUFFICES ASSUME s # current
             PROVE  /\ s \in EligibleZones(frame, side)
                    /\ side = "LOWER" => HighOf[current] < HighOf[s]
                    /\ side = "UPPER" => LowOf[s] < LowOf[current]
  OBVIOUS
<1>1. s \in EligibleZones(frame, side) /\ Beats(frame, s, current)
  BY SelectedCases
<1> HIDE DEF s
<1>2. Distance(s, frame.price) < Distance(current, frame.price)
  BY <1>1, BeatsIsNearer
<1> QED
  BY <1>1, <1>2, EligibleIsBeyond

(* Within a batch a bound that replaces another lies nearer the price, so  *)
(* the box only ever tightens while it lives.                              *)
THEOREM ReplacementOnlyTightens == Batch => ReplacementTightens
<1>1. ASSUME CallInv, BatchStep, box # NoBox, box' # NoBox, Keys(box') # Keys(box),
             Keys(box).lower \in EligibleZones(score', "LOWER"),
             Keys(box).upper \in EligibleZones(score', "UPPER")
      PROVE  /\ HighOf[Keys(box).lower] <= HighOf[Keys(box').lower]
             /\ LowOf[Keys(box').upper] <= LowOf[Keys(box).upper]
             /\ \/ HighOf[Keys(box).lower] < HighOf[Keys(box').lower]
                \/ LowOf[Keys(box').upper] < LowOf[Keys(box).upper]
  <2>1. PICK frame \in ScoreFrame : SelectFrame(frame, box)
    BY <1>1 DEF BatchStep
  <2>2. /\ now' \in Nat \ {0} /\ box \in Snapshot \cup {NoBox} /\ score' = frame
        /\ box' = BoxAfter(frame, box, now')
    BY <1>1, <2>1, CallEffect DEF CallInv, HandedOK
  <2>3. Keys(box') = SelectedPair(frame, box)
    BY <1>1, <2>2, BoxAfterPair
  <2>4. /\ Keys(box').lower = Selected(frame, "LOWER", Keys(box).lower)
        /\ Keys(box').upper = Selected(frame, "UPPER", Keys(box).upper)
    BY <2>3 DEF SelectedPair
  <2>5. \/ Keys(box').lower # Keys(box).lower
        \/ Keys(box').upper # Keys(box).upper
    <3>1. Keys(box) = [lower |-> Keys(box).lower, upper |-> Keys(box).upper]
      BY <2>2, KeysType
    <3>2. Keys(box') = [lower |-> Keys(box').lower, upper |-> Keys(box').upper]
      BY <2>3 DEF SelectedPair
    <3> QED
      BY <1>1, <3>1, <3>2
  <2>6. "LOWER" \in Side /\ "UPPER" \in Side
    BY DEF Side
  <2>7. \/ Keys(box').lower = Keys(box).lower
        \/ HighOf[Keys(box).lower] < HighOf[Keys(box').lower]
    BY <1>1, <2>2, <2>4, <2>6, SelectedTightens
  <2>8. \/ Keys(box').upper = Keys(box).upper
        \/ LowOf[Keys(box').upper] < LowOf[Keys(box).upper]
    BY <1>1, <2>2, <2>4, <2>6, SelectedTightens
  <2>9. /\ HighOf[Keys(box).lower] \in Int /\ LowOf[Keys(box).upper] \in Int
        /\ Keys(box').lower \in ZoneKey /\ Keys(box').upper \in ZoneKey
    <3>1. Complete(SelectedPair(frame, box))
      BY <1>1, <2>2, BoxAfterPair
    <3> QED
      BY <1>1, <2>2, <2>3, <2>6, <3>1, SelectedPairType, EligibleIsBeyond
  <2>10. HighOf[Keys(box').lower] \in Int /\ LowOf[Keys(box').upper] \in Int
    BY <2>9
  <2> QED
    BY <2>5, <2>7, <2>8, <2>9, <2>10
<1> QED
  <2>1. CallInv /\ [BatchStep]_vars =>
          [/\ box # NoBox /\ box' # NoBox /\ Keys(box') # Keys(box)
           /\ Keys(box).lower \in EligibleZones(score', "LOWER")
           /\ Keys(box).upper \in EligibleZones(score', "UPPER")
           => /\ HighOf[Keys(box).lower] <= HighOf[Keys(box').lower]
              /\ LowOf[Keys(box').upper] <= LowOf[Keys(box).upper]
              /\ \/ HighOf[Keys(box).lower] < HighOf[Keys(box').lower]
                 \/ LowOf[Keys(box').upper] < LowOf[Keys(box).upper]]_vars
    BY <1>1
  <2> QED
    BY <2>1, BatchInvariant, PTL DEF Batch, ReplacementTightens

-----------------------------------------------------------------------------
(* The event ledger *)

(* LedgerOK event by event: an episode is created once, then frozen at     *)
(* most once, and seen active only in between.                             *)
EpisodesCreated(ledger, at) ==
    \A i \in at : \E c \in at : ledger[c].episode = ledger[i].episode /\ ledger[c].type = "CREATED"
EventsDiffer(ledger, at) ==
    \A i, j \in at : ledger[i].episode = ledger[j].episode /\ ledger[i].type = ledger[j].type => i = j
CreatedFirst(ledger, at) ==
    \A c, f \in at : /\ ledger[c].episode = ledger[f].episode
                     /\ ledger[c].type = "CREATED" /\ ledger[f].type = "FROZEN"
                     => c < f
SnapshotsExplained(ledger, at, snapshots) ==
    \A s \in snapshots : \E i \in at : ledger[i].episode = s.episode
SeenBeforeFrozen(ledger, at, snapshots) ==
    \A s \in snapshots, f \in at :
        ledger[f].episode = s.episode /\ ledger[f].type = "FROZEN" => s.asOf < ledger[f].confirm

LedgerFacts(ledger, at, snapshots) ==
    /\ EpisodesCreated(ledger, at) /\ EventsDiffer(ledger, at) /\ CreatedFirst(ledger, at)
    /\ SnapshotsExplained(ledger, at, snapshots) /\ SeenBeforeFrozen(ledger, at, snapshots)

LEMMA LedgerFactsSuffice ==
    ASSUME NEW ledger \in Seq(Event), NEW snapshots, LedgerFacts(ledger, 1 .. Len(ledger), snapshots)
    PROVE  LedgerOK(ledger, snapshots)
<1> DEFINE at == 1 .. Len(ledger)
           Of(e, type) == {i \in at : ledger[i].episode = e /\ ledger[i].type = type}
<1> HIDE DEF at
<1>1. LedgerFacts(ledger, at, snapshots)
  BY DEF at
<1>2. ASSUME NEW i \in at
      PROVE  \E c \in Of(ledger[i].episode, "CREATED") :
               /\ Of(ledger[i].episode, "CREATED") = {c}
               /\ \A f \in Of(ledger[i].episode, "FROZEN") :
                    c < f /\ Of(ledger[i].episode, "FROZEN") = {f}
  <2>1. PICK c \in at : ledger[c].episode = ledger[i].episode /\ ledger[c].type = "CREATED"
    BY <1>1 DEF LedgerFacts, EpisodesCreated
  <2>2. \A type : \A j, k \in Of(ledger[i].episode, type) : j = k
    BY <1>1 DEF LedgerFacts, EventsDiffer
  <2>3. c \in Of(ledger[i].episode, "CREATED")
    BY <2>1
  <2>4. \A f \in Of(ledger[i].episode, "FROZEN") : c < f
    BY <1>1, <2>1 DEF LedgerFacts, CreatedFirst
  <2> HIDE DEF Of
  <2>5. Of(ledger[i].episode, "CREATED") = {c}
    BY <2>2, <2>3
  <2>6. \A f \in Of(ledger[i].episode, "FROZEN") : Of(ledger[i].episode, "FROZEN") = {f}
    BY <2>2
  <2> QED
    BY <2>3, <2>4, <2>5, <2>6
<1>3. ASSUME NEW s \in snapshots
      PROVE  /\ \E i \in at : ledger[i].episode = s.episode
             /\ \A f \in Of(s.episode, "FROZEN") : s.asOf < ledger[f].confirm
  BY <1>1 DEF LedgerFacts, SnapshotsExplained, SeenBeforeFrozen
<1> QED
  BY <1>2, <1>3, Zenon DEF LedgerOK, at

(* The ledger grows by one event at a time. *)
LEMMA Longer ==
    ASSUME NEW ledger \in Seq(Event), NEW e \in Event
    PROVE  /\ ledger \o <<e>> \in Seq(Event)
           /\ \A i \in 1 .. Len(ledger) : (ledger \o <<e>>)[i] = ledger[i] /\ i < Len(ledger) + 1
           /\ (ledger \o <<e>>)[Len(ledger) + 1] = e
           /\ Len(ledger) + 1 \notin 1 .. Len(ledger)
           /\ 1 .. Len(ledger \o <<e>>) = (1 .. Len(ledger)) \cup {Len(ledger) + 1}
<1>1. ledger \o <<e>> \in Seq(Event) /\ Len(ledger \o <<e>>) = Len(ledger) + 1 /\ Len(ledger) \in Nat
  OBVIOUS
<1>2. /\ \A i \in 1 .. Len(ledger) : (ledger \o <<e>>)[i] = ledger[i]
      /\ (ledger \o <<e>>)[Len(ledger) + 1] = e
  OBVIOUS
<1> QED
  BY <1>1, <1>2

LEMMA TwoAtOnce ==
    ASSUME NEW ledger \in Seq(Event), NEW x \in Event, NEW y \in Event
    PROVE  ledger \o <<x, y>> = (ledger \o <<x>>) \o <<y>>
<1>1. <<x>> \in Seq(Event) /\ <<y>> \in Seq(Event)
  OBVIOUS
<1>2. <<x, y>> = <<x>> \o <<y>>
  <2> DEFINE both == <<x>> \o <<y>>
  <2>1. both \in Seq(Event) /\ Len(both) = 2 /\ both[1] = x /\ both[2] = y
    OBVIOUS
  <2>2. <<x, y>> \in Seq(Event) /\ Len(<<x, y>>) = 2 /\ <<x, y>>[1] = x /\ <<x, y>>[2] = y
    OBVIOUS
  <2>3. \A i \in 1 .. 2 : i = 1 \/ i = 2
    OBVIOUS
  <2> HIDE DEF both
  <2>4. <<x, y>> = both
    BY <2>1, <2>2, <2>3, SeqEqual
  <2> QED
    BY <2>4 DEF both
<1> QED
  BY <1>1, <1>2, ConcatAssociative

LEMMA FrozenLonger ==
    ASSUME NEW ledger \in Seq(Event), NEW e \in Event
    PROVE  Frozen(ledger \o <<e>>) = Frozen(ledger) \cup (IF e.type = "FROZEN" THEN {e.episode} ELSE {})
<1> DEFINE longer == ledger \o <<e>>
           at == 1 .. Len(ledger)
           n == Len(ledger) + 1
<1>1. /\ \A i \in at : longer[i] = ledger[i]
      /\ longer[n] = e
      /\ 1 .. Len(longer) = at \cup {n}
  BY Longer
<1>2. Frozen(ledger) = {ledger[i].episode : i \in {k \in at : ledger[k].type = "FROZEN"}}
  BY DEF Frozen
<1>3. Frozen(longer) = {longer[i].episode : i \in {k \in at \cup {n} : longer[k].type = "FROZEN"}}
  BY <1>1 DEF Frozen
<1> HIDE DEF longer, at, n
<1> QED
  <2>1. \A x : x \in Frozen(ledger) <=> \E i \in at : ledger[i].type = "FROZEN" /\ x = ledger[i].episode
    BY <1>2
  <2>2. \A x : x \in Frozen(longer)
          <=> \E i \in at \cup {n} : longer[i].type = "FROZEN" /\ x = longer[i].episode
    BY <1>3
  <2>3. \A x : x \in Frozen(longer) <=> x \in Frozen(ledger) \/ (e.type = "FROZEN" /\ x = e.episode)
    BY <1>1, <2>1, <2>2
  <2>4. Frozen(longer) = Frozen(ledger) \cup (IF e.type = "FROZEN" THEN {e.episode} ELSE {})
    BY <2>3
  <2> QED
    BY <2>4, Zenon DEF longer

LEMMA FrozenByType ==
    ASSUME NEW ledger \in Seq(Event), NEW e \in Event
    PROVE  /\ e.type = "CREATED" => Frozen(ledger \o <<e>>) = Frozen(ledger)
           /\ e.type = "FROZEN" => Frozen(ledger \o <<e>>) = Frozen(ledger) \cup {e.episode}
<1>1. e.type = "CREATED" => (IF e.type = "FROZEN" THEN {e.episode} ELSE {}) = {}
  OBVIOUS
<1>2. \A S : S \cup {} = S
  OBVIOUS
<1> QED
  BY <1>1, <1>2, FrozenLonger

(* A new episode may start. *)
LEMMA CreatedKeepsLedger ==
    ASSUME NEW ledger \in Seq(Event), NEW snapshots, LedgerFacts(ledger, 1 .. Len(ledger), snapshots),
           NEW e \in Event, NEW s,
           e.type = "CREATED", s.episode = e.episode,
           \A i \in 1 .. Len(ledger) : ledger[i].episode # e.episode
    PROVE  LedgerFacts(ledger \o <<e>>, 1 .. Len(ledger \o <<e>>), snapshots \cup {s})
<1> DEFINE longer == ledger \o <<e>>
           at == 1 .. Len(ledger)
           n == Len(ledger) + 1
<1>1. /\ \A i \in at : longer[i] = ledger[i] /\ i < n
      /\ longer[n] = e /\ n \notin at
      /\ 1 .. Len(longer) = at \cup {n}
  BY Longer
<1>2. LedgerFacts(ledger, at, snapshots) /\ \A i \in at : ledger[i].episode # e.episode
  OBVIOUS
<1> HIDE DEF longer, at, n
<1>3. EpisodesCreated(longer, at \cup {n})
  <2> SUFFICES ASSUME NEW i \in at \cup {n}
               PROVE  \E j \in at \cup {n} : longer[j].episode = longer[i].episode /\ longer[j].type = "CREATED"
    BY DEF EpisodesCreated
  <2>1. CASE i \in at
    <3>1. PICK j \in at : ledger[j].episode = ledger[i].episode /\ ledger[j].type = "CREATED"
      BY <1>2, <2>1 DEF LedgerFacts, EpisodesCreated
    <3>2. longer[j] = ledger[j] /\ longer[i] = ledger[i]
      BY <1>1, <2>1
    <3> QED
      BY <3>1, <3>2
  <2>2. CASE i = n
    BY <1>1, <2>2
  <2> QED
    BY <2>1, <2>2
<1>4. EventsDiffer(longer, at \cup {n})
  BY <1>1, <1>2 DEF LedgerFacts, EventsDiffer
<1>5. CreatedFirst(longer, at \cup {n})
  <2> SUFFICES ASSUME NEW i \in at \cup {n}, NEW j \in at \cup {n},
                      longer[i].episode = longer[j].episode,
                      longer[i].type = "CREATED", longer[j].type = "FROZEN"
               PROVE  i < j
    BY DEF CreatedFirst
  <2>1. CASE i \in at /\ j \in at
    <3>1. longer[i] = ledger[i] /\ longer[j] = ledger[j]
      BY <1>1, <2>1
    <3> QED
      BY <1>2, <2>1, <3>1 DEF LedgerFacts, CreatedFirst
  <2>2. j # n
    BY <1>1
  <2>3. ~(i = n /\ j \in at)
    BY <1>1, <1>2
  <2> QED
    BY <2>1, <2>2, <2>3
<1>6. SnapshotsExplained(longer, at \cup {n}, snapshots \cup {s})
  BY <1>1, <1>2 DEF LedgerFacts, SnapshotsExplained
<1>7. SeenBeforeFrozen(longer, at \cup {n}, snapshots \cup {s})
  BY <1>1, <1>2 DEF LedgerFacts, SeenBeforeFrozen
<1> QED
  BY <1>1, <1>3, <1>4, <1>5, <1>6, <1>7 DEF LedgerFacts, longer

(* An episode that was not frozen may end, later than it was last seen.    *)
LEMMA FrozenKeepsLedger ==
    ASSUME NEW ledger \in Seq(Event), NEW snapshots, LedgerFacts(ledger, 1 .. Len(ledger), snapshots),
           NEW e \in Event, e.type = "FROZEN", e.episode \notin Frozen(ledger),
           \E i \in 1 .. Len(ledger) : ledger[i].episode = e.episode,
           \A r \in snapshots : r.asOf < e.confirm
    PROVE  LedgerFacts(ledger \o <<e>>, 1 .. Len(ledger \o <<e>>), snapshots)
<1> DEFINE longer == ledger \o <<e>>
           at == 1 .. Len(ledger)
           n == Len(ledger) + 1
<1>1. /\ \A i \in at : longer[i] = ledger[i] /\ i < n
      /\ longer[n] = e /\ n \notin at
      /\ 1 .. Len(longer) = at \cup {n}
  BY Longer
<1>2. /\ LedgerFacts(ledger, at, snapshots)
      /\ \A i \in at : ledger[i].type = "FROZEN" => ledger[i].episode # e.episode
      /\ \E i \in at : ledger[i].episode = e.episode
  BY DEF Frozen
<1> HIDE DEF longer, at, n
<1>3. EpisodesCreated(longer, at \cup {n})
  <2> SUFFICES ASSUME NEW i \in at \cup {n}
               PROVE  \E j \in at \cup {n} : longer[j].episode = longer[i].episode /\ longer[j].type = "CREATED"
    BY DEF EpisodesCreated
  <2>1. CASE i \in at
    <3>1. PICK j \in at : ledger[j].episode = ledger[i].episode /\ ledger[j].type = "CREATED"
      BY <1>2, <2>1 DEF LedgerFacts, EpisodesCreated
    <3>2. longer[j] = ledger[j] /\ longer[i] = ledger[i]
      BY <1>1, <2>1
    <3> QED
      BY <3>1, <3>2
  <2>2. CASE i = n
    <3>1. PICK k \in at : ledger[k].episode = e.episode
      BY <1>2
    <3>2. PICK j \in at : ledger[j].episode = ledger[k].episode /\ ledger[j].type = "CREATED"
      BY <1>2 DEF LedgerFacts, EpisodesCreated
    <3>3. longer[j] = ledger[j] /\ longer[i] = e
      BY <1>1, <2>2
    <3> QED
      BY <3>1, <3>2, <3>3
  <2> QED
    BY <2>1, <2>2
<1>4. EventsDiffer(longer, at \cup {n})
  <2> SUFFICES ASSUME NEW i \in at \cup {n}, NEW j \in at \cup {n},
                      longer[i].episode = longer[j].episode, longer[i].type = longer[j].type, i # j
               PROVE  FALSE
    BY DEF EventsDiffer
  <2>1. CASE i \in at /\ j \in at
    <3>1. longer[i] = ledger[i] /\ longer[j] = ledger[j]
      BY <1>1, <2>1
    <3> QED
      BY <1>2, <2>1, <3>1 DEF LedgerFacts, EventsDiffer
  <2>2. CASE i = n /\ j \in at
    <3>1. longer[i] = e /\ longer[j] = ledger[j]
      BY <1>1, <2>2
    <3> QED
      BY <1>2, <2>2, <3>1
  <2>3. CASE j = n /\ i \in at
    <3>1. longer[j] = e /\ longer[i] = ledger[i]
      BY <1>1, <2>3
    <3> QED
      BY <1>2, <2>3, <3>1
  <2> QED
    BY <2>1, <2>2, <2>3
<1>5. CreatedFirst(longer, at \cup {n})
  <2> SUFFICES ASSUME NEW i \in at \cup {n}, NEW j \in at \cup {n},
                      longer[i].episode = longer[j].episode,
                      longer[i].type = "CREATED", longer[j].type = "FROZEN"
               PROVE  i < j
    BY DEF CreatedFirst
  <2>1. CASE i \in at /\ j \in at
    <3>1. longer[i] = ledger[i] /\ longer[j] = ledger[j]
      BY <1>1, <2>1
    <3> QED
      BY <1>2, <2>1, <3>1 DEF LedgerFacts, CreatedFirst
  <2>2. i # n
    BY <1>1
  <2>3. i \in at /\ j = n => i < j
    BY <1>1
  <2> QED
    BY <2>1, <2>2, <2>3
<1>6. SnapshotsExplained(longer, at \cup {n}, snapshots)
  <2>1. \A r \in snapshots : \E i \in at : ledger[i].episode = r.episode
    BY <1>2 DEF LedgerFacts, SnapshotsExplained
  <2> QED
    BY <1>1, <2>1 DEF SnapshotsExplained
<1>7. SeenBeforeFrozen(longer, at \cup {n}, snapshots)
  BY <1>1, <1>2 DEF LedgerFacts, SeenBeforeFrozen
<1> QED
  BY <1>1, <1>3, <1>4, <1>5, <1>6, <1>7 DEF LedgerFacts, longer

-----------------------------------------------------------------------------
(* Batches and their ledger *)

LedgerInv ==
    /\ LedgerFacts(events, 1 .. Len(events), handed)
    /\ \A i \in 1 .. Len(events) : events[i].episode.created \in 1 .. now
    /\ box # NoBox => box.episode \notin Frozen(events)
    /\ accepted

BatchInv == CallInv /\ LedgerInv

(* The five things a turn of the loop may do. *)
Idles == box = NoBox /\ box' = NoBox /\ events' = events /\ handed' = handed
Observes == /\ box # NoBox /\ box' # NoBox /\ box' = Observed(box, now') /\ box'.episode = box.episode
            /\ events' = events /\ handed' = handed \cup {box'}
New == box' # NoBox /\ box'.episode.created = now' /\ handed' = handed \cup {box'}
Starts == /\ box = NoBox /\ New
          /\ events' = events \o <<CreatedEvent("INITIAL_PAIR", box', now')>>
Ends == /\ box # NoBox /\ box' = NoBox /\ handed' = handed
        /\ events' = events \o <<FrozenEvent("PAIR_UNAVAILABLE", box, now')>>
Replaces == /\ box # NoBox /\ New
            /\ events' = (events \o <<FrozenEvent("PAIR_CHANGED", box, now')>>)
                            \o <<CreatedEvent("PAIR_CHANGED", box', now')>>

LEMMA EventTypes ==
    ASSUME NEW s \in Snapshot, NEW time \in Nat
    PROVE  /\ CreatedEvent("INITIAL_PAIR", s, time) \in Event
           /\ CreatedEvent("PAIR_CHANGED", s, time) \in Event
           /\ FrozenEvent("PAIR_CHANGED", s, time) \in Event
           /\ FrozenEvent("PAIR_UNAVAILABLE", s, time) \in Event
  BY DEF CreatedEvent, FrozenEvent, Event, Snapshot

LEMMA EventFields ==
    ASSUME NEW s, NEW time, NEW reason
    PROVE  /\ CreatedEvent(reason, s, time).type = "CREATED"
           /\ CreatedEvent(reason, s, time).episode = s.episode
           /\ FrozenEvent(reason, s, time).type = "FROZEN"
           /\ FrozenEvent(reason, s, time).episode = s.episode
           /\ FrozenEvent(reason, s, time).confirm = time
  BY DEF CreatedEvent, FrozenEvent

LEMMA BatchCases ==
    ASSUME BatchInv, BatchStep
    PROVE  /\ now' = now + 1 /\ now \in Nat
           /\ box \in Snapshot \cup {NoBox} /\ box' \in Snapshot \cup {NoBox}
           /\ accepted' = (accepted /\ LedgerOK(events', handed'))
           /\ Idles \/ Observes \/ Starts \/ Ends \/ Replaces
<1> USE DEF BatchInv
<1> PICK frame \in ScoreFrame : SelectFrame(frame, box)
  BY DEF BatchStep
<1>1. /\ now' = now + 1 /\ now' \in Nat \ {0} /\ now \in Nat
      /\ box \in Snapshot \cup {NoBox}
      /\ box' = BoxAfter(frame, box, now')
      /\ events' = events \o EventsAfter(frame, box, now')
      /\ handed' = handed \cup ({box'} \ {NoBox})
      /\ accepted' = (accepted /\ Continues(box, box, frame, now') /\ LedgerOK(events', handed'))
  BY CallEffect DEF CallInv, HandedOK
<1> DEFINE pair == SelectedPair(frame, box)
<1>2. events \in Seq(Event) /\ events \o <<>> = events
  BY DEF CallInv, TypeOK
<1>3. box' \in Snapshot \cup {NoBox}
  BY <1>1, BoxAfterPair
<1>4. CASE ~Complete(pair)
  <2>1. box' = NoBox
    BY <1>1, <1>4 DEF BoxAfter
  <2>2. Continues(box, box, frame, now')
    BY <1>4 DEF Continues
  <2>3. handed' = handed
    BY <1>1, <2>1
  <2>4. CASE box = NoBox
    <3>1. EventsAfter(frame, box, now') = <<>>
      BY <1>1, <2>1, <2>4 DEF EventsAfter, EventsBetween
    <3> QED
      BY <1>1, <1>2, <1>3, <2>1, <2>2, <2>3, <2>4, <3>1 DEF Idles
  <2>5. CASE box # NoBox
    <3>1. EventsAfter(frame, box, now') = <<FrozenEvent("PAIR_UNAVAILABLE", box, now')>>
      BY <1>1, <2>1, <2>5 DEF EventsAfter, EventsBetween
    <3> QED
      BY <1>1, <1>3, <2>1, <2>2, <2>3, <2>5, <3>1 DEF Ends
  <2> QED
    BY <2>4, <2>5
<1>5. CASE Complete(pair) /\ pair = Keys(box)
  <2>1. /\ box # NoBox /\ box' # NoBox /\ box' = Observed(box, now') /\ box'.episode = box.episode
        /\ Keys(box') = Keys(box)
    BY <1>1, <1>5, BoxObserved
  <2>2. EventsAfter(frame, box, now') = <<>>
    BY <1>1, <2>1 DEF EventsAfter, EventsBetween
  <2>3. Continues(box, box, frame, now')
    BY <1>1, <1>5, <2>1 DEF Continues
  <2>4. handed' = handed \cup {box'}
    BY <1>1, <2>1
  <2> QED
    BY <1>1, <1>2, <1>3, <2>1, <2>2, <2>3, <2>4 DEF Observes
<1>6. CASE Complete(pair) /\ pair # Keys(box)
  <2> DEFINE next == BoxAfter(frame, box, now')
  <2>1. next # NoBox /\ next.episode.created = now' /\ Keys(next) = pair
    BY <1>1, <1>6, BoxCreated
  <2>2. box' # NoBox /\ box'.episode.created = now' /\ Keys(box') = pair
    <3> HIDE DEF next, pair
    <3>1. box' = next
      BY <1>1 DEF next
    <3> QED
      BY <2>1, <3>1
  <2>3. handed' = handed \cup {box'}
    BY <1>1, <2>2
  <2>4. CASE box = NoBox
    <3>1. EventsAfter(frame, box, now') = <<CreatedEvent("INITIAL_PAIR", box', now')>>
      BY <1>1, <2>2, <2>4 DEF EventsAfter, EventsBetween
    <3>2. Continues(box, box, frame, now')
      BY <2>4 DEF Continues
    <3> QED
      BY <1>1, <1>3, <2>2, <2>3, <2>4, <3>1, <3>2 DEF Starts, New
  <2>5. CASE box # NoBox
    <3>1. EventsAfter(frame, box, now')
            = <<FrozenEvent("PAIR_CHANGED", box, now'), CreatedEvent("PAIR_CHANGED", box', now')>>
      BY <1>1, <1>6, <2>2, <2>5 DEF EventsAfter, EventsBetween
    <3>2. events' = (events \o <<FrozenEvent("PAIR_CHANGED", box, now')>>)
                        \o <<CreatedEvent("PAIR_CHANGED", box', now')>>
      <4>1. FrozenEvent("PAIR_CHANGED", box, now') \in Event /\ CreatedEvent("PAIR_CHANGED", box', now') \in Event
        BY <1>1, <1>3, <2>2, <2>5, EventTypes
      <4> DEFINE x == FrozenEvent("PAIR_CHANGED", box, now')
                 y == CreatedEvent("PAIR_CHANGED", box', now')
      <4>2. events' = events \o <<x, y>>
        BY <1>1, <3>1
      <4>3. x \in Event /\ y \in Event
        BY <4>1
      <4> HIDE DEF x, y
      <4>4. events' = (events \o <<x>>) \o <<y>>
        BY <1>2, <4>2, <4>3, TwoAtOnce
      <4> QED
        BY <4>4 DEF x, y
    <3>3. box.episode.created \in 1 .. now
      <4>1. box \in handed
        BY <2>5 DEF CallInv, HandedOK
      <4>2. PICK i \in 1 .. Len(events) : events[i].episode = box.episode
        BY <4>1 DEF LedgerInv, LedgerFacts, SnapshotsExplained
      <4> QED
        BY <4>2 DEF LedgerInv
    <3>4. box'.episode # box.episode
      BY <1>1, <2>2, <3>3
    <3>5. Continues(box, box, frame, now')
      BY <1>1, <1>6, <3>4 DEF Continues
    <3> QED
      BY <1>1, <1>3, <2>2, <2>3, <2>5, <3>2, <3>5 DEF Replaces, New
  <2> QED
    BY <2>4, <2>5
<1> QED
  BY <1>4, <1>5, <1>6

(* A new episode is not in the ledger yet. *)
LEMMA NewIsNew ==
    ASSUME BatchInv, now' = now + 1, New
    PROVE  /\ \A i \in 1 .. Len(events) : events[i].episode # box'.episode
           /\ box'.episode \notin Frozen(events)
           /\ box # NoBox => box'.episode # box.episode
<1>1. \A i \in 1 .. Len(events) : events[i].episode # box'.episode
  <2>1. now \in Nat
    BY DEF BatchInv, CallInv, TypeOK
  <2> QED
    BY <2>1 DEF BatchInv, LedgerInv, New
<1>2. box'.episode \notin Frozen(events)
  BY <1>1 DEF Frozen
<1>3. box # NoBox => box'.episode # box.episode
  BY <1>1 DEF BatchInv, CallInv, HandedOK, LedgerInv, LedgerFacts, SnapshotsExplained
<1> QED
  BY <1>1, <1>2, <1>3

(* Whatever the box was last seen, it was before now'. *)
LEMMA BoxInLedger ==
    ASSUME BatchInv, now' = now + 1
    PROVE  /\ now \in Nat /\ events \in Seq(Event)
           /\ \A s \in handed : s.asOf < now'
           /\ box # NoBox =>
                /\ box \in handed /\ box \in Snapshot
                /\ \E i \in 1 .. Len(events) : events[i].episode = box.episode
                /\ box.episode.created \in 1 .. now
                /\ box.episode \notin Frozen(events)
<1>1. now \in Nat /\ events \in Seq(Event) /\ \A s \in handed : s.asOf < now'
  BY DEF BatchInv, CallInv, TypeOK, HandedOK
<1>2. box # NoBox => /\ box \in handed /\ box \in Snapshot
                     /\ box.episode \notin Frozen(events)
                     /\ \E i \in 1 .. Len(events) : events[i].episode = box.episode
  BY HandedIsSnapshot
     DEF BatchInv, CallInv, HandedOK, LedgerInv, LedgerFacts, SnapshotsExplained
<1> QED
  BY <1>1, <1>2 DEF BatchInv, LedgerInv

LEMMA LedgerObserves ==
    ASSUME BatchInv, now' = now + 1, Observes
    PROVE  LedgerFacts(events', 1 .. Len(events'), handed')
<1>1. /\ LedgerFacts(events, 1 .. Len(events), handed)
      /\ box # NoBox /\ box'.episode = box.episode /\ events' = events /\ handed' = handed \cup {box'}
      /\ box.episode \notin Frozen(events)
      /\ \E i \in 1 .. Len(events) : events[i].episode = box.episode
  BY BoxInLedger DEF Observes, BatchInv, LedgerInv
<1>2. \A f \in 1 .. Len(events) : ~(events[f].episode = box.episode /\ events[f].type = "FROZEN")
  BY <1>1 DEF Frozen
<1>3. SnapshotsExplained(events, 1 .. Len(events), handed \cup {box'})
  BY <1>1 DEF LedgerFacts, SnapshotsExplained
<1>4. SeenBeforeFrozen(events, 1 .. Len(events), handed \cup {box'})
  BY <1>1, <1>2 DEF LedgerFacts, SeenBeforeFrozen
<1> QED
  BY <1>1, <1>3, <1>4 DEF LedgerFacts

(* The ledger, its new episodes and the frozen ones after a turn. *)
LEMMA LedgerStep ==
    ASSUME BatchInv, BatchStep
    PROVE  /\ LedgerFacts(events', 1 .. Len(events'), handed')
           /\ \A i \in 1 .. Len(events') : events'[i].episode.created \in 1 .. now'
           /\ box # NoBox /\ box' # NoBox /\ ~Observes => box'.episode # box.episode
           /\ box' # NoBox => box'.episode \notin Frozen(events')
           /\ box' # NoBox /\ ~Observes => box'.episode \notin Frozen(events)
           /\ Frozen(events') = IF box = NoBox \/ Observes THEN Frozen(events)
                                ELSE Frozen(events) \cup {box.episode}
<1>1. /\ now' = now + 1 /\ now \in Nat /\ now' \in Nat
      /\ box \in Snapshot \cup {NoBox} /\ box' \in Snapshot \cup {NoBox}
      /\ events \in Seq(Event)
      /\ LedgerFacts(events, 1 .. Len(events), handed)
      /\ \A i \in 1 .. Len(events) : events[i].episode.created \in 1 .. now'
      /\ box # NoBox => box.episode \notin Frozen(events) /\ box.episode.created \in 1 .. now'
      /\ Idles \/ Observes \/ Starts \/ Ends \/ Replaces
  BY BatchCases, BoxInLedger DEF BatchInv, LedgerInv
<1>2. CASE Idles
  BY <1>1, <1>2 DEF Idles, Observes
<1>3. CASE Observes
  <2>1. LedgerFacts(events', 1 .. Len(events'), handed')
    BY <1>1, <1>3, LedgerObserves
  <2> QED
    BY <1>1, <1>3, <2>1 DEF Observes
<1>4. CASE Starts
  <2> DEFINE e == CreatedEvent("INITIAL_PAIR", box', now')
  <2>1. e \in Event /\ e.type = "CREATED" /\ e.episode = box'.episode
    BY <1>1, <1>4, EventTypes, EventFields DEF Starts, New
  <2>2. /\ events' = events \o <<e>> /\ handed' = handed \cup {box'}
        /\ box = NoBox /\ box' # NoBox /\ box'.episode.created = now'
    BY <1>4 DEF Starts, New
  <2>3. /\ \A i \in 1 .. Len(events) : events[i].episode # box'.episode
        /\ box'.episode \notin Frozen(events)
    BY <1>1, <1>4, NewIsNew DEF Starts
  <2> HIDE DEF e
  <2>4. LedgerFacts(events', 1 .. Len(events'), handed')
    BY <1>1, <2>1, <2>2, <2>3, CreatedKeepsLedger
  <2>5. \A i \in 1 .. Len(events') : events'[i].episode.created \in 1 .. now'
    BY <1>1, <2>1, <2>2, Longer
  <2>6. Frozen(events') = Frozen(events)
    BY <1>1, <2>1, <2>2, FrozenByType
  <2> QED
    BY <2>2, <2>3, <2>4, <2>5, <2>6
<1>5. CASE Ends
  <2> DEFINE e == FrozenEvent("PAIR_UNAVAILABLE", box, now')
  <2>1. e \in Event /\ e.type = "FROZEN" /\ e.episode = box.episode /\ e.confirm = now'
    BY <1>1, <1>5, EventTypes, EventFields DEF Ends
  <2>2. /\ events' = events \o <<e>> /\ handed' = handed
        /\ box # NoBox /\ box' = NoBox
    BY <1>5 DEF Ends
  <2>3. /\ \E i \in 1 .. Len(events) : events[i].episode = box.episode
        /\ \A s \in handed : s.asOf < now'
    BY <1>1, <2>2, BoxInLedger
  <2> HIDE DEF e
  <2>4. /\ e.episode \notin Frozen(events)
        /\ \E i \in 1 .. Len(events) : events[i].episode = e.episode
        /\ \A s \in handed : s.asOf < e.confirm
    BY <1>1, <2>1, <2>2, <2>3
  <2>5. LedgerFacts(events \o <<e>>, 1 .. Len(events \o <<e>>), handed)
    BY <1>1, <2>1, <2>4, FrozenKeepsLedger
  <2>6. LedgerFacts(events', 1 .. Len(events'), handed')
    BY <2>2, <2>5
  <2>7. \A i \in 1 .. Len(events') : events'[i].episode.created \in 1 .. now'
    BY <1>1, <2>1, <2>2, Longer
  <2>8. Frozen(events') = Frozen(events) \cup {box.episode}
    BY <1>1, <2>1, <2>2, FrozenByType
  <2> QED
    BY <2>2, <2>6, <2>7, <2>8 DEF Observes
<1>6. CASE Replaces
  <2> DEFINE x == FrozenEvent("PAIR_CHANGED", box, now')
             y == CreatedEvent("PAIR_CHANGED", box', now')
             middle == events \o <<x>>
  <2>1. /\ x \in Event /\ x.type = "FROZEN" /\ x.episode = box.episode /\ x.confirm = now'
        /\ y \in Event /\ y.type = "CREATED" /\ y.episode = box'.episode
    BY <1>1, <1>6, EventTypes, EventFields DEF Replaces, New
  <2>2. /\ events' = middle \o <<y>> /\ handed' = handed \cup {box'}
        /\ box # NoBox /\ box' # NoBox /\ box'.episode.created = now'
    BY <1>6 DEF Replaces, New
  <2>3. /\ \A i \in 1 .. Len(events) : events[i].episode # box'.episode
        /\ box'.episode \notin Frozen(events)
        /\ box'.episode # box.episode
    BY <1>1, <1>6, NewIsNew DEF Replaces
  <2>4. /\ \E i \in 1 .. Len(events) : events[i].episode = box.episode
        /\ \A s \in handed : s.asOf < now'
    BY <1>1, <2>2, BoxInLedger
  <2>5. ~Observes
    BY <2>3 DEF Observes
  <2> HIDE DEF x, y
  <2>6. /\ x.episode \notin Frozen(events)
         /\ \E i \in 1 .. Len(events) : events[i].episode = x.episode
         /\ \A s \in handed : s.asOf < x.confirm
    BY <1>1, <2>1, <2>2, <2>4
  <2>7. LedgerFacts(middle, 1 .. Len(middle), handed) /\ middle \in Seq(Event)
    <3>1. LedgerFacts(middle, 1 .. Len(middle), handed)
      BY <1>1, <2>1, <2>6, FrozenKeepsLedger
    <3>2. middle \in Seq(Event)
      BY <1>1, <2>1
    <3> QED
      BY <3>1, <3>2
  <2>8. /\ \A i \in 1 .. Len(middle) : middle[i].episode # box'.episode
        /\ \A i \in 1 .. Len(middle) : middle[i].episode.created \in 1 .. now'
    <3>1. /\ \A i \in 1 .. Len(events) : middle[i] = events[i]
          /\ middle[Len(events) + 1] = x
          /\ 1 .. Len(middle) = (1 .. Len(events)) \cup {Len(events) + 1}
      BY <1>1, <2>1, Longer
    <3> HIDE DEF middle
    <3>2. /\ x.episode = box.episode /\ box'.episode # box.episode
          /\ box.episode.created \in 1 .. now'
      BY <1>1, <2>1, <2>2, <2>3
    <3>3. ASSUME NEW i \in 1 .. Len(middle)
          PROVE  middle[i].episode # box'.episode /\ middle[i].episode.created \in 1 .. now'
      <4>1. CASE i \in 1 .. Len(events)
        BY <1>1, <2>3, <3>1, <4>1
      <4>2. CASE i = Len(events) + 1
        BY <3>1, <3>2, <4>2
      <4> QED
        BY <3>1, <4>1, <4>2
    <3> QED
      BY <3>3
  <2>9. Frozen(middle) = Frozen(events) \cup {box.episode}
    BY <1>1, <2>1, FrozenByType
  <2> HIDE DEF middle
  <2>10. LedgerFacts(events', 1 .. Len(events'), handed')
    BY <2>1, <2>2, <2>7, <2>8, CreatedKeepsLedger
  <2>11. \A i \in 1 .. Len(events') : events'[i].episode.created \in 1 .. now'
    BY <1>1, <2>1, <2>2, <2>7, <2>8, Longer
  <2>12. Frozen(events') = Frozen(middle)
    BY <2>1, <2>2, <2>7, FrozenByType
  <2> QED
    BY <2>2, <2>3, <2>5, <2>9, <2>10, <2>11, <2>12
<1> QED
  BY <1>1, <1>2, <1>3, <1>4, <1>5, <1>6

LEMMA BatchInvStep == BatchInv /\ [BatchStep]_vars => BatchInv'
<1>1. ASSUME BatchInv, BatchStep PROVE BatchInv'
  <2>1. CallInv'
    BY <1>1, CallInvStep DEF BatchInv, BatchStep, CallInv, HandedOK
  <2>2. events' \in Seq(Event)
    BY <2>1 DEF CallInv, TypeOK
  <2>3. LedgerOK(events', handed')
    BY <1>1, <2>2, LedgerStep, LedgerFactsSuffice
  <2>4. accepted'
    BY <1>1, <2>3, BatchCases DEF BatchInv, LedgerInv
  <2> QED
    BY <1>1, <2>1, <2>4, LedgerStep DEF BatchInv, LedgerInv
<1>2. ASSUME BatchInv, UNCHANGED vars PROVE BatchInv'
  <2>1. CallInv'
    BY <1>2, CallInvStutter DEF BatchInv
  <2> QED
    BY <1>2, <2>1 DEF BatchInv, LedgerInv, LedgerFacts, vars, Frozen
<1> QED
  BY <1>1, <1>2

LEMMA BatchInvInit == Init => BatchInv
<1> SUFFICES ASSUME Init PROVE LedgerInv
  BY CallInvInit DEF BatchInv
<1>1. /\ 1 .. Len(events) = {} /\ handed = {} /\ box = NoBox /\ accepted = TRUE
  BY DEF Init
<1> QED
  BY <1>1 DEF LedgerInv, LedgerFacts, EpisodesCreated, EventsDiffer, CreatedFirst,
              SnapshotsExplained, SeenBeforeFrozen

LEMMA BatchLedger == Batch => []BatchInv
  BY BatchInvInit, BatchInvStep, PTL DEF Batch

(* ActiveBoxSelectionHistory accepts whatever build_batch returns, for any *)
(* number of frames.                                                       *)
THEOREM BatchIsAccepted == Batch => []BatchAccepted
<1>1. BatchInv => BatchAccepted
  BY DEF BatchInv, LedgerInv, BatchAccepted
<1> QED
  BY <1>1, BatchLedger, PTL

(* Batches implement BoxEpisodes: at most one episode is open, a frozen    *)
(* one is never reopened and a replacement is a single step.               *)
THEOREM BatchImplementsEpisodes == Batch => ImplementsBoxEpisodes
<1>1. Init => Episodes!Init
  BY DEF Init, Episodes!Init, Open, Frozen
<1>2. ASSUME BatchInv, BatchStep
      PROVE  [Episodes!Next]_<<Open(box), Frozen(events)>>
  <2>1. /\ Idles \/ Observes \/ Starts \/ Ends \/ Replaces
        /\ box # NoBox /\ box' # NoBox /\ ~Observes => box'.episode # box.episode
        /\ box' # NoBox /\ ~Observes => box'.episode \notin Frozen(events)
        /\ Frozen(events') = IF box = NoBox \/ Observes THEN Frozen(events)
                             ELSE Frozen(events) \cup {box.episode}
    BY <1>2, BatchCases, LedgerStep
  <2>2. /\ Open(box)' = IF box' = NoBox THEN {} ELSE {box'.episode}
        /\ Open(box) = IF box = NoBox THEN {} ELSE {box.episode}
        /\ Frozen(events)' = Frozen(events')
    BY DEF Open, Frozen
  <2>3. CASE Idles
    BY <2>1, <2>2, <2>3 DEF Idles
  <2>4. CASE Observes
    BY <2>1, <2>2, <2>4 DEF Observes
  <2>5. CASE Starts /\ ~Observes
    BY <2>1, <2>2, <2>5 DEF Starts, New, Episodes!Next, Episodes!Create, Episodes!Opens
  <2>6. CASE Ends /\ ~Observes
    BY <2>1, <2>2, <2>6 DEF Ends, Episodes!Next, Episodes!Freeze
  <2>7. CASE Replaces /\ ~Observes
    BY <2>1, <2>2, <2>7 DEF Replaces, New, Episodes!Next, Episodes!Replace, Episodes!Opens
  <2> QED
    BY <2>1, <2>3, <2>4, <2>5, <2>6, <2>7
<1>3. BatchInv /\ [BatchStep]_vars => [Episodes!Next]_<<Open(box), Frozen(events)>>
  <2>1. UNCHANGED vars => UNCHANGED <<Open(box), Frozen(events)>>
    BY DEF vars, Open, Frozen
  <2> QED
    BY <1>2, <2>1
<1> QED
  BY <1>1, <1>3, BatchLedger, PTL DEF Batch, ImplementsBoxEpisodes, Episodes!Spec

-----------------------------------------------------------------------------
(* What the history validator can tell *)

(* The events of a frame, for each of the five things it may do to the box *)
(* it was given.                                                           *)
LEMMA EventCases ==
    ASSUME NEW previous \in Snapshot \cup {NoBox}, NEW next \in Snapshot \cup {NoBox}, NEW time
    PROVE  /\ previous = NoBox /\ next = NoBox => EventsBetween(previous, next, time) = <<>>
           /\ previous = NoBox /\ next # NoBox =>
                EventsBetween(previous, next, time) = <<CreatedEvent("INITIAL_PAIR", next, time)>>
           /\ previous # NoBox /\ next = NoBox =>
                EventsBetween(previous, next, time) = <<FrozenEvent("PAIR_UNAVAILABLE", previous, time)>>
           /\ previous # NoBox /\ next # NoBox /\ Keys(next) = Keys(previous) =>
                EventsBetween(previous, next, time) = <<>>
           /\ previous # NoBox /\ next # NoBox /\ Keys(next) # Keys(previous) =>
                EventsBetween(previous, next, time) =
                    <<FrozenEvent("PAIR_CHANGED", previous, time),
                      CreatedEvent("PAIR_CHANGED", next, time)>>
  BY DEF EventsBetween

(* A frozen event tells which snapshot it ends. *)
LEMMA FrozenTells ==
    ASSUME NEW p \in Snapshot, NEW q \in Snapshot, NEW reason, NEW time,
           FrozenEvent(reason, p, time) = FrozenEvent(reason, q, time)
    PROVE  p = q
<1>1. /\ FrozenEvent(reason, p, time).episode = p.episode /\ FrozenEvent(reason, p, time).seen = p.asOf
      /\ FrozenEvent(reason, q, time).episode = q.episode /\ FrozenEvent(reason, q, time).seen = q.asOf
  BY DEF FrozenEvent
<1>2. p.episode = q.episode /\ p.asOf = q.asOf
  BY <1>1
<1>3. p = [episode |-> p.episode, asOf |-> p.asOf] /\ q = [episode |-> q.episode, asOf |-> q.asOf]
  BY DEF Snapshot
<1> QED
  BY <1>2, <1>3

(* Two boxes from which one frame makes the same box with the same events  *)
(* are one, or observed with the same zones.                               *)
LEMMA SameFrameSameBox ==
    ASSUME NEW p \in Snapshot \cup {NoBox}, NEW q \in Snapshot \cup {NoBox},
           NEW next \in Snapshot \cup {NoBox}, NEW time,
           EventsBetween(p, next, time) = EventsBetween(q, next, time)
    PROVE  p = q \/ (p # NoBox /\ q # NoBox /\ next # NoBox /\ Keys(p) = Keys(next) /\ Keys(q) = Keys(next))
<1>1. /\ \A x : <<x>> # <<>>
      /\ \A x, y : <<x, y>> # <<>>
      /\ \A x, y, z : <<x>> # <<y, z>>
  OBVIOUS
<1>2. CASE p = NoBox \/ q = NoBox
  <2>1. CASE next = NoBox
    <3>1. ASSUME NEW r \in Snapshot \cup {NoBox}, r # NoBox
          PROVE  EventsBetween(r, next, time) # EventsBetween(NoBox, next, time)
      <4>1. EventsBetween(NoBox, next, time) = <<>>
        BY <2>1 DEF EventsBetween
      <4>2. EventsBetween(r, next, time) = <<FrozenEvent("PAIR_UNAVAILABLE", r, time)>>
        BY <2>1, <3>1, EventCases
      <4> QED
        BY <1>1, <4>1, <4>2
    <3> QED
      BY <1>2, <3>1
  <2>2. CASE next # NoBox
    <3>1. ASSUME NEW r \in Snapshot \cup {NoBox}, r # NoBox
          PROVE  EventsBetween(r, next, time) # EventsBetween(NoBox, next, time)
      <4>1. EventsBetween(NoBox, next, time) = <<CreatedEvent("INITIAL_PAIR", next, time)>>
        BY <2>2, EventCases
      <4>2. CASE Keys(next) = Keys(r)
        <5>1. EventsBetween(r, next, time) = <<>>
          BY <2>2, <3>1, <4>2, EventCases
        <5> QED
          BY <1>1, <4>1, <5>1
      <4>3. CASE Keys(next) # Keys(r)
        <5>1. EventsBetween(r, next, time) = <<FrozenEvent("PAIR_CHANGED", r, time),
                                               CreatedEvent("PAIR_CHANGED", next, time)>>
          BY <2>2, <3>1, <4>3, EventCases
        <5> QED
          BY <1>1, <4>1, <5>1
      <4> QED
        BY <4>2, <4>3
    <3> QED
      BY <1>2, <3>1
  <2> QED
    BY <2>1, <2>2
<1>3. CASE p # NoBox /\ q # NoBox /\ next = NoBox
  <2>1. <<FrozenEvent("PAIR_UNAVAILABLE", p, time)>> = <<FrozenEvent("PAIR_UNAVAILABLE", q, time)>>
    BY <1>3, EventCases
  <2>2. FrozenEvent("PAIR_UNAVAILABLE", p, time) = FrozenEvent("PAIR_UNAVAILABLE", q, time)
    BY <2>1
  <2> QED
    BY <1>3, <2>2, FrozenTells
<1>4. CASE p # NoBox /\ q # NoBox /\ next # NoBox /\ (Keys(p) = Keys(next) \/ Keys(q) = Keys(next))
  <2>1. ASSUME NEW r \in Snapshot \cup {NoBox}, r # NoBox
        PROVE  EventsBetween(r, next, time) = <<>> <=> Keys(r) = Keys(next)
    <3>1. CASE Keys(next) = Keys(r)
      BY <1>4, <2>1, <3>1, EventCases
    <3>2. CASE Keys(next) # Keys(r)
      <4>1. EventsBetween(r, next, time) = <<FrozenEvent("PAIR_CHANGED", r, time),
                                             CreatedEvent("PAIR_CHANGED", next, time)>>
        BY <1>4, <2>1, <3>2, EventCases
      <4> QED
        BY <1>1, <3>2, <4>1
    <3> QED
      BY <3>1, <3>2
  <2> QED
    BY <1>4, <2>1
<1>5. CASE p # NoBox /\ q # NoBox /\ next # NoBox /\ Keys(p) # Keys(next) /\ Keys(q) # Keys(next)
  <2>1. <<FrozenEvent("PAIR_CHANGED", p, time), CreatedEvent("PAIR_CHANGED", next, time)>>
          = <<FrozenEvent("PAIR_CHANGED", q, time), CreatedEvent("PAIR_CHANGED", next, time)>>
    BY <1>5, EventCases
  <2>2. FrozenEvent("PAIR_CHANGED", p, time) = FrozenEvent("PAIR_CHANGED", q, time)
    BY <2>1
  <2> QED
    BY <1>5, <2>2, FrozenTells
<1> QED
  BY <1>2, <1>3, <1>4, <1>5

(* A frame that continues the history from another box makes the box of    *)
(* the batch, with its events.                                             *)
LEMMA ContinuesIsBatch ==
    ASSUME NEW frame \in ScoreFrame, NEW latest \in Snapshot \cup {NoBox},
           NEW previous \in Snapshot \cup {NoBox}, NEW time \in Nat \ {0},
           Continues(latest, previous, frame, time)
    PROVE  /\ BoxAfter(frame, previous, time) = BoxAfter(frame, latest, time)
           /\ EventsAfter(frame, previous, time) = EventsAfter(frame, latest, time)
<1>1. Keys(previous) = Keys(latest)
  BY DEF Continues
<1>2. previous = NoBox <=> latest = NoBox
  BY <1>1, KeysType
<1>3. SelectedPair(frame, previous) = SelectedPair(frame, latest)
  BY <1>1 DEF SelectedPair
<1>4. CASE previous = latest
  BY <1>4
<1>5. CASE previous # latest
  <2>1. /\ latest # NoBox /\ previous # NoBox
        /\ Complete(SelectedPair(frame, previous)) /\ SelectedPair(frame, previous) = Keys(latest)
        /\ BoxAfter(frame, previous, time) = Observed(latest, time)
    BY <1>2, <1>5 DEF Continues
  <2>2. /\ BoxAfter(frame, latest, time) = Observed(latest, time)
        /\ BoxAfter(frame, latest, time) # NoBox
        /\ BoxAfter(frame, latest, time) \in Snapshot
        /\ Keys(BoxAfter(frame, latest, time)) = Keys(latest)
    <3>1. Complete(SelectedPair(frame, latest)) /\ SelectedPair(frame, latest) = Keys(latest)
      BY <1>3, <2>1
    <3> QED
      BY <3>1, BoxObserved
  <2>3. /\ EventsAfter(frame, previous, time) = <<>>
        /\ EventsAfter(frame, latest, time) = <<>>
    <3>1. BoxAfter(frame, previous, time) = BoxAfter(frame, latest, time)
      BY <2>1, <2>2
    <3> QED
      BY <1>1, <2>1, <2>2, <3>1, EventCases DEF EventsAfter
  <2> QED
    BY <2>1, <2>2, <2>3
<1> QED
  BY <1>4, <1>5

(* And the frame of the batch continues it, whichever box it is made from. *)
LEMMA BatchContinues ==
    ASSUME NEW frame \in ScoreFrame, NEW latest \in Snapshot \cup {NoBox},
           NEW previous \in Snapshot \cup {NoBox}, NEW time \in Nat \ {0},
           Continues(latest, latest, frame, time),
           BoxAfter(frame, previous, time) = BoxAfter(frame, latest, time),
           EventsAfter(frame, previous, time) = EventsAfter(frame, latest, time)
    PROVE  Continues(latest, previous, frame, time)
<1> DEFINE next == BoxAfter(frame, latest, time)
<1>1. next \in Snapshot \cup {NoBox}
  BY BoxAfterPair
<1>2. EventsBetween(previous, next, time) = EventsBetween(latest, next, time)
  BY DEF EventsAfter
<1>3. CASE previous = latest
  BY <1>3
<1>4. CASE /\ previous # NoBox /\ latest # NoBox /\ next # NoBox
           /\ Keys(previous) = Keys(next) /\ Keys(latest) = Keys(next)
  <2>1. /\ Complete(SelectedPair(frame, latest)) /\ SelectedPair(frame, latest) = Keys(latest)
    BY <1>4, BoxAfterPair
  <2>2. next = Observed(latest, time)
    BY <2>1, BoxObserved
  <2>3. SelectedPair(frame, previous) = Keys(latest)
    BY <1>4, <2>1 DEF SelectedPair
  <2> QED
    BY <1>4, <2>1, <2>2, <2>3 DEF Continues
<1> HIDE DEF next
<1> QED
  BY <1>1, <1>2, <1>3, <1>4, SameFrameSameBox

(* ActiveBoxSelectionHistory tells the frame of any other box handed out   *)
(* from that of the batch: it accepts a frame exactly when box and events  *)
(* are those of the batch.                                                 *)
THEOREM OnlyTheBatchIsAccepted == Batch => AcceptsOnlyTheBatch
<1>1. ASSUME BatchInv, BatchInv', BatchStep, NEW previous \in handed \cup {NoBox}
      PROVE  Accepts(previous, score', now') =
                 (/\ BoxAfter(score', previous, now') = box'
                  /\ events \o EventsAfter(score', previous, now') = events')
  <2> PICK frame \in ScoreFrame : SelectFrame(frame, box)
    BY <1>1 DEF BatchStep
  <2>1. /\ now' \in Nat \ {0} /\ score' = frame
        /\ box \in Snapshot \cup {NoBox}
        /\ box' = BoxAfter(frame, box, now')
        /\ events' = events \o EventsAfter(frame, box, now')
        /\ handed' = handed \cup ({box'} \ {NoBox})
        /\ accepted' = (accepted /\ Continues(box, box, frame, now') /\ LedgerOK(events', handed'))
    BY <1>1, CallEffect DEF BatchInv, CallInv, HandedOK
  <2>2. Continues(box, box, frame, now') /\ LedgerOK(events', handed')
    BY <1>1, <2>1 DEF BatchInv, LedgerInv
  <2>3. previous \in Snapshot \cup {NoBox}
    BY <1>1 DEF BatchInv, CallInv, TypeOK
  <2> DEFINE next == BoxAfter(frame, previous, now')
             added == EventsAfter(frame, previous, now')
  <2>4. ASSUME Accepts(previous, score', now')
        PROVE  next = box' /\ events \o added = events'
    <3>1. Continues(box, previous, frame, now')
      BY <2>1, <2>4 DEF Accepts
    <3> DEFINE time == now'
    <3>2. /\ time \in Nat \ {0} /\ Continues(box, previous, frame, time)
          /\ box \in Snapshot \cup {NoBox}
      BY <2>1, <3>1
    <3> HIDE DEF time, next, added
    <3>3. /\ BoxAfter(frame, previous, time) = BoxAfter(frame, box, time)
          /\ EventsAfter(frame, previous, time) = EventsAfter(frame, box, time)
      BY <2>3, <3>2, ContinuesIsBatch
    <3> QED
      BY <2>1, <3>3 DEF time, next, added
  <2>5. ASSUME next = box', events \o added = events'
        PROVE  Accepts(previous, score', now')
    <3>1. events \in Seq(Event) /\ added \in Seq(Event) /\ EventsAfter(frame, box, now') \in Seq(Event)
      BY <1>1, <2>1, <2>3, EventsAfterType DEF BatchInv, CallInv, TypeOK
    <3>2. added = EventsAfter(frame, box, now')
      <4> HIDE DEF added
      <4> QED
        BY <2>1, <2>5, <3>1, ConcatSimplifications
    <3>3. Continues(box, previous, frame, now')
      BY <2>1, <2>2, <2>3, <2>5, <3>2, BatchContinues
    <3> QED
      BY <2>1, <2>2, <2>5, <3>3 DEF Accepts
  <2>6. Accepts(previous, score', now') \in BOOLEAN
    BY DEF Accepts
  <2> QED
    BY <2>1, <2>4, <2>5, <2>6
<1>2. BatchInv /\ BatchInv' /\ [BatchStep]_vars =>
        [now' # now =>
            \A previous \in handed \cup {NoBox} :
                ~Refused(score', previous, now') =>
                    Accepts(previous, score', now') =
                        (/\ BoxAfter(score', previous, now') = box'
                         /\ events \o EventsAfter(score', previous, now') = events')]_vars
  BY <1>1
<1> QED
  BY <1>2, BatchLedger, PTL DEF Batch, AcceptsOnlyTheBatch
=============================================================================
