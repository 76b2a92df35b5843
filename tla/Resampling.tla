----------------------------- MODULE Resampling -----------------------------
(***************************************************************************)
(* Resampling (msa/data/resampling.py, alignment.py): source bars fall     *)
(* into target buckets of a fixed grid or of an explicit schedule of       *)
(* boundaries; a bucket whose expected slots are all filled becomes one    *)
(* target bar.  resample_load_result looks at the whole source,            *)
(* resample_as_of at the bars confirmed by a processing time.              *)
(***************************************************************************)
EXTENDS CanonicalBars, FiniteSetsExt

CONSTANTS
    SourceDuration, \* of the fixed source timeframe
    PublicationLag

ASSUME ResampleAssumption == SourceDuration \in Nat \ {0} /\ PublicationLag \in Nat

NoBucket == [start |-> 0, end |-> 0, expected |-> {}]

(* TargetBucket *)
IsBucket(b) ==
    /\ b \in [start : Int, end : Int, expected : SUBSET Int]
    /\ b.start < b.end /\ b.expected # {}
    /\ \A slot \in b.expected : b.start <= slot /\ slot < b.end

(* ExplicitFixedAnchorPolicy with the checks of ResampleConfig. *)
IsFixedPolicy(p) ==
    /\ p.kind = "FIXED" /\ p.anchor \in Int /\ p.width \in Int
    /\ p.width > SourceDuration /\ p.width % SourceDuration = 0

(* ExplicitBoundarySchedule: ordered boundaries that do not overlap, each  *)
(* with slots that end inside it; slots need not fill it.                  *)
IsExplicitPolicy(p) ==
    /\ p.kind = "EXPLICIT"
    /\ p.boundaries \in Seq(Range(p.boundaries)) /\ p.boundaries # <<>>
    /\ \A k \in DOMAIN p.boundaries :
          /\ IsBucket(p.boundaries[k])
          /\ \A slot \in p.boundaries[k].expected :
                slot + SourceDuration <= p.boundaries[k].end
          /\ k > 1 => p.boundaries[k - 1].end <= p.boundaries[k].start

(* _validate_public_input: complete bars of the source timeframe, in order.*)
IsInput(bars) ==
    /\ IsSource(bars)
    /\ \A i \in DOMAIN bars :
          bars[i].complete /\ bars[i].end = bars[i].timestamp + SourceDuration

-----------------------------------------------------------------------------
(* Buckets. *)

FixedBucket(p, time) ==
    LET start == p.anchor + ((time - p.anchor) \div p.width) * p.width
    IN [start |-> start, end |-> start + p.width,
        expected |-> {start + k * SourceDuration : k \in 0 .. p.width \div SourceDuration - 1}]

(* bucket_for of either policy. *)
BucketFor(p, time) ==
    IF p.kind = "FIXED" THEN FixedBucket(p, time)
    ELSE LET holding == {k \in DOMAIN p.boundaries :
                 p.boundaries[k].start <= time /\ time < p.boundaries[k].end}
         IN IF holding = {} THEN NoBucket ELSE p.boundaries[Max(holding)]

Members(p, bars, bucket) ==
    {i \in DOMAIN bars : BucketFor(p, bars[i].timestamp) = bucket}

(* _bucket_states: every bucket from the first to the last one that holds  *)
(* a bar; those in between may be empty.                                   *)
Buckets(p, bars) ==
    LET held == {BucketFor(p, bars[i].timestamp) : i \in DOMAIN bars} \ {NoBucket}
        first == Min({b.start : b \in held})
        last == Max({b.start : b \in held})
    IN IF held = {} THEN {}
       ELSE IF p.kind = "FIXED"
       THEN {FixedBucket(p, first + k * p.width) : k \in 0 .. (last - first) \div p.width}
       ELSE {p.boundaries[k] : k \in {k \in DOMAIN p.boundaries :
                first <= p.boundaries[k].start /\ p.boundaries[k].start <= last}}

Outside(p, bars) == {i \in DOMAIN bars : BucketFor(p, bars[i].timestamp) = NoBucket}

(* A bar in no expected slot, or reaching past the bucket, rejects it.     *)
Status(p, bars, bucket) ==
    LET members == Members(p, bars, bucket)
        filled == {bars[i].timestamp : i \in members}
    IN IF ~(filled \subseteq bucket.expected) \/ \E i \in members : bars[i].end > bucket.end
       THEN "REJECTED"
       ELSE IF filled # bucket.expected THEN "INCOMPLETE"
       ELSE "COMPLETE"

(* Mutant of TrailingTruncation: the slot right after the end is a gap. *)
TruncatedLater(p, bars, bucket) ==
    LET members == Members(p, bars, bucket)
    IN /\ members # {}
       /\ \A slot \in bucket.expected \ {bars[i].timestamp : i \in members} :
             slot > Max({bars[i].end : i \in members})

(* _is_trailing_truncation: the source simply ends inside this bucket.     *)
TrailingTruncation(p, bars, bucket) ==
    LET members == Members(p, bars, bucket)
    IN /\ members # {}
       /\ \A other \in Buckets(p, bars) : other.start <= bucket.start
       /\ \A slot \in bucket.expected \ {bars[i].timestamp : i \in members} :
             slot >= Max({bars[i].end : i \in members})

(* report.has_errors.  For a call as of a time, missing slots are only     *)
(* warnings: they may still arrive.                                        *)
HasErrors(p, bars, causal) ==
    \/ Outside(p, bars) # {}
    \/ \E bucket \in Buckets(p, bars) :
          \/ Status(p, bars, bucket) = "REJECTED"
          \/ /\ Status(p, bars, bucket) = "INCOMPLETE"
             /\ ~causal /\ ~TrailingTruncation(p, bars, bucket)

(* Mutant of TargetTime: a target is known when its last member is. *)
LastMemberTime(bars, members, bucket) == bars[Max(members)].available + PublicationLag

TargetTime(bars, members, bucket) ==
    Max({bucket.end} \cup {bars[i].available : i \in members}) + PublicationLag

(* _aggregate_bucket (the open is carried over like the close). *)
Aggregate(p, bars, bucket) ==
    LET members == Members(p, bars, bucket)
    IN [timestamp |-> bucket.start, end |-> bucket.end,
        available |-> TargetTime(bars, members, bucket), complete |-> TRUE,
        high |-> Max({bars[i].high : i \in members}),
        low |-> Min({bars[i].low : i \in members}),
        close |-> bars[Max(members)].close]

TargetBars(p, bars) ==
    {Aggregate(p, bars, bucket) :
        bucket \in {b \in Buckets(p, bars) : Status(p, bars, b) = "COMPLETE"}}

(* resample_load_result, when it does not raise. *)
Batch(p, bars) == TargetBars(p, bars)

(* What is confirmed keeps its place among the source bars. *)
Confirmed(bars, time) == Restrict(bars, {i \in DOMAIN bars : VisibleAt(bars[i], time)})

AsOfTargets(p, bars, time) ==
    {t \in TargetBars(p, Confirmed(bars, time)) : t.available <= time}

(* With no room between expected slots, nor after the last, a bar that     *)
(* arrives late can only complete a bucket.                                *)
Tiled(p) ==
    p.kind = "FIXED" \/ \A k \in DOMAIN p.boundaries :
        LET b == p.boundaries[k]
        IN /\ (b.end - b.start) % SourceDuration = 0
           /\ b.expected = {b.start + i * SourceDuration :
                                i \in 0 .. (b.end - b.start) \div SourceDuration - 1}
=============================================================================
