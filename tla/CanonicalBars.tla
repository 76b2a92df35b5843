---------------------------- MODULE CanonicalBars ----------------------------
(***************************************************************************)
(* The market-data contract every research stage is built on: the          *)
(* canonical bar (msa/data/contracts.py), the sequence rules a source must *)
(* satisfy before any stage accepts it, and the causal prefix of a source  *)
(* at a processing time, which stops at the first bar that is incomplete   *)
(* or not yet available.                                                   *)
(*                                                                         *)
(* Prices and times are integers: the program only compares Decimals and   *)
(* instants and shifts prices by configured amounts.                       *)
(***************************************************************************)
EXTENDS Integers, Sequences

(* CanonicalBar.__post_init__: a completed bar is never available before   *)
(* its end, and the close lies inside the range.                           *)
Bar == {b \in [timestamp : Nat, end : Nat, available : Nat, complete : BOOLEAN,
               high : Int, low : Int, close : Int] :
          /\ b.timestamp < b.end
          /\ b.timestamp <= b.available
          /\ b.complete => b.end <= b.available
          /\ b.low <= b.close /\ b.close <= b.high}

(* Timestamps strictly ascend and intervals do not overlap; gaps are       *)
(* allowed, and so is any order of availability.                           *)
IsSource(bars) ==
    \A i, j \in DOMAIN bars : i < j => bars[i].end <= bars[j].timestamp

VisibleAt(bar, time) == bar.complete /\ bar.available <= time

(* Mutant of PrefixLength: availability is not looked at. *)
LoadedLength(bars, time) == Len(bars)

(* The number of bars in the causal prefix at a processing time. *)
PrefixLength(bars, time) ==
    CHOOSE n \in 0 .. Len(bars) :
        /\ \A i \in 1 .. n : VisibleAt(bars[i], time)
        /\ n < Len(bars) => ~VisibleAt(bars[n + 1], time)

(* Mutant of CausalPrefix: bars not yet visible are skipped over. *)
VisibleBars(bars, time) == SelectSeq(bars, LAMBDA bar : VisibleAt(bar, time))

CausalPrefix(bars, time) == SubSeq(bars, 1, PrefixLength(bars, time))

(* The cumulative maximum availability of the first n bars: the confirm    *)
(* time of everything that happens on bar n.                               *)
PrefixTime(bars, n) ==
    CHOOSE t \in {bars[i].available : i \in 1 .. n} :
        \A i \in 1 .. n : bars[i].available <= t
=============================================================================
