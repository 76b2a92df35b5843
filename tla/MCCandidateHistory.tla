-------------------------- MODULE MCCandidateHistory --------------------------
(***************************************************************************)
(* A small instance of CandidateHistory: at most seven bars, one of them   *)
(* late or incomplete.                                                     *)
(***************************************************************************)
EXTENDS CandidateHistory

CONSTANTS MaxBars, Prices

BarAt(t, price, delay, complete) ==
    [timestamp |-> t, end |-> t + 1, available |-> t + 1 + delay,
     complete |-> complete, high |-> price, low |-> price, close |-> price]

SourceOf(prices, late, delay, incomplete) ==
    [t \in DOMAIN prices |->
        BarAt(t - 1, prices[t], IF t = late THEN delay ELSE 0, t # incomplete)]

(* A pivot, and two times room for a touch and its rejection. *)
LongPrices == {<<0, 1, 0>> \o rest : rest \in [1 .. 4 -> {0, 1}]}

MCSources ==
    {SourceOf(prices, late, 3, 0) : prices \in [1 .. MaxBars -> Prices], late \in {0, 3}}
    \cup {SourceOf(prices, late, 3, 0) : prices \in LongPrices, late \in {0, 5}}
    \cup {SourceOf(prices, 0, 0, MaxBars - 1) : prices \in [1 .. MaxBars -> Prices]}
=============================================================================
