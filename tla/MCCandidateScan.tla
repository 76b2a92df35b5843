-------------------------- MODULE MCCandidateScan --------------------------
(***************************************************************************)
(* A small instance of CandidateScan: consecutive bars, one of them late.  *)
(* Short sources may hold bars that make a new high and a new low at once, *)
(* long ones mostly single prices.                                         *)
(***************************************************************************)
EXTENDS CandidateScan

CONSTANTS MaxBars, WideBars, LateBars

(* <<high, low, close>> *)
Wide == {<<1, 1, 1>>, <<2, 2, 2>>, <<3, 3, 3>>, <<4, 4, 4>>,
         <<3, 1, 3>>, <<4, 1, 1>>, <<4, 2, 4>>}
Thin == {<<0, 0, 0>>, <<1, 1, 1>>, <<2, 2, 2>>, <<3, 0, 1>>}

BarOf(t, p) ==
    [timestamp |-> t, end |-> t + 1,
     available |-> IF t \in LateBars THEN t + 4 ELSE t + 1, complete |-> TRUE,
     high |-> p[1], low |-> p[2], close |-> p[3]]

MCNextBars(source) ==
    LET t == Len(source)
        shapes == {<<source[i].high, source[i].low, source[i].close>> : i \in DOMAIN source}
    IN {BarOf(t, p) : p \in (IF shapes \subseteq Thin /\ t < MaxBars THEN Thin ELSE {})
                              \cup (IF shapes \subseteq Wide /\ t < WideBars THEN Wide ELSE {})}
=============================================================================
