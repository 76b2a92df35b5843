---------------------------- MODULE MCLifecycle ----------------------------
(***************************************************************************)
(* A small instance of Lifecycle: one UPPER and one LOWER subject at the   *)
(* same price, bars that reach every side of every threshold, and late,    *)
(* incomplete and missing bars.                                            *)
(***************************************************************************)
EXTENDS Lifecycle

CONSTANTS MaxTime, Delays

MCSubject == {1, 2}
MCSideOf == <<"UPPER", "LOWER">>
MCPrice == <<2, 2>>
Staggered == <<1, 0>>

(* <<high, low, close>>: a break of each side away from and across the     *)
(* zone, a flip confirmation of each role that does not break, one that    *)
(* touches the zone, and a touch that decides nothing.                     *)
AllShapes == {<<4, 4, 4>>, <<4, 2, 4>>, <<3, 3, 3>>, <<2, 2, 2>>, <<2, 1, 1>>, <<2, 0, 0>>}
LateShapes == {<<4, 2, 4>>, <<2, 0, 0>>}

MCBar(t, delay, complete, p) ==
    [timestamp |-> t, end |-> t + 1, available |-> t + 1 + delay,
     complete |-> complete, high |-> p[1], low |-> p[2], close |-> p[3]]
MCBars ==
    UNION {{MCBar(t, 0, TRUE, p) : p \in AllShapes}
           \cup {MCBar(t, d, TRUE, p) : d \in Delays, p \in LateShapes}
           \cup {MCBar(t, 0, FALSE, <<2, 0, 0>>)} :
              t \in 0 .. MaxTime - 1}
=============================================================================
