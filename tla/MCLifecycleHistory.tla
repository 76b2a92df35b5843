------------------------- MODULE MCLifecycleHistory -------------------------
(***************************************************************************)
(* A small instance of LifecycleHistory: every source of MaxBars           *)
(* consecutive bars, each on time or late, and shorter ones that end in an *)
(* incomplete bar.                                                         *)
(***************************************************************************)
EXTENDS LifecycleHistory

CONSTANTS MaxBars, Delays, LastTime

MCSubject == {1, 2}
MCSideOf == <<"UPPER", "LOWER">>
MCPrice == <<2, 2>>
Staggered == <<1, 0>>

Shapes == {<<4, 2, 4>>, <<3, 3, 3>>, <<2, 0, 0>>}

BarsAt(t) ==
    {[timestamp |-> t, end |-> t + 1, available |-> t + 1 + d, complete |-> TRUE,
      high |-> p[1], low |-> p[2], close |-> p[3]] : d \in Delays, p \in Shapes}
IncompleteAt(t) ==
    [timestamp |-> t, end |-> t + 1, available |-> t, complete |-> FALSE,
     high |-> 2, low |-> 2, close |-> 2]

MCBars == UNION {BarsAt(t) \cup {IncompleteAt(t)} : t \in 0 .. MaxBars - 1}
MCSources ==
    LET grow[n \in 1 .. MaxBars] ==
            IF n = 1 THEN {<<b>> : b \in BarsAt(0)}
            ELSE {Append(bars, b) : bars \in grow[n - 1], b \in BarsAt(n - 1)}
    IN grow[MaxBars] \cup {Append(bars, IncompleteAt(2)) : bars \in grow[2]}
MCReplayTimes == 0 .. LastTime
=============================================================================
