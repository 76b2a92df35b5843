---------------------------- MODULE MCIngestion ----------------------------
(***************************************************************************)
(* A small instance of Ingestion around a clock change: instants from 6 on *)
(* are winter, so the wall times 6 and 7 come twice.  Bars last 2, start   *)
(* anywhere on or off the grids, on time or Delay late.                    *)
(***************************************************************************)
EXTENDS Ingestion

CONSTANTS LastStart, Delay, FaultyRows

At(wall, offset) == [wall |-> wall, offset |-> offset]
Told(instant) == IF instant < ClockChange THEN At(instant + 2, Summer) ELSE At(instant, Winter)

RowAt(time, observed, complete, fault, close) ==
    [time |-> time, other |-> Told(Instant(time) + 3), observed |-> observed,
     complete |-> complete, fault |-> fault, high |-> 1, low |-> 0, close |-> close]

MCRows ==
    {RowAt(Told(s), Told(s + 2 + d), "yes", "", s % 2) : s \in 2 .. LastStart, d \in {0, Delay}}
    \cup {RowAt(At(wall, NoOffset), Told(12), "yes", "", 1) : wall \in {5, 6, 9}}
    \cup {RowAt(At(9, Summer), Told(12), "yes", "", 1), RowAt(Told(7), Told(8), "yes", "", 1)}
    \cup {RowAt(Told(8), Told(11), complete, "", 1) : complete \in {"no", "unknown"}}
    \cup {RowAt(Told(8), Told(11), "yes", fault, 2) :
            fault \in {"", "symbol_mismatch", "invalid_volume"}}

Config(duration, semantics, completion, other, strict) ==
    [duration |-> duration, lag |-> 1, semantics |-> semantics,
     completion |-> completion, otherColumn |-> other, strict |-> strict]

MCConfigs ==
    {Config(2, "OPEN_TIME", "EXPLICIT_COLUMN", FALSE, FALSE),
     Config(2, "CLOSE_TIME", "ALL_ROWS_ARE_CLOSED", FALSE, TRUE),
     Config(0, "OPEN_TIME", "EXPLICIT_COLUMN", TRUE, FALSE),
     Config(2, "OPEN_TIME", "ALL_ROWS_ARE_CLOSED", TRUE, FALSE)}

Slots(start, end, expected) == [start |-> start, end |-> end, expected |-> expected]

Fixed == [kind |-> "FIXED", anchor |-> 6, width |-> 4]
Shifted == [kind |-> "FIXED", anchor |-> 1, width |-> 4]
Session == [kind |-> "EXPLICIT",
            boundaries |-> <<Slots(2, 6, {2, 4}), Slots(7, 9, {7}), Slots(9, 11, {9})>>]
Sparse == [kind |-> "EXPLICIT", boundaries |-> <<Slots(2, 6, {2}), Slots(6, 10, {6, 8})>>]

Ragged == [kind |-> "EXPLICIT", boundaries |-> <<Slots(2, 5, {2}), Slots(6, 10, {6, 8})>>]

MCPolicies == {Fixed, Shifted, Session, Sparse, Ragged}
SparsePolicies == {Sparse}

(* Longer files are continued only while nothing is wrong with them. *)
FewFaults ==
    LET faults == Len(issues) + Cardinality(Duplicates(loaded)) + Cardinality(OutOfOrder(loaded))
                      + Cardinality(Overlaps(config, loaded))
    IN faults <= (IF Len(rows) <= FaultyRows THEN 1 ELSE 0)
=============================================================================
