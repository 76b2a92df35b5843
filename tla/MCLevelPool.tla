---------------------------- MODULE MCLevelPool ----------------------------
(***************************************************************************)
(* A small instance of LevelPool: three levels on one side, in every order *)
(* of ids, prices and confirm times, one on the other, and families of     *)
(* none or two of them; a level that is still forming, and a family across *)
(* the sides, are refused.                                                 *)
(***************************************************************************)
EXTENDS LevelPool

CONSTANT MaxConfirm

RangeOf(k) == CASE k = 0 -> [low |-> 0, high |-> 0]
                [] k = 1 -> [low |-> 1, high |-> 2]
                [] k = 2 -> [low |-> 3, high |-> 3]

LevelAt(k, side, confirm, family) ==
    [low |-> RangeOf(k).low, high |-> RangeOf(k).high, side |-> side,
     origin |-> 0, confirm |-> confirm, family |-> family]

MCPools ==
    LET upper == [1 .. 3 -> (0 .. 2) \X (1 .. MaxConfirm)]
        poolOf(u, l, shared) ==
            [i \in 1 .. 4 |->
                LET family == IF i \in shared THEN 1 ELSE NoFamily
                IN IF i = 4 THEN LevelAt(1, "LOWER", l, family)
                   ELSE LevelAt(u[i][1], "UPPER", u[i][2], family)]
    IN {poolOf(u, 2, shared) : u \in upper, shared \in {{}, {1, 3}}}
       \cup {poolOf([i \in 1 .. 3 |-> <<i - 1, i>>], 2, {1, 4}),
             poolOf([i \in 1 .. 3 |-> <<i - 1, i>>], NoTime, {})}

MCSchedules == {1 .. MaxConfirm, 1 .. MaxConfirm + 1, {1, MaxConfirm}, {}}
=============================================================================
