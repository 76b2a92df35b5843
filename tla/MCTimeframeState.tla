-------------------------- MODULE MCTimeframeState --------------------------
(***************************************************************************)
(* A small instance of TimeframeViews: two LOWER and two UPPER subjects.   *)
(* The first two touch, the last two rise above them, and the later LOWER  *)
(* zone overlaps the earlier UPPER one and crosses it.                     *)
(***************************************************************************)
EXTENDS TimeframeViews

MCSubject == 1 .. 4
MCSideOf == <<"LOWER", "UPPER", "LOWER", "UPPER">>
MCLowOf == <<1, 3, 2, 7>>
MCHighOf == <<3, 5, 4, 8>>
MCConfirmTimeOf == <<0, 0, 2, 2>>
MCPhasesOf == <<{"TESTED", "FLIPPED"}, {"TESTED", "BROKEN"}, {"TESTED", "BROKEN"}, {"TESTED"}>>
=============================================================================
