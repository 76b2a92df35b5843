---------------------------- MODULE MCActiveBox ----------------------------
(***************************************************************************)
(* A small instance of ActiveBox: two LOWER zones further apart than any   *)
(* margin; two UPPER zones exactly one margin apart, and the zone they     *)
(* become when a member between them links them. A frame with zones has    *)
(* both sides; at the higher price an UPPER zone may be too near to count  *)
(* and a LOWER one too far.                                                *)
(***************************************************************************)
EXTENDS ActiveBox

MCZoneKey == 1 .. 5
MCZoneSets == {s \in SUBSET MCZoneKey : s = {} \/ (s \cap {1, 2} # {} /\ s \cap {3, 4, 5} # {})}
MCSideOf == <<"LOWER", "LOWER", "UPPER", "UPPER", "UPPER">>
MCLowOf == <<0, 4, 6, 8, 6>>
MCHighOf == <<1, 4, 6, 9, 9>>
MCClassOf == <<"SINGLE", "SINGLE", "SINGLE", "LOCAL_CLUSTER", "LOCAL_CLUSTER">>
MCDigestOf == <<2, 1, 5, 3, 4>>
MCQualitiesOf == <<{2}, {2}, {2}, {1, 2}, {2}>>
=============================================================================
