----------------------------- MODULE ReadApiMC -----------------------------
(***************************************************************************)
(* Five events in three hours, the first two of one day: two that share a  *)
(* timestamp, one that does not fit the schema, one of an unknown value    *)
(* and one of the next day.                                                *)
(***************************************************************************)
EXTENDS ReadApiInv

MCEvent == 1 .. 5
MCTs == <<1, 2, 2, 3, 4>>
MCRank == <<1, 1, 2, 1, 1>>
MCHourOf == <<0, 1, 1, 1, 2>>
MCValueOf == <<"scanner", "scanner", "unknown", "scanner", "scanner">>
MCFits == {1, 2, 3, 5}
=============================================================================
