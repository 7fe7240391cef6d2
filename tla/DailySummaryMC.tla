--------------------------- MODULE DailySummaryMC ---------------------------
(***************************************************************************)
(* Three events of one day, whose places in the index differ from the      *)
(* order in which they may arrive, read in pages of one.                   *)
(***************************************************************************)
EXTENDS DailySummary

CONSTANTS e1, e2, e3

MCDayOf == [e \in Event |-> 0]
MCPos   == [e \in Event |-> CASE e = e1 -> 1 [] e = e2 -> 2 [] e = e3 -> 3]
=============================================================================
