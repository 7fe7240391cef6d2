---------------------------- MODULE RankRebuildMC ----------------------------
(***************************************************************************)
(* Two values of which one row is kept, and a window of two hours out of   *)
(* three: a value can overtake the other, and an hour can leave the        *)
(* window.                                                                 *)
(***************************************************************************)
EXTENDS RankRebuild

CONSTANTS a, b

MCValue == {a, b}
MCOrder == [v \in MCValue |-> IF v = a THEN 0 ELSE 1]
=============================================================================
