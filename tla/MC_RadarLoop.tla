------------------------------ MODULE MC_RadarLoop ------------------------------
(* A small instance of RadarLoop for TLC: two selections whose windows      *)
(* reach back two and three frames.                                         *)
EXTENDS RadarLoop, TLC

CONSTANTS Short, Long

MCSelections == {Short, Long}
MCWindowHours == Short :> 2 @@ Long :> 3
=============================================================================
