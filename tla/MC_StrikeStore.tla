--------------------------- MODULE MC_StrikeStore ---------------------------
(* Small instances of StrikeStore for TLC. One unit of time is about a poll *)
(* interval; the windows are scaled down and keep the code's order.         *)
EXTENDS StrikeStore
==============================================================================
