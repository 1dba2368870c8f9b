-------------------------- MODULE MC_ObservationStore --------------------------
(* A small instance of ObservationStore for TLC: one unit of time is about  *)
(* a poll interval, and the TTL spans a few of them.                        *)
EXTENDS ObservationStore, TLC

CONSTANTS Kumpula, Sodankyla

MCStations == {Kumpula, Sodankyla}
MCSymmetry == Permutations(MCStations)
=============================================================================
