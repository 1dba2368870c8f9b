----------------------------- MODULE MC_RateGate -----------------------------
(* Small instances of RateGate for TLC.                                     *)
EXTENDS RateGate, TLC

Symmetry == Permutations(Callers) \cup Permutations(Keys)
==============================================================================
