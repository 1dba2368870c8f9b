---------------------------- MODULE MC_FrameStore ----------------------------
(* Small instances of FrameStore for TLC.                                   *)
EXTENDS FrameStore, TLC

CONSTANTS d1, d2, a1, a2, b1, gridA, gridB

(* Frame 0 has a day directory of its own, if there are two.                *)
MCDayOf == [t \in Frames |-> IF t = 0 \/ d2 \notin Days THEN d1 ELSE d2]

(* a1 and a2 are two scalings on one grid, b1 is another grid.              *)
MCGridOf == [m \in Metas |-> IF m = b1 THEN gridB ELSE gridA]

(* a1 and a2 differ in nothing but being different.                         *)
Symmetry ==
    Permutations(Writers) \cup Permutations(Readers) \cup Permutations(Metas \cap {a1, a2})
==============================================================================
