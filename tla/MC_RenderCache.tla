---------------------------- MODULE MC_RenderCache ----------------------------
(* A small instance of RenderCache for TLC: caches smaller than what is     *)
(* asked for, so that both of them evict.                                   *)
EXTENDS RenderCache
=============================================================================
