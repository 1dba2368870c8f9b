--------------------------- MODULE MC_FramePollers ---------------------------
(* Small instances of FramePollers for TLC.                                 *)
EXTENDS FramePollers
==============================================================================
