--------------------------- MODULE MCScanAssembler ---------------------------
(* ScanAssembler for TLC: frames of three points on a circle of eight units,
   and room for two frames, so that overflows, gaps, standstill, wraps between
   frames, inside a frame and twice at one frame all happen. *)
EXTENDS ScanAssembler

MCStarts == {0, 2, 5, 7}
MCSpans  == {0, 2, 4}
=============================================================================
