---------------------------- MODULE MCFrameParser ----------------------------
(* FrameParser for TLC: every placement of headers and of intact frames in
   the bytes of a short stream, and every way to cut it into reads. *)
EXTENDS FrameParser

=============================================================================
