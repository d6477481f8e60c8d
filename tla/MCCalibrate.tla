----------------------------- MODULE MCCalibrate -----------------------------
(* Two threads, three rounds of two passes and two access sources.  Each of*)
(* the durations leads to another number of instructions, the longest one  *)
(* to a number that is no multiple of a pass.                              *)
EXTENDS Calibrate
=============================================================================
