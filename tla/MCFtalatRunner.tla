---------------------------- MODULE MCFtalatRunner ----------------------------
(* Three frequencies; the script is killed up to twice.                     *)
EXTENDS FtalatRunner

MCFreqFile == <<2501, 2500, 1500>>

=============================================================================
