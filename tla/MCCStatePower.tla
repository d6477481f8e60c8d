---------------------------- MODULE MCCStatePower ----------------------------
(* Three CPUs, two idle states and two frequencies make ten configurations *)
(* of one script and ten, not repeated, of the other; there are two        *)
(* readings, at any moments.                                               *)
EXTENDS CStatePower

MCTestStates == <<"POLL", "C1">>
MCFrequencies == <<2500, 1500>>
MCInitial == {"POLL", "C1"}

=============================================================================
