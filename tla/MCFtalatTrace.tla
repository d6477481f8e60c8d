----------------------------- MODULE MCFtalatTrace -----------------------------
(* The instance of MCFtalat, with the trace compiled in.                   *)
EXTENDS MCFtalat, FtalatTrace

ASSUME InstanceApart ==
  /\ FrequenciesApart /\ TimesApart /\ SamplesApart
  /\ SpansApart(20, 21, 12, 13)

=============================================================================
