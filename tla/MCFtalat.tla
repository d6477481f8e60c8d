------------------------------- MODULE MCFtalat -------------------------------
EXTENDS Ftalat

(* Two frequencies far apart: a loop takes 20 or 21 ticks at the start     *)
(* frequency, 12 or 13 at the target, something between while switching.   *)
(* One calibration at the start frequency is so noisy that the test is     *)
(* given up.                                                               *)
ApartLoopTimes == StartFreq :> {20, 21} @@ TargetFreq :> {12, 13}
ApartSwitchTimes == {13, 16}
ApartBenchmarks ==
  StartFreq :> {<<20, 21, 20, 21>>, <<20, 20, 20, 20>>, <<12, 30, 12, 30>>}
    @@ TargetFreq :> {<<13, 12, 12, 13>>, <<12, 12, 12, 13>>}

(* The start calibration was interrupted once, for a long time.            *)
InterruptedLoopTimes == StartFreq :> {10} @@ TargetFreq :> {6}
InterruptedSwitchTimes == {8}
InterruptedBenchmarks ==
  StartFreq :> {<<10, 10, 10, 75>>} @@ TargetFreq :> {<<6, 6, 6, 6>>}

=============================================================================
