CONSTANTS
  HalfWord = 256
  StartFreq = 1500
  TargetFreq = 2500
  LoopTimes <- ApartLoopTimes
  SwitchTimes <- ApartSwitchTimes
  Benchmarks <- ApartBenchmarks
  ValidationRepet = 3
  TryRepetLoop = 3
  ReportTimes = 1
SPECIFICATION FairSpec
INVARIANT StartValidationFresh
