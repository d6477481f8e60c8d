CONSTANTS
  HalfWord = 256
  StartFreq = 1500
  TargetFreq = 2500
  LoopTimes <- InterruptedLoopTimes
  SwitchTimes <- InterruptedSwitchTimes
  Benchmarks <- InterruptedBenchmarks
  ValidationRepet = 3
  TryRepetLoop = 3
  ReportTimes = 1
SPECIFICATION FairSpec
PROPERTY Terminates
