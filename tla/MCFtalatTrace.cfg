CONSTANTS
  HalfWord = 256
  StartFreq = 1500
  TargetFreq = 2500
  LoopTimes <- ApartLoopTimes
  SwitchTimes <- ApartSwitchTimes
  Benchmarks <- ApartBenchmarks
  ValidationRepet = 3
  TryRepetLoop = 3
  ReportTimes = 2
SPECIFICATION TracedFairSpec
INVARIANTS TypeOK RowsInOrder StampsEncloseSwitch TraceIsLastIteration
PROPERTIES NoSwitchRejected Terminates
