CONSTANTS
  t1 = t1
  t2 = t2
  Threads = {t1, t2}
  WordBits = 4
  ReportEvery = 2
  Unroll = 2
  Passes = 4
  WarmUp = 2
  Measurements = 5
  Period = 4
  Energies = {1, 3}
  CounterSize = 4
  Stolen = 5
  Horizon = 40
SPECIFICATION MCSpec
INVARIANTS
  ProgramsTypeOK
  MetricsTellOperands
  EveryCombination
  WholePeriods
PROPERTY Terminates
