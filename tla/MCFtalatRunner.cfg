CONSTANTS
  FreqFile <- MCFreqFile
  Iter = 3
  MaxKills = 2
SPECIFICATION Spec
INVARIANTS TypeOK EveryCouple OneLossPerKill OneWriter
PROPERTY OldFilesKept
