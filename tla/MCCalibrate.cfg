CONSTANTS
  Threads = {t1, t2}
  Master = t1
  Rounds = 3
  Instructions = 8
  Unroll = 4
  WordSize = 32
  Durations = {2, 3, 5}
  MaxDuration = 99
  KernelDuration = 6
  Sources = 2
SPECIFICATION FairSpec
INVARIANTS TypeOK WindowIsOneRound KernelFillsDuration
PROPERTIES ImplementsRounds Terminates
