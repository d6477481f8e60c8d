CONSTANTS
  Threads = {t1, t2}
  Master = t1
  Iterations = 3
  Work = 2
  Draw <- MCDraw
SPECIFICATION FairSpec
INVARIANTS TypeOK RecordsAreRight ExactlyOnce CompleteReport
PROPERTIES ImplementsRounds Terminates
