CONSTANTS
  NbCpus = 3
  test_states <- MCTestStates
  frequencies <- MCFrequencies
  Repetitions = 1
  Initial <- MCInitial
  MaxReadings = 2
SPECIFICATION FairSpec
INVARIANTS TypeOK LabelsAreTrue ReportIsAFront
PROPERTY Terminates
