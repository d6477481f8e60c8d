CONSTANTS
  NbCore = 3
  Available <- MCAvailable
  Related <- MCRelated
  CoreArgs = {0, 1}
  FreqArgs = {1500, 2500}
  MaxRuns = 1
SPECIFICATION Spec
INVARIANT ClosesOpenedFiles
