CONSTANTS
  NbCore = 2
  Available <- MCAvailable
  Related <- OfflineRelated
  CoreArgs = {0, 1}
  FreqArgs = {1500, 2500}
  MaxRuns = 1
SPECIFICATION Spec
INVARIANT CoreExists
