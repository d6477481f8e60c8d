CONSTANTS
  NbCore = 2
  Available <- MCAvailable
  Related <- MCRelated
  CoreArgs = {1, 5}
  FreqArgs = {1500, 2500, 9999}
  MaxRuns = 2
SPECIFICATION FairSpec
INVARIANTS TypeOK GovernorPutBack RelatedAtMinimum WritesTakeEffect
PROPERTY Terminates
