SPECIFICATION FairSpec
CONSTANTS
  NumGroups = 3
  Mine = {1, 3}
  MaxFaults = 3
INVARIANTS
  ReconcileTypeOK
  RecordedMeansWon
  OverallHasReason
PROPERTIES
  OutcomeStays
  OverallStays
  DeletionCompletes
CHECK_DEADLOCK FALSE
