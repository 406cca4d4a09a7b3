SPECIFICATION Spec
CONSTANTS
  NumGroups = 1
  Mine = {1}
  MaxFaults = 0
PROPERTIES
  NoAutomaticRetry
CHECK_DEADLOCK FALSE
