\* A run that is still going when it is scanned.
CONSTANTS
  Items = {}
  MaxAttempt = 0
  MaxRuns = 1
  Marks = {}
  Urgent = {}
  MaxFaults = 0
SPECIFICATION FairSpec
PROPERTY EveryFailureAlerts
CHECK_DEADLOCK FALSE
