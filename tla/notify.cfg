\* One item, one run, one marker, nights and a fault at any step.
CONSTANTS
  Items = {i1}
  MaxAttempt = 1
  MaxRuns = 1
  Marks = {cap}
  Urgent = {cap}
  MaxFaults = 1
SPECIFICATION FairSpec
INVARIANTS
  OneMessagePerEvent
PROPERTIES
  CardsArrive
  FailuresSeenArrive
CHECK_DEADLOCK FALSE
