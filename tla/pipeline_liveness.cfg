\* Work drains although the worker or a decider may die.
CONSTANTS
  Items = {i1}
  NoItem = NoItem
  slot = slot
  Group <- OneSlot
  Workers = {w1}
  Reviewers = {r1}
  Operators = {o1}
  MaxAttempts = 2
  MaxRegens = 1
  MaxCrashes = 2
SPECIFICATION FairSpec
PROPERTIES
  InFlightWorkDrains
  BouncesComplete
CHECK_DEADLOCK FALSE
