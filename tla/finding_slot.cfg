\* One decider is enough to approve two candidates of a slot.
CONSTANTS
  Items = {i1, i2}
  NoItem = NoItem
  slot = slot
  Group <- OneSlot
  Workers = {w1}
  Reviewers = {r1}
  Operators = {}
  MaxAttempts = 2
  MaxRegens = 1
  MaxCrashes = 0
SPECIFICATION Spec
INVARIANT OnePostPerSlot
CHECK_DEADLOCK FALSE
