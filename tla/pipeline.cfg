\* A worker beside two decide() calls with a death anywhere, or beside one and a
\* CLI verb, or two workers on different targets beside one call.
CONSTANTS
  Items = {i1, i2}
  NoItem = NoItem
  slot = slot
  Group <- OneSlot
  Workers = {w1, w2}
  Reviewers = {r1, r2}
  Operators = {o1}
  MaxAttempts = 3
  MaxRegens = 2
  MaxCrashes = 1
SPECIFICATION Spec
SYMMETRY Symmetry
CONSTRAINT Bounded
INVARIANTS
  CardIsCoherent
  DecidedOnce
  RecordsTellTheTruth
  IInv
  AttemptBudget
  ApprovedIsRecorded
PROPERTY ImplementsLifecycle
CHECK_DEADLOCK FALSE
