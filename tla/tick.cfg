\* A ticker and a shell that both spend, with a pause or a death at any step.
CONSTANTS
  i1 = i1
  Items = {i1}
  Slot <- OneDate
  Ticker = ticker
  Shells = {sh}
  Cap = 1
  MaxRedrafts = 0
  MaxPauses = 1
  MaxCrashes = 1
  MaxLost = 1
SPECIFICATION Spec
CONSTRAINT Bounded
INVARIANTS
  SpendBound
  KillHalts
CHECK_DEADLOCK FALSE
