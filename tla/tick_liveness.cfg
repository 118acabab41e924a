\* Two dates, a death at any step, a cap of one draft a day.
CONSTANTS
  i1 = i1
  Items = {i1, i2}
  Slot <- TwoDates
  Ticker = ticker
  Shells = {}
  Cap = 1
  MaxRedrafts = 0
  MaxPauses = 0
  MaxCrashes = 1
  MaxLost = 0
SPECIFICATION FairSpec
PROPERTIES
  SweepDrains
  OwedWorkDrains
CHECK_DEADLOCK FALSE
