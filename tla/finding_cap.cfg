\* A date that is due a redraft while another waits to be rendered.
CONSTANTS
  i1 = i1
  Items = {i1, i2}
  Slot <- TwoDates
  Ticker = ticker
  Shells = {}
  Cap = 1
  MaxRedrafts = 0
  MaxPauses = 0
  MaxCrashes = 0
  MaxLost = 0
SPECIFICATION Spec
PROPERTY CapStopsGenerationOnly
CHECK_DEADLOCK FALSE
