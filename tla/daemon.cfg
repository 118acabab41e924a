\* Two daemons, and two of a hang, a lost connection and a death; three events on
\* one item under review, two ids for /new, and a death.
CONSTANTS
  Bots = {b1, b2}
  MaxHangs = 1
  MaxLosses = 1
  MaxDeaths = 1
  MaxMishaps = 2
  a = a
  x1 = x1
  x2 = x2
  NoItem = NoItem
  Items = {a}
  NewIds <- MCNewIds
  MaxEvents = 3
  MaxRegens = 1
  MaxCrashes = 1
SPECIFICATION DaemonSpec
INVARIANTS
  OneDaemonPerOverrun
  NextMessageIsTheNote
PROPERTIES
  BotListens
  BriefsArrive
CHECK_DEADLOCK FALSE
