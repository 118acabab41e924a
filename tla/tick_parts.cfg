\* Two processes on the file store and a death; three ticks, two of them slower
\* than their lock, and a death; three drafts of a date.
CONSTANTS
  p1 = p1
  p2 = p2
  a = a
  Absent = Absent
  Procs = {p1, p2}
  Items = {a}
  Keys = {"k1", "k2"}
  Statuses = {"planned", "drafting", "rendering"}
  Values = {"on"}
  Calls <- MCCalls
  Creator <- MCCreator
  Retries = 2
  MaxCrashes = 1
  Ticks = {t1, t2, t3}
  MaxOverruns = 2
  MaxTickDeaths = 1
  Drafts = {d1, d2, d3}
  maxRetries = 2
  HasFallback = TRUE
SPECIFICATION TickPartsSpec
INVARIANTS
  OneHolder
  OneMorePerOverrun
  StampIsSpentButWaste
PROPERTIES
  ImplementsStore
  EveryCallReturns
  SweepsResume
  DraftingStops
CHECK_DEADLOCK FALSE
