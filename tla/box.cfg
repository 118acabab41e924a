\* Four ideas for two days, two drafts a piece, three nights; an item on either
\* store, with four decisions, a run beside them and the outbox imported twice;
\* two candidates of a slot in a tab, one of them sensitive.
CONSTANTS
  MaxRetries = 4
  i1 = i1
  i2 = i2
  i3 = i3
  s1 = s1
  s2 = s2
  w1 = w1
  Parts = {x, y}
  GateTicks = {t1, t2}
  MaxDrifts = 2
  MaxGates = 4
  MaxCuts = 1
  MaxMisreads = 1
  IdeaLists <- FourIdeas
  horizonDays = 2
  candidatesPerSlot = 2
  QuietDays = {}
  StartDate = 1
  MaxDays = 2
  MaxPlanDeaths = 1
  Pieces = {i1, i2}
  Shape <- DeckAndReel
  World <- SameWorld
  NoWorld = NoWorld
  NoPiece = NoPiece
  Filmed = {w1}
  Posters = 0
  MIN_SHELF = 4
  IG_MAX_SLIDES = 3
  BeatCounts = {2, 3}
  MaxDrafts = 2
  Renderers = {r1, r2}
  Posts = {i1, i2, i3}
  SlotOf <- TwoSlots
  Hooks <- AlikeHooks
  N = 4
  Linters = {l1, l2}
  MaxHooks = 2
  Medias = {m1, m2}
  RETENTION_DAYS = 2
  MaxNights = 3
  Absent = Absent
  Null = Null
  MaxAttempts = 2
  MaxRegens = 1
  MaxRuns = 1
  MaxDecisions = 4
  MaxImports = 2
  Queue <- TwoItems
  Sensitive = {i2}
  Group <- OneSlot
  NoItem = NoItem
  NoText = NoText
  NoSnap = NoSnap
  MaxAttempt = 2
  MaxPosts = 2
  MaxRefreshes = 1
  MaxOthers = 1
  MaxFaults = 1
SPECIFICATION BoxSpec
CONSTRAINT Bounded
INVARIANTS
  PostedOncePerLostAnswer
  DriftIsToldOnce
  ReuseIsLastResort
  JournalTellsOfItems
  MediaIsOfTheDraft
  HooksStayApart
  DumpsRestore
  StoresAgree
  OwnerIsHeard
  FeedIsOfStages
  OnlyARefreshCarriesOver
PROPERTY DecidesTheDraftShown
CHECK_DEADLOCK FALSE
