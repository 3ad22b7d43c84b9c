SPECIFICATION SpecAll
CONSTANTS
  MaxRows = 3
  MaxOther = 3
  OrderedRename = TRUE
  Faults = 6
  RepairRows = 3
  RepairFaults = 5
  Midnights <- UnevenDays
  MeterFaults = 2
  LastDay = 3
  MonthStarts = {1, 3}
  Commits = {k1, k2}
  Tasks = {t1, t2}
  SeedFaults = 5
\* HOLD_SECONDS, CACHE_SECONDS and the interval of the ServiceMonitor in ticks of 30 s.
  Hold = 6
  CacheTicks = 1
  ScrapeEvery = 2
  Sets = {a}
  MaxCalls = 2
  MaxLost = 3
  MaxAsks = 4
  Keep = 2
  Ttl = 2
  Functions <- TwoFunctions
  Codes = {"v1", "v2"}
  Backoff = 3
  AdminEdits = 2
  Keys = {"k1", "k2"}
  Prefs = {"p", "q"}
  PresentonFaults = 4
  Teams <- TwoTeams
  Declared = {"declared"}
  Others = {"other"}
  UserEdits = 3
  ReplayFaults = 2
INVARIANTS
  TypesOK NothingLost RetiredBeforeStart StatisticsRight SeededAsDeclared OneAtATime
PROPERTIES RestoredExactly NothingDropped AllStart
\* A program that has done its work stops.
CHECK_DEADLOCK FALSE
