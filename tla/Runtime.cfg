SPECIFICATION MCSpec
CONSTANTS
  Node <- Node22
  Ctl <- Ctl22
  Kids <- Kids22
  Root = 0
  Budget = 16
  Budgets = {}
  UseEndpoint = {FALSE}
  NoCap = NoCap
  Tdp = 24
  MinPower = 8
  MaxPower = 24
  TrialDelta = 4
  MinDelta = 2
  Runtime = {1}
  MaxStep = 1
  Unset = Unset
  Regions = {a, b}
  Proxy = a
  Calls = 2
  Startup = 1
  History = 6
  BasePeriod = 2
  MinPeriod = 2
  StableHalves = 2
  UnstableHalves = 3
  Filters = {"edit_distance", "proxy_epoch"}
  MaxEntries = 11
  Agents = {"monitor", "governor"}
  NumValues <- MCNum
  NoName = "none"
  MaxOpen = 2
  MaxJobs = 2
  MaxWrites = 2
  CpuCores = {0, 1}
  CpuPackages = {0}
  FreqMin = 8
  FreqMax = 32
  FreqEfficient = 16
  UncoreMax = 32
  UncoreEfficient = 16
  MaxRate <- MCMaxRate
  Phis = {0, 1, 2, 3, 4}
  Scalabilities = {0, 2, 4}
  Rates = {0, 2, 4}
  Hashes = {U, r1, r2}
  Unmarked = U
  StartTime = 1
  Duration = 2
  MaxUpdate = 5
  MaxNan = 1
CHECK_DEADLOCK FALSE
INVARIANTS InSync RegionTotals DetectorExact SampleOfThisJob CpuFollows
