SPECIFICATION MCSpec
SYMMETRY ChipSymmetry
CONSTANTS
  NumGroup = 2
  Native <- MCNative
  Parts = {0, 1}
  Levels = {1, 2}
  Accesses = {"ok", "error"}
  MaxThrow = 1
  Chips = {c1, c2}
  FifoSize = 2
  MaxPerRead = 1
  MaxReports = 3
  MaxFaults = 1
  FanIn <- MCFan
  MapDomains = {0}
  MapRegions = {r1}
  Elsewhere = other
  Freqs = {"lo", "hi"}
  Initial = "initial"
  Highest = "highest"
  MapSlots = 1
  UseGpu = FALSE
  MaxPolicies = 2
  Units = {0}
  GpuMin = 8
  GpuMax = 32
  GpuEfficient = 16
  IdleTimer = 2
  GpuPhis = {0, 3}
  Activities = {0, 4}
  Stalls = {0, 2}
  Utilizations = {0, 4}
  MaxPasses = 4
  NumPackages = 1
  PerPackage = 2
  BalMin = 1
  BalMax = 6
  BalStep = 1
  LowPriority = {2}
  HighPriority <- MCHigh
  BalTimes = {1, 3}
  Achieved = {2}
  NetworkLength = 1
  EpochWait = 1
  MinPeriods = 2
  MaxBalance = 8
  GroupNames = {"MSR", "SST", "LEVELZERO", "NVML", "DCGM", "SYSFS", "CNL", "CONST_CONFIG", "CPUINFO", "TIME", "DEBUG"}
  Index = {0, 1}
  MaxAsk = 2
  MaxTime = 2
  MaxReads = 2
  MaxGpu = 2
  MaxSub = 2
  MaxOdd = 1
  Factors = {1, 2}
INVARIANTS ReportsConserved MapApplied PairsMatch ReadsOwnChip
PROPERTIES UnlimitedAgain SettingsReach
CHECK_DEADLOCK FALSE
