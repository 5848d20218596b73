SPECIFICATION Spec
CONSTANTS
  PowerUnit = 2
  PowerCodes = 2
  PowerSettings = {0, 2}
  TimeSettings = {4, 6}
  ForeignFields = {"TW"}
  EnableSettings = {}
  MaxFailures = 1
  Unset = Unset
  Turn = 4
  Rates = {1, 3}
  Window = 3
  MaxTime = 6
  Freqs = {1, 2}
  SstControls <- MCSst
  Bits = {0}
  BatchLimit = 2
  MaxRefusals = 1
  Gpus = {0, 1}
  Clocks = {1, 2}
  MaxOutage = 1
INVARIANTS RestoreFileExact CounterExact BatchReaches SstRestoreExact RangesReach
PROPERTY KeepsOthers
CHECK_DEADLOCK FALSE
