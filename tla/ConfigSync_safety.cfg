SPECIFICATION FairSpec
CONSTANTS
  a = a
  b = b
  Absent = Absent
  None = None
  NotLoaded = NotLoaded
  Factory = Factory
  Stopped = Stopped
  Options <- MCOptions
  OptionsOf <- MCOptionsOf
  Values = {a, b}
  Sections <- MCSections
  Configs <- MCConfigs
  Priors <- FreshOrOld
  NextConfigs <- AnyTarget
  Decisions <- Forward
  FaultSets <- AnyFaults
  MaxFaults = 2
INVARIANTS TypeOK CacheFresh PersistedProven ReportTruthful Coherent InSyncAfterRestarts
PROPERTIES Converges
CHECK_DEADLOCK FALSE
