SPECIFICATION Spec
CONSTANTS
  a = a
  b = b
  Absent = Absent
  None = None
  NotLoaded = NotLoaded
  Factory = Factory
  Stopped = Stopped
  Options <- MCOptions
  OptionsOf <- MCOptionsOf
  Values = {a, b}
  Sections <- MCSections
  Configs <- MCConfigs
  Priors <- OnlyOld
  NextConfigs <- AnyTarget
  Decisions <- Forward
  FaultSets <- OnlyRestart
  MaxFaults = 1
INVARIANTS InSyncMeansRunning
