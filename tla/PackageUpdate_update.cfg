SPECIFICATION UpgradesFairSpec
CONSTANTS
  Versions = {1, 2, 3}
  FirstVersion = 1
  Firmwares = {1, 2, 3}
  FirstFirmware = 1
  Bundled <- AllFirst
  None = None
  Broken = Broken
  FaultSets <- ThreeSets
  MaxFaults = 3
CHECK_DEADLOCK FALSE
INVARIANTS UpgradesTypeOK
PROPERTIES CompletedIsTrue NotInProgressForEver ReachesOffer FlashesTheAnnounced ReachesWanted
