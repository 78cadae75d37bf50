SPECIFICATION FairSpec
CONSTANTS
  SlaveNode = S
  MasterNode = M
  WrStateRetry = 1
  CalRetry = 1
  MaxForeignRecords = 2
  DisableFallback = FALSE
  PhyCalibrationRequired = TRUE
  EventGarbage = {TRUE, FALSE}
  HwMayRefuse = FALSE
  QueueCap = 1
  AnnounceRoom = 1
  LossyNet = TRUE
  SlowTimers = FALSE
  Faults = {}
  MaxFaults = 0
INVARIANTS
  RoleConsistency
  DeltasKnown
  PatternOffInWrMode
PROPERTIES
  SetupTerminates
