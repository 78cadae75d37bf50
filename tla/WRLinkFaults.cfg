SPECIFICATION Spec
CONSTANTS
  SlaveNode = S
  MasterNode = M
  WrStateRetry = 1
  CalRetry = 1
  MaxForeignRecords = 2
  DisableFallback = FALSE
  PhyCalibrationRequired = TRUE
  EventGarbage = {TRUE, FALSE}
  HwMayRefuse = TRUE
  QueueCap = 4
  AnnounceRoom = 2
  LossyNet = TRUE
  SlowTimers = TRUE
  Faults = {"flap", "restart", "receive", "pll"}
  MaxFaults = 1
INVARIANTS
  TypeOK
  RoleConsistency
  DeltasKnown
  PatternOffInWrMode
  
  
PROPERTIES
  NonPreemption
