SPECIFICATION Spec
CONSTANTS
  SlaveNode = S
  MasterNode = M
  WrStateRetry = 1
  CalRetry = 1
  MaxForeignRecords = 2
  DisableFallback = FALSE
  PhyCalibrationRequired = TRUE
  EventGarbage = {FALSE}
  HwMayRefuse = FALSE
  QueueCap = 4
  AnnounceRoom = 2
  LossyNet = FALSE
  SlowTimers = TRUE
  Faults = {"restart"}
  MaxFaults = 1
PROPERTIES
  SyncFaultRestartsLinkSetup
