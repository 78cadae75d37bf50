SPECIFICATION FairSpec
CONSTANTS
  SlaveNode = S
  MasterNode = M
  WrStateRetry = 1
  CalRetry = 1
  MaxForeignRecords = 2
  DisableFallback = FALSE
  PhyCalibrationRequired = TRUE
  EventGarbage = {FALSE}
  HwMayRefuse = TRUE
  QueueCap = 4
  AnnounceRoom = 1
  LossyNet = FALSE
  SlowTimers = TRUE
  Faults = {"flap", "pll"}
  MaxFaults = 1
PROPERTIES
  LinkComesUp
