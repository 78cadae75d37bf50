SPECIFICATION Spec
CONSTANTS
  PsPerNs = 4
  NsPerSec = 6
  ClockPeriod = 8
  Threshold = 2
  MaxMissed = 2
  Word = 1024
  FirstOffsets <- SomeOffsets
  Delay = 4
  MaxDrift = 0
  ColdDrift = 0
  TrackingSettings = {TRUE}
  MaxUnlocks = 1
INVARIANTS
  OutputOnlyInLock
