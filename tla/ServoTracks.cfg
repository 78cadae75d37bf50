SPECIFICATION FairSpec
CONSTANTS
  PsPerNs = 4
  NsPerSec = 6
  ClockPeriod = 8
  Threshold = 3
  MaxMissed = 2
  Word = 1024
  FirstOffsets <- MoreOffsets
  Delay = 4
  MaxDrift = 4
  ColdDrift = 1
  TrackingSettings = {TRUE, FALSE}
  MaxUnlocks = 1
INVARIANTS
  TypeOK
  ErrorBound
  OutputNeverJumps
PROPERTIES
  Locks
