SPECIFICATION Spec
CONSTANTS
  PsPerNs = 2
  NsPerSec = 8
  ClockPeriod = 8
  CfPerNs = 3
  HalfWord = 2
  AlphaOne = 4
  Word = 1024
  MaxSec = 1
  FixedDelays <- TwoPorts
  Fibres = {3, 4, 16}
  Alphas <- Asymmetries
  Turnarounds = {1, 2}
INVARIANTS
  ArrivalExact
  DelayMeasured
  OffsetExact
  SplitExact
