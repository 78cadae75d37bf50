SPECIFICATION Spec
CONSTANTS
  a = a
  b = b
  NumberPorts = 2
  MaxRecords = 2
  Receipt = 2
  Configs <- BothDecide
  Identity <- TwoIdentities
  Own <- OwnClasses
  Masters <- TwoMasters
  Cables <- BothOnSecond
  Announces <- TwoAnnounces
  MaxEvents = 2
INVARIANT EbestIsBest
