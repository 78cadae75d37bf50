SPECIFICATION Spec
CONSTANTS
  a = a
  b = b
  NumberPorts = 2
  MaxRecords = 2
  Receipt = 2
  Configs <- TwoConfigs
  Identity <- TwoIdentities
  Own <- OwnClasses
  Masters <- TwoMasters
  Cables <- NotBothOnSecond
  Announces <- TwoAnnounces
  MaxEvents = 2
INVARIANTS
  TypeOK
  OnePrimarySlave
  Agrees
  EbestIsBest
  ComparisonOrders
