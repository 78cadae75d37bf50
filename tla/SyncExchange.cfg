SPECIFICATION Spec
CONSTANTS
  SeqMod = 4
  MaxSyncs = 5
  MaxRequests = 2
  Room = 2
  MaxLosses = 2
  MaxRestarts = 1
  MaxLeaves = 1
  MaxFailures = 2
INVARIANTS
  TypeOK
  DelayAfterSync
  KeepsUp

  
