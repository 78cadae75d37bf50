SPECIFICATION FairSpec
CONSTANTS
  Chans = {c1, c2}
  MINIPC_MAX_CLIENTS = 1
  MaxCalls = 2
  MaxUpsets = 1
INVARIANTS
  TypeOK
  LagBounded
PROPERTIES
  RpcSpec
  Served
CHECK_DEADLOCK FALSE
