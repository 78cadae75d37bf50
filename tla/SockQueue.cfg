SPECIFICATION Spec
CONSTANTS
  NET_SKBUF_SIZE = 11
  HdrSize = 1
  Payloads = {1, 2, 4}
  Ids = {10, 20, 30}
  DataLength = 6
INVARIANTS
  TypeOK
  AvailExact
PROPERTIES
  QueueSpec
