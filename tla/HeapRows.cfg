SPECIFICATION Spec
CONSTANTS
  MaxPages = 6
  Schemas <- SmallSchemas
  FirstIds = {0, 1}
  MaxIds = 3
  MaxRows = 9
  Slots = 4
  Room = 3
INVARIANTS
  TypeOK
  PinsBalanced
  LowBytesKept
  SlotsMatchRows
PROPERTIES
  InsertEnds
CHECK_DEADLOCK FALSE
