SPECIFICATION Spec
CONSTANTS
  MaxPages = 4
  Schemas <- SmallSchemas
  FirstIds = {0}
  MaxIds = 1
  MaxRows = 3
  Slots = 4
  Room = 3
INVARIANT RootHoldsNoTuple
CHECK_DEADLOCK FALSE
