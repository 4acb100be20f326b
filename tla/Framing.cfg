SPECIFICATION Spec
CONSTANTS
  HeaderSize = 2
  ChunkSize = 3
  Bodies = {0, 2}
  Claims = {0, 1, 3, 5}
  MaxRequests = 2
INVARIANTS
  TypeOK
  HandledInOrder
  FirstUnhandledAtFront
  NothingHeldBack
PROPERTIES
  EveryRequestHandled
CHECK_DEADLOCK FALSE
