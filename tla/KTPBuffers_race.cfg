SPECIFICATION Spec
CONSTANTS
  WINDOW_SIZE = 3
  MaxMessages = 4
  ClosedBy = "emptier"
  MaxCloses = 1
INVARIANTS
  TypeOK
  IndexInBounds
PROPERTIES
  QueueSpec
CHECK_DEADLOCK FALSE
