SPECIFICATION Spec
CONSTANTS
  WINDOW_SIZE = 3
  SEQ_MOD = 256
  NetCap = 3
  Quota <- File4
  MaxSessions = 1
  MaxCrashes = 0
  DocumentedOrder = TRUE
  PromptReceiver = FALSE
INVARIANTS
  BuffersBounded
  
  AckedWasReceived
