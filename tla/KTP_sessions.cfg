SPECIFICATION Spec
CONSTANTS
  WINDOW_SIZE = 1
  SEQ_MOD = 2
  NetCap = 1
  Quota <- File2
  MaxSessions = 2
  MaxCrashes = 1
  DocumentedOrder = FALSE
  PromptReceiver = FALSE
INVARIANTS
  TypeOK
  SendSideExact
  
  FreeSlotsEmpty
