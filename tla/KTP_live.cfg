SPECIFICATION FairSpec
CONSTANTS
  WINDOW_SIZE = 2
  SEQ_MOD = 256
  NetCap = 4
  Quota <- File3
  MaxSessions = 1
  MaxCrashes = 0
  DocumentedOrder = TRUE
  PromptReceiver = TRUE
PROPERTIES
  EventuallyQueued
  EventuallyAcked
