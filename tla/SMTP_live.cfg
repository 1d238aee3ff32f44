SPECIFICATION FairSpec
CONSTANTS
  Sessions <- Two
  Addresses <- Ann
  Commands <- Lister
  BodyLines <- Text
  MaxLines = 5
  BodyCap = 3
  Coalesce = FALSE
  MaxCrashes = 1
INVARIANTS
  OneWriter
PROPERTIES
  Answered
CHECK_DEADLOCK FALSE
