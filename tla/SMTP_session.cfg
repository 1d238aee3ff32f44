SPECIFICATION Spec
CONSTANTS
  Sessions <- One
  Addresses <- Ann
  Commands <- All
  BodyLines <- Odd
  MaxLines = 8
  BodyCap = 2
  Coalesce = TRUE
  MaxCrashes = 1
INVARIANTS
  TypeOK
  EnvelopeComplete
  BodyExact
  InStep
CHECK_DEADLOCK FALSE
