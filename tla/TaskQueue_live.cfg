SPECIFICATION FairSpec
CONSTANTS
  NTasks = 2
  Normal <- None
  Silent <- Pid2
  Repeating <- Pid3
  MAX_TASK_REQUESTS = 3
  Overlap = FALSE
  MaxRestarts = 0
INVARIANTS
  TypeOK
PROPERTIES
  NoTaskStuck
CHECK_DEADLOCK FALSE
