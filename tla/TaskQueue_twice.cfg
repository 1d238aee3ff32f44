SPECIFICATION Spec
CONSTANTS
  NTasks = 1
  Normal <- Pid12
  Silent <- None
  Repeating <- None
  MAX_TASK_REQUESTS = 3
  Overlap = TRUE
  MaxRestarts = 0
INVARIANTS
  OneHolder
CHECK_DEADLOCK FALSE
