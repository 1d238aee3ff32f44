SPECIFICATION Spec
CONSTANTS
  NTasks = 3
  Normal <- Pid12
  Silent <- None
  Repeating <- None
  MAX_TASK_REQUESTS = 3
  Overlap = FALSE
  MaxRestarts = 1
INVARIANTS
  
  ResultsRight
  FileCurrent
  ResultsKept

  
CHECK_DEADLOCK FALSE
