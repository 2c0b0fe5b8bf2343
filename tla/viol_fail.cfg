SPECIFICATION Spec
CONSTANTS
  PipeSize = 6
  WaitSize = 3
  LogSize = 5
  Boots = {"noise", "error", "need_queue"}
  MaxBoot = 3
CHECK_DEADLOCK FALSE
INVARIANTS
  FailMeansUnavailable
