SPECIFICATION Spec
CONSTANTS
  LineMax = 5
  MaxLines = 5
  MaxSessions = 5
  Tokens = {"opt", "quote", "nl", "#", "=", "a", "b", "c", "s", "t", "u", "x"}
  Configs <- LongConfigs
  Strategies <- EdgeStrategies
CHECK_DEADLOCK FALSE
INVARIANTS
  OthersKept
