SPECIFICATION Spec
CONSTANTS
  LineMax = 5
  MaxLines = 3
  MaxSessions = 3
  Tokens = {"opt", "quote", "nl", "#", "=", "a", "b", "c", "s", "t", "u", "x"}
  Configs <- LongConfigs
  Strategies <- PlainStrategies
CHECK_DEADLOCK FALSE
INVARIANTS
  OthersKept
