SPECIFICATION Spec
CONSTANTS
  LineMax = 5
  MaxLines = 16
  MaxSessions = 3
  Tokens = {"opt", "quote", "nl", "#", "=", "a", "b", "c", "s", "t", "u", "x"}
  Configs <- CommentedConfigs
  Strategies <- PlainStrategies
CHECK_DEADLOCK FALSE
INVARIANTS
  StrategyInEffect
