SPECIFICATION Spec
CONSTANTS
  N = 1
  Threads = {t1}
  Confs <- NftablesConf
  Faults = {}
  Chatter = {"lua_func"}
  MaxSessions = 1
  MaxStale = 0
PROPERTIES
  VerdictStands
