SPECIFICATION Spec
CONSTANTS
  N = 1
  Threads = {t1}
  Confs <- IptablesConf
  Faults = {}
  Chatter = {}
  MaxSessions = 1
  MaxStale = 0
INVARIANTS
  TestingRequiresStopped
