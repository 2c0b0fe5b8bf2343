SPECIFICATION Spec
CONSTANTS
  N = 2
  Threads = {t1, t2}
  Confs <- IptablesConf
  Faults = {"create_rule"}
  Chatter = {}
  MaxSessions = 1
  MaxStale = 0
INVARIANTS
  OwnStrategy
