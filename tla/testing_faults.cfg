SPECIFICATION Spec
CONSTANTS
  N = 2
  Threads = {t1, t2}
  Confs <- AnyConfs
  Faults = {"create_rule"}
  Chatter = {}
  MaxSessions = 1
  MaxStale = 0
SYMMETRY Symmetry
CONSTRAINT QuietSystem
INVARIANTS
  OneSweep
  NoDanglingRunning
  RulesCovered
