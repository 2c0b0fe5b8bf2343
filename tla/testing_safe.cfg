SPECIFICATION Spec
CONSTANTS
  N = 2
  Threads = {t1, t2}
  Confs <- SafeConfs
  Faults = {"pthread_create", "nfqws2_missing", "fork", "delete_rule"}
  Chatter = {"lua_func", "error"}
  MaxSessions = 2
  MaxStale = 1
SYMMETRY Symmetry
CONSTRAINT FewRules
INVARIANTS
  TypeOK
  TestsExclusive
  StatusShowsTest
  OwnStrategy
  VerdictEarned
PROPERTIES
  Lifecycle
  RunsKeepContract
