SPECIFICATION FairScreenSpec
CONSTANTS
  N = 2
  Threads = {t1}
  Confs <- ScreenConfs
  Faults = {"pthread_create", "nfqws2_missing", "fork"}
  Chatter = {}
  MaxSessions = 2
  MaxStale = 0
INVARIANTS
  NoLeakedRule
  OnlyLate
PROPERTIES
  TestSettles
  SweepEnds
  ScreenCatchesUp
