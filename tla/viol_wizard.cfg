SPECIFICATION Spec
CONSTANTS
  MaxProfiles = 2
  Strategies = {"a", "b"}
  ProfileConfs <- Confs
  Faults = {}
INVARIANTS
  AskedOnFirstRun
