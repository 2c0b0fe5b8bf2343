SPECIFICATION Spec
CONSTANTS
  MaxProfiles = 2
  Strategies = {"a", "b"}
  ProfileConfs <- Confs
  Faults = {"dependencies", "generate", "rename", "copy", "compare", "settings"}
INVARIANTS
  BracketTrue
