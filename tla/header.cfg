SPECIFICATION Spec
PROPERTIES
  ReloadEnds
  HeaderSettles
  ReloadWearsOff
CHECK_DEADLOCK FALSE
