SPECIFICATION Spec
CONSTANTS
  Runners = {"provider"}
  MaxSessions = 2
  Faults = {"record"}
CHECK_DEADLOCK FALSE
INVARIANTS
  AnotherTaskIsAllowed
