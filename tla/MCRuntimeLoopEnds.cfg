SPECIFICATION FairSpec
CONSTANTS
  Runners = {"mock", "provider"}
  MaxSessions = 1
  Faults = {"sink", "input", "record", "interrupt"}
CHECK_DEADLOCK FALSE
PROPERTIES
  InputClosedEnds
