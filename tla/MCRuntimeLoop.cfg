SPECIFICATION Spec
CONSTANTS
  Runners = {"mock", "provider"}
  MaxSessions = 2
  Faults = {"sink", "input", "record", "interrupt"}
CHECK_DEADLOCK FALSE
INVARIANTS
  NothingOutlivesItsOwner
  CancelsAnsweredTruly
  WarnedOnce
