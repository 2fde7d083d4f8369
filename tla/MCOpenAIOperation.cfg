SPECIFICATION FairSpec
CONSTANTS
  Cancellers = {c1, c2}
  Waiters = {w}
  Forcers = {f}
CHECK_DEADLOCK FALSE
INVARIANTS
  ReturnsAreHonest
PROPERTIES
  EventsKeepThePort
  ForceFreesEveryone
