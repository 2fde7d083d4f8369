SPECIFICATION SeenFairSpec
CONSTANTS
  start = start
  c1 = c1
  c2 = c2
  sid = sid
  f1 = f1
  f2 = f2
  f3 = f3
  None = None
  Commands <- MCCommands
  Sessions = {sid}
  Fragments = {f1, f2, f3}
  Codes = {}
  StartCommand = start
  SessionId = sid
  Tape <- MCTape
  SinkFaults = TRUE
CHECK_DEADLOCK FALSE
INVARIANTS
  ProjectionFollowsWire
  RequestsAnsweredTruly
PROPERTIES
  KeepsContract
  SessionEnds
  KeepsView
