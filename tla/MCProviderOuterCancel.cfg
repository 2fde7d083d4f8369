SPECIFICATION Spec
CONSTANTS
  start = start
  c1 = c1
  c2 = c2
  sid = sid
  f1 = f1
  None = None
  Commands <- OneCancel
  Sessions = {sid}
  Fragments <- OneFragment
  Codes <- ReportedCodes
  MaxModelTurns = 2
  MaxOutputBytes = 1
  MaxToolCalls = 1
  StartCommand = start
  SessionId = sid
  FragmentBytes <- OneByte
  Seeds <- FreshSeed
  SinkFaults = TRUE
  MaxOuterCancels = 1
INVARIANTS
  OuterCancelJoinsProviderWork
