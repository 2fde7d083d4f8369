SPECIFICATION Spec
CONSTANTS
  start = start
  c1 = c1
  c2 = c2
  sid = sid
  f1 = f1
  None = None
  Commands <- TwoCancels
  Sessions = {sid}
  Fragments <- OneFragment
  Codes <- ReportedCodes
  MaxModelTurns = 2
  MaxOutputBytes = 2
  MaxToolCalls = 1
  StartCommand = start
  SessionId = sid
  FragmentBytes <- OneByte
  Seeds <- FreshOrTurnLimit
  SinkFaults = FALSE
  MaxOuterCancels = 1
SYMMETRY CancelSymmetry
INVARIANTS
  CleanupModeIsFinal
  DeadlineWins
  ProjectionFollowsWire
  AcceptedTextIsPublished
  TerminalAfterProviderStops
  TerminalIsSelected
  EvidenceMatchesTerminal
  FinalizerNeverFails
  RunJoinsProviderWork
  RequestsAnsweredTruly
PROPERTIES
  NothingAfterSelection
  KeepsContract
