SPECIFICATION Spec
CONSTANTS
  start = start
  cancel = cancel
  sid = sid
  None = None
  Commands = {start, cancel}
  Sessions = {sid}
  Fragments <- MCFragments
  Codes <- MCCodes
  MaxModelTurns = 1
  MaxOutputBytes = 1
  MaxToolCalls = 1
  SessionId = sid
  RawBytes = {3, 5}
  TextLimit = 4
  MarkerBytes = 2
  MaxReplayText = 5
  MaxRecords = 7
  MaxSequence = 6
CHECK_DEADLOCK FALSE
SYMMETRY CommandSymmetry
INVARIANTS
  WriterAndReaderAgree
  FileReplays
  SummaryTellsTheTape
PROPERTIES
  FirstFailureIsTheLast
