CONSTANTS
  Commands = {c1, c2}
  Sessions = {s1, s2}
  Fragments = {f1, f2}
  Codes = {e1}
  None = None
  MaxHistory = 8
  MaxLineBytes = 2
  MaxStream = 6
  MaxChunk = 3
SPECIFICATION TwinsSpec
SYMMETRY Identities
INVARIANTS
  ReducersAgree
  ReducerDecidesHistories
  ReadersAgree
PROPERTY
  ProjectionIsMonotone
CHECK_DEADLOCK FALSE
