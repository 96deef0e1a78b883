SPECIFICATION Spec
CONSTANTS
  Blocks = {b1, b2, b3, b4}
  Contents = {x, y}
  Empty = Empty
  MaxResults = 3
INVARIANTS
  TypeOK
  EveryBlockAccounted
  ResultsAreLastAccepted
