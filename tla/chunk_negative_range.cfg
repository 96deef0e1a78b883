SPECIFICATION Spec
CONSTANTS
  NumLocales = 2
  NItems = 2
  GrainSize = 4
  MaxRetries = 2
  Strategies <- MCChunk
  KeyHash <- MCKeyHash
  RemotePointers = TRUE
  EnableCheckpoint = TRUE
INVARIANT NoNegativeRange
