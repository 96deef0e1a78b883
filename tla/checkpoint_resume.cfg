\* One crash of a per-item program on two locales: the second run starts
\* over, markers or not.
SPECIFICATION RecoverySpec
CONSTANTS
  NumLocales = 2
  NItems = 2
  GrainSize = 4
  MaxRetries = 2
  Strategies <- MCPerItem
  KeyHash <- MCKeyHash
  RemotePointers = TRUE
  EnableCheckpoint = TRUE
  MaxRestarts = 1
INVARIANTS
  ResumesAfterMarker
