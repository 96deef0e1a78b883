SPECIFICATION Spec
CONSTANTS
  NumLocales = 2
  NItems = 3
  GrainSize = 4
  MaxRetries = 2
  Strategies <- MCKeyed
  KeyHash <- MCKeyHash
  RemotePointers = FALSE
  EnableCheckpoint = TRUE
INVARIANT SameKeySameLocale
