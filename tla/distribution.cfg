\* All five strategies where every chunk count is non-negative and keys can
\* be read on every locale.
SPECIFICATION Spec
CONSTANTS
  NumLocales = 3
  NItems = 4
  GrainSize = 2
  MaxRetries = 2
  Strategies <- MCAll
  KeyHash <- MCKeyHash
  RemotePointers = TRUE
  EnableCheckpoint = TRUE
INVARIANTS
  TypeOK
  NoSharedItem
  AttemptsBounded
  SlotCoherent
  DecidedAtJoin
  CheckpointHonest
PROPERTIES
  SuccessIsFinal
  ImplementsParallelMap
