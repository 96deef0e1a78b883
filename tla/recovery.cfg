\* Two crashes anywhere in a run, each followed by a run of the same or of
\* another strategy.  One chunk of two items on two locales: under chunk
\* locale 1 walks past the last chunk, over an unspecified range.
SPECIFICATION RecoverySpec
CONSTANTS
  NumLocales = 2
  NItems = 2
  GrainSize = 4
  MaxRetries = 1
  Strategies <- MCSaveOrNot
  KeyHash <- MCKeyHash
  RemotePointers = TRUE
  EnableCheckpoint = TRUE
  MaxRestarts = 2
INVARIANTS
  NoItemSkipped
  MarkersTellOfTriedItems
PROPERTIES
  Settles
