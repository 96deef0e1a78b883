\* main under every gather strategy, with four items, every failure, config
\* constants that the manifest or the command line gives, and two or three
\* locales that can or cannot follow each other's pointers.  The last index
\* is the largest C int.
SPECIFICATION Spec
CONSTANTS
  NItems = 4
  Manifests <- MCManifests
  Arguments <- MCArguments
  LocaleCounts = {2, 3}
  CIntBound = 4
  Unknown = Unknown
INVARIANTS
  TypeOK
  LibraryBracketed
  MergeStoresEverySuccess
  ReduceAllOrNothing
  FirstStoresLowestMatch
  HaltsForAReason
PROPERTY Termination
