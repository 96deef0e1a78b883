SPECIFICATION Spec
CONSTANTS
  MaxLocales = 5
  MaxGrain = 5
  MaxItems = 14
  MaxSlices = 3
  MaxSliceEnd = 4
  MaxItemBytes = 8
  Width = 256
INVARIANTS
  LocalesSplitItems
  LocalesBalanced
  ChunksSplitItems
  LibraryAgreesPerItem
  LibraryChunksSplitItems
  VerifyDecidesPartitions
  BudgetCoversPerItem
\* The sweep stops at MaxItems.
CHECK_DEADLOCK FALSE
