\* Four locales, a power of two, and two items more than locales; c_reduce
\* may fail.
SPECIFICATION Spec
CONSTANTS
  NumLocales = 4
  NItems = 6
  ReduceMayFail = TRUE
  RemotePointers = {TRUE, FALSE}
INVARIANTS
  TypeOK
  PreservesResults
  SlotsHoldResidues
  ReducesCurrentSlots
  CombinedInTreeOrder
  OnlySuccessfulInputs
PROPERTY ImplementsReduction
