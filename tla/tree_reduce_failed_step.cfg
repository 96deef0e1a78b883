SPECIFICATION Spec
CONSTANTS
  NumLocales = 2
  NItems = 2
  ReduceMayFail = TRUE
  RemotePointers = {TRUE}
INVARIANT FailedReduceInvalidates
