SPECIFICATION Spec
CONSTANTS
  NumLocales = 3
  NItems = 3
  ReduceMayFail = FALSE
  RemotePointers = {TRUE}
INVARIANT PreservesResults
