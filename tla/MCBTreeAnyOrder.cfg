SPECIFICATION Spec
CONSTANTS
  MaxKey = 9
  Size = 3
  RowSpace <- EvenRows
  InternalSpace = 2
  PageSpace = 9
  PtrSpace = 1
  Null = null
  MaxPages = 14
  Preload <- Falling
  Loaded = 10
  Fresh = TRUE
  Ascending = FALSE
  Deletable = {}
INVARIANT
  SearchAgreesWithScan
