SPECIFICATION Spec
CONSTANTS
  MaxKey = 14
  Size = 3
  RowSpace <- EvenRows
  InternalSpace = 2
  PageSpace = 9
  PtrSpace = 1
  Null = null
  MaxPages = 9
  Preload <- Rising
  Loaded = 10
  Fresh = TRUE
  Ascending = TRUE
  Deletable = {0, 1, 2, 3, 13}
PROPERTIES
  ImplementsRowSet
  OperationsEnd
