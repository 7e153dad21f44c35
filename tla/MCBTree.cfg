SPECIFICATION Spec
CONSTANTS
  MaxKey = 6
  Size = 4
  RowSpace <- EvenRows
  InternalSpace = 2
  PageSpace = 14
  PtrSpace = 1
  Null = null
  MaxPages = 5
  Preload <- Rising
  Loaded = 0
  Fresh = TRUE
  Ascending = FALSE
  Deletable = {0, 1, 2, 3, 4, 5, 6}
INVARIANTS
  TypeOK
  TreeOwnsItsPages
  SearchAgreesWithScan
  OnlyLastLeafEmpty
PROPERTIES
  ImplementsRowSet
