SPECIFICATION Spec
CONSTANTS
  MaxKey = 20
  Size = 3
  RowSpace <- EvenRows
  InternalSpace = 2
  PageSpace = 9
  PtrSpace = 1
  Null = null
  MaxPages = 14
  Preload <- Rising
  Loaded = 19
  Fresh = TRUE
  Ascending = TRUE
  Deletable = {0, 1, 2, 3, 4, 5, 6, 7, 8, 9}
INVARIANTS
  TreeOwnsItsPages
  SiblingsInOrder
  SearchAgreesWithScan
  RoomNeverOverstated
PROPERTIES
  ImplementsRowSet
