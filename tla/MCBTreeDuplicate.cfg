SPECIFICATION Spec
CONSTANTS
  MaxKey = 4
  Size = 4
  RowSpace <- EvenRows
  InternalSpace = 2
  PageSpace = 14
  PtrSpace = 1
  Null = null
  MaxPages = 5
  Preload <- Rising
  Loaded = 0
  Fresh = FALSE
  Ascending = FALSE
  Deletable = {}
INVARIANT
  DuplicateIsRefused
