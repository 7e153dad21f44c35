SPECIFICATION Spec
CONSTANTS
  Key <- Keys
  MaxKey = 4
  Size = {2, 3}
  PageSize = 18
  HeaderSize = 2
  PtrSize = 1
  InternalCell = 2
INVARIANTS
  TypeOK
  CellsIntact
  RoomIsThere
  SearchesFind
PROPERTY
  ImplementsCellMap
