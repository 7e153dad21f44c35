SPECIFICATION Spec
CONSTANTS
  Data = {d1, d2}
  Blank = blank
  Torn = torn
  Null = null
  MaxPages = 3
  MaxCalls = 4
SYMMETRY Symmetry
INVARIANTS
  TypeOK
  OwnedOnce
  FreeListLinked
  ReadsWithinFile
  CleanIsWritten
  FileHoldsLastFlush
  FlushProgress
PROPERTY
  ImplementsPageStore
