SPECIFICATION Spec
CONSTANTS
  Table = {t1, t2}
  MaxKey = 2
  Batches <- SomeBatches
  NoKey = NoKey
  Bad = Bad
  Missing = Missing
  Headless = Headless
  Torn = Torn
INVARIANTS
  TypeOK
  TablesHaveFiles
PROPERTIES
  ImplementsCatalog
  StatementsEnd
