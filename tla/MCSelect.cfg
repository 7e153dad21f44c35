SPECIFICATION Spec
CONSTANTS
  Databases <- SmallDatabases
  Queries <- Statements
  Two <- TwoShapes
  Three <- ThreeShapes
INVARIANTS TypeOK RowsAreTheAnswer TakenPagesComeBack NoPageIsTakenTwice
PROPERTY SelectEnds
