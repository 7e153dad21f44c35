SPECIFICATION Spec
CONSTANTS
  Databases <- SmallDatabases
  Queries <- LiteralFirst
  Two <- TwoShapes
  Three <- ThreeShapes
INVARIANT EitherSideMayBeLiteral
