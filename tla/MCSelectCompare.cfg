SPECIFICATION Spec
CONSTANTS
  Databases <- SmallDatabases
  Queries <- AnyComparison
  Two <- TwoShapes
  Three <- ThreeShapes
INVARIANT EveryComparisonRuns
