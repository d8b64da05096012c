SPECIFICATION FairSpec
CONSTANTS
  me = 0
  Router = {0, 1, 2, 3}
  CostTables <- AnyTables
  Directs <- SortedPorts
  NodeTables <- MostKnown
CHECK_DEADLOCK FALSE
INVARIANTS TypeOK ClosestFirst NoShortcut ViaVisitedBefore PathBacked NextHopIsNeighbour CorrectAtReturn SameAtOnce
PROPERTIES WalkDescends Terminates
