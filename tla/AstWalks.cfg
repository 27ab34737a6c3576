CONSTANTS
  Budget = 2
  MaxList = 2
  Null = Null
SPECIFICATION Spec
INVARIANTS LinksHavePorts TheDumpIsTheTree EveryNodeIsVisited TheCloneIsACopy NothingIsFreedTwice OnlyObjectsLeak
CHECK_DEADLOCK FALSE
