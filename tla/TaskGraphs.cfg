CONSTANTS
  Name = {"parse", "a", "b", "ghost"}
  Programs <- MCPrograms
  CommandLines <- MCCommandLines
  DefaultTask = "parse"
  StackLimit = 4
  NoTask = NoTask
  MaxDeps = 2
  MaxOptions = 2
SPECIFICATION FairSpec
INVARIANTS TypeOK DependenciesFirst ScheduledOnDemand ChronologicalOrder NoRunWithUnknownDep
PROPERTIES EndsIfAcyclic
CHECK_DEADLOCK FALSE
