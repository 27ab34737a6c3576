CONSTANTS
  Name <- TaskNames
  Programs <- MCPrograms
  CommandLines <- MCCommandLines
  DefaultTask = "parse"
  StackLimit = 6
  NoTask = NoTask
  Sources <- EachFeature
  NoTree = NoTree
  AllowedOptions <- AllOptions
  MaxRenewing = 3
  MaxOptions = 2
SPECIFICATION MCFairSpec
INVARIANTS ProgramIsSet PassesAreReady AcceptedForGood
PROPERTIES Ends
CHECK_DEADLOCK FALSE
