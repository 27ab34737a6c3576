CONSTANTS
  FunName <- MCFunName
  TypName <- MCTypName
  VarName = "v"
  Primitive = "p"
  Main = "_main"
  Unused = {"_main"}
  MaxDecs = 7
  MaxVars = 1
  MaxUses = 2
  MaxChunk = 2
SPECIFICATION Spec
INVARIANTS OnlyForwardUsesAreStale FlaggedUnlessUsedAtHome LiftedIsWhatCalleesUse CallersHaveLifted AccessesAreOwn
CHECK_DEADLOCK FALSE
