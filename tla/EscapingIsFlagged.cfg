CONSTANTS
  FunName <- MCFunName
  TypName <- MCTypName
  VarName = "v"
  Primitive = "p"
  Main = "_main"
  Unused = {"_main"}
  MaxDecs = 5
  MaxVars = 1
  MaxUses = 2
  MaxChunk = 2
SPECIFICATION Spec
INVARIANT EscapingVariablesAreFlagged
CHECK_DEADLOCK FALSE
