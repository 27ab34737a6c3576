CONSTANTS
  FunName = {"f", "_main"}
  VarName = {"v"}
  TypName = {"t", "int"}
  Main = "_main"
  BuiltinTypes = {"int"}
  MaxDecs = 2
  MaxDepth = 6
  MaxSize = 10
  MaxChunk = 2
  Unbound = Unbound
  Nothing = Nothing
SPECIFICATION Spec
INVARIANTS NoBreakOutOfFunction
CHECK_DEADLOCK FALSE
