CONSTANTS
  FunName = {"f", "_main"}
  VarName = {"v"}
  TypName = {"t", "int"}
  Main = "_main"
  BuiltinTypes = {"int"}
  MaxDecs = 3
  MaxDepth = 6
  MaxSize = 7
  MaxChunk = 2
  Unbound = Unbound
  Nothing = Nothing
SPECIFICATION Spec
INVARIANTS TypeOK ScopesMatchConstructs BreaksInnermostLoop FlagsAreJustified ChunksAreRecursive
PROPERTIES IsLexicalScoping
CHECK_DEADLOCK FALSE
