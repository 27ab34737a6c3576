CONSTANTS
  Display = TRUE
  Writes <- TheWrites
  Start_ = {"exp", "chunks"}
  Budget = 2
SPECIFICATION Spec
INVARIANTS PrintedIsParsedBack
CHECK_DEADLOCK FALSE
