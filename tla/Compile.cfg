CONSTANTS
  Display = FALSE
  IntBits = 4
  CharBits = 3
  Fuel = 6
  StepBits = 9
  Writes <- TheWrites
  Start_ <- TheStarts
  Budget = 2
SPECIFICATION Spec
CHECK_DEADLOCK FALSE
INVARIANTS AcceptedGoesRight DesugarKeeps TranslationSucceeds CodeIsWellFormed CodeDoesWhatIsMeant
