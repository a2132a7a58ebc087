SPECIFICATION PilotFairSpec
CONSTANTS
  Execs = {e1}
  None = None
  PilotBudgets <- PilotCases
INVARIANTS
  ActionIsSentOnce
  EndsAreQuiet
  MovingIsLocked
PROPERTY StopReturns
CHECK_DEADLOCK FALSE
