SPECIFICATION PilotSpec
CONSTANTS
  Execs = {e1}
  None = None
  PilotBudgets <- PilotLeaves
INVARIANTS
  SafeReportIsTrue
CHECK_DEADLOCK FALSE
