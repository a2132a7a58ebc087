SPECIFICATION Spec
CONSTANTS
  Execs = {e1, e2}
  None = None
  Capacity = 2
  Budgets <- LinkBudgets
INVARIANTS
  EndsAreTrue
  StopFollowsStart
  OneWorker
SYMMETRY Symmetry
CHECK_DEADLOCK FALSE
