SPECIFICATION Spec
CONSTANTS
  r1 = r1
  r2 = r2
  NoRobot = NoRobot
  Tasks <- SharedTasks
  SubTasks <- SharedSubTasks
  Robots <- SharedRobots
  TaskOf <- SharedTaskOf
  RobotSkills <- SharedSubTasks
  RobotTasks <- SharedTasks
  Writers = {}
  TaskDeps <- SharedDeps
  SubDeps <- SharedSubDeps
  Planned <- SharedPlanned
  Candidates <- SharedCandidates
  Budgets <- SharedBudgets
INVARIANTS
  TypeOK
  CompletionNeedsEvidence
  RobotOwnedByOneTask
  StopNeedsEvidence
PROPERTIES
  EndsAreFinal
CHECK_DEADLOCK FALSE
