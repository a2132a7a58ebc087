SPECIFICATION FairSpec
CONSTANTS
  r1 = r1
  r2 = r2
  NoRobot = NoRobot
  Tasks <- PairTasks
  SubTasks <- PairSubTasks
  Robots <- SharedRobots
  TaskOf <- PairTaskOf
  RobotSkills = {1}
  RobotTasks = {1}
  Writers <- PairTasks
  TaskDeps <- PairDeps
  SubDeps <- PairSubDeps
  Planned <- PairSubTasks
  Candidates <- PairCandidates
  Budgets <- LiveBudgets
INVARIANTS
  WorkspaceExclusive
PROPERTIES
  StopConverges
  DecisionArrives
CHECK_DEADLOCK FALSE
