SPECIFICATION Spec
CONSTANTS
  r1 = r1
  r2 = r2
  NoRobot = NoRobot
  Tasks <- SoloTasks
  SubTasks <- SoloSubTasks
  Robots <- SharedRobots
  TaskOf <- SoloTaskOf
  RobotSkills = {1, 2}
  RobotTasks <- SoloTasks
  Writers <- SoloTasks
  TaskDeps <- SoloDeps
  SubDeps <- SoloSubDeps
  Planned <- SoloSubTasks
  Candidates <- SoloCandidates
  Budgets <- CalmBudgets
INVARIANTS
  RobotStepIsAlone
CHECK_DEADLOCK FALSE
