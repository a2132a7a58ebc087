SPECIFICATION Spec
CONSTANTS
  r1 = r1
  r2 = r2
  NoRobot = NoRobot
  Tasks <- SoloTasks
  SubTasks <- SoloSubTasks
  Robots <- SharedRobots
  TaskOf <- SoloTaskOf
  RobotSkills <- SoloRobotSkills
  RobotTasks <- SoloTasks
  Writers <- SoloTasks
  TaskDeps <- SoloDeps
  SubDeps <- SoloSubDeps
  Planned <- SoloPlanned
  Candidates <- SoloCandidates
  Budgets <- SoloBudgets
INVARIANTS
  StoppedWorkflowIsQuiet
PROPERTIES
  NeverReplayed
CHECK_DEADLOCK FALSE
