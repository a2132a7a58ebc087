SPECIFICATION OperationsSpec
CONSTANTS
  e1 = e1
  e2 = e2
  rl = rl
  AgentRuns = {q1, q2}
  NoAgentRun = NoAgentRun
  MaxTurns = 2
  MaxContractCorrections = 1
  AgentFaults = 1
  AgentTools = {"map.query", "interaction.ask", "robot.run"}
  MapEntities = {e1, e2}
  MapRelations = {rl}
  Things = {t1}
  SimPoses = {here, there}
  UserPose = drawn
  NoEntry = NoEntry
  MapUsers = {u1}
  MapCheckpoints = {c1}
  MapEdits <- MCEdits
  MapQueries <- MCQueries
  GenerationLimit = 3
  MapBudget = 6
  Debugs = {d1, d2}
  NoDebug = NoDebug
  StopBudget = 2
  DebugFaults = 2
  Arts = {a1, a2, a3}
  ToolArts = {a3}
  Images = {a1}
  Loops = {w1, w2}
  LocalIds = {l1, l2}
  Paths = {p1}
  NoArt = NoArt
  NoLocal = NoLocal
  ArtifactCalls = 2
  ArtifactFaults = 2
  Callers = {k1}
  ItemLimit = 2
  ListLimit = 2
  Connections = {n1, n2}
  NoConn = NoConn
  CallLimit = 1
  McpFaults = 1
INVARIANTS
  RunsAreAccounted
  DebugEndIsQuiet
  ChangeIsNotMissed
PROPERTIES
  PutsAreKept
  ReferencesHold
CHECK_DEADLOCK FALSE
SYMMETRY Symmetry
