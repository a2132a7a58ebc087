SPECIFICATION ScenesFairSpec
CONSTANTS
  Scenes = {1, 2}
  Robots = {b1, b2}
  b1 = b1
  b2 = b2
  Ports = {1}
  None = None
  Mishaps = 2
  Projects = {p1, p2}
  Runtimes = {r1, r2}
  r1 = r1
  r2 = r2
  Tabs = 1
  Cases <- AloneOrTwo
  p1 = p1
  p2 = p2
  Callers = {"u1", "u2"}
INVARIANTS
  InstancesAreExclusive
  SlotMatchesRuntime
PROPERTIES
  StateLockIsReleased
CHECK_DEADLOCK FALSE
