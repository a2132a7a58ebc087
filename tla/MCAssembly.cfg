SPECIFICATION AssemblySpec
CONSTANTS
  a1 = a1
  g1 = g1
  base = base
  n1 = n1
  good = good
  bad = bad
  c1 = c1
  Installs = {i1, i2}
  Versions = {v1, v2}
  Contents = {c1, c2}
  Cataloged = {v2}
  NoDir = NoDir
  Partial = Partial
  DevVersion = Dev
  CommandBudget = 3
  CrashBudget = 1
  ScenePackages = {sc}
  Bundles = {pk}
  Abilities = {a1, a2}
  Catalogs = {g1}
  Requires <- MCRequires
  Bots = {b1}
  ProjectDefault = ProjectDefault
  NoComp = NoComp
  OpBudget = 4
  ServerCrashes = 1
  Nodes = {base, n1}
  Assets = {good, bad}
  Published = {good}
  NoNode = NoNode
  NoAsset = NoAsset
  TopLevel = TopLevel
  Template <- MCTemplate
  Locked = {base}
  Puts <- MCPuts
  Batches <- MCBatches
  Editors = {ed1, ed2}
  NoDoc = NoDoc
  DocLimit = 2
  AuthoringBudget = 4
  AuthoringRestarts = 1
  SkillVersions <- MCVersions
  Released <- MCReleased
  PartOf <- MCPartOf
  SkillContents = {c1, c2}
  NoSkill = NoSkill
  NoFile = NoFile
  Broken = Broken
  Hollow = Hollow
  DefaultSkill <- MCDefault
  SkillBudget = 3
  SkillFaults = 1
  ReconcileLimit = 2
  p1 = p1
  cv1 = cv1
  cv2 = cv2
  l3 = l3
  k1 = k1
  k2 = k2
  s1 = s1
  PlanProjects = {p1, p2}
  DefaultProject = p2
  FirstProject = p1
  PlanConvs = {cv1, cv2}
  ProjectOf <- MCProjectOf
  Leaders = {l1, l2, l3}
  LeaderConv <- MCLeaderConv
  PlanTasks = {k1, k2}
  PlanSkills = {s1}
  Suggestions <- MCSuggestions
  Tabs = {t1, t2}
  SuggestLimit = 2
  ProposalLimit = 2
  FlowLimit = 2
  GenerationLimit = 2
  PlanActs = 2
  PlanFaults = 1
  NoPlan = NoPlan
INVARIANTS
  InstallationsAreWhole
  ComponentsAreConsistent
  AuthoringIsSound
  SkillsAreConsistent
  PlansAreReviewed
SYMMETRY Symmetry
CHECK_DEADLOCK FALSE
