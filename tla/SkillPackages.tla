---------------------------- MODULE SkillPackages ----------------------------
(***************************************************************************)
(* The packages of one Robot Skill, from the registry of the Server to the *)
(* Pilot that runs them (src/internal/robot/service.go and enrollment.go,  *)
(* src/internal/pilot/skillmanager.go, skillcatalog.go): users publish     *)
(* versions and say which one a Robot should have; the Server compares     *)
(* that with what the Pilot reported and sends commands; the Pilot keeps   *)
(* packages/ and active/ on its disk and a catalog in memory, and refuses  *)
(* to take away the version a Worker runs.                                 *)
(*                                                                         *)
(* Server: publishMu covers a publication.  Every acknowledgement and every*)
(* reported status starts a goroutine that reads the desired and the actual*)
(* rows and sends what is missing; a package has one unacknowledged Skill  *)
(* command at most.  Pilot: one loop handles the commands in order.        *)
(***************************************************************************)
EXTENDS Naturals, Sequences, SequencesExt, Functions, TLC

CONSTANTS
  SkillVersions,   \* the versions of the Skill, in the order of their names
  PartOf,          \* pairs of versions, the name of the first within that of the second
  SkillContents,   \* what an archive may contain
  Released,        \* version -> its content, of the versions published before
  NoSkill, NoFile,
  Broken, Hollow,  \* a half removed package that does not, or still does, load
  DefaultSkill,    \* the desired Skill in the deployment file of the Pilot
  SkillBudget,     \* operations of users
  SkillFaults,     \* dropped connections, restarts and failed downloads
  ReconcileLimit   \* goroutines that wait to compare

Vs == ToSet(SkillVersions)

ASSUME SkillPackagesAssumption ==
  /\ IsInjective(SkillVersions) /\ SkillVersions # <<>>
  /\ {NoFile, Broken, Hollow} \cap SkillContents = {}
  /\ NoSkill \notin Vs /\ PartOf \subseteq Vs \X Vs
  /\ DOMAIN Released \subseteq Vs /\ Range(Released) \subseteq SkillContents
  /\ DefaultSkill = NoSkill \/ DefaultSkill \in [v : Vs, on : BOOLEAN]
  /\ SkillBudget \in Nat /\ SkillFaults \in Nat /\ ReconcileLimit \in Nat \ {0}

VARIABLES
  archive,    \* version -> the file in the registry directory
  registered, \* versions with a row in robot_skill_packages
  publisher,  \* the publication that holds publishMu
  desired,    \* the row in robot_desired_skills
  actual,     \* version -> its row in robot_pilot_skills
  session,    \* the Pilot at the Server: down, joining (rows not replaced), up
  pending,    \* Skill commands without an acknowledgement
  due,        \* comparisons that were started and have not read
  found,      \* what running comparisons have found missing
  toRobot,    \* commands on their way
  fromRobot,  \* statuses and acknowledgements on their way
  folder,     \* version -> packages/<name>/<version> on the Pilot
  active,     \* the version active/<name> points to
  resolves,   \* the version in the Pilot's catalog
  worker,     \* the version a Worker runs
  deleting,   \* the version whose folder is being removed
  spBudget, spFaults

registryVars == <<archive, registered, publisher>>
serverVars == <<desired, actual, session, pending, due, found>>
wireVars == <<toRobot, fromRobot>>
pilotVars == <<folder, active, resolves, worker, deleting>>
spVars == <<registryVars, serverVars, wireVars, pilotVars, spBudget, spFaults>>

SpInit ==
  /\ archive = [v \in Vs |-> IF v \in DOMAIN Released THEN Released[v] ELSE NoFile]
  /\ registered = DOMAIN Released /\ publisher = NoSkill
  /\ desired = NoSkill /\ actual = [v \in Vs |-> "none"]
  /\ session = "down" /\ pending = {} /\ due = 0 /\ found = {}
  /\ toRobot = <<>> /\ fromRobot = <<>>
  /\ folder = [v \in Vs |-> NoFile] /\ active = NoSkill /\ resolves = NoSkill
  /\ worker = NoSkill /\ deleting = NoSkill
  /\ spBudget = 0 /\ spFaults = 0

SpUser == spBudget < SkillBudget /\ spBudget' = spBudget + 1 /\ UNCHANGED spFaults
SpFault == spFaults < SkillFaults /\ spFaults' = spFaults + 1 /\ UNCHANGED spBudget
SpSteady == UNCHANGED <<spBudget, spFaults>>

Compared(n) == IF n < ReconcileLimit THEN n + 1 ELSE n

-----------------------------------------------------------------------------
(* The rows of the Server. *)

GetRobotSkillPackage(v) == v \in registered

SaveRobotDesiredSkill(v, on) == desired' = [v |-> v, on |-> on]
DeleteRobotDesiredSkill == desired' = NoSkill
ListRobotDesiredSkills == {desired} \ {NoSkill}

SaveRobotPilotSkill(v, status) == actual' = [actual EXCEPT ![v] = status]
ReplaceRobotPilotSkills(snapshot) == actual' = snapshot

\* The rows there are, by the place of their version in the order of the names.
ListRobotPilotSkills == {i \in DOMAIN SkillVersions : actual[SkillVersions[i]] # "none"}

-----------------------------------------------------------------------------
(* The registry. *)

\* The archive is unpacked and read under publishMu.  A version that has a row
\* stays as it is: the same content is accepted again, another is refused.
PublishWrites(v, c) ==
  /\ publisher = NoSkill /\ SpUser
  /\ IF GetRobotSkillPackage(v)
     THEN UNCHANGED registryVars
     ELSE /\ publisher' = v
          /\ archive' = [archive EXCEPT ![v] = c]
          /\ UNCHANGED registered
  /\ UNCHANGED <<serverVars, wireVars, pilotVars>>

SaveRobotSkillPackage ==
  /\ publisher # NoSkill
  /\ registered' = registered \cup {publisher}
  /\ publisher' = NoSkill
  /\ SpSteady /\ UNCHANGED <<archive, serverVars, wireVars, pilotVars>>

-----------------------------------------------------------------------------
(* Desired and actual. *)

\* A second Skill command for the same version is dropped without an error
\* while the first has no acknowledgement.
InFlight(v) == \E c \in pending : c.v = v

SendSkillCommandOnce(do, v) ==
  IF session = "down" \/ InFlight(v)
  THEN UNCHANGED <<pending, toRobot>>
  ELSE /\ pending' = pending \cup {[do |-> do, v |-> v]}
       /\ toRobot' = Append(toRobot, [do |-> do, v |-> v])

\* What a comparison finds missing: a row that says "failed" is left alone.
Lacks(want) ==
  IF actual[want.v] \in {"none", "uninstalled"} THEN {"install"}
  ELSE IF actual[want.v] = "off" /\ want.on THEN {"enable"}
  ELSE IF actual[want.v] = "on" /\ ~want.on THEN {"disable"}
  ELSE {}
Missing ==
  UNION {{[do |-> do, v |-> want.v] : do \in Lacks(want)} : want \in ListRobotDesiredSkills}

\* A comparison reads both lists; what it found is sent later.
ReconcileReads ==
  /\ due > 0 /\ due' = due - 1
  /\ found' = IF session = "down" THEN found ELSE found \cup Missing
  /\ SpSteady
  /\ UNCHANGED <<registryVars, desired, actual, session, pending, wireVars, pilotVars>>

\* A version that is not in the registry cannot be installed.
ReconcileSends ==
  \E c \in found :
    /\ found' = found \ {c}
    /\ IF c.do = "install" /\ ~GetRobotSkillPackage(c.v)
       THEN UNCHANGED <<pending, toRobot>>
       ELSE SendSkillCommandOnce(c.do, c.v)
    /\ SpSteady
    /\ UNCHANGED <<registryVars, desired, actual, session, due, fromRobot, pilotVars>>

\* Install, enable and disable are one operation: the row is saved, then the
\* request compares like every other comparison.
SetDesiredSkill(v, on) ==
  /\ SpUser
  /\ SaveRobotDesiredSkill(v, on)
  /\ due' = Compared(due)
  /\ UNCHANGED <<registryVars, actual, session, pending, found, wireVars, pilotVars>>

\* The first version with a row is uninstalled, whatever its row says.
RemoveDesiredSkill ==
  /\ SpUser
  /\ DeleteRobotDesiredSkill
  /\ \/ ListRobotPilotSkills = {} /\ UNCHANGED <<pending, toRobot>>
     \/ \E i \in ListRobotPilotSkills :
          /\ \A j \in ListRobotPilotSkills : i <= j
          /\ SendSkillCommandOnce("uninstall", SkillVersions[i])
  /\ UNCHANGED <<registryVars, actual, session, due, found, fromRobot, pilotVars>>

HandleRobotSkillAction ==
  RemoveDesiredSkill \/ \E v \in Vs, on \in BOOLEAN : SetDesiredSkill(v, on)

\* An Execution is admitted for a version the rows call installed and enabled.
LaunchSkill(v) ==
  /\ session # "down" /\ actual[v] = "on" /\ SpUser
  /\ toRobot' = Append(toRobot, [do |-> "start", v |-> v])
  /\ UNCHANGED <<registryVars, serverVars, fromRobot, pilotVars>>

HandleSkillStatus ==
  /\ session = "up" /\ fromRobot # <<>> /\ Head(fromRobot).kind = "status"
  /\ LET m == Head(fromRobot) IN SaveRobotPilotSkill(m.v, m.row)
  /\ fromRobot' = Tail(fromRobot)
  /\ due' = Compared(due)
  /\ SpSteady
  /\ UNCHANGED <<registryVars, desired, session, pending, found, toRobot, pilotVars>>

\* A success starts a comparison, a refusal writes "failed" over the row.
HandleSkillAck ==
  /\ session = "up" /\ fromRobot # <<>> /\ Head(fromRobot).kind = "ack"
  /\ fromRobot' = Tail(fromRobot)
  /\ LET m == Head(fromRobot) IN
     /\ pending' = pending \ {m.command}
     /\ IF m.ok THEN due' = Compared(due) /\ UNCHANGED actual
        ELSE /\ SaveRobotPilotSkill(m.command.v, "failed")
             /\ UNCHANGED due
  /\ SpSteady
  /\ UNCHANGED <<registryVars, desired, session, found, toRobot, pilotVars>>

-----------------------------------------------------------------------------
(* The connection. *)

LinkLostPending ==
  /\ session' = "down" /\ UNCHANGED pending
  /\ toRobot' = <<>> /\ fromRobot' = <<>>

\* Commands the Pilot has not read and messages the Server has not read are
\* lost; the Server forgets the unacknowledged Skill commands.
LinkLost ==
  /\ session' = "down" /\ pending' = {}
  /\ toRobot' = <<>> /\ fromRobot' = <<>>

ConnectionDrops ==
  /\ session # "down" /\ SpFault
  /\ LinkLost
  /\ UNCHANGED <<registryVars, desired, actual, due, found, pilotVars>>

\* The session takes commands before the rows of the last connection are
\* replaced.
ConnectInstallsSession ==
  /\ session = "down" /\ deleting = NoSkill
  /\ session' = "joining"
  /\ SpSteady
  /\ UNCHANGED <<registryVars, desired, actual, pending, due, found, wireVars, pilotVars>>

\* The report was written when the Pilot dialled: what loads is installed, what
\* the catalog resolves is enabled.  The deployment file fills an empty list.
Loads(v) == folder[v] \notin {NoFile, Broken}
Resolve(v) == resolves = v
ListInstalled ==
  [v \in Vs |-> IF ~Loads(v) THEN "none" ELSE IF Resolve(v) THEN "on" ELSE "off"]

ConnectReplacesRows ==
  /\ session = "joining" /\ session' = "up"
  /\ ReplaceRobotPilotSkills(ListInstalled)
  /\ desired' = IF desired = NoSkill THEN DefaultSkill ELSE desired
  /\ due' = Compared(due)
  /\ SpSteady
  /\ UNCHANGED <<registryVars, pending, found, wireVars, pilotVars>>

\* publishMu, the comparisons and the sessions are memory of the Server.
ServerRestarts ==
  /\ SpFault /\ LinkLost
  /\ due' = 0 /\ found' = {} /\ publisher' = NoSkill
  /\ UNCHANGED <<archive, registered, desired, actual, pilotVars>>

-----------------------------------------------------------------------------
(* The Pilot.  It handles a command after it has read the one before to its  *)
(* end; nothing is read before the registration was sent.                    *)

Status(v, row) == [kind |-> "status", v |-> v, row |-> row]
SkillAck(c, ok) == [kind |-> "ack", command |-> c, ok |-> ok]
SkillInUse(v) == worker = v

PilotTakes(do) ==
  /\ session = "up" /\ toRobot # <<>> /\ deleting = NoSkill
  /\ Head(toRobot).do = do
  /\ toRobot' = Tail(toRobot)

Reports(messages) == fromRobot' = fromRobot \o messages

\* The link in active/ is replaced in one step.  It is removed when the name of
\* the version is found in where it leads to.
activateSkill(v) == active' = v
deactivateSkill(v) ==
  active' = IF active = v \/ <<v, active>> \in PartOf THEN NoSkill ELSE active

\* The catalog has one version of a name.
CatalogInstalls(v) == resolves' = v
CatalogRemoves(v) == resolves' = IF Resolve(v) THEN NoSkill ELSE resolves

\* The unpacked folder is moved to its place; a folder that is there is kept.
Placed(v) == IF folder[v] = NoFile THEN archive[v] ELSE folder[v]

PilotInstalls ==
  /\ PilotTakes("install")
  /\ LET c == Head(toRobot) IN
     /\ folder' = [folder EXCEPT ![c.v] = Placed(c.v)]
     /\ Reports(IF Placed(c.v) = Broken
                THEN <<Status(c.v, "failed"), SkillAck(c, FALSE)>>
                ELSE <<Status(c.v, "off"), SkillAck(c, TRUE)>>)
  /\ SpSteady
  /\ UNCHANGED <<registryVars, serverVars, active, resolves, worker, deleting>>

\* The download, the manifest or the Python environment fails: nothing of it
\* stays in packages/.
PilotInstallFails ==
  /\ PilotTakes("install") /\ SpFault
  /\ LET c == Head(toRobot) IN Reports(<<Status(c.v, "failed"), SkillAck(c, FALSE)>>)
  /\ UNCHANGED <<registryVars, serverVars, pilotVars>>

PilotEnables ==
  /\ PilotTakes("enable")
  /\ LET c == Head(toRobot) IN
     IF Loads(c.v)
     THEN /\ activateSkill(c.v) /\ CatalogInstalls(c.v)
          /\ Reports(<<Status(c.v, "on"), SkillAck(c, TRUE)>>)
     ELSE Reports(<<SkillAck(c, FALSE)>>) /\ UNCHANGED <<active, resolves>>
  /\ SpSteady
  /\ UNCHANGED <<registryVars, serverVars, folder, worker, deleting>>

\* Disable of the manager: out of the catalog, then the link.
Disabled(v) == CatalogRemoves(v) /\ deactivateSkill(v)

PilotDisables ==
  /\ PilotTakes("disable")
  /\ LET c == Head(toRobot) IN
     IF SkillInUse(c.v)
     THEN Reports(<<SkillAck(c, FALSE)>>) /\ UNCHANGED <<active, resolves>>
     ELSE Disabled(c.v) /\ Reports(<<Status(c.v, "off"), SkillAck(c, TRUE)>>)
  /\ SpSteady
  /\ UNCHANGED <<registryVars, serverVars, folder, worker, deleting>>

PilotUninstalls ==
  /\ PilotTakes("uninstall")
  /\ LET c == Head(toRobot) IN
     IF SkillInUse(c.v)
     THEN /\ Reports(<<SkillAck(c, FALSE)>>)
          /\ UNCHANGED <<active, resolves, deleting>>
     ELSE /\ Disabled(c.v)
          /\ deleting' = c.v
          /\ UNCHANGED fromRobot
  /\ SpSteady
  /\ UNCHANGED <<registryVars, serverVars, folder, worker>>

FolderRemoved ==
  /\ deleting # NoSkill
  /\ folder' = [folder EXCEPT ![deleting] = NoFile]
  /\ deleting' = NoSkill
  /\ IF session = "up"
     THEN Reports(<<Status(deleting, "uninstalled"),
                    SkillAck([do |-> "uninstall", v |-> deleting], TRUE)>>)
     ELSE UNCHANGED fromRobot
  /\ SpSteady
  /\ UNCHANGED <<registryVars, serverVars, toRobot, active, resolves, worker>>

\* Only the version in the catalog starts, and one Worker has the Robot.
PilotStarts ==
  /\ PilotTakes("start")
  /\ worker' = IF worker = NoSkill /\ Resolve(Head(toRobot).v) THEN resolves ELSE worker
  /\ SpSteady
  /\ UNCHANGED <<registryVars, serverVars, fromRobot, folder, active, resolves, deleting>>

WorkerEnds ==
  /\ worker # NoSkill /\ worker' = NoSkill
  /\ SpSteady
  /\ UNCHANGED <<registryVars, serverVars, wireVars, folder, active, resolves, deleting>>

\* What a scan finds under active/: one package that does not load ends it.
activeSkillDirectory == {active} \ {NoSkill}

\* The catalog is read from active/ again, and an Execution goes on when it
\* finds its version there; a removal stays half done.
PilotRestarts ==
  /\ SpFault /\ LinkLost
  /\ activeSkillDirectory \subseteq {v \in Vs : Loads(v)}
  /\ resolves' = active
  /\ worker' = IF worker = active THEN worker ELSE NoSkill
  /\ deleting' = NoSkill
  /\ IF deleting = NoSkill THEN UNCHANGED folder
     ELSE \E left \in {folder[deleting]} \cup (IF Loads(deleting) THEN {Broken, Hollow} ELSE {}) :
            folder' = [folder EXCEPT ![deleting] = left]
  /\ UNCHANGED <<registryVars, desired, actual, due, found, active>>

SpNext ==
  \/ \E v \in Vs, c \in SkillContents : PublishWrites(v, c)
  \/ SaveRobotSkillPackage \/ ReconcileReads \/ ReconcileSends
  \/ HandleRobotSkillAction
  \/ \E v \in Vs : LaunchSkill(v)
  \/ HandleSkillStatus \/ HandleSkillAck
  \/ ConnectionDrops \/ ConnectInstallsSession \/ ConnectReplacesRows \/ ServerRestarts
  \/ PilotInstalls \/ PilotInstallFails \/ PilotEnables \/ PilotDisables \/ PilotUninstalls \/ FolderRemoved
  \/ PilotStarts \/ WorkerEnds \/ PilotRestarts

SpSpec == SpInit /\ [][SpNext]_spVars

-----------------------------------------------------------------------------
(* Properties. *)

\* A Worker keeps the package it was started from: neither a command, nor a
\* switch to another version, nor a restart takes the folder away under it
\* (SkillInUse in Disable and Uninstall, skillmanager.go).
RunningSkillStays == worker # NoSkill => Loads(worker) /\ deleting # worker

\* The link in active/ leads to a package that loads, at any time the Pilot may
\* die: one that does not makes ScanSkillCatalog fail, and with it every later
\* start of the Pilot.
ActiveSkillLoads == active # NoSkill => Loads(active) /\ deleting # active

\* A version has one content everywhere: what a Pilot has installed is what the
\* registry has, whoever published the version again, raced or crashed.
InstalledIsPublished ==
  \A v \in Vs : folder[v] \in SkillContents => v \in registered /\ folder[v] = archive[v]

\* Nothing is on its way and nobody compares: then the rows say what the user
\* asked for, or that it failed: no status and no acknowledgement is the last
\* one without the step from installed to enabled having been sent.  (A version
\* that is published after it was asked for is not sent by its publication.)
AtRest ==
  /\ session = "up" /\ due = 0 /\ found = {}
  /\ toRobot = <<>> /\ fromRobot = <<>> /\ deleting = NoSkill
RestMeansDesired ==
  AtRest /\ desired # NoSkill =>
    \/ desired.v \notin DOMAIN Released
    \/ actual[desired.v] \in {"failed", IF desired.on THEN "on" ELSE "off"}

\* Registry, rows, folders, links and Workers agree on the Skills of a Robot.
SkillsAreConsistent ==
  RunningSkillStays /\ ActiveSkillLoads /\ InstalledIsPublished /\ RestMeansDesired
=============================================================================
