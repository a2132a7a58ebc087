--------------------------- MODULE RobotInstances ---------------------------
(***************************************************************************)
(* The Robot Runtime Instances the Server manages: the orchestrator        *)
(* (internal/robotruntime), its records and port leases                    *)
(* (internal/store/robot_runtime.go), the launcher of instance supervisors *)
(* and the life cycle of the Robots of a scene                             *)
(* (internal/bootstrap/managed_robot_runtime.go).                          *)
(*                                                                         *)
(* The instance of Robot b in scene s is <<s, b>>, as its ID is made of    *)
(* both.  Records and leases survive a crash of the Server, and so do the  *)
(* supervisors, which run in process groups of their own.                  *)
(***************************************************************************)
EXTENDS Naturals, FiniteSets, FiniteSetsExt

CONSTANTS Scenes, Robots, Ports, None,
          Mishaps      \* bound: lost processes, failed calls and crashes

ASSUME InstanceConstants ==
  /\ Ports \subseteq Nat /\ None \notin Ports
  /\ Mishaps \in Nat
  /\ \A i \in Scenes \X Robots, by \in (Scenes \X Robots) \cup {<<None, None>>} :
       None # [call |-> "start", inst |-> i, by |-> by]

VARIABLES robotInst,   \* the record of an instance: its status
          portLease,   \* the port leased to it
          supervisor,  \* its processes: absent, idle, up, orphan
          busy,        \* who holds the lock of a Robot, and for which call
          starter,     \* the goroutine of StartSceneRobots: its step
          sweep,       \* StopSceneRobots or Shutdown: what is left to stop
          mishaps

robotVars == <<robotInst, portLease, supervisor, busy, starter, sweep, mishaps>>

Instances == Scenes \X Robots
RobotOf(i) == i[2]

\* State.Active.
Active(status) == status \in {"starting", "ready", "stopping", "interrupted"}
ActiveOn(b) == {i \in Instances : RobotOf(i) = b /\ Active(robotInst[i])}
Running(i) == supervisor[i] \in {"up", "orphan"}

NoSweep == [on |-> FALSE, left |-> {}, back |-> {}, bad |-> FALSE, held |-> FALSE]
Sweeper == <<None, None>>
Resting == [step |-> "off", old |-> None]

RobotsInit ==
  /\ robotInst = [i \in Instances |-> "none"]
  /\ portLease = [i \in Instances |-> None]
  /\ supervisor = [i \in Instances |-> "absent"]
  /\ busy = [b \in Robots |-> None]
  /\ starter = [i \in Instances |-> Resting]
  /\ sweep = NoSweep
  /\ mishaps \in 0 .. Mishaps

Mishap == mishaps < Mishaps /\ mishaps' = mishaps + 1

At(i, step) == starter[i].step = step
Go(i, step) == starter' = [starter EXCEPT ![i].step = step]
Rest(i) == starter' = [starter EXCEPT ![i] = Resting]
Locked(b, call, i, by) == busy' = [busy EXCEPT ![b] = [call |-> call, inst |-> i, by |-> by]]
Unlocked(b) == busy' = [busy EXCEPT ![b] = None]
Record(i, status) == robotInst' = [robotInst EXCEPT ![i] = status]

-----------------------------------------------------------------------------
(* What the supervisor answers.                                            *)

\* pilotReady and waitReady: Pilot online, Ability healthy, Skills reconciled; the
\* deadline or the end of the supervisor ends the wait.
CanBeReady(i) == supervisor[i] = "up"

\* What "stop" of the supervisor can leave behind, and whether its evidence counts:
\* without a rendered directory nothing ever ran; a supervisor that runs stops
\* everything, or keeps Ability and Pilot when the Robot did not confirm its hold.
StopOutcomes(i) ==
  CASE supervisor[i] = "absent" -> {<<"absent", TRUE>>}
    [] supervisor[i] = "idle"   -> {<<"idle", TRUE>>, <<"idle", FALSE>>}
    [] supervisor[i] = "up"     -> {<<"idle", TRUE>>, <<"orphan", FALSE>>}
    [] OTHER                    -> {<<"orphan", FALSE>>}

\* Reclaiming kills what a supervisor left, never under one that still runs.
ReclaimOutcomes(i) ==
  CASE supervisor[i] = "up"     -> {<<"up", FALSE>>}
    [] supervisor[i] = "orphan" -> {<<"idle", TRUE>>, <<"orphan", FALSE>>}
    [] OTHER                    -> {<<supervisor[i], TRUE>>}

\* Only evidence of the stop frees the port and ends the instance.
Confirmed(o) == o[2]

\* How a call on i ends with outcome o: the record, the lease and the processes.
EndWith(i, o, whenStopped) ==
  /\ supervisor' = [supervisor EXCEPT ![i] = o[1]]
  /\ Record(i, IF Confirmed(o) THEN whenStopped ELSE "interrupted")
  /\ portLease' = IF Confirmed(o) THEN [portLease EXCEPT ![i] = None] ELSE portLease

-----------------------------------------------------------------------------
(* The callers: the start of a Robot, and the sweep over a scene.          *)

\* What a caller of Stop or Reclaim on i does with the status it gets back.
Returned(by, i, status) ==
  IF by = Sweeper
  THEN /\ sweep' = [sweep EXCEPT !.left = @ \ {i},
                                 !.back = IF status = "interrupted" /\ sweep.held THEN @ \cup {i}
                                          ELSE @ \ {i},
                                 !.bad = @ \/ (status = "interrupted" /\ ~sweep.held)]
       /\ UNCHANGED starter
  ELSE /\ starter' = [starter EXCEPT ![by].step = IF status = "interrupted" THEN "reclaim"
                                                  ELSE "start"]
       /\ UNCHANGED sweep

\* A failed reclaim gives up.
GaveUp(by, i) ==
  IF by = Sweeper
  THEN sweep' = [sweep EXCEPT !.back = @ \ {i}, !.bad = TRUE] /\ UNCHANGED starter
  ELSE Rest(by) /\ UNCHANGED sweep

\* prepareSceneRobotStart: an instance of the same scene is left alone, one of an
\* older scene is stopped first.
PrepareRobot(i) ==
  /\ At(i, "prepare")
  /\ LET others == ActiveOn(RobotOf(i)) IN
       \/ /\ others \subseteq {i}
          /\ Go(i, IF i \in others THEN "off" ELSE "start")
       \/ \E j \in others \ {i} :
            starter' = [starter EXCEPT ![i] =
                          [step |-> IF robotInst[j] = "interrupted" THEN "reclaim" ELSE "stop",
                           old |-> j]]
  /\ UNCHANGED <<robotInst, portLease, supervisor, busy, sweep, mishaps>>

WantsStop(by, i) ==
  \/ by = Sweeper /\ sweep.on /\ sweep.back = {} /\ i \in sweep.left
  \/ by \in Instances /\ At(by, "stop") /\ starter[by].old = i

\* Orchestrator.Stop, up to the call of the launcher.
BeginStop(by, i) ==
  /\ WantsStop(by, i)
  /\ busy[RobotOf(i)] = None
  /\ \/ /\ ~Active(robotInst[i])
        /\ Returned(by, i, robotInst[i])
        /\ UNCHANGED <<robotInst, busy>>
     \/ /\ Active(robotInst[i])
        /\ Record(i, "stopping")
        /\ Locked(RobotOf(i), "stop", i, by)
        /\ UNCHANGED <<starter, sweep>>
  /\ UNCHANGED <<portLease, supervisor, mishaps>>

\* The launcher's Stop and the rest of Orchestrator.Stop.
EndStop(b) ==
  /\ busy[b] # None /\ busy[b].call = "stop"
  /\ \E o \in StopOutcomes(busy[b].inst) :
       /\ EndWith(busy[b].inst, o, "stopped")
       /\ Returned(busy[b].by, busy[b].inst, IF Confirmed(o) THEN "stopped" ELSE "interrupted")
  /\ Unlocked(b)
  /\ UNCHANGED mishaps

WantsReclaim(by, i) ==
  \/ by = Sweeper /\ sweep.on /\ i \in sweep.back
  \/ by \in Instances /\ At(by, "reclaim") /\ starter[by].old = i

\* ReclaimInterruptedSimulation, up to the call of the launcher: a newer scene replaced
\* the old one, or the Runtime confirmed the hold of this one.
BeginReclaim(by, i) ==
  /\ WantsReclaim(by, i)
  /\ busy[RobotOf(i)] = None
  /\ IF robotInst[i] # "interrupted"
     THEN GaveUp(by, i) /\ UNCHANGED busy
     ELSE Locked(RobotOf(i), "reclaim", i, by) /\ UNCHANGED <<starter, sweep>>
  /\ UNCHANGED <<robotInst, portLease, supervisor, mishaps>>

\* The launcher's reclaim, and the rest of it.
EndReclaim(b) ==
  /\ busy[b] # None /\ busy[b].call = "reclaim"
  /\ LET i == busy[b].inst IN
       \E o \in ReclaimOutcomes(i) :
         /\ EndWith(i, o, "stopped")
         /\ IF Confirmed(o) THEN Returned(busy[b].by, i, "stopped") ELSE GaveUp(busy[b].by, i)
  /\ Unlocked(b)
  /\ UNCHANGED mishaps

\* Processes a supervisor left are asked to end; the call waits until they did, for as
\* long as its caller waits.
Retiring(b) == busy[b] # None /\ busy[b].call = "reclaim" /\ supervisor[busy[b].inst] = "orphan"

-----------------------------------------------------------------------------
(* Orchestrator.Start.                                                     *)

FreshRobot(b) == TRUE

\* GetActiveRuntimeByRobot, under the lock of the Robot.
RobotIsFree(b) == ActiveOn(b) = {}

\* A Robot in use is refused; without a matching bundle the instance is failed.
BeginStart(i) ==
  /\ At(i, "start")
  /\ busy[RobotOf(i)] = None
  /\ \/ /\ ~RobotIsFree(RobotOf(i))
        /\ Rest(i)
        /\ UNCHANGED <<robotInst, busy>>
     \/ /\ RobotIsFree(RobotOf(i))
        /\ Record(i, "starting")
        /\ Locked(RobotOf(i), "start", i, i)
        /\ Go(i, "port")
     \/ /\ RobotIsFree(RobotOf(i))
        /\ Record(i, "failed")
        /\ Rest(i)
        /\ UNCHANGED busy
  /\ UNCHANGED <<portLease, supervisor, sweep, mishaps>>

AllPorts == Ports
FreePorts == {p \in Ports : \A i \in Instances : portLease[i] # p}

\* AcquireAbilityFrameworkPort: the lease the instance has, else the first free port.
AcquirePort(i) ==
  /\ At(i, "port")
  /\ \/ /\ portLease[i] # None \/ FreePorts # {}
        /\ portLease' = [portLease EXCEPT ![i] = IF @ # None THEN @ ELSE Min(FreePorts)]
        /\ Go(i, "launch")
        /\ UNCHANGED <<robotInst, busy>>
     \/ /\ portLease[i] = None /\ FreePorts = {}
        /\ Record(i, "failed")
        /\ Unlocked(RobotOf(i))
        /\ Rest(i)
        /\ UNCHANGED portLease
  /\ UNCHANGED <<supervisor, sweep, mishaps>>

\* ensureRendered and the start of the supervisor.
Launch(i) ==
  /\ At(i, "launch")
  /\ supervisor' = [supervisor EXCEPT ![i] = "up"]
  /\ Go(i, "wait")
  /\ UNCHANGED <<robotInst, portLease, busy, sweep, mishaps>>

BecomesReady(i) ==
  /\ At(i, "wait")
  /\ CanBeReady(i)
  /\ Record(i, "ready")
  /\ Unlocked(RobotOf(i))
  /\ Rest(i)
  /\ UNCHANGED <<portLease, supervisor, sweep, mishaps>>

\* The ready record could not be stored or published: the process stays.
ReadyNotStored(i) ==
  /\ At(i, "wait")
  /\ CanBeReady(i)
  /\ Mishap
  /\ Record(i, "interrupted")
  /\ Unlocked(RobotOf(i))
  /\ Rest(i)
  /\ UNCHANGED <<portLease, supervisor, sweep>>

NeverTimesOut(i) == At(i, "launch")

\* The launcher gives up: it could not render, or the readiness deadline passed.
StartGivesUp(i) == At(i, "launch") \/ At(i, "wait")

\* failStart, after the launcher took over.
FailStart(i) ==
  /\ StartGivesUp(i)
  /\ \E o \in StopOutcomes(i) : EndWith(i, o, "failed")
  /\ Unlocked(RobotOf(i))
  /\ Rest(i)
  /\ UNCHANGED <<sweep, mishaps>>

-----------------------------------------------------------------------------
(* Sweeps, lost processes and the crash of the Server.                     *)

\* StopSceneRobots lists the active instances of the scene; the Runtime has
\* confirmed their hold.  Shutdown has no such evidence, and skips interrupted ones.
BeginSweep(which, held) ==
  sweep' = [NoSweep EXCEPT !.on = TRUE, !.held = held,
                           !.left = {i \in which : Active(robotInst[i])}]

\* managedSceneRobotLifecycle.Shutdown.
ShutdownRobots ==
  /\ ~sweep.on
  /\ Mishap
  /\ BeginSweep({i \in Instances : robotInst[i] # "interrupted"}, FALSE)
  /\ UNCHANGED <<robotInst, portLease, supervisor, busy, starter>>

SweepDone == sweep.on /\ sweep.left \cup sweep.back = {}

\* The supervisor dies and leaves Pilot and AbilityFramework, or all of it ends.
SupervisorExits(i) ==
  /\ supervisor[i] = "up"
  /\ Mishap
  /\ \E left \in {"orphan", "idle"} : supervisor' = [supervisor EXCEPT ![i] = left]
  /\ UNCHANGED <<robotInst, portLease, busy, starter, sweep>>

LoseRobotCalls ==
  /\ busy' = [b \in Robots |-> None]
  /\ starter' = [i \in Instances |-> Resting]
  /\ sweep' = NoSweep

\* The Server's own steps that end in time.
RobotsGoOn ==
  \/ \E i \in Instances : \/ PrepareRobot(i) \/ BeginStart(i) \/ AcquirePort(i) \/ Launch(i)
                          \/ BecomesReady(i) \/ FailStart(i)
  \/ \E i \in Instances, by \in Instances \cup {Sweeper} : BeginStop(by, i) \/ BeginReclaim(by, i)
  \/ \E b \in Robots : EndStop(b) \/ (~Retiring(b) /\ EndReclaim(b))

RobotsStep == RobotsGoOn \/ \E b \in Robots : Retiring(b) /\ EndReclaim(b)

RobotsMishap ==
  \/ \E i \in Instances : ReadyNotStored(i) \/ SupervisorExits(i)
  \/ ShutdownRobots

-----------------------------------------------------------------------------
(* What makes it correct.                                                  *)

\* Never do two instances of a Robot run, whichever scene started them: every
\* process is on an active record, and a Robot has one active record, also after
\* failed starts, unconfirmed stops, lost supervisors and a crash of the Server.
OneRunningInstance ==
  \A b \in Robots : /\ Cardinality(ActiveOn(b)) <= 1
                    /\ \A i \in Instances : RobotOf(i) = b /\ Running(i) => i \in ActiveOn(b)

\* A port belongs to the instance whose processes may listen on it: it is neither
\* leased twice nor freed while they run.
PortsAreExclusive ==
  \A i, j \in Instances : Running(i) => /\ portLease[i] # None
                                        /\ portLease[i] = portLease[j] => i = j

\* Instances never share a Robot or a port.
InstancesAreExclusive == OneRunningInstance /\ PortsAreExclusive
=============================================================================
