---------------------------- MODULE WorkflowStore ----------------------------
(***************************************************************************)
(* The persistent half of the workflow engine: the rows of one confirmed   *)
(* Workflow in the SQLite store (internal/store), and the store's methods  *)
(* as functions from a database to a database.  A method that the code     *)
(* answers with ErrRevisionConflict or ErrInvalidState leaves the database *)
(* alone; a caller that looks at the error asks the matching "Can"         *)
(* predicate.  The revision columns are not modelled as numbers: a method  *)
(* reads and writes a row in one transaction, and the only snapshot that   *)
(* outlives a step is the one WorkflowEngine keeps as run[t].fresh.        *)
(*                                                                         *)
(* Tasks and SubTasks are numbered by their position, the order in which   *)
(* the store lists them.  An Execution is named by its SubTask, because    *)
(* robot.run derives its request key from workflow, task and subtask.      *)
(***************************************************************************)
EXTENDS Integers, FiniteSets

CONSTANTS Tasks,        \* positions of the Tasks of the Workflow
          SubTasks,     \* positions of the SubTasks that a plan may hold
          Robots,       \* Robots known to the Server
          NoRobot,      \* assigned_robot_id = ''
          TaskOf,       \* the Task of a SubTask
          RobotSkills,  \* the SubTasks of kind robot_skill; the rest are agent_step
          RobotTasks,   \* the Tasks whose required role is robot
          Writers,      \* the Tasks that require workspace_write
          TaskDeps,     \* task_dependencies
          SubDeps,      \* subtask_dependencies
          Planned,      \* SubTasks of the first plan; the rest are replacements
          Candidates    \* per Task, the Robots that its approved scope allows

ASSUME PositionAssumption == Tasks \subseteq Nat \ {0} /\ SubTasks \subseteq Nat \ {0}
ASSUME RobotAssumption == NoRobot \notin Robots
ASSUME PlanAssumption ==
  /\ TaskOf \in [SubTasks -> Tasks]
  /\ RobotSkills \subseteq SubTasks
  /\ RobotTasks \subseteq Tasks
  /\ Writers \subseteq Tasks
  /\ Planned \subseteq SubTasks
  /\ TaskDeps \in [Tasks -> SUBSET Tasks]
  /\ SubDeps \in [SubTasks -> SUBSET SubTasks]
  /\ Candidates \in [Tasks -> SUBSET Robots]
  /\ \A s \in RobotSkills : TaskOf[s] \in RobotTasks
------------------------------------------------------------------------------
WorkflowStatus == {"running", "paused", "stopping", "completed", "failed", "stopped"}
WorkStatus == {"pending", "running", "paused", "stopping", "completed", "failed", "stopped"}
ActiveExecution == {"queued", "running", "waiting_agent", "stopping"}
ExecutionStatus == ActiveExecution \cup {"none", "completed", "failed", "stopped", "interrupted"}
TerminalWork == {"completed", "failed", "stopped"}

\* The reasons some guard tells apart; every other text is "".
Reason == {"", "waiting_resource", "planning_subtasks", "map_generation_changed",
           "user_paused", "server_restarted", "execution_state_unknown",
           "robot_execution_failed", "robot_execution_stopped",
           "recovery_running", "recovery_exhausted", "robot_agent_decision_failed",
           "replaced_after_failure", "revised_after_failure"}

\* phys: what the event stream says of physical actions (none, an action whose
\* metadata is missing, one that reported physical_started); safe: the hold evidence in
\* the row.  Kept with the row, though not in it: word, that an operator confirmed the
\* stop, and pilot, what the Pilot has of the Execution (nothing, its start, its stop) or
\* the end that it reported and the event stream keeps.
Database ==
  [wf    : [status : WorkflowStatus, reason : Reason],
   task  : [Tasks -> [status : WorkStatus, reason : Reason, robot : Robots \cup {NoRobot}]],
   sub   : [SubTasks -> [status : WorkStatus \cup {"absent"}, reason : Reason, ref : BOOLEAN]],
   exec  : [SubTasks -> [status : ExecutionStatus, phys : {"none", "maybe", "started"},
                         safe : BOOLEAN, word : BOOLEAN,
                         pilot : {"nothing", "start", "stop"} \cup TerminalWork]],
   lock  : [Robots -> SubTasks \cup {0}],
   stale : BOOLEAN]

\* A confirmed Workflow starts running with pending Tasks that have no plan yet.
InitialDatabase ==
  [wf    |-> [status |-> "running", reason |-> ""],
   task  |-> [t \in Tasks |-> [status |-> "pending", reason |-> "", robot |-> NoRobot]],
   sub   |-> [s \in SubTasks |-> [status |-> "absent", reason |-> "", ref |-> FALSE]],
   exec  |-> [s \in SubTasks |-> [status |-> "none", phys |-> "none", safe |-> FALSE,
                                  word |-> FALSE, pilot |-> "nothing"]],
   lock  |-> [r \in Robots |-> 0],
   stale |-> FALSE]

Least(S) == CHOOSE x \in S : \A y \in S : x <= y
SubsOf(t) == {s \in SubTasks : TaskOf[s] = t}
Listed(d, t) == {s \in SubsOf(t) : d.sub[s].status # "absent"}
------------------------------------------------------------------------------
(* The transition tables and the three guarded updates.                     *)

allowedWorkflowTransitions ==
  [x \in WorkflowStatus |->
     CASE x = "running"  -> {"paused", "stopping", "completed", "failed"}
       [] x = "paused"   -> {"running", "stopping"}
       [] x = "stopping" -> {"stopped", "paused"}
       [] OTHER          -> {}]

allowedTaskTransitions ==
  [x \in WorkStatus \cup {"absent"} |->
     CASE x = "pending"  -> {"running", "paused", "stopping", "failed", "stopped"}
       [] x = "running"  -> {"paused", "stopping", "completed", "failed"}
       [] x = "paused"   -> {"running", "stopping", "failed"}
       [] x = "stopping" -> {"stopped", "paused"}
       [] OTHER          -> {}]

TransitionWorkflow(d, to, why) ==
  IF to \in allowedWorkflowTransitions[d.wf.status]
  THEN [d EXCEPT !.wf = [status |-> to, reason |-> why]]
  ELSE d

TransitionTask(d, t, to, why) ==
  IF to \in allowedTaskTransitions[d.task[t].status]
  THEN [d EXCEPT !.task[t] = [@ EXCEPT !.status = to, !.reason = why]]
  ELSE d

\* Mutant of Moved: the transition table is not consulted.
MovedUnchecked(row, to, why) == [row EXCEPT !.status = to, !.reason = why]

\* One SubTask row moved through the table.
Moved(row, to, why) ==
  IF to \in allowedTaskTransitions[row.status]
  THEN [row EXCEPT !.status = to, !.reason = why]
  ELSE row

TransitionSubTask(d, s, to, why) == [d EXCEPT !.sub[s] = Moved(@, to, why)]

SetPendingTaskReason(d, t, why) ==
  IF d.task[t].status = "pending" THEN [d EXCEPT !.task[t].reason = why] ELSE d
------------------------------------------------------------------------------
(* Assignment and planning.                                                 *)

ReservesRobot(row) == row.status \in {"pending", "running", "paused", "stopping"}

\* robotReservation: another unfinished Task holds the Robot.
TaskHolds(d, r, t) == \E u \in Tasks \ {t} : d.task[u].robot = r /\ ReservesRobot(d.task[u])

\* robotExecutionReservation: an active Execution of another Task (t), or of any (0).
ExecutionHolds(d, r, t) ==
  \E s \in SubTasks : /\ d.task[TaskOf[s]].robot = r
                      /\ d.exec[s].status \in ActiveExecution
                      /\ TaskOf[s] # t

\* robotPhysicalReservation: the Pilot's current_execution_id is set.
PilotHolds(d, r) == d.lock[r] # 0

\* Mutant of IsFree: the reservation by another Task is not looked up again.
FreeOfExecutions(d, r, t) == ~ExecutionHolds(d, r, t) /\ ~PilotHolds(d, r)

IsFree(d, r, t) == ~TaskHolds(d, r, t) /\ ~ExecutionHolds(d, r, t) /\ ~PilotHolds(d, r)

HasExecution(d, t) == \E s \in SubsOf(t) : d.exec[s].status # "none"

\* AssignTask for a Task without a Robot, ReassignPendingTask for one that has another.
CanAssign(d, t, r) ==
  \/ d.task[t].robot = r
  \/ /\ d.task[t].status = "pending"
     /\ IsFree(d, r, t)
     /\ d.task[t].robot # NoRobot => ~HasExecution(d, t)

AssignTask(d, t, r) ==
  IF d.task[t].robot = r THEN d
  ELSE [d EXCEPT !.task[t] = [@ EXCEPT !.robot = r, !.reason = ""]]

\* Mutant of Inserted: the plan's rows get the first status of an Execution.
InsertedQueued(sub, S) ==
  [s \in SubTasks |-> IF s \in S THEN [status |-> "queued", reason |-> "", ref |-> FALSE]
                                 ELSE sub[s]]

\* The rows of S inserted as a plan.
Inserted(sub, S) ==
  [s \in SubTasks |-> IF s \in S THEN [status |-> "pending", reason |-> "", ref |-> FALSE]
                                 ELSE sub[s]]

CanSetTaskSubTasks(d, t) == d.task[t].status = "pending" /\ Listed(d, t) = {}

SetTaskSubTasks(d, t) == [d EXCEPT !.sub = Inserted(@, SubsOf(t) \cap Planned)]

ListRunnableTasks(d) ==
  {t \in Tasks : d.task[t].status = "pending"
                 /\ \A u \in TaskDeps[t] : d.task[u].status = "completed"}

ListRunnableSubTasks(d, t) ==
  {s \in SubsOf(t) : d.sub[s].status = "pending"
                     /\ \A p \in SubDeps[s] : d.sub[p].status = "completed"}
------------------------------------------------------------------------------
(* Robot Executions.                                                        *)

\* validateRobotTaskAdmission and the three reservations, in one transaction.
CanAdmit(d, s) ==
  LET t == TaskOf[s]
      r == d.task[t].robot
  IN /\ d.wf.status = "running"
     /\ d.task[t].status = "running"
     /\ d.sub[s].status = "running"
     /\ s \in RobotSkills
     /\ r \in Candidates[t]
     /\ d.exec[s].status = "none"
     /\ ~TaskHolds(d, r, t) /\ ~ExecutionHolds(d, r, 0) /\ ~PilotHolds(d, r)

\* The transaction inserts the row; the Pilot pointer and the command come after it.
AdmitRobotExecution(d, s) == [d EXCEPT !.exec[s].status = "queued"]

\* setPilotExecution, before execution.start is sent.
SetPilotExecution(d, s) == [d EXCEPT !.lock[d.task[TaskOf[s]].robot] = s]

CanAttach(d, s) == d.sub[s].status = "running" /\ ~d.sub[s].ref

AttachSubTaskExecution(d, s) ==
  IF CanAttach(d, s) THEN [d EXCEPT !.sub[s].ref = TRUE] ELSE d

CanUpdateWaitReason(d, s, from) ==
  /\ d.task[TaskOf[s]].status = "paused" /\ d.task[TaskOf[s]].reason = from
  /\ d.sub[s].status = "paused" /\ d.sub[s].reason = from /\ d.sub[s].ref

UpdatePausedRobotWaitReason(d, s, from, to) ==
  IF CanUpdateWaitReason(d, s, from)
  THEN [d EXCEPT !.task[TaskOf[s]].reason = to, !.sub[s].reason = to]
  ELSE d

\* The unused SubTask rows that a recovery decision of t may insert.
Replacements(d, t) == {s \in SubsOf(t) \ Planned : d.sub[s].status = "absent"}

CanApplyRecovery(d, s) ==
  /\ d.task[TaskOf[s]].status = "paused"
  /\ d.sub[s].status = "paused" /\ d.sub[s].ref /\ s \in RobotSkills
  /\ d.exec[s].status = "failed"
  /\ Replacements(d, TaskOf[s]) # {}

\* The failed step and the pending rest of the plan give way to the replacements.
ApplyFailedRobotRecovery(d, s) ==
  LET t == TaskOf[s]
      revised == [x \in SubTasks |->
                    CASE x = s -> [d.sub[x] EXCEPT !.status = "failed",
                                                   !.reason = "replaced_after_failure"]
                      [] x \in SubsOf(t) \ {s} /\ d.sub[x].status = "pending" ->
                           [d.sub[x] EXCEPT !.status = "stopped",
                                            !.reason = "revised_after_failure"]
                      [] OTHER -> d.sub[x]]
  IN [d EXCEPT !.sub = Inserted(revised, Replacements(d, t)),
               !.task[t] = [@ EXCEPT !.status = "running", !.reason = ""]]

\* ResumePausedAgentStep on every paused SubTask of t.
ResumePausedAgentSteps(d, t) ==
  [d EXCEPT !.sub = [s \in SubTasks |->
     IF s \in SubsOf(t) /\ d.sub[s].status = "paused" /\ ~d.sub[s].ref
     THEN [d.sub[s] EXCEPT !.status = "pending", !.reason = ""]
     ELSE d.sub[s]]]
==============================================================================
