--------------------------- MODULE WorkflowProofs ---------------------------
(***************************************************************************)
(* Proofs that the workflow engine keeps its types, that a Robot has one   *)
(* owner, that ends are final and rest on evidence, that nothing is        *)
(* replayed, and that writers are apart, for every plan.                   *)
(*                                                                         *)
(* Nearly every store method and engine operation rewrites rows in the     *)
(* same restricted way, which Follows states: ends stay, references stay   *)
(* and name Executions, Robots keep their owners, Executions do not begin. *)
(* Two steps go beyond it and are proved apart: AssignStep and AdmitStep.  *)
(* IInv is then shown to survive every action of WorkflowEngine.           *)
(*                                                                         *)
(* EInv is shown on top of IInv: rows, calls under way and decision Runs   *)
(* claim of stored Executions only what is true of them.  WInv is shown    *)
(* on top of both: until the first restart whichever writer is being       *)
(* worked on owns the workspace.  Slows, the rewriting that sets no Task   *)
(* running, is to WInv what Follows is to IInv.                            *)
(***************************************************************************)
EXTENDS WorkflowProperties, TLAPS, WellFoundedInduction

\* The first element of a nonempty set of positions is one of them (well-foundedness of <).
LEMMA LeastIsMember ==
  ASSUME NEW S, S \subseteq Nat, S # {}
  PROVE  Least(S) \in S
<1> DEFINE R == {ss \in Nat \X Nat : ss[1] < ss[2]}
<1>1. IsWellFoundedOn(R, Nat)
  BY NatLessThanWellFounded, Zenon DEF OpToRel
<1>2. \E x \in S : \A y \in S : <<y, x>> \notin R
  <2> HIDE DEF R
  <2> QED BY <1>1, WFMin
<1>3. PICK x \in S : \A y \in S : <<y, x>> \notin R
  BY <1>2
<1>4. \A y \in S : x <= y
  <2> TAKE y \in S
  <2>1. <<y, x>> \in Nat \X Nat
    OBVIOUS
  <2>2. ~(y < x)
    BY <1>3, <2>1
  <2> QED BY <2>2
<1> QED BY <1>4 DEF Least
------------------------------------------------------------------------------
TaskRow == [status : WorkStatus, reason : Reason, robot : Robots \cup {NoRobot}]
SubRow == [status : WorkStatus \cup {"absent"}, reason : Reason, ref : BOOLEAN]
ExecRow == [status : ExecutionStatus, phys : {"none", "maybe", "started"}, safe : BOOLEAN,
            word : BOOLEAN, pilot : {"nothing", "start", "stop"} \cup TerminalWork]

\* What the workflow service may do to a row in one step.  begun: the SubTask has an
\* Execution that a reference may name.
TaskRowFollows(row, new) ==
  /\ new \in TaskRow
  /\ new.robot = row.robot
  /\ row.status \in TerminalWork => new.status = row.status
SubRowFollows(row, new, begun) ==
  /\ new \in SubRow
  /\ row.status \in TerminalWork => new.status = row.status
  /\ row.ref => new.ref
  /\ new.ref => row.ref \/ begun
  /\ new.status = "absent" => row.status = "absent" /\ new.ref = row.ref
ExecRowFollows(row, new) ==
  /\ new \in ExecRow
  /\ new.status = "none" <=> row.status = "none"
  /\ new.pilot # "nothing" => row.pilot # "nothing" \/ row.status # "none"

\* ... and to the database.
TasksFollow(d, tasks) ==
  /\ tasks \in [Tasks -> TaskRow]
  /\ \A t \in Tasks : TaskRowFollows(d.task[t], tasks[t])
SubsFollow(d, subs) ==
  /\ subs \in [SubTasks -> SubRow]
  /\ \A s \in SubTasks : SubRowFollows(d.sub[s], subs[s], d.exec[s].status # "none")
ExecsFollow(d, execs) ==
  /\ execs \in [SubTasks -> ExecRow]
  /\ \A s \in SubTasks : ExecRowFollows(d.exec[s], execs[s])
Follows(d, e) ==
  /\ e \in Database
  /\ d.wf.status \in TerminalWork => e.wf.status = d.wf.status
  /\ TasksFollow(d, e.task)
  /\ SubsFollow(d, e.sub)
  /\ ExecsFollow(d, e.exec)

\* The tables of a database hold rows of their types.
LEMMA DatabaseRows ==
  ASSUME NEW d \in Database
  PROVE  /\ d.task \in [Tasks -> TaskRow]
         /\ d.sub \in [SubTasks -> SubRow]
         /\ d.exec \in [SubTasks -> ExecRow]
         /\ d.lock \in [Robots -> SubTasks \cup {0}]
         /\ d.wf.status \in WorkflowStatus
         /\ d.wf.reason \in Reason
BY DEF Database, TaskRow, SubRow, ExecRow

\* Leaving a table alone is allowed.
LEMMA RowsFollowThemselves ==
  ASSUME NEW d \in Database
  PROVE  TasksFollow(d, d.task) /\ SubsFollow(d, d.sub) /\ ExecsFollow(d, d.exec)
<1>1. d.task \in [Tasks -> TaskRow] /\ d.sub \in [SubTasks -> SubRow]
      /\ d.exec \in [SubTasks -> ExecRow]
  BY DatabaseRows
<1>2. TasksFollow(d, d.task)
  BY <1>1 DEF TasksFollow, TaskRowFollows
<1>3. SubsFollow(d, d.sub)
  BY <1>1 DEF SubsFollow, SubRowFollows
<1>4. ExecsFollow(d, d.exec)
  BY <1>1 DEF ExecsFollow, ExecRowFollows
<1> QED BY <1>2, <1>3, <1>4

\* Follows is reflexive ...
LEMMA FollowsReflexive ==
  ASSUME NEW d \in Database
  PROVE  Follows(d, d)
BY RowsFollowThemselves DEF Follows

\* ... and transitive, so that store methods can be chained within one action.
LEMMA FollowsTransitive ==
  ASSUME NEW d, NEW e, NEW f, Follows(d, e), Follows(e, f)
  PROVE  Follows(d, f)
<1>1. TasksFollow(d, f.task)
  BY DEF Follows, TasksFollow, TaskRowFollows
<1>2. ExecsFollow(d, f.exec)
  BY DEF Follows, ExecsFollow, ExecRowFollows
<1>3. SubsFollow(d, f.sub)
  BY DEF Follows, SubsFollow, SubRowFollows, ExecsFollow, ExecRowFollows
<1> QED BY <1>1, <1>2, <1>3 DEF Follows

\* A step that rewrites SubTask rows, Task rows or Execution rows follows if its rows do.
LEMMA TasksUpdated ==
  ASSUME NEW d \in Database, NEW tasks, TasksFollow(d, tasks)
  PROVE  Follows(d, [d EXCEPT !.task = tasks]) /\ [d EXCEPT !.task = tasks].task = tasks
<1> DEFINE e == [d EXCEPT !.task = tasks]
<1>1. e \in Database
  BY DEF Database, TasksFollow, TaskRow
<1>2. e.wf = d.wf /\ e.task = tasks /\ e.sub = d.sub /\ e.exec = d.exec /\ e.lock = d.lock
  BY DEF Database
<1> QED BY <1>1, <1>2, RowsFollowThemselves DEF Follows

\* The same for the subtasks table,
LEMMA SubsUpdated ==
  ASSUME NEW d \in Database, NEW subs, SubsFollow(d, subs)
  PROVE  Follows(d, [d EXCEPT !.sub = subs]) /\ [d EXCEPT !.sub = subs].sub = subs
<1> DEFINE e == [d EXCEPT !.sub = subs]
<1>1. e \in Database
  BY DEF Database, SubsFollow, SubRow
<1>2. e.wf = d.wf /\ e.sub = subs /\ e.task = d.task /\ e.exec = d.exec /\ e.lock = d.lock
  BY DEF Database
<1> QED BY <1>1, <1>2, RowsFollowThemselves DEF Follows

\* for both in one transaction,
LEMMA SubsAndTasksUpdated ==
  ASSUME NEW d \in Database, NEW subs, NEW tasks, SubsFollow(d, subs), TasksFollow(d, tasks),
         NEW e, e = [d EXCEPT !.sub = subs, !.task = tasks]
  PROVE  Follows(d, e)
<1>1. e \in Database
  BY DEF Database, SubsFollow, TasksFollow, SubRow, TaskRow
<1>2. e.wf = d.wf /\ e.sub = subs /\ e.task = tasks /\ e.exec = d.exec /\ e.lock = d.lock
  BY DEF Database
<1> QED BY <1>1, <1>2, RowsFollowThemselves DEF Follows

\* and for SubTasks and Executions together.
LEMMA SubsAndExecsUpdated ==
  ASSUME NEW d \in Database, NEW subs, NEW execs, SubsFollow(d, subs), ExecsFollow(d, execs),
         NEW e, e = [d EXCEPT !.sub = subs, !.exec = execs]
  PROVE  Follows(d, e)
<1>1. e \in Database
  BY DEF Database, SubsFollow, ExecsFollow, SubRow, ExecRow
<1>2. e.wf = d.wf /\ e.sub = subs /\ e.exec = execs /\ e.task = d.task /\ e.lock = d.lock
  BY DEF Database
<1> QED BY <1>1, <1>2, RowsFollowThemselves DEF Follows

\* One row rewritten.
LEMMA TaskUpdated ==
  ASSUME NEW d \in Database, NEW t \in Tasks, NEW row, TaskRowFollows(d.task[t], row)
  PROVE  Follows(d, [d EXCEPT !.task[t] = row])
<1>1. d.task \in [Tasks -> TaskRow] /\ TasksFollow(d, d.task)
  BY DatabaseRows, RowsFollowThemselves
<1>2. TasksFollow(d, [d.task EXCEPT ![t] = row])
  BY <1>1 DEF TasksFollow, TaskRowFollows
<1>3. [d EXCEPT !.task[t] = row] = [d EXCEPT !.task = [d.task EXCEPT ![t] = row]]
  OBVIOUS
<1> QED BY <1>2, <1>3, TasksUpdated

\* One subtasks row.
LEMMA SubUpdated ==
  ASSUME NEW d \in Database, NEW s \in SubTasks, NEW row,
         SubRowFollows(d.sub[s], row, d.exec[s].status # "none")
  PROVE  Follows(d, [d EXCEPT !.sub[s] = row])
<1>1. d.sub \in [SubTasks -> SubRow] /\ SubsFollow(d, d.sub)
  BY DatabaseRows, RowsFollowThemselves
<1>2. SubsFollow(d, [d.sub EXCEPT ![s] = row])
  BY <1>1 DEF SubsFollow, SubRowFollows
<1>3. [d EXCEPT !.sub[s] = row] = [d EXCEPT !.sub = [d.sub EXCEPT ![s] = row]]
  OBVIOUS
<1> QED BY <1>2, <1>3, SubsUpdated
------------------------------------------------------------------------------
(* The operations of the store.                                             *)

\* TransitionWorkflow never moves a Workflow out of an end: the table has no such entry.
LEMMA TransitionWorkflowFollows ==
  ASSUME NEW d \in Database, NEW to \in WorkflowStatus, NEW why \in Reason
  PROVE  Follows(d, TransitionWorkflow(d, to, why))
<1> DEFINE e == TransitionWorkflow(d, to, why)
<1>1. e \in Database
  BY DEF Database, TransitionWorkflow
<1>2. e.task = d.task /\ e.sub = d.sub /\ e.exec = d.exec /\ e.lock = d.lock
  BY DEF Database, TransitionWorkflow
<1>3. d.wf.status \in TerminalWork => e.wf.status = d.wf.status
  BY DEF Database, TransitionWorkflow, TerminalWork, allowedWorkflowTransitions, WorkflowStatus
<1> QED BY <1>1, <1>2, <1>3, RowsFollowThemselves DEF Follows

\* TransitionTask keeps the Robot and every end.
LEMMA TransitionTaskFollows ==
  ASSUME NEW d \in Database, NEW t \in Tasks, NEW to \in WorkStatus, NEW why \in Reason
  PROVE  Follows(d, TransitionTask(d, t, to, why))
<1> DEFINE row == [d.task[t] EXCEPT !.status = to, !.reason = why]
<1>1. CASE to \in allowedTaskTransitions[d.task[t].status]
  <2>1. d.task[t] \in TaskRow
    BY DatabaseRows
  <2>2. d.task[t].status \notin TerminalWork
    BY <1>1, <2>1 DEF TaskRow, TerminalWork, allowedTaskTransitions, WorkStatus
  <2>3. TaskRowFollows(d.task[t], row)
    BY <2>1, <2>2 DEF TaskRow, TaskRowFollows
  <2>4. TransitionTask(d, t, to, why) = [d EXCEPT !.task[t] = row]
    BY <1>1 DEF TransitionTask
  <2> HIDE DEF row
  <2> QED BY <2>3, <2>4, TaskUpdated
<1>2. CASE to \notin allowedTaskTransitions[d.task[t].status]
  BY <1>2, FollowsReflexive DEF TransitionTask
<1> QED BY <1>1, <1>2

\* Moved keeps the reference and every end.
LEMMA SubRowMoves ==
  ASSUME NEW row \in SubRow, NEW to \in WorkStatus, NEW why \in Reason, NEW begun \in BOOLEAN
  PROVE  /\ SubRowFollows(row, row, begun)
         /\ SubRowFollows(row, Moved(row, to, why), begun)
         /\ row.status \notin TerminalWork =>
              SubRowFollows(row, [row EXCEPT !.status = to, !.reason = why], begun)
BY DEF SubRowFollows, Moved, SubRow, allowedTaskTransitions, TerminalWork, WorkStatus

\* TransitionSubTask does what Moved does to one row.
LEMMA TransitionSubTaskFollows ==
  ASSUME NEW d \in Database, NEW s \in SubTasks, NEW to \in WorkStatus, NEW why \in Reason
  PROVE  Follows(d, TransitionSubTask(d, s, to, why))
<1> DEFINE row == Moved(d.sub[s], to, why)
<1>1. d.sub[s] \in SubRow
  BY DatabaseRows
<1>2. SubRowFollows(d.sub[s], row, d.exec[s].status # "none")
  BY <1>1, SubRowMoves
<1>3. TransitionSubTask(d, s, to, why) = [d EXCEPT !.sub[s] = row]
  BY DEF TransitionSubTask
<1> HIDE DEF row
<1> QED BY <1>2, <1>3, SubUpdated

\* SetPendingTaskReason touches the reason only.
LEMMA SetPendingTaskReasonFollows ==
  ASSUME NEW d \in Database, NEW t \in Tasks, NEW why \in Reason
  PROVE  Follows(d, SetPendingTaskReason(d, t, why))
<1> DEFINE row == [d.task[t] EXCEPT !.reason = why]
<1>1. CASE d.task[t].status = "pending"
  <2>1. d.task[t] \in TaskRow
    BY DatabaseRows
  <2>2. TaskRowFollows(d.task[t], row)
    BY <2>1 DEF TaskRow, TaskRowFollows
  <2>3. SetPendingTaskReason(d, t, why) = [d EXCEPT !.task[t] = row]
    BY <1>1 DEF SetPendingTaskReason
  <2> HIDE DEF row
  <2> QED BY <2>2, <2>3, TaskUpdated
<1>2. CASE d.task[t].status # "pending"
  BY <1>2, FollowsReflexive DEF SetPendingTaskReason
<1> QED BY <1>1, <1>2

\* AttachSubTaskExecution names an Execution that exists.
LEMMA AttachFollows ==
  ASSUME NEW d \in Database, NEW s \in SubTasks, d.exec[s].status # "none"
  PROVE  Follows(d, AttachSubTaskExecution(d, s))
<1> DEFINE row == [d.sub[s] EXCEPT !.ref = TRUE]
<1>1. CASE CanAttach(d, s)
  <2>1. d.sub[s] \in SubRow
    BY DatabaseRows
  <2>2. SubRowFollows(d.sub[s], row, d.exec[s].status # "none")
    BY <1>1, <2>1 DEF SubRow, SubRowFollows, CanAttach
  <2>3. AttachSubTaskExecution(d, s) = [d EXCEPT !.sub[s] = row]
    BY <1>1 DEF AttachSubTaskExecution
  <2> HIDE DEF row
  <2> QED BY <2>2, <2>3, SubUpdated
<1>2. CASE ~CanAttach(d, s)
  BY <1>2, FollowsReflexive DEF AttachSubTaskExecution
<1> QED BY <1>1, <1>2

\* stopPendingWork ends pending rows only.
LEMMA StopPendingWorkFollows ==
  ASSUME NEW d \in Database
  PROVE  Follows(d, stopPendingWork(d))
<1> DEFINE subs == [s \in SubTasks |-> IF d.sub[s].status = "pending"
                                       THEN Moved(d.sub[s], "stopped", "") ELSE d.sub[s]]
           tasks == [t \in Tasks |-> IF d.task[t].status = "pending"
                                     THEN [d.task[t] EXCEPT !.status = "stopped", !.reason = ""]
                                     ELSE d.task[t]]
<1>1. d.sub \in [SubTasks -> SubRow] /\ d.task \in [Tasks -> TaskRow]
  BY DatabaseRows
<1>2. "" \in Reason /\ "stopped" \in WorkStatus /\ "pending" \notin TerminalWork
  BY DEF Reason, WorkStatus, TerminalWork
<1>3. \A s \in SubTasks : SubRowFollows(d.sub[s], subs[s], d.exec[s].status # "none")
  BY <1>1, <1>2, SubRowMoves
<1>4. \A t \in Tasks : TaskRowFollows(d.task[t], tasks[t])
  BY <1>1, <1>2 DEF TaskRow, TaskRowFollows
<1>5. SubsFollow(d, subs)
  BY <1>3 DEF SubsFollow, SubRowFollows
<1>6. TasksFollow(d, tasks)
  BY <1>4 DEF TasksFollow, TaskRowFollows
<1>7. stopPendingWork(d) = [d EXCEPT !.sub = subs, !.task = tasks]
  BY DEF stopPendingWork
<1> HIDE DEF subs, tasks
<1> QED BY <1>5, <1>6, <1>7, SubsAndTasksUpdated

\* The same, as the last of several operations.
LEMMA ThenTransition ==
  ASSUME NEW d, NEW e, Follows(d, e), NEW why \in Reason
  PROVE  /\ \A to \in WorkflowStatus : Follows(d, TransitionWorkflow(e, to, why))
         /\ \A t \in Tasks, to \in WorkStatus : Follows(d, TransitionTask(e, t, to, why))
         /\ \A s \in SubTasks, to \in WorkStatus : Follows(d, TransitionSubTask(e, s, to, why))
<1>1. e \in Database
  BY DEF Follows
<1>2. \A to \in WorkflowStatus : Follows(d, TransitionWorkflow(e, to, why))
  BY <1>1, TransitionWorkflowFollows, FollowsTransitive
<1>3. \A t \in Tasks, to \in WorkStatus : Follows(d, TransitionTask(e, t, to, why))
  BY <1>1, TransitionTaskFollows, FollowsTransitive
<1>4. \A s \in SubTasks, to \in WorkStatus : Follows(d, TransitionSubTask(e, s, to, why))
  BY <1>1, TransitionSubTaskFollows, FollowsTransitive
<1> QED BY <1>2, <1>3, <1>4

\* The statuses and reasons that the engine writes are those of the types.
LEMMA Names ==
  /\ {"", "waiting_resource", "planning_subtasks", "map_generation_changed", "user_paused",
      "server_restarted", "execution_state_unknown", "robot_execution_failed",
      "robot_execution_stopped", "recovery_running", "recovery_exhausted",
      "robot_agent_decision_failed", "replaced_after_failure",
      "revised_after_failure"} \subseteq Reason
  /\ {"pending", "running", "paused", "stopping", "completed", "failed", "stopped"}
       \subseteq WorkStatus
  /\ {"running", "paused", "stopping", "completed", "failed", "stopped"} \subseteq WorkflowStatus
BY DEF Reason, WorkStatus, WorkflowStatus

\* The first runnable Task is a Task.
LEMMA RunnableAreTasks ==
  ASSUME NEW d
  PROVE  ListRunnableTasks(d) # {} => Least(ListRunnableTasks(d)) \in Tasks
<1>1. ListRunnableTasks(d) \subseteq Tasks
  BY DEF ListRunnableTasks
<1>2. ListRunnableTasks(d) \subseteq Nat
  BY <1>1, PositionAssumption
<1> QED BY <1>1, <1>2, LeastIsMember

\* schedule marks one pending Task and pauses the Workflow at most.
LEMMA ScheduleFollows ==
  ASSUME NEW d \in Database
  PROVE  Follows(d, Schedule(d))
<1>1. CASE MapRefused(d)
  <2> DEFINE t == Least(ListRunnableTasks(d))
             e == SetPendingTaskReason(d, t, "map_generation_changed")
  <2>1. t \in Tasks
    BY <1>1, RunnableAreTasks DEF MapRefused
  <2> HIDE DEF t
  <2>2. Follows(d, e)
    BY <2>1, Names, SetPendingTaskReasonFollows
  <2> HIDE DEF e
  <2>3. Follows(d, TransitionWorkflow(e, "paused", "map_generation_changed"))
    BY <2>2, Names, ThenTransition
  <2> QED BY <1>1, <2>3 DEF Schedule, e, t
<1>2. CASE ~MapRefused(d)
  BY <1>2, FollowsReflexive DEF Schedule
<1> QED BY <1>1, <1>2

\* convergeStoppedWorkflow moves the Workflow only.
LEMMA ConvergeFollows ==
  ASSUME NEW d \in Database
  PROVE  Follows(d, Converge(d))
<1>1. d.wf.reason \in Reason
  BY DatabaseRows
<1> QED BY <1>1, Names, TransitionWorkflowFollows, FollowsReflexive DEF Converge

\* finishOrSchedule up to schedule, in each of its four outcomes.
LEMMA FinishFollows ==
  ASSUME NEW d \in Database
  PROVE  Follows(d, Finish(d))
<1>1. Follows(d, Converge(d))
  BY ConvergeFollows
<1>2. Follows(d, stopPendingWork(d))
  BY StopPendingWorkFollows
<1>3. Follows(d, TransitionWorkflow(stopPendingWork(d), "failed", ""))
  BY <1>2, Names, ThenTransition
<1>4. Follows(d, TransitionWorkflow(d, "completed", ""))
  BY Names, TransitionWorkflowFollows
<1> QED BY <1>1, <1>3, <1>4, FollowsReflexive, Zenon DEF Finish

\* finishOrSchedule as the last of several operations.
LEMMA ScheduledFinishFollows ==
  ASSUME NEW d, NEW e, Follows(d, e)
  PROVE  Follows(d, Schedule(Finish(e)))
<1>1. e \in Database
  BY DEF Follows
<1>2. Follows(e, Finish(e))
  BY <1>1, FinishFollows
<1>3. Finish(e) \in Database
  BY <1>2 DEF Follows
<1>4. Follows(Finish(e), Schedule(Finish(e)))
  BY <1>3, ScheduleFollows
<1> QED BY <1>2, <1>4, FollowsTransitive

\* failTask ends the open rows of one Task.
LEMMA FailTaskFollows ==
  ASSUME NEW d \in Database, NEW t \in Tasks
  PROVE  Follows(d, failTask(d, t))
<1> DEFINE subs == [s \in SubTasks |->
        CASE s \in SubsOf(t) /\ d.sub[s].status = "running" -> Moved(d.sub[s], "failed", "")
          [] s \in SubsOf(t) /\ d.sub[s].status = "pending" -> Moved(d.sub[s], "stopped", "")
          [] OTHER -> d.sub[s]]
           e == [d EXCEPT !.sub = subs]
<1>1. d.sub \in [SubTasks -> SubRow]
  BY DatabaseRows
<1>2. \A s \in SubTasks :
        /\ SubRowFollows(d.sub[s], d.sub[s], d.exec[s].status # "none")
        /\ SubRowFollows(d.sub[s], Moved(d.sub[s], "failed", ""), d.exec[s].status # "none")
        /\ SubRowFollows(d.sub[s], Moved(d.sub[s], "stopped", ""), d.exec[s].status # "none")
  BY <1>1, SubRowMoves, Names
<1>3. \A s \in SubTasks : SubRowFollows(d.sub[s], subs[s], d.exec[s].status # "none")
  BY <1>2, Zenon
<1>4. SubsFollow(d, subs)
  BY <1>3 DEF SubsFollow, SubRowFollows
<1>5. Follows(d, e)
  <2> HIDE DEF subs
  <2> QED BY <1>4, SubsUpdated
<1>6. failTask(d, t) = IF d.task[t].status \in {"pending", "running"}
                       THEN TransitionTask(e, t, "failed", "") ELSE e
  BY Zenon DEF failTask
<1> HIDE DEF e
<1>7. Follows(d, TransitionTask(e, t, "failed", ""))
  BY <1>5, Names, ThenTransition
<1> QED BY <1>5, <1>6, <1>7

\* UpdatePausedRobotWaitReason changes two reasons.
LEMMA UpdateWaitReasonFollows ==
  ASSUME NEW d \in Database, NEW s \in SubTasks, NEW from, NEW to \in Reason
  PROVE  Follows(d, UpdatePausedRobotWaitReason(d, s, from, to))
<1>1. TaskOf[s] \in Tasks
  BY PlanAssumption
<1> DEFINE t == TaskOf[s]
           trow == [d.task[t] EXCEPT !.reason = to]
           srow == [d.sub[s] EXCEPT !.reason = to]
           e == [d EXCEPT !.task[t] = trow]
<1>2. d.task[t] \in TaskRow /\ d.sub[s] \in SubRow
  BY <1>1, DatabaseRows
<1>3. TaskRowFollows(d.task[t], trow)
  BY <1>2 DEF TaskRow, TaskRowFollows
<1>4. SubRowFollows(d.sub[s], srow, d.exec[s].status # "none")
  BY <1>2 DEF SubRow, SubRowFollows
<1>5. Follows(d, e)
  <2> HIDE DEF trow
  <2> QED BY <1>1, <1>3, TaskUpdated
<1>6. e.sub = d.sub /\ e.exec = d.exec /\ e \in Database
  BY <1>5 DEF Follows, Database
<1>7. Follows(e, [e EXCEPT !.sub[s] = srow])
  <2> HIDE DEF e, srow
  <2> QED BY <1>4, <1>6, SubUpdated
<1>8. CanUpdateWaitReason(d, s, from) =>
        UpdatePausedRobotWaitReason(d, s, from, to) = [e EXCEPT !.sub[s] = srow]
  BY <1>6 DEF UpdatePausedRobotWaitReason, Database
<1>9. Follows(d, [e EXCEPT !.sub[s] = srow])
  BY <1>5, <1>7, FollowsTransitive
<1> HIDE DEF e, srow
<1> QED BY <1>8, <1>9, FollowsReflexive DEF UpdatePausedRobotWaitReason

------------------------------------------------------------------------------
(* Stopping a Task.                                                         *)

\* References name Executions, Executions belong to robot_skill SubTasks of Tasks that have
\* a Robot, and a Pilot knows of none that was not admitted.
Coherent(d) ==
  \A s \in SubTasks :
    /\ d.sub[s].ref => d.exec[s].status # "none"
    /\ d.sub[s].status = "absent" => ~d.sub[s].ref
    /\ d.exec[s].status # "none" => s \in RobotSkills /\ d.task[TaskOf[s]].robot # NoRobot
    /\ d.exec[s].pilot # "nothing" => d.exec[s].status # "none"

\* Coherence survives every allowed rewrite.
LEMMA FollowsCoherent ==
  ASSUME NEW d, NEW e, Coherent(d), Follows(d, e)
  PROVE  Coherent(e)
<1> SUFFICES ASSUME NEW s \in SubTasks
             PROVE  /\ e.sub[s].ref => e.exec[s].status # "none"
                    /\ e.sub[s].status = "absent" => ~e.sub[s].ref
                    /\ e.exec[s].status # "none" => /\ s \in RobotSkills
                                                    /\ e.task[TaskOf[s]].robot # NoRobot
                    /\ e.exec[s].pilot # "nothing" => e.exec[s].status # "none"
  BY DEF Coherent
<1>1. SubRowFollows(d.sub[s], e.sub[s], d.exec[s].status # "none")
  BY DEF Follows, SubsFollow
<1>2. ExecRowFollows(d.exec[s], e.exec[s])
  BY DEF Follows, ExecsFollow
<1>3. TaskRowFollows(d.task[TaskOf[s]], e.task[TaskOf[s]])
  BY PlanAssumption DEF Follows, TasksFollow
<1>4. /\ d.sub[s].ref => d.exec[s].status # "none"
      /\ d.sub[s].status = "absent" => ~d.sub[s].ref
      /\ d.exec[s].status # "none" => s \in RobotSkills /\ d.task[TaskOf[s]].robot # NoRobot
      /\ d.exec[s].pilot # "nothing" => d.exec[s].status # "none"
  BY DEF Coherent
<1> QED BY <1>1, <1>2, <1>3, <1>4 DEF SubRowFollows, ExecRowFollows, TaskRowFollows

\* The statuses of an Execution that is not over.
Carried == ActiveExecution \cup {"interrupted"}

\* execution.stop is sent or given up only for an Execution that is not over.
LEMMA VerdictFacts ==
  ASSUME NEW d \in Database, Coherent(d), NEW s \in SubTasks
  PROVE  /\ StopVerdict(d, s) \in {"settled", "unknown", "sent", "lost"}
         /\ StopVerdict(d, s) \in {"sent", "lost"} => d.exec[s].status \in Carried
<1>1. d.exec[s].status \in ExecutionStatus
  BY DatabaseRows DEF ExecRow
<1>2. d.sub[s].ref => d.exec[s].status # "none"
  BY DEF Coherent
<1>3. StopVerdict(d, s) \in {"settled", "unknown", "sent", "lost"}
  BY Zenon DEF StopVerdict
<1>4. StopVerdict(d, s) \in {"sent", "lost"} =>
        /\ d.sub[s].ref /\ d.exec[s].status \notin {"completed", "failed", "stopped"}
  BY Zenon DEF StopVerdict
<1> QED BY <1>1, <1>2, <1>3, <1>4 DEF ExecutionStatus, Carried, ActiveExecution

\* A stop on record is a row that is stopping and that only its Pilot's part tells apart
\* from the row before.
LEMMA StopSentRow ==
  ASSUME NEW x \in ExecRow
  PROVE  /\ StopSent(x) \in ExecRow
         /\ StopSent(x).status = "stopping" /\ StopSent(x).phys = x.phys
         /\ StopSent(x).safe = x.safe /\ StopSent(x).word = x.word
         /\ StopSent(x).pilot = IF x.pilot = "start" THEN "stop" ELSE x.pilot
BY DEF StopSent, ExecRow, ExecutionStatus, ActiveExecution

\* moveSubTaskTowardStop goes through the transition table.
LEMMA TowardStopFollows ==
  ASSUME NEW row \in SubRow, NEW begun \in BOOLEAN
  PROVE  SubRowFollows(row, TowardStop(row), begun)
BY SubRowMoves, Names DEF TowardStop

\* stopTaskSubTasks, whatever mix of verdicts its SubTasks get.
LEMMA StopTaskSubTasksFollows ==
  ASSUME NEW d \in Database, Coherent(d), NEW t \in Tasks
  PROVE  Follows(d, stopTaskSubTasks(d, t))
<1> DEFINE seen == Visited(d, t)
           verdict == [s \in SubTasks |-> IF s \in seen /\ Stoppable(d, s)
                                          THEN StopVerdict(d, s) ELSE "none"]
           unknown == \E s \in SubTasks : verdict[s] \in {"unknown", "lost"}
           subs == [s \in SubTasks |->
             CASE s \notin seen -> d.sub[s]
               [] verdict[s] = "settled" -> [d.sub[s] EXCEPT !.status = "stopped", !.reason = ""]
               [] verdict[s] = "sent" -> [d.sub[s] EXCEPT !.status = "stopping", !.reason = ""]
               [] verdict[s] \in {"unknown", "lost"} ->
                    [d.sub[s] EXCEPT !.status = "paused", !.reason = "execution_state_unknown"]
               [] OTHER -> TowardStop(d.sub[s])]
           execs == [s \in SubTasks |->
             CASE verdict[s] = "sent" -> StopSent(d.exec[s])
               [] verdict[s] = "lost" -> [d.exec[s] EXCEPT !.status = "interrupted"]
               [] OTHER -> d.exec[s]]
           e == [d EXCEPT !.sub = subs, !.exec = execs]
           f == IF e.task[t].status \in {"running", "stopping"}
                THEN TransitionTask(e, t, "paused", "execution_state_unknown") ELSE e
<1>1. d.sub \in [SubTasks -> SubRow] /\ d.exec \in [SubTasks -> ExecRow]
  BY DatabaseRows
<1>2. \A s \in SubTasks : /\ verdict[s] # "none" => d.sub[s].status \notin TerminalWork
                          /\ verdict[s] \in {"sent", "lost"} => d.exec[s].status \in Carried
  BY VerdictFacts DEF Stoppable, TerminalWork
<1>3. \A s \in SubTasks : SubRowFollows(d.sub[s], subs[s], d.exec[s].status # "none")
  <2> SUFFICES ASSUME NEW s \in SubTasks
               PROVE  SubRowFollows(d.sub[s], subs[s], d.exec[s].status # "none")
    OBVIOUS
  <2> DEFINE begun == d.exec[s].status # "none"
  <2>1. d.sub[s] \in SubRow /\ begun \in BOOLEAN
    BY <1>1
  <2> HIDE DEF begun
  <2>2. SubRowFollows(d.sub[s], d.sub[s], begun) /\ SubRowFollows(d.sub[s], TowardStop(d.sub[s]), begun)
    BY <2>1, SubRowMoves, TowardStopFollows, Names
  <2>3. verdict[s] # "none" =>
         /\ SubRowFollows(d.sub[s], [d.sub[s] EXCEPT !.status = "stopped", !.reason = ""], begun)
         /\ SubRowFollows(d.sub[s], [d.sub[s] EXCEPT !.status = "stopping", !.reason = ""], begun)
         /\ SubRowFollows(d.sub[s], [d.sub[s] EXCEPT !.status = "paused",
                                                     !.reason = "execution_state_unknown"], begun)
    <3> HIDE DEF verdict
    <3> QED BY <1>2, <2>1, SubRowMoves, Names
  <2> HIDE DEF verdict, seen
  <2>4. subs[s] = CASE s \notin seen -> d.sub[s]
               [] verdict[s] = "settled" -> [d.sub[s] EXCEPT !.status = "stopped", !.reason = ""]
               [] verdict[s] = "sent" -> [d.sub[s] EXCEPT !.status = "stopping", !.reason = ""]
               [] verdict[s] \in {"unknown", "lost"} ->
                    [d.sub[s] EXCEPT !.status = "paused", !.reason = "execution_state_unknown"]
               [] OTHER -> TowardStop(d.sub[s])
    OBVIOUS
  <2>5. SubRowFollows(d.sub[s], subs[s], begun)
    BY <2>2, <2>3, <2>4, Zenon
  <2> QED BY <2>5 DEF begun
<1>4. \A s \in SubTasks : ExecRowFollows(d.exec[s], execs[s])
  <2> HIDE DEF verdict
  <2> SUFFICES ASSUME NEW s \in SubTasks
               PROVE  ExecRowFollows(d.exec[s], execs[s])
    OBVIOUS
  <2>1. ExecRowFollows(d.exec[s], d.exec[s])
    BY <1>1 DEF ExecRowFollows
  <2>2. d.exec[s].status \in Carried =>
          /\ ExecRowFollows(d.exec[s], StopSent(d.exec[s]))
          /\ ExecRowFollows(d.exec[s], [d.exec[s] EXCEPT !.status = "interrupted"])
    BY <1>1, StopSentRow DEF ExecRowFollows, ExecRow, Carried, ActiveExecution, ExecutionStatus
  <2>3. execs[s] = CASE verdict[s] = "sent" -> StopSent(d.exec[s])
               [] verdict[s] = "lost" -> [d.exec[s] EXCEPT !.status = "interrupted"]
               [] OTHER -> d.exec[s]
    OBVIOUS
  <2> QED BY <1>2, <2>1, <2>2, <2>3, Zenon
<1>5. SubsFollow(d, subs)
  <2> HIDE DEF verdict, seen
  <2> QED BY <1>3 DEF SubsFollow, SubRowFollows
<1>6. ExecsFollow(d, execs)
  <2> HIDE DEF verdict
  <2> QED BY <1>4 DEF ExecsFollow, ExecRowFollows
<1>7. Follows(d, e)
  <2> HIDE DEF subs, execs
  <2> QED BY <1>5, <1>6, SubsAndExecsUpdated
<1>8. stopTaskSubTasks(d, t) =
        IF ~unknown THEN e
        ELSE IF f.wf.status = "stopping"
             THEN TransitionWorkflow(f, "paused", "execution_state_unknown") ELSE f
  BY Zenon DEF stopTaskSubTasks
<1> HIDE DEF e
<1>9. Follows(d, f)
  BY <1>7, Names, ThenTransition
<1> HIDE DEF f, unknown
<1>10. Follows(d, TransitionWorkflow(f, "paused", "execution_state_unknown"))
  BY <1>9, Names, ThenTransition
<1> QED BY <1>7, <1>8, <1>9, <1>10

\* The end of a stopped Task.
LEMMA FinishStoppedTaskFollows ==
  ASSUME NEW d, NEW e, Follows(d, e), NEW t \in Tasks
  PROVE  Follows(d, FinishStoppedTask(e, t))
BY Names, ThenTransition DEF FinishStoppedTask

\* One round of stopWorkflowTasks.
LEMMA StopTaskFollows ==
  ASSUME NEW d \in Database, Coherent(d), NEW t \in Tasks
  PROVE  Follows(d, StopTask(d, t))
<1> DEFINE e == moveTaskTowardStop(d, t)
<1>1. Follows(d, e)
  BY Names, TransitionTaskFollows, FollowsReflexive DEF moveTaskTowardStop
<1> HIDE DEF e
<1>2. e \in Database /\ Coherent(e)
  BY <1>1, FollowsCoherent DEF Follows
<1>3. Follows(d, stopTaskSubTasks(e, t))
  BY <1>1, <1>2, StopTaskSubTasksFollows, FollowsTransitive
<1>4. Follows(d, FinishStoppedTask(stopTaskSubTasks(e, t), t))
  BY <1>3, FinishStoppedTaskFollows
<1> QED BY <1>4 DEF StopTask, e

------------------------------------------------------------------------------
(* Pausing, recovery and restart.                                           *)

\* pauseRobotSubTask pauses SubTask, Task and Workflow through the tables.
LEMMA PauseRobotSubTaskFollows ==
  ASSUME NEW d, NEW e, Follows(d, e), NEW s \in SubTasks, NEW why \in Reason
  PROVE  Follows(d, pauseRobotSubTask(e, s, why))
<1>1. TaskOf[s] \in Tasks
  BY PlanAssumption
<1> DEFINE t == TaskOf[s]
           g == IF e.sub[s].status \in {"running", "stopping"}
                THEN TransitionSubTask(e, s, "paused", why) ELSE e
           f == IF g.task[t].status \in {"running", "stopping"}
                THEN TransitionTask(g, t, "paused", why) ELSE g
<1>2. Follows(d, g)
  BY Names, ThenTransition
<1>3. pauseRobotSubTask(e, s, why) =
        IF f.wf.status = "stopping" THEN TransitionWorkflow(f, "paused", why) ELSE f
  BY Zenon DEF pauseRobotSubTask
<1> HIDE DEF g
<1>4. Follows(d, f)
  BY <1>1, <1>2, Names, ThenTransition
<1> HIDE DEF f
<1> QED BY <1>3, <1>4, Names, ThenTransition

\* pauseRobotDecisionFailure likewise.
LEMMA PauseRobotDecisionFailureFollows ==
  ASSUME NEW d \in Database, NEW s \in SubTasks
  PROVE  Follows(d, pauseRobotDecisionFailure(d, s))
<1> DEFINE e == pauseRobotSubTask(d, s, "robot_agent_decision_failed")
<1>1. Follows(d, e)
  BY Names, FollowsReflexive, PauseRobotSubTaskFollows
<1>2. pauseRobotDecisionFailure(d, s) =
        IF e.wf.status = "running"
        THEN TransitionWorkflow(e, "paused", "robot_agent_decision_failed") ELSE e
  BY Zenon DEF pauseRobotDecisionFailure
<1> HIDE DEF e
<1> QED BY <1>1, <1>2, Names, ThenTransition

\* A plan may be inserted over rows that are absent and hold no reference.
LEMMA InsertedFollows ==
  ASSUME NEW d \in Database, Coherent(d), NEW subs, SubsFollow(d, subs), NEW S,
         \A s \in S : s \in SubTasks => d.sub[s].status = "absent"
  PROVE  SubsFollow(d, Inserted(subs, S))
<1> DEFINE new == [status |-> "pending", reason |-> "", ref |-> FALSE]
<1>1. new \in SubRow
  BY Names DEF SubRow
<1>2. \A s \in SubTasks : s \in S =>
        SubRowFollows(d.sub[s], new, d.exec[s].status # "none")
  BY <1>1 DEF Coherent, SubRowFollows, TerminalWork
<1>3. \A s \in SubTasks : Inserted(subs, S)[s] = IF s \in S THEN new ELSE subs[s]
  BY DEF Inserted
<1> HIDE DEF new
<1>4. \A s \in SubTasks : SubRowFollows(d.sub[s], Inserted(subs, S)[s], d.exec[s].status # "none")
  BY <1>2, <1>3 DEF SubsFollow
<1>5. Inserted(subs, S) \in [SubTasks -> SubRow]
  <2>1. \A s \in SubTasks : Inserted(subs, S)[s] \in SubRow
    BY <1>4 DEF SubRowFollows
  <2>2. Inserted(subs, S) = [s \in SubTasks |-> Inserted(subs, S)[s]]
    BY DEF Inserted
  <2> QED BY <2>1, <2>2
<1> QED BY <1>4, <1>5 DEF SubsFollow

\* A first plan fills absent rows only.
LEMMA SetTaskSubTasksFollows ==
  ASSUME NEW d \in Database, Coherent(d), NEW t \in Tasks, CanSetTaskSubTasks(d, t)
  PROVE  Follows(d, SetTaskSubTasks(d, t))
<1> DEFINE S == SubsOf(t) \cap Planned
           subs == Inserted(d.sub, S)
<1>1. \A s \in S : s \in SubTasks => d.sub[s].status = "absent"
  BY DEF CanSetTaskSubTasks, Listed
<1>2. SubsFollow(d, d.sub)
  BY RowsFollowThemselves
<1> HIDE DEF S
<1>3. SubsFollow(d, subs)
  BY <1>1, <1>2, InsertedFollows
<1> HIDE DEF subs
<1>4. Follows(d, [d EXCEPT !.sub = subs])
  BY <1>3, SubsUpdated
<1> QED BY <1>4 DEF SetTaskSubTasks, subs, S

\* A recovery ends the failed step and the rest of the plan, and inserts absent rows only.
LEMMA ApplyFailedRobotRecoveryFollows ==
  ASSUME NEW d \in Database, Coherent(d), NEW s \in SubTasks, CanApplyRecovery(d, s)
  PROVE  Follows(d, ApplyFailedRobotRecovery(d, s))
<1> DEFINE t == TaskOf[s]
           revised == [x \in SubTasks |->
                    CASE x = s -> [d.sub[x] EXCEPT !.status = "failed",
                                                   !.reason = "replaced_after_failure"]
                      [] x \in SubsOf(t) \ {s} /\ d.sub[x].status = "pending" ->
                           [d.sub[x] EXCEPT !.status = "stopped",
                                            !.reason = "revised_after_failure"]
                      [] OTHER -> d.sub[x]]
           subs == Inserted(revised, Replacements(d, t))
           trow == [d.task[t] EXCEPT !.status = "running", !.reason = ""]
           e == [d EXCEPT !.sub = subs]
<1>1. t \in Tasks /\ d.task[t] \in TaskRow /\ d.sub \in [SubTasks -> SubRow]
  BY PlanAssumption, DatabaseRows
<1>2. d.sub[s].status \notin TerminalWork /\ d.task[t].status \notin TerminalWork
      /\ "pending" \notin TerminalWork
  BY DEF CanApplyRecovery, TerminalWork
<1>3. SubsFollow(d, revised)
  <2>1. \A x \in SubTasks :
          /\ SubRowFollows(d.sub[x], d.sub[x], d.exec[x].status # "none")
          /\ d.sub[x].status \notin TerminalWork =>
               /\ SubRowFollows(d.sub[x], [d.sub[x] EXCEPT !.status = "failed",
                                  !.reason = "replaced_after_failure"], d.exec[x].status # "none")
               /\ SubRowFollows(d.sub[x], [d.sub[x] EXCEPT !.status = "stopped",
                                  !.reason = "revised_after_failure"], d.exec[x].status # "none")
    BY <1>1, SubRowMoves, Names
  <2>2. \A x \in SubTasks : SubRowFollows(d.sub[x], revised[x], d.exec[x].status # "none")
    BY <1>2, <2>1, Zenon
  <2> QED BY <2>2 DEF SubsFollow, SubRowFollows
<1>4. \A x \in Replacements(d, t) : x \in SubTasks => d.sub[x].status = "absent"
  BY DEF Replacements
<1> HIDE DEF revised
<1>5. SubsFollow(d, subs)
  BY <1>3, <1>4, InsertedFollows
<1> HIDE DEF subs
<1>6. Follows(d, e)
  BY <1>5, SubsUpdated
<1>7. e.task = d.task /\ e \in Database
  BY <1>6 DEF Follows, Database
<1>8. TaskRowFollows(d.task[t], trow)
  BY <1>1, <1>2, Names DEF TaskRow, TaskRowFollows
<1>9. ApplyFailedRobotRecovery(d, s) = [e EXCEPT !.task[t] = trow]
  BY DEF ApplyFailedRobotRecovery, Database, subs, revised
<1> HIDE DEF e, trow
<1>10. Follows(e, [e EXCEPT !.task[t] = trow])
  BY <1>1, <1>7, <1>8, TaskUpdated
<1> QED BY <1>6, <1>9, <1>10, FollowsTransitive

\* failPausedTask ends the paused step, the pending rest and the Task.
LEMMA FailPausedTaskFollows ==
  ASSUME NEW d \in Database, NEW s \in SubTasks
  PROVE  Follows(d, failPausedTask(d, s))
<1> DEFINE t == TaskOf[s]
           subs == [x \in SubTasks |->
              CASE x = s -> Moved(d.sub[x], "failed", "")
                [] x \in SubsOf(t) \ {s} /\ d.sub[x].status = "pending" ->
                     Moved(d.sub[x], "stopped", "")
                [] OTHER -> d.sub[x]]
           e == [d EXCEPT !.sub = subs]
<1>1. t \in Tasks /\ d.sub \in [SubTasks -> SubRow]
  BY PlanAssumption, DatabaseRows
<1>2. \A x \in SubTasks :
        /\ SubRowFollows(d.sub[x], d.sub[x], d.exec[x].status # "none")
        /\ SubRowFollows(d.sub[x], Moved(d.sub[x], "failed", ""), d.exec[x].status # "none")
        /\ SubRowFollows(d.sub[x], Moved(d.sub[x], "stopped", ""), d.exec[x].status # "none")
  BY <1>1, SubRowMoves, Names
<1>3. \A x \in SubTasks : SubRowFollows(d.sub[x], subs[x], d.exec[x].status # "none")
  BY <1>2, Zenon
<1>4. SubsFollow(d, subs)
  BY <1>3 DEF SubsFollow, SubRowFollows
<1>5. Follows(d, e)
  <2> HIDE DEF subs
  <2> QED BY <1>4, SubsUpdated
<1>6. failPausedTask(d, s) = TransitionTask(e, t, "failed", "")
  BY Zenon DEF failPausedTask
<1> HIDE DEF e
<1> QED BY <1>1, <1>5, <1>6, Names, ThenTransition

\* finishStoppingRobotSubTask before it looks at the Workflow.
LEMMA SubTaskStoppedFollows ==
  ASSUME NEW d, NEW e, Follows(d, e), NEW s \in SubTasks
  PROVE  Follows(d, SubTaskStopped(e, s))
<1>1. TaskOf[s] \in Tasks
  BY PlanAssumption
<1>2. Follows(d, TransitionSubTask(e, s, "stopped", ""))
  BY Names, ThenTransition
<1> QED BY <1>1, <1>2, FinishStoppedTaskFollows DEF SubTaskStopped

\* convergeStoppedWorkflow as the last of several operations.
LEMMA ThenConverge ==
  ASSUME NEW d, NEW e, Follows(d, e)
  PROVE  Follows(d, Converge(e))
BY ConvergeFollows, FollowsTransitive DEF Follows

\* finishConfirmedRobotStop takes Workflow, Task and SubTask to stopping.
LEMMA StopConfirmedFollows ==
  ASSUME NEW d, NEW e, Follows(d, e), NEW s \in SubTasks
  PROVE  Follows(d, StopConfirmed(e, s))
<1> DEFINE t == TaskOf[s]
           g == IF e.wf.status \in {"running", "paused"}
                THEN TransitionWorkflow(e, "stopping", "") ELSE e
           f == IF g.task[t].status \in {"running", "paused"}
                THEN TransitionTask(g, t, "stopping", "") ELSE g
<1>1. t \in Tasks
  BY PlanAssumption
<1>2. Follows(d, g)
  BY Names, ThenTransition
<1>3. StopConfirmed(e, s) = IF f.sub[s].status \in {"running", "paused"}
                            THEN TransitionSubTask(f, s, "stopping", "") ELSE f
  BY Zenon DEF StopConfirmed
<1> HIDE DEF g
<1>4. Follows(d, f)
  BY <1>1, <1>2, Names, ThenTransition
<1> HIDE DEF f
<1> QED BY <1>3, <1>4, Names, ThenTransition

\* completeRobotSubTask may pass through running, never out of an end.
LEMMA CompleteRobotSubTaskFollows ==
  ASSUME NEW d, NEW e, Follows(d, e), NEW s \in SubTasks
  PROVE  Follows(d, completeRobotSubTask(e, s))
<1>1. Follows(d, TransitionSubTask(e, s, "running", ""))
  BY Names, ThenTransition
<1>2. Follows(d, TransitionSubTask(TransitionSubTask(e, s, "running", ""), s, "completed", ""))
  BY <1>1, Names, ThenTransition
<1> QED BY <1>2 DEF completeRobotSubTask

\* A resume restarts paused Tasks only.
LEMMA ResumedTasksFollow ==
  ASSUME NEW d \in Database, NEW S, \A t \in S : t \in Tasks => d.task[t].status = "paused"
  PROVE  Follows(d, ResumedTasks(d, S))
<1> DEFINE back(s) == [d.sub[s] EXCEPT !.status = "pending", !.reason = ""]
           subs == [s \in SubTasks |-> IF TaskOf[s] \in S
                      THEN ResumePausedAgentSteps(d, TaskOf[s]).sub[s] ELSE d.sub[s]]
           tasks == [t \in Tasks |-> IF t \in S
                      THEN [d.task[t] EXCEPT !.status = "running", !.reason = ""] ELSE d.task[t]]
<1>1. d.sub \in [SubTasks -> SubRow] /\ d.task \in [Tasks -> TaskRow]
  BY DatabaseRows
<1>2. \A s \in SubTasks : subs[s] = d.sub[s] \/ (d.sub[s].status = "paused" /\ subs[s] = back(s))
  BY DEF ResumePausedAgentSteps, Database
<1>3. \A s \in SubTasks : SubRowFollows(d.sub[s], subs[s], d.exec[s].status # "none")
  <2>1. "paused" \notin TerminalWork
    BY DEF TerminalWork
  <2>2. \A s \in SubTasks : /\ SubRowFollows(d.sub[s], d.sub[s], d.exec[s].status # "none")
                            /\ d.sub[s].status = "paused" =>
                                 SubRowFollows(d.sub[s], back(s), d.exec[s].status # "none")
    BY <1>1, <2>1, SubRowMoves, Names
  <2> HIDE DEF subs
  <2> QED BY <1>2, <2>2, Zenon
<1>4. SubsFollow(d, subs)
  BY <1>3 DEF SubsFollow, SubRowFollows
<1>5. \A t \in Tasks : TaskRowFollows(d.task[t], tasks[t])
  BY <1>1, Names DEF TaskRow, TaskRowFollows, TerminalWork
<1>6. TasksFollow(d, tasks)
  BY <1>5 DEF TasksFollow, TaskRowFollows
<1>7. ResumedTasks(d, S) = [d EXCEPT !.sub = subs, !.task = tasks]
  BY DEF ResumedTasks
<1> HIDE DEF subs, tasks
<1> QED BY <1>4, <1>6, <1>7, SubsAndTasksUpdated

\* Recovery pauses what ran and attaches only Executions that exist.
LEMMA InterruptedFollows ==
  ASSUME NEW d \in Database
  PROVE  Follows(d, Interrupted(d))
<1> DEFINE found(s) == s \in RobotSkills /\ d.exec[s].status # "none"
           reason(s) == IF d.sub[s].ref \/ found(s) THEN "execution_state_unknown"
                                                    ELSE "server_restarted"
           lost(t) == \E s \in SubsOf(t) : d.sub[s].status = "running"
                                           /\ reason(s) = "execution_state_unknown"
           srow(s) == [status |-> "paused", reason |-> reason(s), ref |-> d.sub[s].ref \/ found(s)]
           subs == [s \in SubTasks |-> IF d.sub[s].status = "running" THEN srow(s) ELSE d.sub[s]]
           trow(t) == [d.task[t] EXCEPT !.status = "paused",
                         !.reason = IF lost(t) THEN "execution_state_unknown" ELSE "server_restarted"]
           tasks == [t \in Tasks |-> IF d.task[t].status = "running" THEN trow(t) ELSE d.task[t]]
<1>1. d.sub \in [SubTasks -> SubRow] /\ d.task \in [Tasks -> TaskRow]
  BY DatabaseRows
<1>2. \A s \in SubTasks : srow(s) \in SubRow
  BY Names, <1>1 DEF SubRow
<1>3. \A s \in SubTasks : SubRowFollows(d.sub[s], subs[s], d.exec[s].status # "none")
  BY <1>1, <1>2 DEF SubRowFollows, SubRow, TerminalWork
<1>4. SubsFollow(d, subs)
  BY <1>3 DEF SubsFollow, SubRowFollows
<1>5. \A t \in Tasks : TaskRowFollows(d.task[t], tasks[t])
  <2> HIDE DEF lost
  <2> QED BY <1>1, Names DEF TaskRow, TaskRowFollows, TerminalWork
<1>6. TasksFollow(d, tasks)
  BY <1>5 DEF TasksFollow, TaskRowFollows
<1>7. Interrupted(d) = [d EXCEPT !.sub = subs, !.task = tasks]
  BY Zenon DEF Interrupted
<1> HIDE DEF subs, tasks
<1> QED BY <1>4, <1>6, <1>7, SubsAndTasksUpdated

\* Recovery of the Workflow row on top of it.
LEMMA RecoveredWorkflowFollows ==
  ASSUME NEW d \in Database
  PROVE  Follows(d, RecoveredWorkflow(d))
<1>1. Follows(d, Interrupted(d))
  BY InterruptedFollows
<1>2. \A why \in Reason : Follows(d, TransitionWorkflow(Interrupted(d), "paused", why))
  BY <1>1, Names, ThenTransition
<1>3. Follows(d, TransitionWorkflow(Interrupted(d), "paused", "execution_state_unknown"))
      /\ Follows(d, TransitionWorkflow(Interrupted(d), "paused", "server_restarted"))
  BY <1>2, Names
<1> QED BY <1>1, <1>3, Zenon DEF RecoveredWorkflow

------------------------------------------------------------------------------
(* The inductive invariant of the database, and what a step may do to it.   *)

Owned(d) ==
  \A t, u \in Tasks :
    (t # u /\ ReservesRobot(d.task[t]) /\ ReservesRobot(d.task[u]) /\ d.task[t].robot # NoRobot)
      => d.task[t].robot # d.task[u].robot

DbOK(d) == d \in Database /\ Coherent(d) /\ Owned(d)

EndsKept(d, e) ==
  /\ d.wf.status \in TerminalWork => e.wf.status = d.wf.status
  /\ \A t \in Tasks : d.task[t].status \in TerminalWork => e.task[t].status = d.task[t].status
  /\ \A s \in SubTasks : /\ d.sub[s].status \in TerminalWork => e.sub[s].status = d.sub[s].status
                         /\ d.sub[s].ref => e.sub[s].ref

StepOK(d, e) ==
  /\ DbOK(e)
  /\ EndsKept(d, e)
  /\ \A s \in SubTasks :
       d.exec[s].status # "none" => e.exec[s].status # "none" /\ RobotOf(e, s) = RobotOf(d, s)

\* An allowed rewrite takes back no end.
LEMMA FollowsKeepsEnds ==
  ASSUME NEW d, NEW e, Follows(d, e)
  PROVE  EndsKept(d, e)
BY DEF Follows, TasksFollow, TaskRowFollows, SubsFollow, SubRowFollows, EndsKept

\* An allowed rewrite keeps the owners of the Robots.
LEMMA FollowsOwned ==
  ASSUME NEW d, NEW e, d \in Database, Owned(d), Follows(d, e)
  PROVE  Owned(e)
<1>1. \A t \in Tasks : /\ e.task[t].robot = d.task[t].robot
                       /\ ReservesRobot(e.task[t]) => ReservesRobot(d.task[t])
  <2> SUFFICES ASSUME NEW t \in Tasks
               PROVE  /\ e.task[t].robot = d.task[t].robot
                      /\ ReservesRobot(e.task[t]) => ReservesRobot(d.task[t])
    OBVIOUS
  <2>1. TaskRowFollows(d.task[t], e.task[t]) /\ d.task[t] \in TaskRow
    BY DatabaseRows DEF Follows, TasksFollow
  <2> QED BY <2>1 DEF TaskRowFollows, TaskRow, ReservesRobot, TerminalWork, WorkStatus
<1> QED BY <1>1 DEF Owned

\* Hence every allowed rewrite is a good step of the database,
LEMMA FollowsStep ==
  ASSUME NEW d, NEW e, DbOK(d), Follows(d, e)
  PROVE  StepOK(d, e)
<1>1. DbOK(e)
  BY FollowsCoherent, FollowsOwned DEF DbOK, Follows
<1>2. \A s \in SubTasks : d.exec[s].status # "none" => e.exec[s].status # "none"
  BY DEF Follows, ExecsFollow, ExecRowFollows
<1>3. \A s \in SubTasks : RobotOf(e, s) = RobotOf(d, s)
  BY PlanAssumption DEF Follows, TasksFollow, TaskRowFollows, RobotOf
<1> QED BY <1>1, <1>2, <1>3, FollowsKeepsEnds DEF StepOK

\* also after one that assigned or admitted.
LEMMA StepThenFollows ==
  ASSUME NEW d, NEW e, NEW f, d \in Database, StepOK(d, e), Follows(e, f)
  PROVE  StepOK(d, f)
<1>1. StepOK(e, f)
  BY FollowsStep DEF StepOK
<1>2. EndsKept(d, f)
  BY <1>1 DEF StepOK, EndsKept
<1> QED BY <1>1, <1>2 DEF StepOK

\* A Robot is bound to a Task that has no Execution yet, and to no other open Task.
LEMMA AssignStep ==
  ASSUME NEW d, DbOK(d), NEW t \in Tasks, NEW r \in Robots \cup {NoRobot}, CanAssign(d, t, r)
  PROVE  StepOK(d, AssignTask(d, t, r))
<1>1. d \in Database /\ Coherent(d) /\ Owned(d)
  BY DEF DbOK
<1>2. CASE d.task[t].robot = r
  BY <1>1, <1>2, FollowsReflexive, FollowsStep DEF AssignTask
<1>3. CASE d.task[t].robot # r
  <2> DEFINE row == [d.task[t] EXCEPT !.robot = r, !.reason = ""]
             e == [d EXCEPT !.task[t] = row]
  <2>1. d.task \in [Tasks -> TaskRow] /\ d.lock \in [Robots -> SubTasks \cup {0}]
    BY <1>1, DatabaseRows
  <2>2. row \in TaskRow /\ row.robot = r /\ row.status = d.task[t].status
    BY <2>1, Names DEF TaskRow
  <2>3. AssignTask(d, t, r) = e
    BY <1>3 DEF AssignTask
  <2> HIDE DEF row
  <2>4. e.wf = d.wf /\ e.sub = d.sub /\ e.exec = d.exec /\ e.lock = d.lock
        /\ e.task = [d.task EXCEPT ![t] = row]
    BY <1>1 DEF Database
  <2>5. e \in Database
    BY <1>1, <2>1, <2>2 DEF Database, TaskRow
  <2>6. \A s \in SubTasks : TaskOf[s] = t => d.exec[s].status = "none"
    <3>1. d.task[t].robot = NoRobot \/ ~HasExecution(d, t)
      BY <1>3 DEF CanAssign
    <3>2. \A s \in SubTasks : d.exec[s].status # "none" => d.task[TaskOf[s]].robot # NoRobot
      BY <1>1 DEF Coherent
    <3> QED BY <3>1, <3>2 DEF HasExecution, SubsOf
  <2> HIDE DEF e
  <2>7. \A u \in Tasks : /\ u # t => e.task[u] = d.task[u]
                         /\ e.task[u].status = d.task[u].status
    BY <2>1, <2>2, <2>4
  <2>8. e.task[t].robot = r
    BY <2>1, <2>2, <2>4
  <2>9. Coherent(e)
    <3>1. \A s \in SubTasks : TaskOf[s] # t => e.task[TaskOf[s]].robot = d.task[TaskOf[s]].robot
      BY <2>7, PlanAssumption
    <3> QED BY <1>1, <2>4, <2>6, <3>1 DEF Coherent
  <2>10. Owned(e)
    <3>1. ~TaskHolds(d, r, t)
      BY <1>3 DEF CanAssign, IsFree
    <3>2. \A u \in Tasks : u # t => ~(d.task[u].robot = r /\ ReservesRobot(d.task[u]))
      BY <3>1 DEF TaskHolds
    <3>3. \A u \in Tasks : ReservesRobot(e.task[u]) <=> ReservesRobot(d.task[u])
      BY <2>7 DEF ReservesRobot
    <3> QED BY <1>1, <2>7, <2>8, <3>2, <3>3 DEF Owned
  <2>12. EndsKept(d, e)
    BY <2>4, <2>7 DEF EndsKept
  <2>13. \A s \in SubTasks : d.exec[s].status # "none" => RobotOf(e, s) = RobotOf(d, s)
    BY <2>6, <2>7, PlanAssumption DEF RobotOf
  <2> QED BY <2>3, <2>4, <2>5, <2>9, <2>10, <2>12, <2>13 DEF StepOK, DbOK
<1> QED BY <1>2, <1>3

\* An admitted Execution is the first of its SubTask.
LEMMA AdmitStep ==
  ASSUME NEW d, DbOK(d), NEW s \in SubTasks, CanAdmit(d, s)
  PROVE  StepOK(d, AdmitRobotExecution(d, s))
<1> DEFINE row == [d.exec[s] EXCEPT !.status = "queued"]
           X == [d.exec EXCEPT ![s] = row]
           e == [d EXCEPT !.exec = X]
<1>1. d \in Database /\ Coherent(d) /\ Owned(d)
  BY DEF DbOK
<1>2. d.exec \in [SubTasks -> ExecRow] /\ TaskOf[s] \in Tasks
  BY <1>1, DatabaseRows, PlanAssumption
<1>3. d.task[TaskOf[s]].robot \in Robots /\ s \in RobotSkills /\ d.exec[s].status = "none"
  BY <1>2, PlanAssumption DEF CanAdmit
<1>4. row \in ExecRow /\ row.status = "queued"
  BY <1>2 DEF ExecRow, ExecutionStatus, ActiveExecution
<1> HIDE DEF row
<1>5. X \in [SubTasks -> ExecRow] /\ \A x \in SubTasks : X[x] = IF x = s THEN row ELSE d.exec[x]
  BY <1>2, <1>4
<1>6. AdmitRobotExecution(d, s) = e
  BY DEF AdmitRobotExecution, row
<1> HIDE DEF X
<1>7. e \in Database /\ e.wf = d.wf /\ e.task = d.task /\ e.sub = d.sub /\ e.exec = X
  BY <1>1, <1>5 DEF Database, ExecRow
<1> HIDE DEF e
<1>8. Coherent(e)
  BY <1>1, <1>3, <1>4, <1>5, <1>7, RobotAssumption DEF Coherent
<1>9. Owned(e) /\ EndsKept(d, e)
  BY <1>1, <1>7 DEF Owned, EndsKept
<1>10. \A x \in SubTasks :
         d.exec[x].status # "none" => e.exec[x].status # "none" /\ RobotOf(e, x) = RobotOf(d, x)
  BY <1>4, <1>5, <1>7 DEF RobotOf
<1> QED BY <1>6, <1>7, <1>8, <1>9, <1>10 DEF StepOK, DbOK

\* An Execution row rewritten without leaving or entering what a Robot carries.
LEMMA ExecUpdated ==
  ASSUME NEW d \in Database, NEW s \in SubTasks, NEW row, ExecRowFollows(d.exec[s], row)
  PROVE  Follows(d, [d EXCEPT !.exec[s] = row])
<1> DEFINE X == [d.exec EXCEPT ![s] = row]
           e == [d EXCEPT !.exec = X]
<1>1. d.exec \in [SubTasks -> ExecRow]
  BY DatabaseRows
<1>2. ExecsFollow(d, X)
  BY <1>1 DEF ExecsFollow, ExecRowFollows
<1>3. [d EXCEPT !.exec[s] = row] = e
  OBVIOUS
<1> HIDE DEF X
<1>4. e \in Database
  BY <1>2 DEF Database, ExecsFollow, ExecRow
<1>5. e.wf = d.wf /\ e.task = d.task /\ e.sub = d.sub /\ e.exec = X /\ e.lock = d.lock
  BY DEF Database
<1> QED BY <1>2, <1>3, <1>4, <1>5, RowsFollowThemselves DEF Follows

\* The pointers set to whatever Execution, alone or together with an Execution row.
LEMMA LocksUpdated ==
  ASSUME NEW d \in Database, NEW L \in [Robots -> SubTasks \cup {0}]
  PROVE  Follows(d, [d EXCEPT !.lock = L])
<1> DEFINE e == [d EXCEPT !.lock = L]
<1>1. e \in Database /\ e.wf = d.wf /\ e.task = d.task /\ e.sub = d.sub /\ e.exec = d.exec
  BY DEF Database
<1> QED BY <1>1, RowsFollowThemselves DEF Follows

\* One pointer.
LEMMA LockTyped ==
  ASSUME NEW d \in Database, NEW r, NEW s \in SubTasks \cup {0}
  PROVE  [d.lock EXCEPT ![r] = s] \in [Robots -> SubTasks \cup {0}]
BY DatabaseRows

\* One pointer and one Execution row.
LEMMA ExecAndLockUpdated ==
  ASSUME NEW d \in Database, NEW s \in SubTasks, NEW row, ExecRowFollows(d.exec[s], row),
         NEW r, NEW p \in SubTasks \cup {0}, NEW e,
         e = [d EXCEPT !.exec[s] = row, !.lock[r] = p]
  PROVE  Follows(d, e) /\ e.exec = [d.exec EXCEPT ![s] = row]
         /\ e.wf = d.wf /\ e.task = d.task /\ e.sub = d.sub /\ e.lock = [d.lock EXCEPT ![r] = p]
<1> DEFINE L == [d.lock EXCEPT ![r] = p]
           f == [d EXCEPT !.exec[s] = row]
<1>1. Follows(d, f) /\ f \in Database
  BY ExecUpdated DEF Follows
<1>2. L \in [Robots -> SubTasks \cup {0}]
  BY LockTyped
<1>3. e = [f EXCEPT !.lock = L]
  BY DEF Database
<1>4. e.exec = [d.exec EXCEPT ![s] = row] /\ e.lock = L
      /\ e.wf = d.wf /\ e.task = d.task /\ e.sub = d.sub
  BY DEF Database
<1> HIDE DEF f, L
<1>5. Follows(d, e)
  BY <1>1, <1>2, <1>3, LocksUpdated, FollowsTransitive
<1> QED BY <1>4, <1>5 DEF L

------------------------------------------------------------------------------
(* The goroutines and calls under way.                                      *)

RunRow == [pc : Phase, sub : SubTasks \cup {0}, robot : Robots \cup {NoRobot},
           cancelled : BOOLEAN, fresh : BOOLEAN]

NoteRow == [sub : SubTasks \cup {0}, status : ExecutionStatus, safe : BOOLEAN, saved : BOOLEAN]

\* A goroutine that dispatches, decides or recovers is about some SubTask, and one that
\* dispatches about an Execution that was admitted.
RunRowOK(d, row) ==
  /\ row \in RunRow
  /\ row.pc \in {"dispatch", "decide", "replied", "recover"} => row.sub # 0
  /\ row.pc = "dispatch" => d.exec[row.sub].status # "none"
RunsOK(d, rs) == rs \in [Tasks -> RunRow] /\ \A t \in Tasks : RunRowOK(d, rs[t])

CallsOK ==
  /\ cont \in [Tasks -> SUBSET Calls]
  /\ res \in Tasks \cup {0}
  /\ walk \in [Walkers -> [on : BOOLEAN, todo : SUBSET Tasks]]
  /\ confirm \in [on : BOOLEAN, todo : SUBSET SubTasks]
  /\ notify \in [Robots -> NoteRow]
  /\ avail \in SUBSET Robots
  /\ online \in [Robots -> BOOLEAN]
  /\ answered \in SUBSET SubTasks
  /\ left \in [Limits -> Nat]

\* Whatever was reported or answered is an Execution, and one of the Robot that reports it.
Heard ==
  /\ \A r \in Robots : notify[r].sub # 0 =>
       /\ db.exec[notify[r].sub].status # "none" /\ notify[r].status # "none"
       /\ RobotOf(db, notify[r].sub) = r
  /\ \A s \in answered : db.exec[s].status # "none"

IInv == DbOK(db) /\ RunsOK(db, run) /\ CallsOK /\ Heard

\* A goroutine that is started on a SubTask is well formed.
LEMMA AtOK ==
  ASSUME NEW d, NEW pc \in Phase \ {"dispatch"}, NEW s \in SubTasks \cup {0},
         pc \in {"decide", "replied", "recover"} => s # 0
  PROVE  RunRowOK(d, At(pc, s))
BY DEF RunRowOK, RunRow, At, Phase

\* So are the three that are started without one.
LEMMA IdleOK ==
  ASSUME NEW d
  PROVE  RunRowOK(d, Idle) /\ RunRowOK(d, At("resolve", 0)) /\ RunRowOK(d, At("pick", 0))
BY AtOK DEF Idle, Phase

\* Replacing one goroutine.
LEMMA RunsUpdated ==
  ASSUME NEW d, NEW rs, RunsOK(d, rs), NEW t \in Tasks, NEW row, RunRowOK(d, row)
  PROVE  RunsOK(d, [rs EXCEPT ![t] = row])
BY DEF RunsOK, RunRowOK

\* The phase moves on; the two phases a goroutine may enter this way hold no SubTask.
LEMMA RunsMoveOn ==
  ASSUME NEW d, NEW rs, RunsOK(d, rs), NEW t \in Tasks,
         NEW pc \in {"bind", "wait", "plan", "launch", "agent"}
  PROVE  /\ RunsOK(d, [rs EXCEPT ![t].pc = pc])
         /\ \A r \in Robots \cup {NoRobot} : RunsOK(d, [rs EXCEPT ![t].pc = pc, ![t].robot = r])
         /\ \A s \in SubTasks \cup {0} : RunsOK(d, [rs EXCEPT ![t].pc = pc, ![t].sub = s])
<1>1. rs \in [Tasks -> RunRow] /\ rs[t] \in RunRow /\ pc \in Phase
  BY DEF RunsOK, Phase
<1>2. RunRowOK(d, [rs[t] EXCEPT !.pc = pc])
  BY <1>1 DEF RunRow, RunRowOK
<1>3. ASSUME NEW r \in Robots \cup {NoRobot}
      PROVE  RunsOK(d, [rs EXCEPT ![t].pc = pc, ![t].robot = r])
  <2> DEFINE row == [rs[t] EXCEPT !.pc = pc, !.robot = r]
  <2>1. RunRowOK(d, row)
    BY <1>1 DEF RunRow, RunRowOK
  <2>2. [rs EXCEPT ![t].pc = pc, ![t].robot = r] = [rs EXCEPT ![t] = row]
    BY <1>1
  <2> HIDE DEF row
  <2> QED BY <2>1, <2>2, RunsUpdated
<1>4. ASSUME NEW s \in SubTasks \cup {0}
      PROVE  RunsOK(d, [rs EXCEPT ![t].pc = pc, ![t].sub = s])
  <2> DEFINE row == [rs[t] EXCEPT !.pc = pc, !.sub = s]
  <2>1. RunRowOK(d, row)
    BY <1>1 DEF RunRow, RunRowOK
  <2>2. [rs EXCEPT ![t].pc = pc, ![t].sub = s] = [rs EXCEPT ![t] = row]
    BY <1>1
  <2> HIDE DEF row
  <2> QED BY <2>1, <2>2, RunsUpdated
<1>5. RunsOK(d, [rs EXCEPT ![t].pc = pc])
  BY <1>2, RunsUpdated
<1> QED BY <1>3, <1>4, <1>5

\* reserveTask for every runnable Task.
LEMMA ReserveOK ==
  ASSUME NEW d, NEW e, NEW rs, RunsOK(e, rs)
  PROVE  RunsOK(e, Reserve(d, rs))
<1>1. \A t \in Tasks : RunRowOK(e, [rs[t] EXCEPT !.fresh = FALSE])
  BY DEF RunsOK, RunRowOK, RunRow
<1>2. \A t \in Tasks : RunRowOK(e, Reserve(d, rs)[t])
  <2> SUFFICES ASSUME NEW t \in Tasks PROVE RunRowOK(e, Reserve(d, rs)[t])
    OBVIOUS
  <2>1. Reserve(d, rs)[t] =
     CASE MapRefused(d) /\ t = Least(ListRunnableTasks(d)) -> [rs[t] EXCEPT !.fresh = FALSE]
       [] ~MapRefused(d) /\ d.wf.status = "running" /\ t \in ListRunnableTasks(d)
            /\ rs[t].pc = "idle" -> At("resolve", 0)
       [] OTHER -> rs[t]
    BY DEF Reserve
  <2>2. RunRowOK(e, [rs[t] EXCEPT !.fresh = FALSE]) /\ RunRowOK(e, At("resolve", 0)) /\ RunRowOK(e, rs[t])
    BY <1>1, IdleOK DEF RunsOK
  <2> QED BY <2>1, <2>2, Zenon
<1>3. Reserve(d, rs) = [t \in Tasks |-> Reserve(d, rs)[t]]
  BY DEF Reserve
<1> QED BY <1>2, <1>3 DEF RunsOK, RunRowOK

\* The workspace keeps its owner or loses it.
LEMMA ConvergedOwnerOK ==
  ASSUME NEW d, NEW owner \in Tasks \cup {0}
  PROVE  ConvergedOwner(d, owner) \in Tasks \cup {0}
BY DEF ConvergedOwner

\* finishOrSchedule as a step of database, goroutines and workspace.
LEMMA FinishOrScheduleOK ==
  ASSUME DbOK(db), NEW d, Follows(db, d), NEW rs, RunsOK(db, rs), NEW owner \in Tasks \cup {0},
         FinishOrSchedule(d, rs, owner)
  PROVE  StepOK(db, db') /\ RunsOK(db, run') /\ res' \in Tasks \cup {0}
<1>1. Follows(db, Schedule(Finish(d)))
  BY ScheduledFinishFollows
<1>2. StepOK(db, db')
  BY <1>1, FollowsStep DEF FinishOrSchedule
<1> QED BY <1>2, ReserveOK, ConvergedOwnerOK DEF FinishOrSchedule

\* What was heard stays an Execution as long as nothing new is heard.
LEMMA HeardKept ==
  ASSUME CallsOK, Heard, StepOK(db, db'), UNCHANGED <<notify, answered>>
  PROVE  Heard'
<1>1. \A r \in Robots : notify[r].sub \in SubTasks \cup {0}
  BY DEF CallsOK, NoteRow
<1> QED BY <1>1 DEF StepOK, Heard, CallsOK

\* An Execution that is being dispatched is still there after a step.
LEMMA RunsKept ==
  ASSUME NEW d, NEW e, StepOK(d, e), NEW rs, RunsOK(d, rs)
  PROVE  RunsOK(e, rs)
BY DEF RunsOK, RunRowOK, RunRow, StepOK

\* The common case: a step of the database and of one goroutine.
LEMMA StepInv ==
  ASSUME IInv, StepOK(db, db'), RunsOK(db, run'), CallsOK', UNCHANGED <<notify, answered>>
  PROVE  IInv'
<1>1. Heard'
  BY HeardKept DEF IInv
<1>2. RunsOK(db', run')
  BY RunsKept
<1> QED BY <1>1, <1>2 DEF IInv, StepOK

------------------------------------------------------------------------------
(* Every action, one group after the other.                                 *)

Good == IInv' /\ EndsKept(db, db')

\* A good step of the database, with nothing new heard, is a good step.
LEMMA StepGood ==
  ASSUME IInv, StepOK(db, db'), RunsOK(db, run'), CallsOK', UNCHANGED <<notify, answered>>
  PROVE  Good
BY StepInv DEF Good, StepOK

\* Not touching the store is a good step of the database.
LEMMA SameDbStep ==
  ASSUME IInv
  PROVE  StepOK(db, db) /\ Follows(db, db)
BY FollowsReflexive, FollowsStep DEF IInv, DbOK

\* A budget stays a budget.
LEMMA SpendOK ==
  ASSUME left \in [Limits -> Nat], NEW k \in Limits, Spend(k)
  PROVE  left' \in [Limits -> Nat]
BY DEF Spend

\* The names of the budgets.
LEMMA LimitNames ==
  {"pause", "stop", "confirm", "retry", "restart", "offline", "undelivered",
   "ask", "execfail", "agenterr", "map", "pointer"} \subseteq Limits
BY DEF Limits

\* Releasing the workspace.
LEMMA ReleasedOK ==
  ASSUME NEW owner \in Tasks \cup {0}, NEW t \in Tasks
  PROVE  Released(owner, t) \in Tasks \cup {0}
BY DEF Released

\* A preparation that fails its Task.
LEMMA PreparationFailsGood ==
  ASSUME IInv, NEW t \in Tasks, PreparationFails(t), left' \in [Limits -> Nat]
  PROVE  Good
<1>1. Follows(db, failTask(db, t))
  BY FailTaskFollows DEF IInv, DbOK
<1>2. RunsOK(db, [run EXCEPT ![t] = Idle]) /\ Released(res, t) \in Tasks \cup {0}
  BY IdleOK, RunsUpdated, ReleasedOK DEF IInv, CallsOK
<1>3. FinishOrSchedule(failTask(db, t), [run EXCEPT ![t] = Idle], Released(res, t))
  BY DEF PreparationFails
<1>4. StepOK(db, db') /\ RunsOK(db, run') /\ res' \in Tasks \cup {0}
  BY <1>1, <1>2, <1>3, FinishOrScheduleOK DEF IInv
<1>5. CallsOK'
  BY <1>4 DEF PreparationFails, CallsOK, IInv
<1> QED BY <1>4, <1>5, StepGood DEF PreparationFails

\* A binding that was stored, whatever store step stored it.
LEMMA BoundGood ==
  ASSUME IInv, NEW t \in Tasks, NEW d, StepOK(db, d), Bound(t, d)
  PROVE  Good
<1>1. d \in Database
  BY DEF StepOK, DbOK
<1>2. Follows(d, SetPendingTaskReason(d, t, "planning_subtasks"))
  BY <1>1, Names, SetPendingTaskReasonFollows
<1>3. StepOK(db, SetPendingTaskReason(d, t, "planning_subtasks"))
  BY <1>2, StepThenFollows DEF IInv, DbOK
<1>4. StepOK(db, db')
  BY <1>3 DEF Bound
<1>5. RunsOK(db, [run EXCEPT ![t].pc = "launch", ![t].robot = NoRobot])
      /\ RunsOK(db, [run EXCEPT ![t].pc = "plan", ![t].robot = NoRobot])
  BY RunsMoveOn DEF IInv
<1>6. RunsOK(db, run')
  BY <1>5, Zenon DEF Bound
<1>7. CallsOK' /\ UNCHANGED <<notify, answered>>
  BY DEF IInv, CallsOK, Bound
<1> QED BY <1>4, <1>6, <1>7, StepGood

\* prepareAndLaunchTask: late binding is where AssignStep is needed.
LEMMA PrepareGood ==
  ASSUME IInv, NEW t \in Tasks, Prepare(t)
  PROVE  Good
<1>0. db \in Database /\ Coherent(db) /\ RunsOK(db, run) /\ CallsOK /\ DbOK(db)
      /\ StepOK(db, db) /\ Follows(db, db)
  BY SameDbStep DEF IInv, DbOK
<1>1. CASE BindWorker(t)
  BY <1>0, <1>1, BoundGood DEF BindWorker
<1>2. CASE ResolveRobot(t)
  <2>1. PICK r \in Offered(t) : run' = [run EXCEPT ![t].pc = "bind", ![t].robot = r]
    BY <1>2 DEF ResolveRobot
  <2>2. r \in Robots \cup {NoRobot}
    BY <1>0, PlanAssumption, DatabaseRows DEF Offered, TaskRow
  <2>3. RunsOK(db, run')
    BY <1>0, <2>1, <2>2, RunsMoveOn
  <2>4. UNCHANGED <<db, notify, answered>> /\ CallsOK'
    BY <1>0, <1>2 DEF ResolveRobot, CallsOK
  <2>5. StepOK(db, db')
    BY <1>0, <2>4
  <2> QED BY <2>3, <2>4, <2>5, StepGood
<1>3. CASE NoRobotFree(t) \/ ClaimRefused(t)
  <2>1. run' = [run EXCEPT ![t].pc = "wait"] /\ UNCHANGED <<db, notify, answered>> /\ CallsOK'
    BY <1>0, <1>3 DEF NoRobotFree, ClaimRefused, CallsOK
  <2>2. RunsOK(db, run')
    BY <1>0, <2>1, RunsMoveOn
  <2>3. StepOK(db, db')
    BY <1>0, <2>1
  <2> QED BY <2>1, <2>2, <2>3, StepGood
<1>4. CASE BindRobot(t)
  <2>1. run[t].robot \in Robots \cup {NoRobot}
    BY <1>0 DEF RunsOK, RunRow
  <2>2. StepOK(db, AssignTask(db, t, run[t].robot))
    BY <1>0, <1>4, <2>1, AssignStep DEF BindRobot
  <2> QED BY <1>4, <2>2, BoundGood DEF BindRobot
<1>5. CASE BindRefused(t)
  <2>1. run' = [run EXCEPT ![t].pc = "wait", ![t].robot = NoRobot]
        /\ UNCHANGED <<db, notify, answered>> /\ CallsOK'
    BY <1>0, <1>5 DEF BindRefused, CallsOK
  <2>2. RunsOK(db, run')
    BY <1>0, <2>1, RunsMoveOn
  <2>3. StepOK(db, db')
    BY <1>0, <2>1
  <2> QED BY <2>1, <2>2, <2>3, StepGood
<1>6. CASE BindConflict(t)
  BY <1>0, <1>6, PreparationFailsGood DEF BindConflict, CallsOK
<1>7. CASE WaitForResource(t)
  <2>1. Follows(db, SetPendingTaskReason(db, t, "waiting_resource"))
    BY <1>0, Names, SetPendingTaskReasonFollows
  <2>2. StepOK(db, db')
    BY <1>0, <1>7, <2>1, FollowsStep DEF WaitForResource
  <2>3. RunsOK(db, run')
    BY <1>0, <1>7, IdleOK, RunsUpdated DEF WaitForResource
  <2>4. CallsOK' /\ UNCHANGED <<notify, answered>>
    BY <1>0, <1>7 DEF WaitForResource, CallsOK
  <2> QED BY <2>2, <2>3, <2>4, StepGood
<1>8. CASE PlanTask(t)
  <2>1. Follows(db, SetTaskSubTasks(db, t))
    BY <1>0, <1>8, SetTaskSubTasksFollows DEF PlanTask
  <2>2. StepOK(db, db')
    BY <1>0, <1>8, <2>1, FollowsStep DEF PlanTask
  <2>3. RunsOK(db, run')
    BY <1>0, <1>8, RunsMoveOn DEF PlanTask
  <2>4. CallsOK' /\ UNCHANGED <<notify, answered>>
    BY <1>0, <1>8 DEF PlanTask, CallsOK
  <2> QED BY <2>2, <2>3, <2>4, StepGood
<1>9. CASE PlanFails(t)
  <2>1. left' \in [Limits -> Nat]
    BY <1>0, <1>9, SpendOK, LimitNames DEF PlanFails, CallsOK
  <2> QED BY <1>9, <2>1, PreparationFailsGood DEF PlanFails
<1>10. CASE PlanCancelled(t)
  <2>1. run' = [run EXCEPT ![t] = Idle] /\ UNCHANGED <<db, notify, answered>> /\ CallsOK'
    BY <1>0, <1>10 DEF PlanCancelled, CallsOK
  <2>2. RunsOK(db, run')
    BY <1>0, <2>1, IdleOK, RunsUpdated
  <2>3. StepOK(db, db')
    BY <1>0, <2>1
  <2> QED BY <2>1, <2>2, <2>3, StepGood
<1>11. CASE LaunchTask(t)
  <2>1. Follows(db, TransitionTask(db, t, "running", ""))
    BY <1>0, Names, TransitionTaskFollows
  <2>2. StepOK(db, TransitionTask(db, t, "running", ""))
    BY <1>0, <2>1, FollowsStep
  <2>3. StepOK(db, db')
    BY <1>0, <1>11, <2>2 DEF LaunchTask
  <2>4. RunsOK(db, [run EXCEPT ![t] = At("pick", 0)]) /\ RunsOK(db, [run EXCEPT ![t] = Idle])
    BY <1>0, IdleOK, RunsUpdated
  <2>5. RunsOK(db, run')
    BY <1>11, <2>4 DEF LaunchTask
  <2>6. CallsOK' /\ UNCHANGED <<notify, answered>>
    BY <1>0, <1>11 DEF LaunchTask, CallsOK, Claimed
  <2> QED BY <2>3, <2>5, <2>6, StepGood
<1> QED BY <1>1, <1>2, <1>3, <1>4, <1>5, <1>6, <1>7, <1>8, <1>9, <1>10, <1>11 DEF Prepare

\* The first runnable SubTask is a SubTask of the Task.
LEMMA RunnableSubTasks ==
  ASSUME NEW d, NEW t
  PROVE  ListRunnableSubTasks(d, t) # {} => /\ Least(ListRunnableSubTasks(d, t)) \in SubTasks
                                            /\ Least(ListRunnableSubTasks(d, t)) \in SubsOf(t)
<1>1. ListRunnableSubTasks(d, t) \subseteq SubsOf(t) /\ SubsOf(t) \subseteq SubTasks
  BY DEF ListRunnableSubTasks, SubsOf
<1>2. ListRunnableSubTasks(d, t) # {} => Least(ListRunnableSubTasks(d, t)) \in SubsOf(t)
  BY <1>1, LeastIsMember, PositionAssumption
<1> QED BY <1>1, <1>2

\* So is the first one in flight.
LEMMA InFlightSubTasks ==
  ASSUME NEW d, NEW t
  PROVE  InFlight(d, t) # {} => /\ Least(InFlight(d, t)) \in SubTasks
                                /\ TaskOf[Least(InFlight(d, t))] = t
<1>1. InFlight(d, t) \subseteq SubsOf(t) /\ SubsOf(t) \subseteq SubTasks
  BY DEF InFlight, Listed, SubsOf
<1>2. InFlight(d, t) # {} => Least(InFlight(d, t)) \in SubsOf(t)
  BY <1>1, LeastIsMember, PositionAssumption
<1> QED BY <1>1, <1>2 DEF SubsOf

\* executeTask from the return of its executor on, in every exit.
LEMMA SettledFollows ==
  ASSUME NEW t \in Tasks, IInv, NEW out \in Outcomes(t)
  PROVE  Follows(db, Settled(t, out))
<1> DEFINE s == run[t].sub
           d == IF out = "ok" THEN Recorded(db, s) ELSE db
<1>0. db \in Database /\ Coherent(db) /\ s \in SubTasks \cup {0} /\ Follows(db, db)
  BY SameDbStep DEF IInv, DbOK, RunsOK, RunRow
<1>1. Follows(db, d)
  <2>1. CASE out # "ok"
    BY <1>0, <2>1
  <2>4. CASE out = "ok" /\ s = 0
    <3>1. 0 \notin RobotSkills
      BY PositionAssumption, PlanAssumption
    <3>2. Recorded(db, 0) = db
      BY <3>1, Zenon DEF Recorded
    <3> QED BY <1>0, <2>4, <3>2
  <2>2. CASE out = "ok" /\ s # 0 /\ s \in RobotSkills
    <3>1. db.exec[s].status # "none"
      BY <2>2 DEF Outcomes
    <3>2. Follows(db, AttachSubTaskExecution(db, s))
      BY <1>0, <2>2, <3>1, AttachFollows
    <3> QED BY <2>2, <3>2, Zenon DEF Recorded
  <2>3. CASE out = "ok" /\ s # 0 /\ s \notin RobotSkills
    <3>1. Follows(db, TransitionSubTask(db, s, "completed", ""))
      BY <1>0, <2>3, Names, TransitionSubTaskFollows
    <3> QED BY <2>3, <3>1, Zenon DEF Recorded
  <2> QED BY <2>1, <2>2, <2>3, <2>4
<1>2. Settled(t, out) =
        CASE Exit(t, out) = "stop" -> FinishStoppedTask(stopTaskSubTasks(d, t), t)
          [] Exit(t, out) = "fail" -> failTask(d, t)
          [] Exit(t, out) = "keep" -> d
          [] OTHER -> TransitionTask(d, t, "completed", "")
  BY Zenon DEF Settled
<1> HIDE DEF d
<1>3. d \in Database /\ Coherent(d)
  BY <1>0, <1>1, FollowsCoherent DEF Follows
<1>4. Follows(db, FinishStoppedTask(stopTaskSubTasks(d, t), t))
  BY <1>1, <1>3, StopTaskSubTasksFollows, FollowsTransitive, FinishStoppedTaskFollows
<1>5. Follows(db, failTask(d, t))
  BY <1>1, <1>3, FailTaskFollows, FollowsTransitive
<1>6. Follows(db, TransitionTask(d, t, "completed", ""))
  BY <1>1, Names, ThenTransition
<1> QED BY <1>1, <1>2, <1>4, <1>5, <1>6, Zenon

\* A call under way is one of Calls, and so is what it goes on with.
LEMMA CallsTyped ==
  /\ Call("called", 0) \in Calls /\ Call("launch", 0) \in Calls
  /\ \A s \in SubTasks : Call("decide", s) \in Calls
BY DEF Call, Calls

\* One more call.
LEMMA CallsAdded ==
  ASSUME NEW cs \in [Tasks -> SUBSET Calls], NEW t \in Tasks
  PROVE  [cs EXCEPT ![t] = @ \cup {Call("called", 0)}] \in [Tasks -> SUBSET Calls]
BY CallsTyped

\* A call that goes on with what it saw.
LEMMA CallsGoOn ==
  ASSUME cont \in [Tasks -> SUBSET Calls], NEW t \in Tasks, NEW c, NEW next \in SUBSET Calls,
         GoesOn(t, c, next)
  PROVE  cont' \in [Tasks -> SUBSET Calls]
BY DEF GoesOn

\* What a call decides to do next.
LEMMA NextStepTyped ==
  ASSUME NEW d, NEW t
  PROVE  NextStep(d, t) \in SUBSET Calls
BY InFlightSubTasks, CallsTyped DEF NextStep

\* The two outcomes of the dispatch of an Execution that was admitted.
LEMMA DispatchFollows ==
  ASSUME db \in Database, NEW t \in Tasks, run[t].sub \in SubTasks,
         db.exec[run[t].sub].status # "none", DispatchSends(t) \/ DispatchFails(t)
  PROVE  Follows(db, db')
<1> DEFINE s == run[t].sub
           x == db.exec[s]
           r == db.task[TaskOf[s]].robot
<1>1. x \in ExecRow
  BY DatabaseRows
<1>2. \A row \in {[x EXCEPT !.pilot = "start"], [x EXCEPT !.status = "interrupted"],
                   [x EXCEPT !.status = "failed"], [x EXCEPT !.status = "stopped"]} :
        ExecRowFollows(x, row)
  BY <1>1 DEF ExecRow, ExecRowFollows, ExecutionStatus
<1>3. CASE \E row \in {[x EXCEPT !.pilot = "start"], [x EXCEPT !.status = "interrupted"]} :
             db' = [db EXCEPT !.exec[s] = row, !.lock[r] = s]
  <2>1. PICK row \in {[x EXCEPT !.pilot = "start"], [x EXCEPT !.status = "interrupted"]} :
          db' = [db EXCEPT !.exec[s] = row, !.lock[r] = s]
    BY <1>3
  <2>2. ExecRowFollows(x, row)
    BY <1>2
  <2> HIDE DEF r
  <2> QED BY <2>1, <2>2, ExecAndLockUpdated
<1>4. CASE \E row \in {[x EXCEPT !.status = "failed"], [x EXCEPT !.status = "stopped"]} :
             db' = [db EXCEPT !.exec[s] = row]
  <2>1. PICK row \in {[x EXCEPT !.status = "failed"], [x EXCEPT !.status = "stopped"]} :
          db' = [db EXCEPT !.exec[s] = row]
    BY <1>4
  <2>2. ExecRowFollows(x, row)
    BY <1>2
  <2> QED BY <2>1, <2>2, ExecUpdated
<1>5. \/ db' = [db EXCEPT !.exec[s] = [x EXCEPT !.pilot = "start"], !.lock[r] = s]
      \/ db' = [db EXCEPT !.exec[s] = [x EXCEPT !.status = "interrupted"], !.lock[r] = s]
      \/ db' = [db EXCEPT !.exec[s] = [x EXCEPT !.status = "failed"]]
      \/ db' = [db EXCEPT !.exec[s] = [x EXCEPT !.status = "stopped"]]
  BY DEF DispatchSends, DispatchFails, SetPilotExecution, Database
<1> QED BY <1>3, <1>4, <1>5

\* executeTask: robot.run is where AdmitStep is needed.
LEMMA ExecuteGood ==
  ASSUME IInv, NEW t \in Tasks, Execute(t)
  PROVE  Good
<1>0. db \in Database /\ RunsOK(db, run) /\ CallsOK /\ DbOK(db) /\ StepOK(db, db)
      /\ run[t].sub \in SubTasks \cup {0}
  BY SameDbStep DEF IInv, DbOK, RunsOK, RunRow
<1>1. CASE PickSubTask(t)
  <2> DEFINE ready == ListRunnableSubTasks(db, t)
  <2>1. UNCHANGED <<notify, answered>> /\ CallsOK'
    BY <1>0, <1>1 DEF PickSubTask, CallsOK
  <2>2. CASE ready = {}
    <3>1. db' = db /\ run' = [run EXCEPT ![t].pc = "agent"]
      BY <1>1, <2>2 DEF PickSubTask
    <3>2. RunsOK(db, run') /\ StepOK(db, db')
      BY <1>0, <3>1, RunsMoveOn
    <3> QED BY <2>1, <3>2, StepGood
  <2>3. CASE ready # {}
    <3> DEFINE x == Least(ready)
    <3>1. x \in SubTasks
      BY <2>3, RunnableSubTasks
    <3>2. db' = TransitionSubTask(db, x, "running", "")
          /\ run' = [run EXCEPT ![t].pc = "agent", ![t].sub = x]
      BY <1>1, <2>3 DEF PickSubTask
    <3> HIDE DEF x
    <3>3. Follows(db, TransitionSubTask(db, x, "running", ""))
      BY <1>0, <3>1, Names, TransitionSubTaskFollows
    <3>4. StepOK(db, db') /\ RunsOK(db, run')
      BY <1>0, <3>1, <3>2, <3>3, FollowsStep, RunsMoveOn
    <3> QED BY <2>1, <3>4, StepGood
  <2> QED BY <2>2, <2>3
<1>2. CASE RunRobotSkill(t)
  <2> DEFINE s == run[t].sub
             row == [run[t] EXCEPT !.pc = "dispatch"]
  <2>1. StepOK(db, db') /\ s \in SubTasks /\ s # 0
    BY <1>0, <1>2, AdmitStep DEF RunRobotSkill
  <2>2. db'.exec[s].status # "none"
    <3>1. db.exec \in [SubTasks -> ExecRow]
      BY <1>0, DatabaseRows
    <3>2. db'.exec = [db.exec EXCEPT ![s] = [db.exec[s] EXCEPT !.status = "queued"]]
      BY <1>0, <1>2 DEF RunRobotSkill, AdmitRobotExecution, Database
    <3>3. [db.exec[s] EXCEPT !.status = "queued"].status = "queued"
      BY <2>1, <3>1 DEF ExecRow
    <3> QED BY <2>1, <3>1, <3>2, <3>3
  <2>3. RunsOK(db', run) /\ run[t] \in RunRow
    BY <1>0, <2>1, RunsKept DEF RunsOK
  <2>4. row \in RunRow /\ row.sub = s /\ row.pc = "dispatch"
    BY <2>3 DEF RunRow, Phase
  <2>5. run' = [run EXCEPT ![t] = row]
    BY <1>2 DEF RunRobotSkill
  <2>6. RunRowOK(db', row)
    BY <2>1, <2>2, <2>4 DEF RunRowOK
  <2> HIDE DEF row
  <2>7. RunsOK(db', run')
    BY <2>3, <2>5, <2>6, RunsUpdated
  <2>8. CallsOK' /\ UNCHANGED <<notify, answered>>
    BY <1>0, <1>2 DEF RunRobotSkill, CallsOK
  <2>9. Heard'
    BY <1>0, <2>1, <2>8, HeardKept DEF IInv
  <2> QED BY <2>1, <2>7, <2>8, <2>9 DEF Good, IInv, StepOK
<1>3. CASE DispatchSends(t) \/ DispatchFails(t)
  <2> DEFINE s == run[t].sub
  <2>1. s \in SubTasks /\ db.exec[s].status # "none" /\ db.exec[s] \in ExecRow
    BY <1>0, <1>3, DatabaseRows DEF DispatchSends, DispatchFails, RunsOK, RunRowOK
  <2>2. Follows(db, db')
    BY <1>0, <1>3, <2>1, DispatchFollows
  <2>3. left' \in [Limits -> Nat]
    BY <1>0, <1>3, SpendOK, LimitNames DEF DispatchSends, DispatchFails, CallsOK
  <2>4. run' = [run EXCEPT ![t].pc = "agent"]
        /\ UNCHANGED <<cont, res, walk, confirm, notify, avail, online, answered>>
    BY <1>3 DEF DispatchSends, DispatchFails
  <2>5. RunsOK(db, run')
    BY <1>0, <2>4, RunsMoveOn
  <2>6. CallsOK'
    BY <1>0, <2>3, <2>4 DEF CallsOK
  <2> QED BY <1>0, <2>2, <2>4, <2>5, <2>6, FollowsStep, StepGood
<1>4. ASSUME NEW out \in {"ok", "error", "cancelled"}, FinishRun(t, out)
      PROVE  Good
  <2>1. Follows(db, Settled(t, out))
    BY <1>4, SettledFollows DEF FinishRun
  <2>2. StepOK(db, db')
    BY <1>0, <1>4, <2>1, FollowsStep DEF FinishRun
  <2>3. RunsOK(db, run')
    BY <1>0, <1>4, IdleOK, RunsUpdated DEF FinishRun
  <2>4. left' \in [Limits -> Nat]
    BY <1>0, <1>4, SpendOK, LimitNames DEF FinishRun, CallsOK
  <2>5. res' \in Tasks \cup {0}
    BY <1>0, <1>4, ReleasedOK DEF FinishRun, CallsOK
  <2>6. cont' \in [Tasks -> SUBSET Calls]
    BY <1>0, <1>4, CallsAdded DEF FinishRun, CallsOK
  <2>7. CallsOK' /\ UNCHANGED <<notify, answered>>
    BY <1>0, <1>4, <2>4, <2>5, <2>6 DEF FinishRun, CallsOK
  <2> QED BY <2>2, <2>3, <2>7, StepGood
<1> QED BY <1>1, <1>2, <1>3, <1>4 DEF Execute

\* A step that leaves the store alone and moves goroutines and calls only.
LEMMA SameDbGood ==
  ASSUME IInv, db' = db, RunsOK(db, run'), CallsOK', UNCHANGED <<notify, answered>>
  PROVE  Good
BY SameDbStep, StepGood

\* A step that rewrites rows in the allowed way.
LEMMA FollowsGood ==
  ASSUME IInv, Follows(db, db'), RunsOK(db, run'), CallsOK', UNCHANGED <<notify, answered>>
  PROVE  Good
BY FollowsStep, StepGood DEF IInv

\* continueOrFinishTask.
LEMMA ContinueGood ==
  ASSUME IInv, NEW t \in Tasks, ContinueOrFinishTask(t)
  PROVE  Good
<1>0. db \in Database /\ RunsOK(db, run) /\ CallsOK /\ DbOK(db) /\ Follows(db, db)
      /\ res \in Tasks \cup {0}
  BY SameDbStep DEF IInv, DbOK, CallsOK
<1>1. cont' \in [Tasks -> SUBSET Calls] /\ UNCHANGED <<walk, confirm, notify, avail, online, answered, left>>
  <2>1. \E c, next : next \in SUBSET Calls /\ GoesOn(t, c, next)
    BY NextStepTyped, Zenon
    DEF ContinueOrFinishTask, ContinueNotRunning, ContinueCompletes, ContinueLooks,
        ContinueDecides, ContinueLaunches, Called
  <2>2. cont' \in [Tasks -> SUBSET Calls]
    BY <1>0, <2>1, CallsGoOn DEF CallsOK
  <2> QED BY <2>2 DEF ContinueOrFinishTask, ContinueNotRunning, ContinueCompletes, ContinueLooks,
                      ContinueDecides, ContinueLaunches
<1>2. ASSUME res' \in Tasks \cup {0} PROVE CallsOK'
  BY <1>0, <1>1, <1>2 DEF CallsOK
<1>3. CASE ContinueNotRunning(t)
  <2>1. FinishOrSchedule(db, run, res)
    BY <1>3 DEF ContinueNotRunning
  <2>2. StepOK(db, db') /\ RunsOK(db, run') /\ res' \in Tasks \cup {0}
    BY <1>0, <2>1, FinishOrScheduleOK
  <2> QED BY <1>1, <1>2, <2>2, StepGood
<1>4. CASE ContinueCompletes(t)
  <2> DEFINE d == TransitionTask(db, t, "completed", "")
  <2>1. FinishOrSchedule(d, run, Released(res, t))
    BY <1>4 DEF ContinueCompletes
  <2>2. Follows(db, d)
    BY <1>0, Names, TransitionTaskFollows
  <2>3. Released(res, t) \in Tasks \cup {0}
    BY <1>0, ReleasedOK
  <2> HIDE DEF d
  <2>4. StepOK(db, db') /\ RunsOK(db, run') /\ res' \in Tasks \cup {0}
    BY <1>0, <2>1, <2>2, <2>3, FinishOrScheduleOK
  <2> QED BY <1>1, <1>2, <2>4, StepGood
<1>5. CASE ContinueDecides(t)
  <2>1. PICK s \in SubTasks :
          run' = IF run[t].pc = "idle" THEN [run EXCEPT ![t] = At("decide", s)] ELSE run
    BY <1>5 DEF ContinueDecides
  <2>2. RunRowOK(db, At("decide", s))
    BY <2>1, PositionAssumption, AtOK DEF Phase
  <2>3. RunsOK(db, run')
    BY <1>0, <2>1, <2>2, RunsUpdated
  <2>4. db' = db /\ CallsOK'
    BY <1>0, <1>2, <1>5 DEF ContinueDecides
  <2> QED BY <1>1, <2>3, <2>4, SameDbGood
<1>7. CASE ContinueLooks(t)
  <2>1. db' = db /\ CallsOK' /\ RunsOK(db, run')
    BY <1>0, <1>2, <1>7 DEF ContinueLooks
  <2> QED BY <1>1, <2>1, SameDbGood
<1>6. CASE ContinueLaunches(t)
  <2>1. RunsOK(db, run')
    BY <1>0, <1>6, IdleOK, RunsUpdated DEF ContinueLaunches
  <2>2. db' = db /\ res' \in Tasks \cup {0}
    BY <1>0, <1>6 DEF ContinueLaunches, Claimed
  <2> QED BY <1>1, <1>2, <2>1, <2>2, SameDbGood
<1> QED BY <1>3, <1>4, <1>5, <1>6, <1>7 DEF ContinueOrFinishTask

\* OnRobotAvailabilityChanged.
LEMMA RobotAvailableGood ==
  ASSUME IInv, NEW r \in Robots, RobotAvailable(r)
  PROVE  Good
<1>0. db \in Database /\ RunsOK(db, run) /\ CallsOK /\ Follows(db, db)
  BY SameDbStep DEF IInv, DbOK
<1>1. CallsOK' /\ UNCHANGED <<notify, answered>>
  BY <1>0 DEF RobotAvailable, CallsOK
<1>2. \/ db' = Schedule(db) /\ run' = Reserve(db, run)
      \/ db' = db /\ run' = run
  BY DEF RobotAvailable
<1>3. Follows(db, db') /\ RunsOK(db, run')
  BY <1>0, <1>2, ScheduleFollows, ReserveOK
<1> QED BY <1>1, <1>3, FollowsGood

\* The decision and the recovery Runs; only a waiting Execution is answered.
LEMMA DecideGood ==
  ASSUME IInv, NEW t \in Tasks, Decide(t)
  PROVE  Good
<1> DEFINE s == run[t].sub
<1>0. db \in Database /\ Coherent(db) /\ RunsOK(db, run) /\ CallsOK /\ DbOK(db) /\ Follows(db, db)
      /\ res \in Tasks \cup {0} /\ Heard
  BY SameDbStep DEF IInv, DbOK, CallsOK
<1>1. run[t].pc \in {"decide", "replied", "recover"}
  BY DEF Decide, DecideReply, DecideFails, DecideCancelled, ReleaseDecision, RecoveryRevises,
         RecoveryFailsTask, RecoveryDropped, RecoveryErrs
<1>2. s \in SubTasks /\ run[t] \in RunRow
  BY <1>0, <1>1 DEF RunsOK, RunRowOK, RunRow
<1>3. RunsOK(db, [run EXCEPT ![t] = Idle])
  BY <1>0, IdleOK, RunsUpdated
<1>4. CASE DecideReply(t)
  <2>1. CallsOK'
    BY <1>0, <1>2, <1>4 DEF DecideReply, CallsOK
  <2>2. RunsOK(db, run')
    <3>1. RunRowOK(db, [run[t] EXCEPT !.pc = "replied"])
      BY <1>2, PositionAssumption DEF RunRowOK, RunRow, Phase
    <3>2. RunsOK(db, [run EXCEPT ![t].pc = "replied"])
      BY <1>0, <3>1, RunsUpdated
    <3> QED BY <1>3, <1>4, <3>2 DEF DecideReply
  <2>3. Follows(db, db')
    BY <1>0, <1>2, <1>4, PauseRobotDecisionFailureFollows DEF DecideReply
  <2>4. StepOK(db, db')
    BY <1>0, <2>3, FollowsStep
  <2>5. \A x \in answered' : db.exec[x].status # "none" /\ x \in SubTasks
    BY <1>0, <1>2, <1>4 DEF DecideReply, robotDecisionStillCurrent, Heard, CallsOK
  <2>6. notify' = notify /\ \A r \in Robots : notify[r].sub \in SubTasks \cup {0}
    BY <1>0, <1>4 DEF DecideReply, CallsOK, NoteRow
  <2>7. Heard'
    BY <1>0, <2>4, <2>5, <2>6 DEF Heard, StepOK
  <2> QED BY <2>1, <2>2, <2>4, <2>7, RunsKept DEF Good, IInv, StepOK
<1>5. CASE DecideFails(t)
  <2>1. left' \in [Limits -> Nat]
    BY <1>0, <1>5, SpendOK, LimitNames DEF DecideFails, CallsOK
  <2>2. CallsOK' /\ UNCHANGED <<notify, answered>> /\ RunsOK(db, run')
    BY <1>0, <1>3, <1>5, <2>1 DEF DecideFails, CallsOK
  <2>3. Follows(db, db')
    BY <1>0, <1>2, <1>5, PauseRobotDecisionFailureFollows DEF DecideFails
  <2> QED BY <2>2, <2>3, FollowsGood
<1>6. CASE DecideCancelled(t) \/ ReleaseDecision(t) \/ RecoveryDropped(t)
  <2>1. db' = db /\ CallsOK' /\ UNCHANGED <<notify, answered>> /\ RunsOK(db, run')
    BY <1>0, <1>3, <1>6 DEF DecideCancelled, ReleaseDecision, RecoveryDropped, CallsOK
  <2> QED BY <2>1, SameDbGood
<1>7. CASE RecoveryRevises(t)
  <2>1. CallsOK' /\ UNCHANGED <<notify, answered>> /\ RunsOK(db, run')
    BY <1>0, <1>3, <1>7, CallsAdded DEF RecoveryRevises, CallsOK
  <2>2. Follows(db, db')
    BY <1>0, <1>2, <1>7, ApplyFailedRobotRecoveryFollows DEF RecoveryRevises
  <2> QED BY <2>1, <2>2, FollowsGood
<1>8. CASE RecoveryFailsTask(t)
  <2>1. FinishOrSchedule(failPausedTask(db, s), [run EXCEPT ![t] = Idle], Released(res, t))
    BY <1>8 DEF RecoveryFailsTask
  <2>2. Follows(db, failPausedTask(db, s)) /\ Released(res, t) \in Tasks \cup {0}
    BY <1>0, <1>2, FailPausedTaskFollows, ReleasedOK
  <2>3. StepOK(db, db') /\ RunsOK(db, run') /\ res' \in Tasks \cup {0}
    BY <1>0, <1>3, <2>1, <2>2, FinishOrScheduleOK
  <2>4. CallsOK' /\ UNCHANGED <<notify, answered>>
    BY <1>0, <1>8, <2>3 DEF RecoveryFailsTask, CallsOK
  <2> QED BY <2>3, <2>4, StepGood
<1>9. CASE RecoveryErrs(t)
  <2>1. left' \in [Limits -> Nat]
    BY <1>0, <1>9, SpendOK, LimitNames DEF RecoveryErrs, CallsOK
  <2>2. CallsOK' /\ UNCHANGED <<notify, answered>> /\ RunsOK(db, run')
    BY <1>0, <1>3, <1>9, <2>1 DEF RecoveryErrs, CallsOK
  <2>3. Follows(db, db')
    BY <1>0, <1>2, <1>9, UpdateWaitReasonFollows, Names DEF RecoveryErrs
  <2> QED BY <2>2, <2>3, FollowsGood
<1> QED BY <1>4, <1>5, <1>6, <1>7, <1>8, <1>9 DEF Decide

\* Follows, when the notification is consumed: what else was heard stays.
LEMMA ConsumedGood ==
  ASSUME IInv, NEW r \in Robots, Consumed(r), Follows(db, db'), RunsOK(db, run'), answered' = answered,
         cont' \in [Tasks -> SUBSET Calls], res' \in Tasks \cup {0},
         walk' \in [Walkers -> [on : BOOLEAN, todo : SUBSET Tasks]],
         UNCHANGED <<confirm, avail, online, left>>
  PROVE  Good
<1>0. CallsOK /\ Heard /\ DbOK(db)
  BY DEF IInv
<1>1. StepOK(db, db')
  BY <1>0, FollowsStep
<1>2. Quiet \in NoteRow /\ Quiet.sub = 0
  BY DEF Quiet, NoteRow, ExecutionStatus
<1>3. notify' \in [Robots -> NoteRow]
      /\ \A q \in Robots : notify'[q] = IF q = r THEN Quiet ELSE notify[q]
  BY <1>0, <1>2 DEF Consumed, CallsOK
<1>4. CallsOK'
  BY <1>0, <1>3 DEF CallsOK
<1>5. Heard'
  <2>1. \A q \in Robots : notify[q].sub \in SubTasks \cup {0}
    BY <1>0 DEF CallsOK, NoteRow
  <2>2. \A q \in Robots : notify'[q].sub # 0 =>
           notify[q].sub \in SubTasks /\ notify'[q] = notify[q]
           /\ db.exec[notify[q].sub].status # "none" /\ notify[q].status # "none"
           /\ RobotOf(db, notify[q].sub) = q
    BY <1>0, <1>2, <1>3, <2>1 DEF Heard
  <2>3. \A q \in Robots : notify'[q].sub # 0 =>
          /\ db'.exec[notify'[q].sub].status # "none" /\ notify'[q].status # "none"
          /\ RobotOf(db', notify'[q].sub) = q
    BY <1>1, <2>2 DEF StepOK
  <2>4. \A x \in answered' : db'.exec[x].status # "none"
    BY <1>0, <1>1 DEF StepOK, Heard, CallsOK
  <2> QED BY <2>3, <2>4 DEF Heard
<1> QED BY <1>1, <1>4, <1>5, RunsKept DEF Good, IInv, StepOK

\* The two ways in which a stop that is over is settled.
LEMMA FinishStoppingOK ==
  ASSUME NEW e, NEW d, Follows(e, d), NEW s \in SubTasks, FinishStopping(d, s), res \in Tasks \cup {0}
  PROVE  Follows(e, db') /\ res' \in Tasks \cup {0}
<1>1. Follows(e, Converge(SubTaskStopped(d, s)))
  BY SubTaskStoppedFollows, ThenConverge
<1> QED BY <1>1, ConvergedOwnerOK DEF FinishStopping

\* finishConfirmedRobotStop with its propagation.
LEMMA ConfirmedStopOK ==
  ASSUME NEW e, NEW d, Follows(e, d), NEW s \in SubTasks, ConfirmedStop(d, s), CallsOK
  PROVE  /\ Follows(e, db') /\ res' \in Tasks \cup {0}
         /\ walk' \in [Walkers -> [on : BOOLEAN, todo : SUBSET Tasks]]
<1>0. res \in Tasks \cup {0} /\ walk \in [Walkers -> [on : BOOLEAN, todo : SUBSET Tasks]]
  BY DEF CallsOK
<1>1. Follows(e, StopConfirmed(d, s))
  BY StopConfirmedFollows
<1>2. CASE StopConfirmed(d, s).sub[s].status = "stopping"
  <2>1. FinishStopping(StopConfirmed(d, s), s)
        /\ walk' = [walk EXCEPT !["observer"] = [on |-> TRUE, todo |-> Tasks]]
    BY <1>2 DEF ConfirmedStop
  <2>2. Follows(e, db') /\ res' \in Tasks \cup {0}
    BY <1>0, <1>1, <2>1, FinishStoppingOK
  <2> QED BY <1>0, <2>1, <2>2 DEF Walkers
<1>3. CASE StopConfirmed(d, s).sub[s].status # "stopping"
  BY <1>0, <1>1, <1>3 DEF ConfirmedStop
<1> QED BY <1>2, <1>3

\* OnRobotExecutionChanged: what it attaches was heard, hence exists.
LEMMA ObserveGood ==
  ASSUME IInv, NEW r \in Robots, Observe(r)
  PROVE  Good
<1> DEFINE s == notify[r].sub
<1>0. db \in Database /\ RunsOK(db, run) /\ CallsOK /\ Heard /\ res \in Tasks \cup {0}
      /\ cont \in [Tasks -> SUBSET Calls] /\ walk \in [Walkers -> [on : BOOLEAN, todo : SUBSET Tasks]]
  BY DEF IInv, DbOK, CallsOK
<1>1. Consumed(r) /\ s # 0 /\ answered' = answered /\ UNCHANGED <<confirm, avail, online, left>>
  BY DEF Observe, ObserveCompleted, ObserveWaitingAgent, ObserveFailedWhileStopping,
         ObserveFailedAfterAction, ObserveFailedBeforeAction, ObserveInterrupted, ObserveStopped,
         ObserveProgress, Observed
<1>2. s \in SubTasks /\ TaskOf[s] \in Tasks
  BY <1>0, <1>1, PlanAssumption DEF CallsOK, NoteRow
<1>3. db.exec[s].status # "none"
  BY <1>0, <1>1 DEF Heard
<1>4. Follows(db, Seen(r))
  BY <1>0, <1>2, <1>3, AttachFollows DEF Seen
<1>5. \A why \in Reason : Follows(db, pauseRobotSubTask(Seen(r), s, why))
  BY <1>2, <1>4, PauseRobotSubTaskFollows
<1>6. ASSUME FinishStopping(Seen(r), s) PROVE Follows(db, db') /\ res' \in Tasks \cup {0}
  BY <1>0, <1>2, <1>4, <1>6, FinishStoppingOK
<1>7. ASSUME ConfirmedStop(Seen(r), s)
      PROVE  /\ Follows(db, db') /\ res' \in Tasks \cup {0}
             /\ walk' \in [Walkers -> [on : BOOLEAN, todo : SUBSET Tasks]]
  BY <1>0, <1>2, <1>4, <1>7, ConfirmedStopOK
<1>8. RunRowOK(db, At("decide", s)) /\ RunRowOK(db, At("recover", s))
  BY <1>1, <1>2, AtOK DEF Phase
<1>9. RunsOK(db, [run EXCEPT ![TaskOf[s]] = At("decide", s)])
      /\ RunsOK(db, [run EXCEPT ![TaskOf[s]] = At("recover", s)])
  BY <1>0, <1>2, <1>8, RunsUpdated
<1> HIDE DEF s
<1>10. CASE ObserveCompleted(r)
  <2>1. Follows(db, completeRobotSubTask(Seen(r), s))
    BY <1>2, <1>4, CompleteRobotSubTaskFollows
  <2>2. Follows(db, db') /\ res' \in Tasks \cup {0}
    BY <1>0, <1>6, <1>10, <2>1 DEF ObserveCompleted, s
  <2>3. cont' \in [Tasks -> SUBSET Calls] /\ run' = run /\ walk' = walk
    BY <1>0, <1>2, <1>10, CallsAdded DEF ObserveCompleted, s
  <2> QED BY <1>0, <1>1, <2>2, <2>3, ConsumedGood
<1>11. CASE ObserveWaitingAgent(r)
  <2>1. RunsOK(db, run') /\ db' = Seen(r) /\ UNCHANGED <<cont, res, walk>>
    BY <1>0, <1>9, <1>11, Zenon DEF ObserveWaitingAgent, s
  <2> QED BY <1>0, <1>1, <1>4, <2>1, ConsumedGood
<1>12. CASE ObserveFailedWhileStopping(r)
  <2>1. Follows(db, db') /\ res' \in Tasks \cup {0}
    BY <1>0, <1>5, <1>6, <1>12, Names DEF ObserveFailedWhileStopping, s
  <2>2. UNCHANGED <<run, cont, walk>>
    BY <1>12 DEF ObserveFailedWhileStopping
  <2> QED BY <1>0, <1>1, <2>1, <2>2, ConsumedGood
<1>13. CASE ObserveFailedAfterAction(r)
  <2>1. /\ Follows(db, db') /\ res' \in Tasks \cup {0}
        /\ walk' \in [Walkers -> [on : BOOLEAN, todo : SUBSET Tasks]]
    BY <1>0, <1>5, <1>7, <1>13, Names DEF ObserveFailedAfterAction, s
  <2>2. UNCHANGED <<run, cont>>
    BY <1>13 DEF ObserveFailedAfterAction
  <2> QED BY <1>0, <1>1, <2>1, <2>2, ConsumedGood
<1>14. CASE ObserveFailedBeforeAction(r)
  <2> DEFINE e == pauseRobotSubTask(Seen(r), s, "robot_execution_failed")
  <2>1. Follows(db, e)
    BY <1>5, Names
  <2>2. e \in Database
    BY <2>1 DEF Follows
  <2>3. Follows(db, UpdatePausedRobotWaitReason(e, s, "robot_execution_failed", "recovery_running"))
    <3> HIDE DEF e
    <3>1. Follows(e, UpdatePausedRobotWaitReason(e, s, "robot_execution_failed", "recovery_running"))
      BY <1>2, <2>2, UpdateWaitReasonFollows, Names
    <3> QED BY <2>1, <3>1, FollowsTransitive
  <2>4. Follows(db, db')
    BY <1>14, <2>1, <2>3 DEF ObserveFailedBeforeAction, s
  <2>5. RunsOK(db, run') /\ UNCHANGED <<cont, res, walk>>
    BY <1>0, <1>9, <1>14 DEF ObserveFailedBeforeAction, s
  <2> QED BY <1>0, <1>1, <2>4, <2>5, ConsumedGood
<1>15. CASE ObserveInterrupted(r)
  <2>1. Follows(db, db') /\ UNCHANGED <<run, cont, res, walk>>
    BY <1>5, <1>15, Names DEF ObserveInterrupted, s
  <2> QED BY <1>0, <1>1, <2>1, ConsumedGood
<1>16. CASE ObserveStopped(r)
  <2>1. /\ Follows(db, db') /\ res' \in Tasks \cup {0}
        /\ walk' \in [Walkers -> [on : BOOLEAN, todo : SUBSET Tasks]]
    BY <1>0, <1>5, <1>6, <1>7, <1>16, Names DEF ObserveStopped, s
  <2>2. UNCHANGED <<run, cont>>
    BY <1>16 DEF ObserveStopped
  <2> QED BY <1>0, <1>1, <2>1, <2>2, ConsumedGood
<1>17. CASE ObserveProgress(r)
  <2>1. Follows(db, db') /\ UNCHANGED <<run, cont, res, walk>>
    BY <1>4, <1>17 DEF ObserveProgress
  <2> QED BY <1>0, <1>1, <2>1, ConsumedGood
<1> QED BY <1>10, <1>11, <1>12, <1>13, <1>14, <1>15, <1>16, <1>17 DEF Observe

\* An Execution belongs to a Robot.
LEMMA ExecutionRobot ==
  ASSUME NEW d, DbOK(d), NEW s \in SubTasks, d.exec[s].status # "none"
  PROVE  RobotOf(d, s) \in Robots /\ s \in RobotSkills
<1>1. s \in RobotSkills /\ d.task[TaskOf[s]].robot # NoRobot
  BY DEF DbOK, Coherent
<1> QED BY <1>1, DatabaseRows, PlanAssumption DEF DbOK, TaskRow, RobotOf

\* An event is being handled, or the observer called, for an Execution that the store holds.
LEMMA NotifiedGood ==
  ASSUME IInv, StepOK(db, db'), NEW r \in Robots, NEW n \in NoteRow, n.sub # 0,
         db.exec[n.sub].status # "none", n.status # "none", RobotOf(db, n.sub) = r,
         notify' = [notify EXCEPT ![r] = n],
         answered' \subseteq answered, avail' \in SUBSET Robots, left' \in [Limits -> Nat],
         online' \in [Robots -> BOOLEAN], UNCHANGED <<run, cont, res, walk, confirm>>
  PROVE  Good
<1>0. CallsOK /\ Heard /\ RunsOK(db, run)
  BY DEF IInv
<1>3. notify' \in [Robots -> NoteRow] /\ \A q \in Robots : notify'[q] = IF q = r THEN n ELSE notify[q]
  BY <1>0 DEF CallsOK
<1>4. CallsOK'
  BY <1>0, <1>3 DEF CallsOK
<1>5. \A q \in Robots : notify'[q].sub # 0 =>
         /\ notify'[q].sub \in SubTasks /\ db.exec[notify'[q].sub].status # "none"
         /\ notify'[q].status # "none" /\ RobotOf(db, notify'[q].sub) = q
  BY <1>0, <1>3 DEF Heard, CallsOK, NoteRow
<1>6. \A x \in answered' : x \in SubTasks /\ db.exec[x].status # "none"
  BY <1>0 DEF Heard, CallsOK
<1>7. Heard'
  BY <1>5, <1>6 DEF Heard, StepOK
<1> QED BY <1>0, <1>4, <1>7, RunsKept DEF Good, IInv, StepOK

\* The observer is told of a row that is stored.
LEMMA ToldGood ==
  ASSUME IInv, StepOK(db, db'), NEW r \in Robots, NEW s \in SubTasks,
         NEW st \in ExecutionStatus \ {"none"}, NEW safe \in BOOLEAN,
         db.exec[s].status # "none", RobotOf(db, s) = r, Told(r, s, st, safe),
         answered' \subseteq answered, avail' \in SUBSET Robots, left' \in [Limits -> Nat],
         online' \in [Robots -> BOOLEAN], UNCHANGED <<run, cont, res, walk, confirm>>
  PROVE  Good
<1> DEFINE n == [sub |-> s, status |-> st, safe |-> safe, saved |-> TRUE]
<1>1. n \in NoteRow /\ n.sub = s /\ n.status = st /\ s # 0
  BY PositionAssumption DEF NoteRow
<1>2. notify' = [notify EXCEPT ![r] = n]
  BY DEF Told
<1> HIDE DEF n
<1> QED BY <1>1, <1>2, NotifiedGood

\* A Pilot that has an Execution has one that was admitted.
LEMMA HasBegun ==
  ASSUME IInv, NEW s \in SubTasks, db.exec[s].pilot # "nothing"
  PROVE  db.exec[s].status # "none"
BY DEF IInv, DbOK, Coherent

\* What an event says of its Execution.
LEMMA HandlesGood ==
  ASSUME IInv, StepOK(db, db'), NEW s \in SubTasks,
         NEW st \in ExecutionStatus \ {"none"}, NEW safe \in BOOLEAN,
         db.exec[s].status # "none", Handles(s, st, safe),
         answered' \subseteq answered, left' \in [Limits -> Nat],
         UNCHANGED <<run, cont, res, walk, confirm, avail, online>>
  PROVE  Good
<1> DEFINE r == RobotOf(db, s)
           n == [sub |-> s, status |-> Projected(db.exec[s].status, st), safe |-> safe,
                 saved |-> FALSE]
<1>1. db.exec[s].status \in ExecutionStatus
  BY DatabaseRows DEF IInv, DbOK, ExecRow
<1>2. Projected(db.exec[s].status, st) \in ExecutionStatus \ {"none"}
  BY <1>1 DEF Projected
<1>3. n \in NoteRow /\ n.sub = s /\ n.status # "none" /\ s # 0
  BY <1>2, PositionAssumption DEF NoteRow
<1>4. notify' = [notify EXCEPT ![r] = n] /\ r \in Robots /\ RobotOf(db, n.sub) = r
  BY <1>3, ExecutionRobot DEF Handles, IInv
<1> HIDE DEF n, r
<1>5. avail' \in SUBSET Robots /\ online' \in [Robots -> BOOLEAN]
  BY DEF IInv, CallsOK
<1> QED BY <1>3, <1>4, <1>5, NotifiedGood

\* The events of a Pilot.
LEMMA PilotGood ==
  ASSUME IInv, NEW s \in SubTasks, Pilot(s)
  PROVE  Good
<1>0. DbOK(db) /\ db \in Database /\ CallsOK /\ RunsOK(db, run) /\ StepOK(db, db)
      /\ db.exec[s] \in ExecRow
  BY SameDbStep, DatabaseRows DEF IInv, DbOK
<1>1. left' \in [Limits -> Nat]
  BY <1>0, SpendOK, LimitNames
  DEF Pilot, PilotStarts, PilotActs, PilotAsks, PilotResolves, PilotCompletes, PilotFails,
      PilotStops, PilotInterrupts, CallsOK
<1>2. ASSUME NEW st \in TerminalWork, NEW safe \in BOOLEAN, EndEvent(s, st, safe),
             db.exec[s].status # "none"
      PROVE  Good
  <2> DEFINE row == [db.exec[s] EXCEPT !.pilot = st]
  <2>1. ExecRowFollows(db.exec[s], row) /\ db' = [db EXCEPT !.exec[s] = row]
    BY <1>0, <1>2 DEF ExecRow, ExecRowFollows, EndEvent
  <2> HIDE DEF row
  <2>2. StepOK(db, db')
    BY <1>0, <2>1, ExecUpdated, FollowsStep
  <2>3. st \in ExecutionStatus \ {"none"}
    BY DEF TerminalWork, ExecutionStatus
  <2> QED BY <1>1, <1>2, <2>2, <2>3, HandlesGood DEF EndEvent
<1>3. ASSUME NEW st \in ExecutionStatus \ {"none"}, Event(s, st), db.exec[s].status # "none",
             answered' \subseteq answered
      PROVE  Good
  <2>1. db.exec[s].safe \in BOOLEAN
    BY <1>0 DEF ExecRow
  <2> QED BY <1>0, <1>1, <1>3, <2>1, HandlesGood DEF Event
<1>4. {"running", "waiting_agent", "interrupted"} \subseteq ExecutionStatus \ {"none"}
      /\ TerminalWork = {"completed", "failed", "stopped"}
  BY DEF ExecutionStatus, ActiveExecution, TerminalWork
<1>5. CASE PilotActs(s)
  <2>1. PICK p \in {"maybe", "started"} : db' = [db EXCEPT !.exec[s].phys = p]
    BY <1>5 DEF PilotActs
  <2> DEFINE row == [db.exec[s] EXCEPT !.phys = p]
  <2>2. ExecRowFollows(db.exec[s], row) /\ db' = [db EXCEPT !.exec[s] = row]
    BY <1>0, <2>1 DEF ExecRow, ExecRowFollows
  <2> HIDE DEF row
  <2>3. Follows(db, db')
    BY <1>0, <2>2, ExecUpdated
  <2>4. CallsOK' /\ UNCHANGED <<notify, answered>> /\ RunsOK(db, run')
    BY <1>0, <1>5 DEF PilotActs, CallsOK
  <2> QED BY <2>3, <2>4, FollowsGood
<1>6. CASE ~PilotActs(s)
  <2>1. db.exec[s].status # "none"
    BY <1>0, <1>6, HasBegun
    DEF IInv, Pilot, PilotStarts, PilotAsks, PilotResolves, PilotCompletes, PilotFails,
        PilotStops, PilotInterrupts, CanReport, AtPilot
  <2>2. CASE PilotStarts(s) \/ PilotAsks(s) \/ PilotResolves(s) \/ PilotInterrupts(s)
    <3>1. answered' \subseteq answered
      BY <2>2 DEF PilotStarts, PilotAsks, PilotResolves, PilotInterrupts
    <3>2. \/ Event(s, "running") \/ Event(s, "waiting_agent") \/ Event(s, "interrupted")
      BY <2>2 DEF PilotStarts, PilotAsks, PilotResolves, PilotInterrupts
    <3> QED BY <1>3, <1>4, <2>1, <3>1, <3>2
  <2>3. CASE PilotCompletes(s) \/ PilotFails(s) \/ PilotStops(s)
    <3>1. \E st \in TerminalWork, safe \in BOOLEAN : EndEvent(s, st, safe)
      BY <1>0, <1>4, <2>3 DEF PilotCompletes, PilotFails, PilotStops, ExecRow
    <3> QED BY <1>2, <2>1, <3>1
  <2> QED BY <1>6, <2>2, <2>3 DEF Pilot
<1> QED BY <1>5, <1>6

\* The row is saved as the event was projected.
LEMMA SaveReportedGood ==
  ASSUME IInv, NEW r \in Robots, SaveReported(r)
  PROVE  Good
<1> DEFINE n == notify[r]
           s == n.sub
           row == [db.exec[s] EXCEPT !.status = n.status, !.safe = n.safe]
           p == IF n.status \in TerminalWork THEN 0
                ELSE IF n.status = "interrupted" THEN s ELSE db.lock[r]
           m == [n EXCEPT !.saved = TRUE]
<1>0. DbOK(db) /\ db \in Database /\ CallsOK /\ RunsOK(db, run) /\ n \in NoteRow /\ s # 0
      /\ db.lock \in [Robots -> SubTasks \cup {0}]
  BY DatabaseRows DEF IInv, DbOK, CallsOK, SaveReported
<1>1. s \in SubTasks /\ db.exec[s].status # "none" /\ n.status # "none" /\ db.exec[s] \in ExecRow
      /\ RobotOf(db, s) = r
  BY <1>0, DatabaseRows DEF IInv, Heard, NoteRow
<1>2. ExecRowFollows(db.exec[s], row)
  BY <1>0, <1>1 DEF ExecRow, ExecRowFollows, NoteRow
<1>3. p \in SubTasks \cup {0}
  BY <1>0, <1>1
<1>4. db' = [db EXCEPT !.exec[s] = row, !.lock[r] = p]
  BY DEF SaveReported
<1>5. m \in NoteRow /\ m.sub = s /\ m.status = n.status /\ notify' = [notify EXCEPT ![r] = m]
  BY <1>0 DEF SaveReported, NoteRow
<1>6. UNCHANGED <<run, cont, res, walk, confirm, online, answered, left>> /\ avail' \in SUBSET Robots
  BY <1>0 DEF SaveReported, CallsOK
<1> HIDE DEF n, s, row, p, m
<1>7. StepOK(db, db')
  BY <1>0, <1>1, <1>2, <1>3, <1>4, ExecAndLockUpdated, FollowsStep
<1>8. left' \in [Limits -> Nat] /\ online' \in [Robots -> BOOLEAN] /\ answered' \subseteq answered
  BY <1>0, <1>6 DEF CallsOK
<1> QED BY <1>0, <1>1, <1>5, <1>6, <1>7, <1>8, NotifiedGood

\* A pointer that was read before somebody else set it.
LEMMA SaveStalePointerGood ==
  ASSUME IInv, NEW r \in Robots, SaveStalePointer(r)
  PROVE  Good
<1>0. db \in Database /\ CallsOK /\ RunsOK(db, run)
  BY DEF IInv, DbOK
<1>1. PICK p \in SubTasks \cup {0} : db' = [db EXCEPT !.lock[r] = p]
  BY DEF SaveStalePointer
<1> DEFINE L == [db.lock EXCEPT ![r] = p]
<1>2. L \in [Robots -> SubTasks \cup {0}] /\ db' = [db EXCEPT !.lock = L]
  BY <1>0, <1>1, LockTyped
<1> HIDE DEF L
<1>3. Follows(db, db')
  BY <1>0, <1>2, LocksUpdated
<1>4. left' \in [Limits -> Nat]
  BY <1>0, SpendOK, LimitNames DEF SaveStalePointer, CallsOK
<1>5. CallsOK' /\ UNCHANGED <<notify, answered>> /\ RunsOK(db, run')
  BY <1>0, <1>4 DEF SaveStalePointer, CallsOK
<1> QED BY <1>3, <1>5, FollowsGood

\* Reconcile with nothing to correct clears one pointer at most.
LEMMA ReconcileNoneFollows ==
  ASSUME IInv, NEW r \in Robots, ReconcileNone(r)
  PROVE  Follows(db, db')
<1> DEFINE p == IF db.lock[r] # 0 /\ db.exec[db.lock[r]].status \in TerminalWork
                THEN 0 ELSE db.lock[r]
           L == [db.lock EXCEPT ![r] = p]
<1>0. db \in Database /\ db.lock \in [Robots -> SubTasks \cup {0}]
  BY DatabaseRows DEF IInv, DbOK
<1>1. db' = [db EXCEPT !.lock = L] /\ p \in SubTasks \cup {0}
  BY <1>0 DEF ReconcileNone
<1> HIDE DEF p
<1>2. L \in [Robots -> SubTasks \cup {0}]
  BY <1>0, <1>1, LockTyped
<1> HIDE DEF L
<1> QED BY <1>0, <1>1, <1>2, LocksUpdated

\* A correction rewrites one Execution row, and one pointer.
LEMMA ReconcileFollows ==
  ASSUME IInv, NEW r \in Robots, NEW s \in SubTasks,
         ReconcileStatus(r, s) \/ ReconcileMissing(r, s) \/ ReconcileEnd(r, s)
  PROVE  Follows(db, db')
<1> DEFINE x == db.exec[s]
<1>0. db \in Database /\ x \in ExecRow /\ db.lock \in [Robots -> SubTasks \cup {0}]
  BY DatabaseRows DEF IInv, DbOK
<1>2. CASE ReconcileStatus(r, s)
  <2>1. PICK row \in {[x EXCEPT !.status = "running", !.pilot = "start"],
                      [x EXCEPT !.status = "waiting_agent", !.pilot = "start"],
                      [x EXCEPT !.status = "stopping"]} :
          db' = [db EXCEPT !.exec[s] = row]
    BY <1>2 DEF ReconcileStatus
  <2>2. x.status # "none"
    BY <1>2 DEF ReconcileStatus, ActiveExecution
  <2>3. ExecRowFollows(x, row)
    BY <1>0, <2>1, <2>2 DEF ExecRow, ExecRowFollows, ExecutionStatus, ActiveExecution
  <2> QED BY <1>0, <2>1, <2>3, ExecUpdated
<1>3. CASE ReconcileMissing(r, s)
  <2> DEFINE row == [x EXCEPT !.status = "interrupted",
                              !.pilot = IF AtPilot(s) THEN "nothing" ELSE x.pilot]
  <2>1. db' = [db EXCEPT !.exec[s] = row, !.lock[r] = s] /\ x.status # "none"
    BY <1>3 DEF ReconcileMissing, ActiveExecution
  <2>2. ExecRowFollows(x, row)
    BY <1>0, <2>1 DEF ExecRow, ExecRowFollows, ExecutionStatus, AtPilot
  <2> HIDE DEF row
  <2> QED BY <1>0, <2>1, <2>2, ExecAndLockUpdated
<1>4. CASE ReconcileEnd(r, s)
  <2> DEFINE p == IF db.lock[r] = s THEN 0 ELSE db.lock[r]
  <2>1. PICK safe \in BOOLEAN :
          db' = [db EXCEPT !.exec[s] = [x EXCEPT !.status = x.pilot, !.safe = safe],
                           !.lock[r] = p]
    BY <1>4 DEF ReconcileEnd
  <2> DEFINE row == [x EXCEPT !.status = x.pilot, !.safe = safe]
  <2>2. x.status # "none" /\ x.pilot \in TerminalWork /\ p \in SubTasks \cup {0}
    BY <1>0, <1>4, HasBegun DEF ReconcileEnd, IInv, TerminalWork
  <2>3. ExecRowFollows(x, row)
    BY <1>0, <2>2 DEF ExecRow, ExecRowFollows, ExecutionStatus, TerminalWork
  <2>4. db' = [db EXCEPT !.exec[s] = row, !.lock[r] = p]
    BY <2>1
  <2> HIDE DEF row, p
  <2> QED BY <1>0, <2>2, <2>3, <2>4, ExecAndLockUpdated
<1> QED BY <1>2, <1>3, <1>4

\* A Pilot that goes, or comes and is reconciled.
LEMMA SessionGood ==
  ASSUME IInv, NEW r \in Robots, PilotOffline(r) \/ PilotOnline(r)
  PROVE  Good
<1>0. DbOK(db) /\ db \in Database /\ CallsOK /\ RunsOK(db, run)
  BY DEF IInv, DbOK
<1>1. online' \in [Robots -> BOOLEAN]
  BY <1>0 DEF PilotOffline, PilotOnline, CallsOK
<1>2. CASE PilotOffline(r)
  <2>1. left' \in [Limits -> Nat]
    BY <1>0, <1>2, SpendOK, LimitNames DEF PilotOffline, CallsOK
  <2>2. db' = db /\ RunsOK(db, run') /\ CallsOK' /\ UNCHANGED <<notify, answered>>
    BY <1>0, <1>1, <1>2, <2>1 DEF PilotOffline, CallsOK
  <2> QED BY <2>2, SameDbGood
<1>3. CASE PilotOnline(r)
  <2>1. UNCHANGED <<run, cont, res, walk, confirm, answered>>
    BY <1>3 DEF PilotOnline
  <2>2. ASSUME Follows(db, db'), notify' = notify, avail' \in SUBSET Robots, left' = left
        PROVE  Good
    <3>1. CallsOK' /\ RunsOK(db, run')
      BY <1>0, <1>1, <2>1, <2>2 DEF CallsOK
    <3> QED BY <2>1, <2>2, <3>1, FollowsGood
  <2>3. CASE ReconcileNone(r)
    <3>1. notify' = notify /\ avail' \in SUBSET Robots /\ left' = left
      BY <1>0, <2>3 DEF ReconcileNone, CallsOK
    <3>2. Follows(db, db')
      BY <2>3, ReconcileNoneFollows
    <3> QED BY <2>2, <3>1, <3>2
  <2>4. ASSUME NEW s \in SubTasks, ReconcileStatus(r, s) PROVE Good
    <3>1. notify' = notify /\ avail' \in SUBSET Robots /\ left' = left
      BY <1>0, <2>4 DEF ReconcileStatus, CallsOK
    <3>2. Follows(db, db')
      BY <2>4, ReconcileFollows
    <3> QED BY <2>2, <3>1, <3>2
  <2>5. ASSUME NEW s \in SubTasks, ReconcileMissing(r, s) PROVE Good
    <3>1. avail' \in SUBSET Robots /\ left' \in [Limits -> Nat]
      BY <1>0, <2>5, SpendOK, LimitNames DEF ReconcileMissing, CallsOK
    <3>2. StepOK(db, db')
      BY <1>0, <2>5, ReconcileFollows, FollowsStep
    <3>3. db.exec[s].status # "none" /\ db.exec[s].safe \in BOOLEAN
          /\ "interrupted" \in ExecutionStatus \ {"none"}
      BY <1>0, <2>5, DatabaseRows DEF ReconcileMissing, ActiveExecution, ExecRow, ExecutionStatus
    <3> QED BY <1>1, <2>1, <2>5, <3>1, <3>2, <3>3, ToldGood DEF ReconcileMissing
  <2>6. ASSUME NEW s \in SubTasks, ReconcileEnd(r, s) PROVE Good
    <3>1. avail' \in SUBSET Robots /\ left' \in [Limits -> Nat]
      BY <1>0, <2>6 DEF ReconcileEnd, CallsOK
    <3>2. StepOK(db, db')
      BY <1>0, <2>6, ReconcileFollows, FollowsStep
    <3>3. db.exec[s].status # "none" /\ RobotOf(db, s) = r
      BY <2>6, HasBegun DEF ReconcileEnd, IInv, TerminalWork
    <3>4. db.exec[s].pilot \in ExecutionStatus \ {"none"}
      BY <2>6 DEF ReconcileEnd, TerminalWork, ExecutionStatus
    <3>5. \E safe \in BOOLEAN : Told(r, s, db.exec[s].pilot, safe)
      BY <2>6 DEF ReconcileEnd
    <3> QED BY <1>1, <2>1, <3>1, <3>2, <3>3, <3>4, <3>5, ToldGood
  <2> QED BY <1>3, <2>3, <2>4, <2>5, <2>6 DEF PilotOnline
<1> QED BY <1>2, <1>3

\* robot.stop beside the Workflow.
LEMMA StopExecutionGood ==
  ASSUME IInv, NEW s \in SubTasks, StopExecution(s)
  PROVE  Good
<1> DEFINE r == RobotOf(db, s)
           x == db.exec[s]
<1>0. DbOK(db) /\ db \in Database /\ CallsOK /\ RunsOK(db, run)
  BY DEF IInv, DbOK
<1>1. x.status # "none" /\ x \in ExecRow
  BY <1>0, DatabaseRows DEF StopExecution
<1>2. r \in Robots
  BY <1>0, <1>1, ExecutionRobot
<1>3. left' \in [Limits -> Nat] /\ UNCHANGED <<run, cont, res, walk, confirm, avail, online, answered>>
  BY <1>0, SpendOK, LimitNames DEF StopExecution, CallsOK
<1>4. ASSUME NEW row \in {StopSent(x), [x EXCEPT !.status = "interrupted"]},
             db' = [db EXCEPT !.exec[s] = row]
      PROVE  Follows(db, db')
  <2>1. ExecRowFollows(x, row)
    BY <1>1, StopSentRow DEF ExecRow, ExecRowFollows, ExecutionStatus
  <2> QED BY <1>0, <1>4, <2>1, ExecUpdated
<1>5. CASE db' = [db EXCEPT !.exec[s] = StopSent(x)] /\ notify' = notify
  <2>1. CallsOK' /\ RunsOK(db, run')
    BY <1>0, <1>3, <1>5 DEF CallsOK
  <2> QED BY <1>3, <1>4, <1>5, <2>1, FollowsGood
<1>6. CASE db' = [db EXCEPT !.exec[s].status = "interrupted"] /\ Told(r, s, "interrupted", x.safe)
  <2>1. StepOK(db, db')
    BY <1>0, <1>4, <1>6, FollowsStep
  <2>2. avail' \in SUBSET Robots /\ online' \in [Robots -> BOOLEAN] /\ answered' \subseteq answered
        /\ "interrupted" \in ExecutionStatus \ {"none"} /\ x.safe \in BOOLEAN
    BY <1>0, <1>1, <1>3 DEF CallsOK, ExecutionStatus, ExecRow
  <2>3. RobotOf(db, s) = r
    OBVIOUS
  <2> HIDE DEF r, x
  <2> QED BY <1>1, <1>2, <1>3, <1>6, <2>1, <2>2, <2>3, ToldGood DEF x
<1> QED BY <1>5, <1>6 DEF StopExecution

\* cancelTaskAttempt.
LEMMA CancelledOK ==
  ASSUME NEW d, NEW e, NEW rs, RunsOK(e, rs), NEW t \in Tasks
  PROVE  RunsOK(e, Cancelled(d, rs, t))
<1>1. RunRowOK(e, [rs[t] EXCEPT !.cancelled = TRUE])
  BY DEF RunsOK, RunRowOK, RunRow
<1>2. RunsOK(e, [rs EXCEPT ![t].cancelled = TRUE])
  BY <1>1, RunsUpdated
<1> QED BY <1>2 DEF Cancelled

\* stopWorkflowTasks.
LEMMA WalkGood ==
  ASSUME IInv, NEW w \in Walkers, WalkTask(w) \/ WalkEnd(w)
  PROVE  Good
<1>0. db \in Database /\ Coherent(db) /\ CallsOK /\ RunsOK(db, run) /\ res \in Tasks \cup {0}
      /\ walk \in [Walkers -> [on : BOOLEAN, todo : SUBSET Tasks]]
  BY DEF IInv, DbOK, CallsOK
<1>1. walk' \in [Walkers -> [on : BOOLEAN, todo : SUBSET Tasks]]
  <2> DEFINE row == walk[w]
  <2>0. row \in [on : BOOLEAN, todo : SUBSET Tasks]
    BY <1>0
  <2>1. \A S \in SUBSET Tasks : [row EXCEPT !.todo = S] \in [on : BOOLEAN, todo : SUBSET Tasks]
    BY <2>0
  <2>2. [row EXCEPT !.on = FALSE] \in [on : BOOLEAN, todo : SUBSET Tasks]
    BY <2>0
  <2>3. CASE WalkTask(w)
    <3> DEFINE S == row.todo \ {Least(row.todo)}
               new == [row EXCEPT !.todo = S]
    <3>1. new \in [on : BOOLEAN, todo : SUBSET Tasks]
      BY <2>0, <2>1
    <3>2. walk' = [walk EXCEPT ![w] = new]
      BY <2>3 DEF WalkTask
    <3> HIDE DEF new
    <3> QED BY <1>0, <3>1, <3>2
  <2>4. CASE WalkEnd(w)
    <3> DEFINE new == [row EXCEPT !.on = FALSE]
    <3>1. walk' = [walk EXCEPT ![w] = new]
      BY <2>4 DEF WalkEnd
    <3> HIDE DEF new
    <3> QED BY <1>0, <2>2, <3>1 DEF new
  <2> QED BY <2>3, <2>4
<1>2. CASE WalkTask(w)
  <2> DEFINE t == Least(walk[w].todo)
  <2>1. t \in Tasks
    BY <1>0, <1>2, LeastIsMember, PositionAssumption DEF WalkTask
  <2>2. run' = Cancelled(db, run, t) /\ db' = StopTask(db, t)
    BY <1>2 DEF WalkTask
  <2> HIDE DEF t
  <2>3. RunsOK(db, run') /\ Follows(db, db')
    BY <1>0, <2>1, <2>2, CancelledOK, StopTaskFollows
  <2>4. CallsOK' /\ UNCHANGED <<notify, answered>>
    BY <1>0, <1>1, <1>2 DEF WalkTask, CallsOK
  <2> QED BY <2>3, <2>4, FollowsGood
<1>3. CASE WalkEnd(w)
  <2>1. Follows(db, db') /\ res' \in Tasks \cup {0}
    BY <1>0, <1>3, ConvergeFollows, ConvergedOwnerOK DEF WalkEnd
  <2>2. CallsOK' /\ UNCHANGED <<notify, answered>> /\ RunsOK(db, run')
    BY <1>0, <1>1, <1>3, <2>1 DEF WalkEnd, CallsOK
  <2> QED BY <2>1, <2>2, FollowsGood
<1> QED BY <1>2, <1>3

\* ConfirmOperatorStop clears the pointer only if it names the confirmed Execution.
LEMMA ConfirmTargetGood ==
  ASSUME IInv, ConfirmTarget
  PROVE  Good
<1> DEFINE s == Least(confirm.todo)
           r == RobotOf(db, s)
           d == [db EXCEPT !.exec[s] = [@ EXCEPT !.status = "stopped", !.safe = TRUE, !.word = TRUE],
                           !.lock[r] = IF @ = s THEN 0 ELSE @]
<1>0. DbOK(db) /\ db \in Database /\ CallsOK /\ RunsOK(db, run) /\ res \in Tasks \cup {0}
      /\ walk \in [Walkers -> [on : BOOLEAN, todo : SUBSET Tasks]]
      /\ confirm \in [on : BOOLEAN, todo : SUBSET SubTasks]
      /\ avail \in SUBSET Robots
  BY DEF IInv, DbOK, CallsOK
<1>1. s \in SubTasks
  BY <1>0, LeastIsMember, PositionAssumption DEF ConfirmTarget
<1>2. UNCHANGED <<run, cont, notify, online, answered, left>>
  BY DEF ConfirmTarget
<1>3. confirm' \in [on : BOOLEAN, todo : SUBSET SubTasks]
  <2>1. [confirm EXCEPT !.todo = @ \ {s}] \in [on : BOOLEAN, todo : SUBSET SubTasks]
    <3> HIDE DEF s
    <3> QED BY <1>0
  <2>2. [on |-> FALSE, todo |-> {}] \in [on : BOOLEAN, todo : SUBSET SubTasks]
    OBVIOUS
  <2>3. \/ confirm' = [confirm EXCEPT !.todo = @ \ {s}]
        \/ confirm' = [on |-> FALSE, todo |-> {}]
    BY DEF ConfirmTarget
  <2> QED BY <2>1, <2>2, <2>3, Zenon
<1>4. CASE db.exec[s].status \notin Confirmable
  <2>1. UNCHANGED <<db, res, walk, avail>>
    BY <1>4 DEF ConfirmTarget
  <2>2. CallsOK' /\ RunsOK(db, run')
    BY <1>0, <1>2, <1>3, <2>1 DEF CallsOK
  <2> QED BY <1>2, <2>1, <2>2, SameDbGood
<1>5. CASE db.exec[s].status \in Confirmable
  <2> DEFINE row == [db.exec[s] EXCEPT !.status = "stopped", !.safe = TRUE, !.word = TRUE]
             p == IF db.lock[r] = s THEN 0 ELSE db.lock[r]
  <2>1. db.exec[s].status # "none" /\ db.exec[s] \in ExecRow
    BY <1>0, <1>1, <1>5, DatabaseRows DEF Confirmable
  <2>2. r \in Robots
    BY <1>0, <1>1, <2>1, ExecutionRobot
  <2>3. ExecRowFollows(db.exec[s], row)
    <3> HIDE DEF s
    <3> QED BY <2>1 DEF ExecRow, ExecRowFollows, ExecutionStatus
  <2>4. d = [db EXCEPT !.exec[s] = row, !.lock[r] = p]
    OBVIOUS
  <2>5. IF d.sub[s].status = "stopping" THEN FinishStopping(d, s) /\ walk' = walk
                                         ELSE ConfirmedStop(d, s)
    BY <1>5 DEF ConfirmTarget
  <2>6. avail' = IF db.lock[r] = s /\ online[r] THEN avail \cup {r} ELSE avail
    BY <1>5 DEF ConfirmTarget
  <2> HIDE DEF d, row, s
  <2>7. p \in SubTasks \cup {0}
    BY <1>0, <1>1, <2>2, DatabaseRows
  <2> HIDE DEF p
  <2>8. Follows(db, d)
    BY <1>0, <1>1, <2>3, <2>4, <2>7, ExecAndLockUpdated
  <2>9. d \in Database /\ Follows(d, d)
    BY <2>8, FollowsReflexive DEF Follows
  <2>10. /\ Follows(d, db') /\ res' \in Tasks \cup {0}
         /\ walk' \in [Walkers -> [on : BOOLEAN, todo : SUBSET Tasks]]
    BY <1>0, <1>1, <2>5, <2>9, FinishStoppingOK, ConfirmedStopOK
  <2>11. StepOK(db, db')
    BY <1>0, <2>8, <2>10, FollowsTransitive, FollowsStep
  <2>12. avail' \in SUBSET Robots
    BY <1>0, <2>2, <2>6
  <2>13. CallsOK' /\ RunsOK(db, run')
    BY <1>0, <1>2, <1>3, <2>10, <2>12 DEF CallsOK
  <2> QED BY <1>2, <2>11, <2>13, StepGood
<1> QED BY <1>4, <1>5

\* The rest of ConfirmWorkflowStop.
LEMMA ConfirmEndGood ==
  ASSUME IInv, ConfirmEnd
  PROVE  Good
<1>0. db \in Database /\ CallsOK /\ RunsOK(db, run) /\ Follows(db, db)
      /\ walk \in [Walkers -> [on : BOOLEAN, todo : SUBSET Tasks]]
      /\ confirm \in [on : BOOLEAN, todo : SUBSET SubTasks]
  BY SameDbStep DEF IInv, DbOK, CallsOK
<1>1. Follows(db, TransitionWorkflow(db, "stopping", ""))
  BY <1>0, TransitionWorkflowFollows, Names
<1>2. Follows(db, db')
  BY <1>0, <1>1 DEF ConfirmEnd
<1>3. [walk EXCEPT !["request"] = [on |-> TRUE, todo |-> Tasks]]
        \in [Walkers -> [on : BOOLEAN, todo : SUBSET Tasks]]
  BY <1>0 DEF Walkers
<1>4. walk' \in {walk, [walk EXCEPT !["request"] = [on |-> TRUE, todo |-> Tasks]]}
  BY Zenon DEF ConfirmEnd
<1>5. walk' \in [Walkers -> [on : BOOLEAN, todo : SUBSET Tasks]]
  BY <1>0, <1>3, <1>4, Zenon
<1>6. confirm' \in [on : BOOLEAN, todo : SUBSET SubTasks]
  <2>1. confirm' = [confirm EXCEPT !.on = FALSE]
    BY DEF ConfirmEnd
  <2> QED BY <1>0, <2>1
<1>7. CallsOK' /\ UNCHANGED <<notify, answered>> /\ RunsOK(db, run')
  BY <1>0, <1>5, <1>6 DEF ConfirmEnd, CallsOK
<1> QED BY <1>2, <1>7, FollowsGood

\* The requests of the user.
LEMMA UserGood ==
  ASSUME IInv, User
  PROVE  Good
<1>0. db \in Database /\ Coherent(db) /\ CallsOK /\ RunsOK(db, run) /\ Follows(db, db) /\ DbOK(db)
      /\ walk \in [Walkers -> [on : BOOLEAN, todo : SUBSET Tasks]]
      /\ confirm \in [on : BOOLEAN, todo : SUBSET SubTasks] /\ left \in [Limits -> Nat]
  BY SameDbStep DEF IInv, DbOK, CallsOK
<1>1. CASE PauseWorkflow
  <2>1. left' \in [Limits -> Nat]
    BY <1>0, <1>1, SpendOK, LimitNames DEF PauseWorkflow
  <2>2. Follows(db, db')
    BY <1>0, <1>1, TransitionWorkflowFollows, Names DEF PauseWorkflow
  <2>3. CallsOK' /\ UNCHANGED <<notify, answered>> /\ RunsOK(db, run')
    BY <1>0, <1>1, <2>1 DEF PauseWorkflow, CallsOK
  <2> QED BY <2>2, <2>3, FollowsGood
<1>2. CASE ResumeWorkflow
  <2> DEFINE S == Resumable(db, run)
             w == TransitionWorkflow(db, "running", "")
             d == ResumedTasks(w, S)
             launched == [t \in Tasks |-> IF t \in S THEN At("pick", 0) ELSE run[t]]
  <2>1. db' = Schedule(d) /\ run' = Reserve(d, launched)
        /\ UNCHANGED <<cont, res, walk, confirm, notify, avail, online, answered, left>>
    BY <1>2 DEF ResumeWorkflow
  <2>2. Follows(db, w) /\ w \in Database
    BY <1>0, TransitionWorkflowFollows, Names DEF Follows
  <2>3. w.task = db.task
    BY <1>0 DEF TransitionWorkflow, Database
  <2>4. \A t \in S : t \in Tasks => w.task[t].status = "paused"
    BY <2>3 DEF Resumable
  <2>5. RunsOK(db, launched)
    BY <1>0, IdleOK DEF RunsOK, RunRowOK
  <2> HIDE DEF S, w, launched
  <2>6. Follows(db, d) /\ d \in Database
    BY <2>2, <2>4, ResumedTasksFollow, FollowsTransitive DEF Follows
  <2> HIDE DEF d
  <2>7. Follows(db, db') /\ RunsOK(db, run')
    BY <2>1, <2>5, <2>6, ScheduleFollows, FollowsTransitive, ReserveOK
  <2>8. CallsOK'
    BY <1>0, <2>1 DEF CallsOK
  <2> QED BY <2>1, <2>7, <2>8, FollowsGood
<1>3. CASE StopWorkflow
  <2>1. left' \in [Limits -> Nat]
    BY <1>0, <1>3, SpendOK, LimitNames DEF StopWorkflow
  <2>2. Follows(db, db')
    BY <1>0, <1>3, TransitionWorkflowFollows, Names DEF StopWorkflow
  <2>3. walk' \in [Walkers -> [on : BOOLEAN, todo : SUBSET Tasks]]
    BY <1>0, <1>3 DEF StopWorkflow, Walkers
  <2>4. CallsOK' /\ UNCHANGED <<notify, answered>> /\ RunsOK(db, run')
    BY <1>0, <1>3, <2>1, <2>3 DEF StopWorkflow, CallsOK
  <2> QED BY <2>2, <2>4, FollowsGood
<1>4. CASE ConfirmWorkflowStop
  <2>1. left' \in [Limits -> Nat]
    BY <1>0, <1>4, SpendOK, LimitNames DEF ConfirmWorkflowStop
  <2>2. Follows(db, TransitionWorkflow(db, "stopping", ""))
    BY <1>0, TransitionWorkflowFollows, Names
  <2>3. Follows(db, db')
    BY <1>0, <1>4, <2>2 DEF ConfirmWorkflowStop
  <2>4. confirm' \in [on : BOOLEAN, todo : SUBSET SubTasks]
    BY <1>4, PlanAssumption DEF ConfirmWorkflowStop
  <2>5. CallsOK' /\ UNCHANGED <<notify, answered>> /\ RunsOK(db, run')
    BY <1>0, <1>4, <2>1, <2>4 DEF ConfirmWorkflowStop, CallsOK
  <2> QED BY <2>3, <2>5, FollowsGood
<1>5. CASE MapChanges
  <2>1. left' \in [Limits -> Nat]
    BY <1>0, <1>5, SpendOK, LimitNames DEF MapChanges
  <2>2. db' \in Database /\ db'.wf = db.wf /\ db'.task = db.task /\ db'.sub = db.sub
        /\ db'.exec = db.exec /\ db'.lock = db.lock
    BY <1>0, <1>5 DEF MapChanges, Database
  <2>3. Follows(db, db')
    BY <1>0, <2>2, RowsFollowThemselves DEF Follows
  <2>4. CallsOK' /\ UNCHANGED <<notify, answered>> /\ RunsOK(db, run')
    BY <1>0, <1>5, <2>1 DEF MapChanges, CallsOK
  <2> QED BY <2>3, <2>4, FollowsGood
<1>6. ASSUME NEW s \in SubTasks, RetryRobotAgentDecision(s)
      PROVE  Good
  <2> DEFINE t == TaskOf[s]
             e == TransitionTask(TransitionWorkflow(db, "running", ""), t, "running", "")
  <2>1. t \in Tasks /\ s # 0
    BY PlanAssumption, PositionAssumption
  <2>2. left' \in [Limits -> Nat]
    BY <1>0, <1>6, SpendOK, LimitNames DEF RetryRobotAgentDecision
  <2>3. Follows(db, e)
    BY <1>0, <2>1, TransitionWorkflowFollows, ThenTransition, Names
  <2>4. db' = TransitionSubTask(e, s, "running", "") /\ run' = [run EXCEPT ![t] = At("decide", s)]
    BY <1>6 DEF RetryRobotAgentDecision
  <2> HIDE DEF e, t
  <2>5. Follows(db, db')
    BY <2>3, <2>4, ThenTransition, Names
  <2>6. RunRowOK(db, At("decide", s))
    BY <2>1, AtOK DEF Phase
  <2>7. RunsOK(db, run')
    BY <1>0, <2>1, <2>4, <2>6, RunsUpdated
  <2>8. CallsOK' /\ UNCHANGED <<notify, answered>>
    BY <1>0, <1>6, <2>2 DEF RetryRobotAgentDecision, CallsOK
  <2> QED BY <2>5, <2>7, <2>8, FollowsGood
<1> QED BY <1>1, <1>2, <1>3, <1>4, <1>5, <1>6, StopExecutionGood DEF User

\* Nothing is under way when a Server starts.
LEMMA NoCalls ==
  /\ RunsOK(db, NoRuns)
  /\ Quiet \in NoteRow
  /\ Quiet.sub = 0
<1>1. RunsOK(db, NoRuns)
  BY IdleOK DEF NoRuns, RunsOK, RunRowOK
<1> QED BY <1>1 DEF Quiet, NoteRow, ExecutionStatus

\* A restart forgets every goroutine and call and keeps the store.
LEMMA RestartGood ==
  ASSUME IInv, Restart
  PROVE  Good
<1>0. db \in Database /\ DbOK(db) /\ CallsOK /\ Heard /\ Follows(db, db) /\ left \in [Limits -> Nat]
  BY SameDbStep DEF IInv, DbOK, CallsOK
<1> DEFINE d == IF db.wf.status \in {"running", "paused"} THEN RecoveredWorkflow(db) ELSE db
<1>1. Follows(db, d) /\ d \in Database
  BY <1>0, RecoveredWorkflowFollows DEF Follows
<1>2. db' = Schedule(d) /\ run' = Reserve(d, NoRuns)
  BY DEF Restart
<1> HIDE DEF d
<1>3. Follows(db, db') /\ RunsOK(db, run')
  BY <1>1, <1>2, ScheduleFollows, FollowsTransitive, ReserveOK, NoCalls
<1>4. StepOK(db, db')
  BY <1>0, <1>3, FollowsStep
<1>5. left' \in [Limits -> Nat]
  BY <1>0, SpendOK, LimitNames DEF Restart
<1>6. walk' \in [Walkers -> [on : BOOLEAN, todo : SUBSET Tasks]]
      /\ confirm' \in [on : BOOLEAN, todo : SUBSET SubTasks]
  BY DEF Restart
<1>7. notify' \in [Robots -> NoteRow]
      /\ \A r \in Robots : notify'[r].sub = 0
  BY NoCalls DEF Restart
<1>8. cont' \in [Tasks -> SUBSET Calls] /\ res' \in Tasks \cup {0} /\ avail' \in SUBSET Robots
      /\ online' \in [Robots -> BOOLEAN] /\ answered' = answered
  BY DEF Restart
<1>9. CallsOK'
  BY <1>0, <1>5, <1>6, <1>7, <1>8 DEF CallsOK
<1>10. Heard'
  BY <1>0, <1>4, <1>7, <1>8 DEF Heard, StepOK, CallsOK
<1> QED BY <1>3, <1>4, <1>9, <1>10, RunsKept DEF Good, IInv, StepOK

------------------------------------------------------------------------------
(* The invariant is inductive, and what follows from it.                    *)

\* A confirmed Workflow starts in the invariant.
LEMMA InitInv == Init => IInv
<1> SUFFICES ASSUME Init PROVE IInv
  OBVIOUS
<1>1. db \in Database
  BY DEF Init, InitialDatabase, Database, WorkflowStatus, WorkStatus, Reason, ExecutionStatus
<1>2. /\ \A t \in Tasks : db.task[t].robot = NoRobot
      /\ \A s \in SubTasks : /\ db.sub[s].ref = FALSE
                              /\ db.exec[s].status = "none" /\ db.exec[s].pilot = "nothing"
  BY DEF Init, InitialDatabase
<1>3. Coherent(db) /\ Owned(db)
  BY <1>2 DEF Coherent, Owned
<1>5. RunsOK(db, run)
  BY NoCalls, ReserveOK DEF Init
<1>6. CallsOK
  BY NoCalls, BudgetAssumption DEF Init, CallsOK
<1>7. Heard
  BY NoCalls DEF Init, Heard
<1> QED BY <1>1, <1>3, <1>5, <1>6, <1>7 DEF IInv, DbOK

\* A stuttering step.
LEMMA StutterGood ==
  ASSUME IInv, UNCHANGED vars
  PROVE  Good
<1>1. db' = db /\ run' = run /\ UNCHANGED <<notify, answered>>
  BY DEF vars
<1>2. CallsOK' /\ RunsOK(db, run')
  BY DEF vars, IInv, CallsOK
<1> QED BY <1>1, <1>2, SameDbGood

\* Every step of the system is good.
LEMMA NextGood ==
  ASSUME IInv, [Next]_vars
  PROVE  Good
BY PrepareGood, ExecuteGood, ContinueGood, DecideGood, ObserveGood, RobotAvailableGood,
   SessionGood, PilotGood, SaveReportedGood, SaveStalePointerGood, WalkGood, ConfirmTargetGood, ConfirmEndGood, UserGood, RestartGood,
   StutterGood DEF Next

\* IInv is an invariant: row types, references that name Executions, Robots with one owner,
\* and calls under way that are about Executions in the store.
THEOREM Invariance == Spec => []IInv
<1>1. IInv /\ [Next]_vars => IInv'
  BY NextGood DEF Good
<1> QED BY <1>1, InitInv, PTL DEF Spec

\* The type invariant, for every set of Tasks, SubTasks, Robots and every plan over them.
THEOREM TypeCorrectness == Spec => []TypeOK
<1>1. IInv => TypeOK
  BY DEF IInv, DbOK, RunsOK, RunRow, CallsOK, NoteRow, TypeOK
<1> QED BY <1>1, Invariance, PTL

\* Two unfinished Tasks never own the same Robot, however many Tasks, Robots and goroutines
\* race between ResolveTaskAssignment and AssignTask, and whatever the Pilot's pointer says.
THEOREM RobotExclusion == Spec => []RobotOwnedByOneTask
<1>1. IInv => RobotOwnedByOneTask
  BY DEF IInv, DbOK, Owned, RobotOwnedByOneTask
<1> QED BY <1>1, Invariance, PTL

\* No step takes back a terminal status or detaches an Execution: late events, decisions,
\* recovery, resume and restart included.
THEOREM Finality == Spec => EndsAreFinal
<1>1. IInv /\ [Next]_vars => EndsKept(db, db')
  BY NextGood DEF Good
<1>2. IInv /\ [Next]_vars =>
        [/\ db.wf.status \in TerminalWork => db'.wf.status = db.wf.status
         /\ \A t \in Tasks : db.task[t].status \in TerminalWork
                               => db'.task[t].status = db.task[t].status
         /\ \A s \in SubTasks : /\ db.sub[s].status \in TerminalWork
                                     => db'.sub[s].status = db.sub[s].status
                                /\ db.sub[s].ref => db'.sub[s].ref]_vars
  BY <1>1 DEF EndsKept
<1> QED BY <1>2, Invariance, PTL DEF Spec, EndsAreFinal

------------------------------------------------------------------------------
(* Evidence: what the SubTask rows say of their Executions.                 *)

\* An Execution that proves the Robot still.
AtRest(x) ==
  \/ x.status = "completed"
  \/ x.status \in {"failed", "stopped"} /\ (x.safe \/ x.phys = "none")

\* An operator's word proves it too, whatever a late event makes of the row.
Proven(x) == x.word \/ AtRest(x)

\* A row that may still start has no Execution, a row that waits for the end of one names
\* it, and a row is stopped under an Execution only on proof that the Robot is still.
RowEvident(row, x) ==
  /\ row.status \in {"pending", "absent"} => x.status = "none"
  /\ row.status \in {"paused", "stopping"} /\ x.status # "none" => row.ref
  /\ row.status = "stopped" /\ row.ref => Proven(x)
Evident(d) == \A s \in SubTasks : RowEvident(d.sub[s], d.exec[s])

\* The workflow service itself only stops or gives up Executions that are not over, and
\* none that is being dispatched.
Held(x, y) ==
  /\ y.status \in {"stopping", "interrupted"}
  /\ y.word = x.word /\ y.safe = x.safe /\ y.phys = x.phys
  /\ y.pilot = x.pilot \/ (x.pilot = "start" /\ y.pilot = "stop")
HeldTo(x, d) ==
  \A s \in SubTasks :
    \/ d.exec[s] = x[s]
    \/ ~Sending(s) /\ x[s].status \notin TerminalWork /\ Held(x[s], d.exec[s])

\* A database reached from the Executions x by the workflow service.
Under(x, d) == d \in Database /\ Coherent(d) /\ Evident(d) /\ HeldTo(x, d)

\* An allowed rewrite whose rows are evident and that leaves the Executions alone.
LEMMA RowsUnder ==
  ASSUME NEW x, NEW d, Under(x, d), NEW e, Follows(d, e), e.exec = d.exec,
         \A s \in SubTasks : RowEvident(e.sub[s], d.exec[s])
  PROVE  Under(x, e)
<1>1. e \in Database /\ Coherent(e)
  BY FollowsCoherent DEF Under, Follows
<1>2. Evident(e)
  BY DEF Evident
<1>3. HeldTo(x, e)
  BY DEF HeldTo, Under
<1> QED BY <1>1, <1>2, <1>3 DEF Under

\* One that leaves the SubTasks alone, too.
LEMMA SameUnder ==
  ASSUME NEW x, NEW d, Under(x, d), NEW e, Follows(d, e), e.exec = d.exec, e.sub = d.sub
  PROVE  Under(x, e)
<1>1. \A s \in SubTasks : RowEvident(e.sub[s], d.exec[s])
  BY DEF Under, Evident
<1> QED BY <1>1, RowsUnder

\* What a database under x offers: typed rows, and references that name Executions.
LEMMA UnderRows ==
  ASSUME NEW x, NEW d, Under(x, d), NEW s \in SubTasks
  PROVE  /\ d \in Database /\ Coherent(d)
         /\ d.sub[s] \in SubRow /\ d.exec[s] \in ExecRow
         /\ RowEvident(d.sub[s], d.exec[s])
         /\ d.sub[s].ref => d.exec[s].status # "none"
BY DatabaseRows DEF Under, Evident, Coherent

\* One row moved through the table.
LEMMA MovedEvident ==
  ASSUME NEW row \in SubRow, NEW x, RowEvident(row, x), row.ref => x.status # "none",
         NEW to \in WorkStatus, NEW why \in Reason,
         to # "pending",
         to \in {"paused", "stopping"} /\ row.status = "running" /\ x.status # "none" => row.ref,
         to = "stopped" /\ row.status = "stopping" /\ row.ref => Proven(x)
  PROVE  RowEvident(Moved(row, to, why), x)
<1>1. CASE to \in allowedTaskTransitions[row.status]
  <2> DEFINE new == [row EXCEPT !.status = to, !.reason = why]
  <2>1. Moved(row, to, why) = new /\ new.status = to /\ new.ref = row.ref
    BY <1>1 DEF Moved, SubRow
  <2>2. /\ to = "stopped" => row.status \in {"pending", "stopping"}
        /\ to \in {"paused", "stopping"} => row.status \in {"pending", "running", "paused", "stopping"}
    BY <1>1 DEF allowedTaskTransitions, SubRow, WorkStatus
  <2>3. to \notin {"pending", "absent"}
    BY DEF WorkStatus
  <2> HIDE DEF new
  <2> QED BY <2>1, <2>2, <2>3 DEF RowEvident
<1>2. CASE to \notin allowedTaskTransitions[row.status]
  BY <1>2 DEF Moved
<1> QED BY <1>1, <1>2

\* Whatever a SubTask does, it may fail.
LEMMA FailedEvident ==
  ASSUME NEW x, NEW d, Under(x, d), NEW s \in SubTasks
  PROVE  RowEvident(Moved(d.sub[s], "failed", ""), d.exec[s])
<1>1. /\ d.sub[s] \in SubRow /\ RowEvident(d.sub[s], d.exec[s])
      /\ d.sub[s].ref => d.exec[s].status # "none"
  BY UnderRows
<1>2. "failed" \in WorkStatus /\ "" \in Reason
  BY Names
<1> QED
  BY <1>1, <1>2, MovedEvident

\* A row that never started stops without anything to prove.
LEMMA PendingStops ==
  ASSUME NEW row \in SubRow, NEW x, row.status = "pending", RowEvident(row, x),
         row.ref => x.status # "none", NEW why \in Reason
  PROVE  RowEvident(Moved(row, "stopped", why), x)
<1>1. ~row.ref
  BY DEF RowEvident
<1>2. Moved(row, "stopped", why).status = "stopped" /\ ~Moved(row, "stopped", why).ref
  BY <1>1 DEF Moved, SubRow, allowedTaskTransitions, WorkStatus
<1> QED BY <1>2 DEF RowEvident

\* Transitions of the Workflow touch neither SubTasks nor Executions ...
LEMMA TransitionRows ==
  ASSUME NEW d \in Database, NEW to, NEW why
  PROVE  TransitionWorkflow(d, to, why).sub = d.sub /\ TransitionWorkflow(d, to, why).exec = d.exec
BY DEF Database, TransitionWorkflow

\* ... and of a Task.
LEMMA TaskTransitionRows ==
  ASSUME NEW d \in Database, NEW t \in Tasks, NEW to, NEW why
  PROVE  /\ TransitionTask(d, t, to, why).sub = d.sub /\ TransitionTask(d, t, to, why).exec = d.exec
         /\ SetPendingTaskReason(d, t, why).sub = d.sub
         /\ SetPendingTaskReason(d, t, why).exec = d.exec
BY DEF Database, TransitionTask, SetPendingTaskReason

\* Both in a database under x.
LEMMA TransitionsUnder ==
  ASSUME NEW x, NEW d, Under(x, d), NEW why \in Reason
  PROVE  /\ \A to \in WorkflowStatus : Under(x, TransitionWorkflow(d, to, why))
         /\ \A t \in Tasks, to \in WorkStatus : Under(x, TransitionTask(d, t, to, why))
         /\ \A t \in Tasks : Under(x, SetPendingTaskReason(d, t, why))
<1>1. d \in Database
  BY DEF Under
<1>2. \A to \in WorkflowStatus : Under(x, TransitionWorkflow(d, to, why))
  BY <1>1, TransitionRows, TransitionWorkflowFollows, SameUnder
<1>3. ASSUME NEW t \in Tasks, NEW to \in WorkStatus
      PROVE  Under(x, TransitionTask(d, t, to, why))
  <2>1. Follows(d, TransitionTask(d, t, to, why))
    BY <1>1, TransitionTaskFollows
  <2>2. /\ TransitionTask(d, t, to, why).sub = d.sub
        /\ TransitionTask(d, t, to, why).exec = d.exec
    BY <1>1, TaskTransitionRows
  <2> QED
    BY <2>1, <2>2, SameUnder
<1>4. ASSUME NEW t \in Tasks
      PROVE  Under(x, SetPendingTaskReason(d, t, why))
  <2>1. Follows(d, SetPendingTaskReason(d, t, why))
    BY <1>1, SetPendingTaskReasonFollows
  <2>2. /\ SetPendingTaskReason(d, t, why).sub = d.sub
        /\ SetPendingTaskReason(d, t, why).exec = d.exec
    BY <1>1, TaskTransitionRows
  <2> QED
    BY <2>1, <2>2, SameUnder
<1> QED BY <1>2, <1>3, <1>4

\* A transition of a SubTask.
LEMMA SubTransitionUnder ==
  ASSUME NEW x, NEW d, Under(x, d), NEW s \in SubTasks, NEW to \in WorkStatus, NEW why \in Reason,
         to # "pending",
         to \in {"paused", "stopping"} /\ d.sub[s].status = "running" /\ d.exec[s].status # "none"
           => d.sub[s].ref,
         to = "stopped" /\ d.sub[s].status = "stopping" /\ d.sub[s].ref => Proven(d.exec[s])
  PROVE  Under(x, TransitionSubTask(d, s, to, why))
<1> DEFINE e == TransitionSubTask(d, s, to, why)
           row == Moved(d.sub[s], to, why)
<1>1. d \in Database /\ d.sub \in [SubTasks -> SubRow] /\ d.sub[s] \in SubRow
  BY DatabaseRows DEF Under
<1>2. RowEvident(row, d.exec[s])
  BY UnderRows, MovedEvident
<1> HIDE DEF row
<1>3. e.exec = d.exec /\ e.sub = [d.sub EXCEPT ![s] = row]
  BY <1>1 DEF Database, TransitionSubTask, row
<1>4. Follows(d, e)
  BY <1>1, TransitionSubTaskFollows
<1> HIDE DEF e
<1>5. \A y \in SubTasks : RowEvident(e.sub[y], d.exec[y])
  BY <1>1, <1>2, <1>3, UnderRows
<1> QED BY <1>3, <1>4, <1>5, RowsUnder DEF e

\* The three moves that are always evident.
LEMMA SubMovesUnder ==
  ASSUME NEW x, NEW d, Under(x, d), NEW s \in SubTasks, NEW why \in Reason
  PROVE  /\ Under(x, TransitionSubTask(d, s, "running", why))
         /\ Under(x, TransitionSubTask(d, s, "completed", why))
         /\ Under(x, TransitionSubTask(d, s, "failed", why))
BY SubTransitionUnder, Names

\* AttachSubTaskExecution.
LEMMA AttachUnder ==
  ASSUME NEW x, NEW d, Under(x, d), NEW s \in SubTasks, d.exec[s].status # "none"
  PROVE  /\ Under(x, AttachSubTaskExecution(d, s))
         /\ AttachSubTaskExecution(d, s).exec = d.exec
         /\ AttachSubTaskExecution(d, s).sub[s].status = "running"
              => AttachSubTaskExecution(d, s).sub[s].ref
<1>1. d \in Database /\ d.sub \in [SubTasks -> SubRow]
  BY DatabaseRows DEF Under
<1>2. CASE CanAttach(d, s)
  <2> DEFINE e == AttachSubTaskExecution(d, s)
             row == [d.sub[s] EXCEPT !.ref = TRUE]
  <2>1. e.exec = d.exec /\ e.sub = [d.sub EXCEPT ![s] = row]
    BY <1>1, <1>2 DEF Database, AttachSubTaskExecution
  <2>2. row.status = "running" /\ row.ref
    BY <1>1, <1>2 DEF CanAttach, SubRow
  <2>3. RowEvident(row, d.exec[s])
    BY <2>2 DEF RowEvident
  <2>4. Follows(d, e)
    BY <1>1, AttachFollows
  <2> HIDE DEF e, row
  <2>5. \A y \in SubTasks : RowEvident(e.sub[y], d.exec[y])
    BY <1>1, <2>1, <2>3, UnderRows
  <2> QED BY <1>1, <2>1, <2>2, <2>4, <2>5, RowsUnder DEF e
<1>3. CASE ~CanAttach(d, s)
  BY <1>3 DEF AttachSubTaskExecution, CanAttach
<1> QED BY <1>2, <1>3

\* stopPendingWork and failTask end rows that have no Execution to prove, or fail them.
LEMMA StopPendingUnder ==
  ASSUME NEW x, NEW d, Under(x, d)
  PROVE  Under(x, stopPendingWork(d))
<1> DEFINE e == stopPendingWork(d)
<1>1. d \in Database
  BY DEF Under
<1>2. e.exec = d.exec /\ \A s \in SubTasks :
        e.sub[s] = IF d.sub[s].status = "pending" THEN Moved(d.sub[s], "stopped", "") ELSE d.sub[s]
  BY <1>1 DEF Database, stopPendingWork
<1>3. Follows(d, e)
  BY <1>1, StopPendingWorkFollows
<1> HIDE DEF e
<1>4. ASSUME NEW s \in SubTasks, d.sub[s].status = "pending"
      PROVE  RowEvident(Moved(d.sub[s], "stopped", ""), d.exec[s])
  BY <1>4, UnderRows, PendingStops, Names
<1>5. \A s \in SubTasks : RowEvident(e.sub[s], d.exec[s])
  BY <1>2, <1>4, UnderRows
<1> QED BY <1>2, <1>3, <1>5, RowsUnder DEF e

\* failTask, the Task row included.
LEMMA FailTaskUnder ==
  ASSUME NEW x, NEW d, Under(x, d), NEW t \in Tasks
  PROVE  Under(x, failTask(d, t))
<1> DEFINE e == failTask(d, t)
<1>1. d \in Database
  BY DEF Under
<1>2. e.exec = d.exec /\ \A s \in SubTasks :
        \/ e.sub[s] = d.sub[s]
        \/ d.sub[s].status = "running" /\ e.sub[s] = Moved(d.sub[s], "failed", "")
        \/ d.sub[s].status = "pending" /\ e.sub[s] = Moved(d.sub[s], "stopped", "")
  <2> DEFINE subs == [s \in SubTasks |->
        CASE s \in SubsOf(t) /\ d.sub[s].status = "running" -> Moved(d.sub[s], "failed", "")
          [] s \in SubsOf(t) /\ d.sub[s].status = "pending" -> Moved(d.sub[s], "stopped", "")
          [] OTHER -> d.sub[s]]
             f == [d EXCEPT !.sub = subs]
  <2>1. e = f \/ e = TransitionTask(f, t, "failed", "")
    BY Zenon DEF failTask
  <2>2. \A s \in SubTasks :
          \/ subs[s] = d.sub[s]
          \/ d.sub[s].status = "running" /\ subs[s] = Moved(d.sub[s], "failed", "")
          \/ d.sub[s].status = "pending" /\ subs[s] = Moved(d.sub[s], "stopped", "")
    BY Zenon
  <2> HIDE DEF subs, e
  <2>3. f.sub = subs /\ f.exec = d.exec
    BY <1>1 DEF Database
  <2>4. TransitionTask(f, t, "failed", "").sub = subs
        /\ TransitionTask(f, t, "failed", "").exec = d.exec
    BY <1>1, <2>3 DEF Database, TransitionTask
  <2> HIDE DEF f
  <2>5. e.sub = subs /\ e.exec = d.exec
    BY <2>1, <2>3, <2>4
  <2> QED BY <2>2, <2>5
<1>3. Follows(d, e)
  BY <1>1, FailTaskFollows
<1> HIDE DEF e
<1>4. ASSUME NEW s \in SubTasks
      PROVE  RowEvident(e.sub[s], d.exec[s])
  <2>1. RowEvident(Moved(d.sub[s], "failed", ""), d.exec[s])
    BY FailedEvident
  <2>2. d.sub[s].status = "pending" => RowEvident(Moved(d.sub[s], "stopped", ""), d.exec[s])
    BY UnderRows, PendingStops, Names
  <2> QED BY <1>2, <2>1, <2>2, UnderRows
<1> QED BY <1>2, <1>3, <1>4, RowsUnder DEF e

\* stopTaskSubTasks stops an attached SubTask only on a verdict of rest.
LEMMA VerdictEvident ==
  ASSUME NEW x, NEW d, Under(x, d), NEW s \in SubTasks, Stoppable(d, s)
  PROVE  /\ StopVerdict(d, s) = "settled" => (d.sub[s].ref => Proven(d.exec[s]))
         /\ StopVerdict(d, s) \in {"unknown", "sent", "lost"} => d.sub[s].ref
         /\ StopVerdict(d, s) \in {"sent", "lost"} => d.exec[s].status \notin TerminalWork
<1>1. CASE ~d.sub[s].ref
  <2>1. StopVerdict(d, s) = "settled"
    BY <1>1, Zenon DEF StopVerdict
  <2> QED BY <1>1, <2>1
<1>2. CASE d.sub[s].ref
  <2>1. d.exec[s] \in ExecRow
    BY UnderRows
  <2>2. StopVerdict(d, s) = "settled" =>
          \/ d.exec[s].status = "completed"
          \/ d.exec[s].status = "failed" /\ (d.exec[s].safe \/ d.exec[s].phys = "none")
          \/ d.exec[s].status = "stopped" /\ d.exec[s].safe
    BY <1>2, Zenon DEF StopVerdict
  <2>3. StopVerdict(d, s) \in {"sent", "lost"} =>
          d.exec[s].status \notin {"completed", "failed", "stopped"}
    BY <1>2, Zenon DEF StopVerdict
  <2> QED BY <1>2, <2>2, <2>3 DEF AtRest, Proven, TerminalWork
<1> QED BY <1>1, <1>2

\* moveSubTaskTowardStop, of a row that is not open.
LEMMA TowardStopEvident ==
  ASSUME NEW x, NEW d, Under(x, d), NEW s \in SubTasks, ~Stoppable(d, s)
  PROVE  RowEvident(TowardStop(d.sub[s]), d.exec[s])
<1>1. d.sub[s] \in SubRow /\ RowEvident(d.sub[s], d.exec[s])
  BY UnderRows
<1>2. CASE d.sub[s].status = "pending"
  BY <1>1, <1>2, UnderRows, PendingStops, Names DEF TowardStop
<1>3. CASE d.sub[s].status # "pending"
  <2>1. Moved(d.sub[s], "stopping", "") = d.sub[s]
    BY <1>1, <1>3 DEF Moved, allowedTaskTransitions, SubRow, WorkStatus, Stoppable
  <2> QED BY <1>1, <1>3, <2>1 DEF TowardStop
<1> QED BY <1>2, <1>3

\* stopTaskSubTasks: the open rows move toward stop, the others stay.
LEMMA StopTaskSubTasksUnder ==
  ASSUME NEW x, NEW d, Under(x, d), NEW t \in Tasks,
         \A s \in SubsOf(t) : d.sub[s].ref => ~Sending(s)
  PROVE  Under(x, stopTaskSubTasks(d, t))
<1> DEFINE seen == Visited(d, t)
           verdict == [s \in SubTasks |-> IF s \in seen /\ Stoppable(d, s)
                                          THEN StopVerdict(d, s) ELSE "none"]
           unknown == \E s \in SubTasks : verdict[s] \in {"unknown", "lost"}
           subs == [s \in SubTasks |->
             CASE s \notin seen -> d.sub[s]
               [] verdict[s] = "settled" -> [d.sub[s] EXCEPT !.status = "stopped", !.reason = ""]
               [] verdict[s] = "sent" -> [d.sub[s] EXCEPT !.status = "stopping", !.reason = ""]
               [] verdict[s] \in {"unknown", "lost"} ->
                    [d.sub[s] EXCEPT !.status = "paused", !.reason = "execution_state_unknown"]
               [] OTHER -> TowardStop(d.sub[s])]
           execs == [s \in SubTasks |->
             CASE verdict[s] = "sent" -> StopSent(d.exec[s])
               [] verdict[s] = "lost" -> [d.exec[s] EXCEPT !.status = "interrupted"]
               [] OTHER -> d.exec[s]]
           e == [d EXCEPT !.sub = subs, !.exec = execs]
           f == IF e.task[t].status \in {"running", "stopping"}
                THEN TransitionTask(e, t, "paused", "execution_state_unknown") ELSE e
           g == stopTaskSubTasks(d, t)
<1>1. d \in Database /\ Coherent(d) /\ d.sub \in [SubTasks -> SubRow] /\ d.exec \in [SubTasks -> ExecRow]
  BY DatabaseRows DEF Under
<1>2. Follows(d, g)
  BY <1>1, StopTaskSubTasksFollows
<1>3. g = IF ~unknown THEN e
          ELSE IF f.wf.status = "stopping"
               THEN TransitionWorkflow(f, "paused", "execution_state_unknown") ELSE f
  BY Zenon DEF stopTaskSubTasks
<1>4. \A s \in SubTasks :
        /\ s \notin seen => verdict[s] = "none"
        /\ verdict[s] # "none" =>
             /\ Stoppable(d, s)
             /\ verdict[s] = "settled" => (d.sub[s].ref => Proven(d.exec[s]))
             /\ verdict[s] \in {"unknown", "sent", "lost"} => d.sub[s].ref
             /\ verdict[s] \in {"sent", "lost"} => d.exec[s].status \notin TerminalWork
        /\ verdict[s] = "none" /\ s \in seen => ~Stoppable(d, s)
  BY <1>1, VerdictEvident, VerdictFacts
<1>5. g.sub = subs /\ g.exec = execs
  <2> HIDE DEF subs, execs, unknown
  <2>1. e.sub = subs /\ e.exec = execs
    BY <1>1 DEF Database
  <2> HIDE DEF g, e
  <2>2. f = e \/ f = TransitionTask(e, t, "paused", "execution_state_unknown")
    OBVIOUS
  <2>3. f.sub = subs /\ f.exec = execs
    <3>1. CASE f = e
      BY <2>1, <3>1
    <3>2. CASE f = TransitionTask(e, t, "paused", "execution_state_unknown")
      <4>1. TransitionTask(e, t, "paused", "execution_state_unknown").sub = subs
            /\ TransitionTask(e, t, "paused", "execution_state_unknown").exec = execs
        BY <1>1, <2>1 DEF Database, TransitionTask, e
      <4> QED BY <3>2, <4>1
    <3> QED BY <2>2, <3>1, <3>2
  <2>4. TransitionWorkflow(f, "paused", "execution_state_unknown").sub = subs
        /\ TransitionWorkflow(f, "paused", "execution_state_unknown").exec = execs
    BY <1>1, <2>2, <2>3 DEF Database, TransitionWorkflow, TransitionTask, e
  <2> HIDE DEF f
  <2> QED BY <1>3, <2>1, <2>3, <2>4
<1>6. ASSUME NEW s \in SubTasks
      PROVE  RowEvident(subs[s], execs[s])
  <2> HIDE DEF verdict, seen
  <2> DEFINE row == d.sub[s]
             y == d.exec[s]
             v == verdict[s]
  <2>1. row \in SubRow /\ y \in ExecRow /\ RowEvident(row, y)
    BY UnderRows
  <2>2. execs[s] = CASE v = "sent" -> StopSent(y)
                     [] v = "lost" -> [y EXCEPT !.status = "interrupted"]
                     [] OTHER -> y
    OBVIOUS
  <2>3. subs[s] = CASE s \notin seen -> row
               [] v = "settled" -> [row EXCEPT !.status = "stopped", !.reason = ""]
               [] v = "sent" -> [row EXCEPT !.status = "stopping", !.reason = ""]
               [] v \in {"unknown", "lost"} ->
                    [row EXCEPT !.status = "paused", !.reason = "execution_state_unknown"]
               [] OTHER -> TowardStop(row)
    OBVIOUS
  <2>4. v \in {"none", "settled", "unknown", "sent", "lost"}
    BY <1>1, VerdictFacts DEF verdict
  <2>5. CASE v = "none"
    <3>1. execs[s] = y
      BY <2>2, <2>5, Zenon
    <3>2. subs[s] = row \/ (s \in seen /\ subs[s] = TowardStop(row))
      BY <2>3, <2>5, Zenon
    <3> HIDE DEF subs, execs
    <3>3. s \in seen => RowEvident(TowardStop(row), y)
      BY <1>4, <2>5, TowardStopEvident
    <3> QED BY <2>1, <3>1, <3>2, <3>3
  <2>6. CASE v \in {"settled", "unknown", "sent", "lost"}
    <3>1. s \in seen
      BY <1>4, <2>6
    <3>2. execs[s] = CASE v = "sent" -> StopSent(y)
                     [] v = "lost" -> [y EXCEPT !.status = "interrupted"]
                     [] OTHER -> y
      BY <2>2
    <3>3. /\ v = "settled" => subs[s] = [row EXCEPT !.status = "stopped", !.reason = ""]
          /\ v = "sent" => subs[s] = [row EXCEPT !.status = "stopping", !.reason = ""]
          /\ v \in {"unknown", "lost"} =>
               subs[s] = [row EXCEPT !.status = "paused", !.reason = "execution_state_unknown"]
      BY <2>3, <3>1
    <3>4. /\ v = "settled" => execs[s] = y
      BY <3>2, Zenon
    <3>5. /\ v = "settled" => (row.ref => Proven(y))
          /\ v \in {"unknown", "sent", "lost"} => row.ref
      BY <1>4, <2>6
    <3>6. CASE v = "settled"
      <4> HIDE DEF subs, execs, row, y, v
      <4>1. subs[s].status = "stopped" /\ subs[s].ref = row.ref /\ execs[s] = y
        BY <2>1, <3>3, <3>4, <3>6 DEF SubRow
      <4> QED BY <3>5, <3>6, <4>1 DEF RowEvident
    <3>7. CASE v \in {"unknown", "sent", "lost"}
      <4> HIDE DEF subs, execs, row, y, v
      <4>1. subs[s].status \in {"paused", "stopping"} /\ subs[s].ref
        BY <2>1, <3>3, <3>5, <3>7 DEF SubRow
      <4> QED BY <4>1 DEF RowEvident
    <3> QED BY <2>6, <3>6, <3>7
  <2> QED BY <2>4, <2>5, <2>6
<1>7. Evident(g)
  <2> HIDE DEF subs, execs, g
  <2> QED BY <1>5, <1>6 DEF Evident
<1>8. HeldTo(x, g)
  <2> SUFFICES ASSUME NEW s \in SubTasks
               PROVE  \/ execs[s] = x[s]
                      \/ ~Sending(s) /\ x[s].status \notin TerminalWork /\ Held(x[s], execs[s])
    <3> HIDE DEF execs, g
    <3> QED BY <1>5 DEF HeldTo
  <2>0. s \in seen => s \in SubsOf(t)
    BY DEF Visited
  <2> HIDE DEF verdict, seen
  <2>1. \/ d.exec[s] = x[s]
        \/ ~Sending(s) /\ x[s].status \notin TerminalWork /\ Held(x[s], d.exec[s])
    BY DEF Under, HeldTo
  <2>2. \/ execs[s] = d.exec[s]
        \/ verdict[s] = "sent" /\ execs[s] = StopSent(d.exec[s])
        \/ verdict[s] = "lost" /\ execs[s] = [d.exec[s] EXCEPT !.status = "interrupted"]
    BY Zenon
  <2> HIDE DEF execs
  <2>3. d.exec[s] \in ExecRow
    BY <1>1
  <2>4. CASE execs[s] = d.exec[s]
    BY <2>1, <2>4
  <2>5. CASE verdict[s] \in {"sent", "lost"} /\ execs[s] # d.exec[s]
    <3>1. ~Sending(s) /\ d.exec[s].status \notin TerminalWork
      BY <1>4, <2>0, <2>5
    <3>2. Held(d.exec[s], execs[s])
      BY <2>2, <2>3, <2>5, StopSentRow DEF ExecRow, Held
    <3>3. d.exec[s] = x[s] \/ Held(x[s], d.exec[s])
      BY <2>1
    <3> QED BY <2>1, <3>1, <3>2, <3>3 DEF Held
  <2> QED BY <2>2, <2>4, <2>5
<1>9. g \in Database /\ Coherent(g)
  BY <1>1, <1>2, FollowsCoherent DEF Follows
<1> QED BY <1>7, <1>8, <1>9 DEF Under

\* The Task row that follows, and one round of stopWorkflowTasks.
LEMMA FinishStoppedTaskUnder ==
  ASSUME NEW x, NEW d, Under(x, d), NEW t \in Tasks
  PROVE  Under(x, FinishStoppedTask(d, t))
BY Names, TransitionsUnder DEF FinishStoppedTask

\* stopWorkflowTasks for one Task.
LEMMA StopTaskUnder ==
  ASSUME NEW x, NEW d, Under(x, d), NEW t \in Tasks,
         \A s \in SubsOf(t) : d.sub[s].ref => ~Sending(s)
  PROVE  Under(x, StopTask(d, t))
<1> DEFINE e == moveTaskTowardStop(d, t)
<1>0. d \in Database
  BY DEF Under
<1>1. Under(x, e)
  BY Names, TransitionsUnder DEF moveTaskTowardStop
<1>2. e.sub = d.sub
  <2>1. \A to, why : TransitionTask(d, t, to, why).sub = d.sub
    BY <1>0, TaskTransitionRows
  <2> QED BY <2>1, Zenon DEF moveTaskTowardStop
<1> HIDE DEF e
<1>3. Under(x, stopTaskSubTasks(e, t))
  BY <1>1, <1>2, StopTaskSubTasksUnder
<1>4. Under(x, FinishStoppedTask(stopTaskSubTasks(e, t), t))
  BY <1>3, FinishStoppedTaskUnder
<1> QED BY <1>4 DEF StopTask, e

\* pauseRobotSubTask, of a SubTask that names its Execution if it runs.
LEMMA PauseUnder ==
  ASSUME NEW x, NEW d, Under(x, d), NEW s \in SubTasks, NEW why \in Reason,
         d.sub[s].status = "running" => d.sub[s].ref
  PROVE  Under(x, pauseRobotSubTask(d, s, why))
<1> DEFINE t == TaskOf[s]
           g == IF d.sub[s].status \in {"running", "stopping"}
                THEN TransitionSubTask(d, s, "paused", why) ELSE d
           f == IF g.task[t].status \in {"running", "stopping"}
                THEN TransitionTask(g, t, "paused", why) ELSE g
<1>1. t \in Tasks
  BY PlanAssumption
<1>2. Under(x, TransitionSubTask(d, s, "paused", why))
  BY SubTransitionUnder, Names
<1>3. Under(x, g)
  BY <1>2
<1>4. pauseRobotSubTask(d, s, why) =
        IF f.wf.status = "stopping" THEN TransitionWorkflow(f, "paused", why) ELSE f
  BY Zenon DEF pauseRobotSubTask
<1> HIDE DEF g
<1>5. Under(x, f)
  BY <1>1, <1>3, Names, TransitionsUnder
<1> HIDE DEF f
<1> QED BY <1>4, <1>5, Names, TransitionsUnder

\* pauseRobotDecisionFailure.
LEMMA PauseDecisionUnder ==
  ASSUME NEW x, NEW d, Under(x, d), NEW s \in SubTasks, d.sub[s].status = "running" => d.sub[s].ref
  PROVE  Under(x, pauseRobotDecisionFailure(d, s))
<1> DEFINE e == pauseRobotSubTask(d, s, "robot_agent_decision_failed")
<1>1. Under(x, e)
  BY Names, PauseUnder
<1>2. pauseRobotDecisionFailure(d, s) =
        IF e.wf.status = "running"
        THEN TransitionWorkflow(e, "paused", "robot_agent_decision_failed") ELSE e
  BY Zenon DEF pauseRobotDecisionFailure
<1> HIDE DEF e
<1> QED BY <1>1, <1>2, Names, TransitionsUnder

\* A plan fills rows that have no Execution.
LEMMA SetTaskSubTasksUnder ==
  ASSUME NEW x, NEW d, Under(x, d), NEW t \in Tasks, CanSetTaskSubTasks(d, t)
  PROVE  Under(x, SetTaskSubTasks(d, t))
<1> DEFINE e == SetTaskSubTasks(d, t)
<1>1. d \in Database /\ Coherent(d)
  BY DEF Under
<1>2. Follows(d, e)
  BY <1>1, SetTaskSubTasksFollows
<1>3. e.exec = d.exec /\ e.sub = Inserted(d.sub, SubsOf(t) \cap Planned)
  BY <1>1 DEF Database, SetTaskSubTasks
<1> HIDE DEF e
<1>4. ASSUME NEW s \in SubTasks
      PROVE  RowEvident(e.sub[s], d.exec[s])
  <2>1. CASE s \in SubsOf(t) \cap Planned
    <3> DEFINE new == [status |-> "pending", reason |-> "", ref |-> FALSE]
    <3>4. e.sub[s] = new
      BY <1>3, <2>1 DEF Inserted
    <3>5. new.status = "pending" /\ new.ref = FALSE
      OBVIOUS
    <3> HIDE DEF new
    <3>1. e.sub[s].status = "pending" /\ e.sub[s].ref = FALSE
      BY <3>4, <3>5
    <3>2. d.sub[s].status = "absent"
      BY <2>1 DEF CanSetTaskSubTasks, Listed
    <3>3. d.exec[s].status = "none"
      BY <3>2, UnderRows DEF RowEvident
    <3> QED BY <3>1, <3>3 DEF RowEvident
  <2>2. CASE s \notin SubsOf(t) \cap Planned
    BY <1>3, <2>2, UnderRows DEF Inserted
  <2> QED BY <2>1, <2>2
<1> QED BY <1>2, <1>3, <1>4, RowsUnder DEF e

\* A recovery fails the step it replaces and stops rows that never started.
LEMMA RecoveryUnder ==
  ASSUME NEW x, NEW d, Under(x, d), NEW s \in SubTasks, CanApplyRecovery(d, s)
  PROVE  Under(x, ApplyFailedRobotRecovery(d, s))
<1> DEFINE t == TaskOf[s]
           e == ApplyFailedRobotRecovery(d, s)
           revised == [y \in SubTasks |->
                    CASE y = s -> [d.sub[y] EXCEPT !.status = "failed",
                                                   !.reason = "replaced_after_failure"]
                      [] y \in SubsOf(t) \ {s} /\ d.sub[y].status = "pending" ->
                           [d.sub[y] EXCEPT !.status = "stopped",
                                            !.reason = "revised_after_failure"]
                      [] OTHER -> d.sub[y]]
<1>1. d \in Database /\ Coherent(d)
  BY DEF Under
<1>2. Follows(d, e)
  BY <1>1, ApplyFailedRobotRecoveryFollows
<1>3. e.exec = d.exec /\ e.sub = Inserted(revised, Replacements(d, t))
  <2> HIDE DEF revised
  <2>1. e = [d EXCEPT !.sub = Inserted(revised, Replacements(d, t)),
                      !.task[t] = [@ EXCEPT !.status = "running", !.reason = ""]]
    BY DEF ApplyFailedRobotRecovery, revised
  <2> HIDE DEF e
  <2> QED BY <1>1, <2>1 DEF Database
<1> HIDE DEF e
<1>4. ASSUME NEW y \in SubTasks
      PROVE  RowEvident(revised[y], d.exec[y])
  <2> DEFINE row == d.sub[y]
             failed == [row EXCEPT !.status = "failed", !.reason = "replaced_after_failure"]
             stopped == [row EXCEPT !.status = "stopped", !.reason = "revised_after_failure"]
  <2>1. row \in SubRow /\ RowEvident(row, d.exec[y]) /\ (row.ref => d.exec[y].status # "none")
    BY UnderRows
  <2>2. revised[y] = failed \/ (row.status = "pending" /\ revised[y] = stopped) \/ revised[y] = row
    BY Zenon
  <2> HIDE DEF revised, row
  <2>3. failed.status = "failed" /\ stopped.status = "stopped" /\ stopped.ref = row.ref
    BY <2>1 DEF SubRow
  <2>4. row.status = "pending" => ~row.ref
    BY <2>1 DEF RowEvident
  <2> HIDE DEF failed, stopped
  <2> QED BY <2>1, <2>2, <2>3, <2>4 DEF RowEvident
<1> HIDE DEF revised
<1>5. ASSUME NEW y \in SubTasks
      PROVE  RowEvident(e.sub[y], d.exec[y])
  <2>1. CASE y \in Replacements(d, t)
    <3> DEFINE new == [status |-> "pending", reason |-> "", ref |-> FALSE]
    <3>4. e.sub[y] = new
      BY <1>3, <2>1 DEF Inserted
    <3>5. new.status = "pending" /\ new.ref = FALSE
      OBVIOUS
    <3> HIDE DEF new
    <3>1. e.sub[y].status = "pending" /\ e.sub[y].ref = FALSE
      BY <3>4, <3>5
    <3>2. d.exec[y].status = "none"
      BY <2>1, UnderRows DEF RowEvident, Replacements
    <3> QED BY <3>1, <3>2 DEF RowEvident
  <2>2. CASE y \notin Replacements(d, t)
    BY <1>3, <1>4, <2>2 DEF Inserted
  <2> QED BY <2>1, <2>2
<1> QED BY <1>2, <1>3, <1>5, RowsUnder DEF e

\* failPausedTask: the paused step fails, and its Task.
LEMMA FailPausedTaskUnder ==
  ASSUME NEW x, NEW d, Under(x, d), NEW s \in SubTasks
  PROVE  Under(x, failPausedTask(d, s))
<1> DEFINE t == TaskOf[s]
           e == failPausedTask(d, s)
           subs == [y \in SubTasks |->
              CASE y = s -> Moved(d.sub[y], "failed", "")
                [] y \in SubsOf(t) \ {s} /\ d.sub[y].status = "pending" ->
                     Moved(d.sub[y], "stopped", "")
                [] OTHER -> d.sub[y]]
           f == [d EXCEPT !.sub = subs]
<1>1. d \in Database /\ t \in Tasks
  BY PlanAssumption DEF Under
<1>2. Follows(d, e)
  BY <1>1, FailPausedTaskFollows
<1>3. e = TransitionTask(f, t, "failed", "")
  BY Zenon DEF failPausedTask
<1> HIDE DEF e
<1>4. e.exec = d.exec /\ e.sub = subs
  <2> HIDE DEF subs
  <2> QED BY <1>1, <1>3 DEF Database, TransitionTask
<1>5. ASSUME NEW y \in SubTasks
      PROVE  RowEvident(subs[y], d.exec[y])
  <2>1. \/ subs[y] = Moved(d.sub[y], "failed", "")
        \/ d.sub[y].status = "pending" /\ subs[y] = Moved(d.sub[y], "stopped", "")
        \/ subs[y] = d.sub[y]
    BY Zenon
  <2> HIDE DEF subs
  <2>2. RowEvident(Moved(d.sub[y], "failed", ""), d.exec[y])
    BY FailedEvident
  <2>3. d.sub[y].status = "pending" => RowEvident(Moved(d.sub[y], "stopped", ""), d.exec[y])
    BY UnderRows, PendingStops, Names
  <2> QED BY <2>1, <2>2, <2>3, UnderRows
<1> HIDE DEF subs
<1>6. \A y \in SubTasks : RowEvident(e.sub[y], d.exec[y])
  BY <1>4, <1>5
<1> QED BY <1>2, <1>4, <1>6, RowsUnder DEF e

\* A transition of a SubTask leaves the Executions alone.
LEMMA SubTransitionExecs ==
  ASSUME NEW d \in Database, NEW s, NEW to, NEW why
  PROVE  TransitionSubTask(d, s, to, why).exec = d.exec
BY DEF Database, TransitionSubTask

\* finishStoppingRobotSubTask, given the proof of rest.
LEMMA SubTaskStoppedUnder ==
  ASSUME NEW x, NEW d, Under(x, d), NEW s \in SubTasks, Proven(d.exec[s])
  PROVE  Under(x, SubTaskStopped(d, s))
<1>1. Under(x, TransitionSubTask(d, s, "stopped", ""))
  BY SubTransitionUnder, Names
<1> QED BY <1>1, PlanAssumption, FinishStoppedTaskUnder DEF SubTaskStopped

\* convergeStoppedWorkflow.
LEMMA ConvergeUnder ==
  ASSUME NEW x, NEW d, Under(x, d)
  PROVE  Under(x, Converge(d))
<1>1. d.wf.reason \in Reason
  BY DatabaseRows DEF Under
<1> QED BY <1>1, Names, TransitionsUnder DEF Converge

\* finishConfirmedRobotStop up to the propagation.
LEMMA StopConfirmedUnder ==
  ASSUME NEW x, NEW d, Under(x, d), NEW s \in SubTasks, d.sub[s].status = "running" => d.sub[s].ref
  PROVE  Under(x, StopConfirmed(d, s)) /\ StopConfirmed(d, s).exec = d.exec
<1> DEFINE t == TaskOf[s]
           g == IF d.wf.status \in {"running", "paused"}
                THEN TransitionWorkflow(d, "stopping", "") ELSE d
           f == IF g.task[t].status \in {"running", "paused"}
                THEN TransitionTask(g, t, "stopping", "") ELSE g
<1>1. t \in Tasks /\ d \in Database
  BY PlanAssumption DEF Under
<1>2. Under(x, g) /\ g.sub = d.sub /\ g.exec = d.exec
  BY <1>1, Names, TransitionsUnder, TransitionRows
<1>3. StopConfirmed(d, s) = IF f.sub[s].status \in {"running", "paused"}
                            THEN TransitionSubTask(f, s, "stopping", "") ELSE f
  BY Zenon DEF StopConfirmed
<1> HIDE DEF g
<1>4. Under(x, f)
  BY <1>1, <1>2, Names, TransitionsUnder
<1>5. f.sub = d.sub /\ f.exec = d.exec
  BY <1>1, <1>2, TaskTransitionRows DEF Under
<1> HIDE DEF f
<1>6. Under(x, TransitionSubTask(f, s, "stopping", ""))
  BY <1>4, <1>5, SubTransitionUnder, Names
<1>7. TransitionSubTask(f, s, "stopping", "").exec = d.exec
  <2>1. f \in Database
    BY <1>4 DEF Under
  <2>2. TransitionSubTask(f, s, "stopping", "").exec = f.exec
    BY <2>1, SubTransitionExecs, ZenonT(40)
  <2> QED BY <1>5, <2>2
<1>8. StopConfirmed(d, s) = f \/ StopConfirmed(d, s) = TransitionSubTask(f, s, "stopping", "")
  BY <1>3, Zenon
<1>9. CASE StopConfirmed(d, s) = f
  BY <1>4, <1>5, <1>9
<1>10. CASE StopConfirmed(d, s) = TransitionSubTask(f, s, "stopping", "")
  BY <1>6, <1>7, <1>10
<1> QED BY <1>8, <1>9, <1>10

\* completeRobotSubTask.
LEMMA CompleteUnder ==
  ASSUME NEW x, NEW d, Under(x, d), NEW s \in SubTasks
  PROVE  Under(x, completeRobotSubTask(d, s))
<1>1. Under(x, TransitionSubTask(d, s, "running", ""))
  BY SubMovesUnder, Names
<1>2. Under(x, TransitionSubTask(TransitionSubTask(d, s, "running", ""), s, "completed", ""))
  BY <1>1, SubMovesUnder, Names
<1> QED BY <1>2 DEF completeRobotSubTask

\* UpdatePausedRobotWaitReason changes reasons only.
LEMMA UpdateWaitReasonUnder ==
  ASSUME NEW x, NEW d, Under(x, d), NEW s \in SubTasks, NEW from, NEW to \in Reason
  PROVE  Under(x, UpdatePausedRobotWaitReason(d, s, from, to))
<1> DEFINE e == UpdatePausedRobotWaitReason(d, s, from, to)
           row == [d.sub[s] EXCEPT !.reason = to]
<1>1. d \in Database /\ d.sub \in [SubTasks -> SubRow] /\ d.sub[s] \in SubRow
  BY DatabaseRows DEF Under
<1>2. Follows(d, e)
  BY <1>1, UpdateWaitReasonFollows
<1>3. row.status = d.sub[s].status /\ row.ref = d.sub[s].ref
  BY <1>1 DEF SubRow
<1>4. e.exec = d.exec /\ e.sub \in {d.sub, [d.sub EXCEPT ![s] = row]}
  <2>1. CASE CanUpdateWaitReason(d, s, from)
    <3>1. e = [d EXCEPT !.task[TaskOf[s]].reason = to, !.sub[s].reason = to]
      BY <2>1 DEF UpdatePausedRobotWaitReason
    <3> HIDE DEF e
    <3> QED BY <1>1, <3>1 DEF Database
  <2>2. CASE ~CanUpdateWaitReason(d, s, from)
    BY <2>2 DEF UpdatePausedRobotWaitReason
  <2> QED BY <2>1, <2>2
<1> HIDE DEF e, row
<1>5. \A y \in SubTasks : RowEvident(d.sub[y], d.exec[y])
  BY UnderRows
<1>6. RowEvident(row, d.exec[s])
  BY <1>3, <1>5 DEF RowEvident
<1>7. \A y \in SubTasks : RowEvident(e.sub[y], d.exec[y])
  BY <1>1, <1>4, <1>5, <1>6
<1> QED BY <1>2, <1>4, <1>7, RowsUnder DEF e

\* A resume gives back as pending only what never had an Execution.
LEMMA ResumedTasksUnder ==
  ASSUME NEW x, NEW d, Under(x, d), NEW S, \A t \in S : t \in Tasks => d.task[t].status = "paused"
  PROVE  Under(x, ResumedTasks(d, S))
<1> DEFINE e == ResumedTasks(d, S)
           back(s) == [d.sub[s] EXCEPT !.status = "pending", !.reason = ""]
<1>1. d \in Database
  BY DEF Under
<1>2. Follows(d, e)
  BY <1>1, ResumedTasksFollow
<1>3. e.exec = d.exec /\ \A s \in SubTasks :
         \/ e.sub[s] = d.sub[s]
         \/ d.sub[s].status = "paused" /\ ~d.sub[s].ref /\ e.sub[s] = back(s)
  BY <1>1 DEF ResumedTasks, ResumePausedAgentSteps, Database
<1> HIDE DEF e
<1>4. ASSUME NEW s \in SubTasks
      PROVE  RowEvident(e.sub[s], d.exec[s])
  <2>1. d.sub[s] \in SubRow /\ RowEvident(d.sub[s], d.exec[s])
    BY UnderRows
  <2>2. back(s).status = "pending" /\ back(s).ref = d.sub[s].ref
    BY <2>1 DEF SubRow
  <2>3. d.sub[s].status = "paused" /\ ~d.sub[s].ref => d.exec[s].status = "none"
    BY <2>1 DEF RowEvident
  <2> HIDE DEF back
  <2> QED BY <1>3, <2>1, <2>2, <2>3 DEF RowEvident
<1> QED BY <1>2, <1>3, <1>4, RowsUnder DEF e

\* Recovery after a restart attaches every Execution it finds.
LEMMA InterruptedUnder ==
  ASSUME NEW x, NEW d, Under(x, d)
  PROVE  Under(x, Interrupted(d))
<1> DEFINE e == Interrupted(d)
           found(s) == s \in RobotSkills /\ d.exec[s].status # "none"
<1>1. d \in Database /\ Coherent(d)
  BY DEF Under
<1>2. Follows(d, e)
  BY <1>1, InterruptedFollows
<1>3. e.exec = d.exec /\ \A s \in SubTasks :
         \/ d.sub[s].status # "running" /\ e.sub[s] = d.sub[s]
         \/ /\ e.sub[s].status = "paused"
            /\ e.sub[s].ref = (d.sub[s].ref \/ found(s))
  BY <1>1 DEF Interrupted, Database
<1> HIDE DEF e
<1>4. ASSUME NEW s \in SubTasks
      PROVE  RowEvident(e.sub[s], d.exec[s])
  <2>1. RowEvident(d.sub[s], d.exec[s]) /\ (d.exec[s].status # "none" => found(s))
    BY <1>1, UnderRows DEF Coherent
  <2> HIDE DEF found
  <2> QED BY <1>3, <2>1 DEF RowEvident
<1> QED BY <1>2, <1>3, <1>4, RowsUnder DEF e

\* The Workflow row that follows the recovered Tasks.
LEMMA RecoveredWorkflowUnder ==
  ASSUME NEW x, NEW d, Under(x, d)
  PROVE  Under(x, RecoveredWorkflow(d))
<1>1. Under(x, Interrupted(d))
  BY InterruptedUnder
<1>2. Under(x, TransitionWorkflow(Interrupted(d), "paused", "execution_state_unknown"))
      /\ Under(x, TransitionWorkflow(Interrupted(d), "paused", "server_restarted"))
  BY <1>1, TransitionsUnder, Names
<1> QED BY <1>1, <1>2, Zenon DEF RecoveredWorkflow

\* schedule and finishOrSchedule.
LEMMA ScheduleUnder ==
  ASSUME NEW x, NEW d, Under(x, d)
  PROVE  Under(x, Schedule(d))
<1>1. CASE MapRefused(d)
  <2> DEFINE t == Least(ListRunnableTasks(d))
             e == SetPendingTaskReason(d, t, "map_generation_changed")
  <2>1. t \in Tasks
    BY <1>1, RunnableAreTasks DEF MapRefused
  <2> HIDE DEF t
  <2>2. Under(x, e)
    BY <2>1, Names, TransitionsUnder
  <2> HIDE DEF e
  <2>3. Under(x, TransitionWorkflow(e, "paused", "map_generation_changed"))
    BY <2>2, Names, TransitionsUnder
  <2> QED BY <1>1, <2>3 DEF Schedule, e, t
<1>2. CASE ~MapRefused(d)
  BY <1>2 DEF Schedule
<1> QED BY <1>1, <1>2

\* finishOrSchedule, of which schedule is the last part.
LEMMA ScheduledFinishUnder ==
  ASSUME NEW x, NEW d, Under(x, d)
  PROVE  Under(x, Schedule(Finish(d)))
<1>1. Under(x, Converge(d))
  BY ConvergeUnder
<1>2. Under(x, stopPendingWork(d))
  BY StopPendingUnder
<1>3. Under(x, TransitionWorkflow(stopPendingWork(d), "failed", ""))
  BY <1>2, Names, TransitionsUnder
<1>4. Under(x, TransitionWorkflow(d, "completed", ""))
  BY Names, TransitionsUnder
<1>5. Under(x, Finish(d))
  BY <1>1, <1>3, <1>4, Zenon DEF Finish
<1> QED BY <1>5, ScheduleUnder

------------------------------------------------------------------------------
(* Calls under way speak the truth, and what a step may not do follows.     *)

\* An event was read of an Execution that went on, and an end that is stored is the one
\* that its event told: unless an operator confirmed the stop meanwhile.
NoteTrue(n, x) ==
  /\ n.status # "queued"
  /\ ~x.word /\ ~n.saved => x.status \in Carried /\ (n.status \in Carried \/ n.status = x.pilot)
  /\ ~x.word /\ n.saved /\ n.status \in TerminalWork => x.status = n.status /\ x.safe = n.safe
Informed == \A r \in Robots : notify[r].sub # 0 => NoteTrue(notify[r], db.exec[notify[r].sub])

\* Nothing acts before it is admitted, and a row is over only as the Pilot said, as an
\* operator did, or before the Pilot had it.
ExecTrue(x) ==
  /\ x.status = "none" => x.phys = "none"
  /\ x.word \/ x.status \in Carried \/ x.pilot \in {"nothing", x.status}
ExecsTrue(d) == \A s \in SubTasks : ExecTrue(d.exec[s])

\* A goroutine is about a SubTask of its Task, and a decision or recovery Run is about
\* one that names its Execution, unless it ended.
Replying == {"decide", "replied", "recover"}
Asks(row) == row.ref \/ row.status \in TerminalWork
Replies ==
  \A t \in Tasks : /\ run[t].pc \in Replying => Asks(db.sub[run[t].sub])
                   /\ run[t].sub # 0 => TaskOf[run[t].sub] = t

\* So are the decisions still to be started, and the targets of an operator's confirmation.
Calling ==
  \A t \in Tasks, s \in SubTasks :
    Call("decide", s) \in cont[t] => Asks(db.sub[s]) /\ TaskOf[s] = t
Asked == \A s \in confirm.todo : db.sub[s].ref

\* The Pilot has nothing of what is being dispatched.
Sends(rs, s) == \E t \in Tasks : rs[t].pc = "dispatch" /\ rs[t].sub = s
Unsent(s, x, notes) ==
  /\ x.pilot = "nothing" /\ x.phys = "none"
  /\ x.word \/ /\ x.status \in {"queued", "interrupted"}
               /\ \A r \in Robots : notes[r].sub = s => notes[r].saved
Dispatches == \A s \in SubTasks : Sends(run, s) => Unsent(s, db.exec[s], notify)

EInv == Evident(db) /\ ExecsTrue(db) /\ Informed /\ Replies /\ Calling /\ Asked /\ Dispatches

\* What a step may not do: replay an Execution.
ReplayFree ==
  \A s \in SubTasks : db.exec[s].status # "none" =>
    /\ db'.sub[s].status # "pending"
    /\ db'.exec[s].status # "queued" \/ db.exec[s].status = "queued"

Lawful == EInv' /\ ReplayFree

\* Goroutines that reply or dispatch did so before, and none changed its Task.
SameReply(rs, ns) ==
  \A t \in Tasks :
    /\ ns[t].pc \in Replying => rs[t].pc \in Replying /\ ns[t].sub = rs[t].sub
    /\ ns[t].pc = "dispatch" => rs[t].pc = "dispatch" /\ ns[t].sub = rs[t].sub
    /\ ns[t].sub \in {0, rs[t].sub} \cup SubsOf(t)

\* No decision is added to those still to be started.
SameCalls(calls, next) ==
  \A t \in Tasks, s \in SubTasks : Call("decide", s) \in next[t] => Call("decide", s) \in calls[t]

\* Executions that moved only by an operator's confirmation.
ConfirmedIn(x) ==
  \A s \in SubTasks :
    \/ x[s] = db.exec[s]
    \/ /\ db.exec[s].status \in Confirmable /\ x[s].status = "stopped" /\ x[s].word
       /\ x[s].pilot = db.exec[s].pilot /\ x[s].phys = db.exec[s].phys

\* A goroutine's question stays as good as it was.
LEMMA AsksKept ==
  ASSUME EndsKept(db, db'), NEW s \in SubTasks, Asks(db.sub[s])
  PROVE  Asks(db'.sub[s])
BY DEF EndsKept, Asks

\* Hence the decision and recovery Runs that go on still ask about such a SubTask.
LEMMA RepliesGoOn ==
  ASSUME IInv, Replies, EndsKept(db, db'),
         \A t \in Tasks :
           /\ run'[t].pc \in Replying => run[t].pc \in Replying /\ run'[t].sub = run[t].sub
           /\ run'[t].sub \in {0, run[t].sub} \cup SubsOf(t)
  PROVE  Replies'
<1> SUFFICES ASSUME NEW t \in Tasks
             PROVE  /\ run'[t].pc \in Replying => Asks(db'.sub[run'[t].sub])
                    /\ run'[t].sub # 0 => TaskOf[run'[t].sub] = t
  BY DEF Replies
<1>1. ASSUME run'[t].pc \in Replying
      PROVE  Asks(db'.sub[run'[t].sub])
  <2>1. run[t].pc \in Replying /\ run'[t].sub = run[t].sub
    BY <1>1
  <2>2. run[t].sub \in SubTasks
    BY <2>1 DEF IInv, RunsOK, RunRowOK, RunRow, Replying
  <2>3. Asks(db.sub[run[t].sub])
    BY <2>1 DEF Replies
  <2> QED BY <2>1, <2>2, <2>3, AsksKept
<1> QED BY <1>1 DEF Replies, SubsOf

\* In particular when no other goroutine starts to reply.
LEMMA RepliesKept ==
  ASSUME IInv, Replies, EndsKept(db, db'), SameReply(run, run')
  PROVE  Replies'
BY RepliesGoOn DEF SameReply

\* The decisions still to be started, too.
LEMMA CallingKept ==
  ASSUME Calling, EndsKept(db, db'), SameCalls(cont, cont')
  PROVE  Calling'
BY AsksKept DEF Calling, SameCalls

\* What steps do to the calls under way but for ContinueLooks.
LEMMA CallsSpared ==
  ASSUME CallsOK, NEW t \in Tasks
  PROVE  /\ cont' = cont => SameCalls(cont, cont')
         /\ cont' = [cont EXCEPT ![t] = @ \cup {Call("called", 0)}] => SameCalls(cont, cont')
         /\ \A c : GoesOn(t, c, {}) => SameCalls(cont, cont')
<1>1. cont \in [Tasks -> SUBSET Calls]
  BY DEF CallsOK
<1>2. \A s : Call("decide", s) # Call("called", 0)
  BY DEF Call
<1>3. cont' = [cont EXCEPT ![t] = @ \cup {Call("called", 0)}] => SameCalls(cont, cont')
  BY <1>1, <1>2 DEF SameCalls
<1>4. \A c : GoesOn(t, c, {}) => SameCalls(cont, cont')
  BY <1>1 DEF SameCalls, GoesOn
<1> QED BY <1>3, <1>4 DEF SameCalls

\* What was read of an Execution remains true when the workflow service holds it.
LEMMA NoteHeld ==
  ASSUME NEW n \in NoteRow, NEW x \in ExecRow, NEW y \in ExecRow,
         NoteTrue(n, x), x.status \notin TerminalWork, Held(x, y)
  PROVE  NoteTrue(n, y)
<1>1. {"stopping", "interrupted"} \subseteq Carried /\ n.status # "start"
  BY DEF Carried, ActiveExecution, NoteRow, ExecutionStatus, TerminalWork
<1> QED BY <1>1 DEF NoteTrue, Held

\* A step of the workflow service, after at most a confirmation.
LEMMA AskingLawful ==
  ASSUME IInv, EInv, Good, NEW x, ConfirmedIn(x), Under(x, db'),
         \A r \in Robots : notify'[r] = notify[r] \/ notify'[r].sub = 0,
         Replies', Calling', Asked', \A s \in SubTasks : Sends(run', s) => Sends(run, s)
  PROVE  Lawful
<1>0. /\ db \in Database /\ Evident(db) /\ Evident(db') /\ HeldTo(x, db')
      /\ db.exec \in [SubTasks -> ExecRow] /\ db'.exec \in [SubTasks -> ExecRow]
      /\ notify \in [Robots -> NoteRow]
  BY DatabaseRows DEF Good, EInv, IInv, DbOK, Under, CallsOK
<1>1. \A s \in SubTasks : Sending(s) <=> Sends(run, s)
  BY DEF Sending, Sends
<1>2. ASSUME NEW s \in SubTasks
      PROVE  \/ db'.exec[s] = db.exec[s]
             \/ ~Sends(run, s) /\ db.exec[s].status \notin TerminalWork /\ Held(db.exec[s], db'.exec[s])
             \/ /\ db.exec[s].status # "none" /\ db'.exec[s].word
                /\ db'.exec[s].status \in {"stopped", "stopping", "interrupted"}
                /\ Sends(run, s) => db'.exec[s].pilot = db.exec[s].pilot
                                    /\ db'.exec[s].phys = db.exec[s].phys
  <2>1. \/ db'.exec[s] = x[s]
        \/ ~Sends(run, s) /\ x[s].status \notin TerminalWork /\ Held(x[s], db'.exec[s])
    BY <1>0, <1>1 DEF HeldTo
  <2>2. CASE x[s] = db.exec[s]
    BY <2>1, <2>2
  <2>3. CASE /\ db.exec[s].status \in Confirmable /\ x[s].status = "stopped" /\ x[s].word
             /\ x[s].pilot = db.exec[s].pilot /\ x[s].phys = db.exec[s].phys
    <3>1. db.exec[s].status # "none" /\ x[s].status \in TerminalWork
      BY <2>3 DEF Confirmable, TerminalWork
    <3> QED BY <2>1, <2>3, <3>1
  <2> QED BY <2>2, <2>3 DEF ConfirmedIn
<1>3. Informed'
  <2> SUFFICES ASSUME NEW r \in Robots, notify'[r].sub # 0
               PROVE  NoteTrue(notify'[r], db'.exec[notify'[r].sub])
    BY DEF Informed
  <2> DEFINE n == notify[r]
             s == notify[r].sub
  <2>1. notify'[r] = n /\ n \in NoteRow /\ s \in SubTasks
    BY <1>0 DEF NoteRow
  <2>2. NoteTrue(n, db.exec[s]) /\ db.exec[s] \in ExecRow /\ db'.exec[s] \in ExecRow
    BY <1>0, <2>1 DEF EInv, Informed
  <2>3. CASE db.exec[s].status \notin TerminalWork /\ Held(db.exec[s], db'.exec[s])
    BY <2>1, <2>2, <2>3, NoteHeld
  <2>4. CASE db'.exec[s].word
    BY <2>1, <2>2, <2>4 DEF NoteTrue
  <2> QED BY <1>2, <2>1, <2>2, <2>3, <2>4
<1>4. ExecsTrue(db')
  <2> SUFFICES ASSUME NEW s \in SubTasks PROVE ExecTrue(db'.exec[s])
    BY DEF ExecsTrue
  <2>1. ExecTrue(db.exec[s]) /\ {"stopping", "interrupted"} \subseteq Carried
    BY DEF EInv, ExecsTrue, Carried, ActiveExecution
  <2> QED BY <1>2, <2>1 DEF ExecTrue, Held
<1>5. ReplayFree
  BY <1>0, <1>2 DEF ReplayFree, Evident, RowEvident, Held
<1>6. Dispatches'
  <2> SUFFICES ASSUME NEW s \in SubTasks, Sends(run', s) PROVE Unsent(s, db'.exec[s], notify')
    BY DEF Dispatches
  <2>1. Sends(run, s) /\ Unsent(s, db.exec[s], notify) /\ s # 0
    BY PositionAssumption DEF EInv, Dispatches
  <2>2. CASE db'.exec[s].word
    BY <1>2, <2>1, <2>2 DEF Unsent
  <2> QED BY <1>2, <2>1, <2>2 DEF Unsent
<1> QED BY <1>0, <1>3, <1>4, <1>5, <1>6 DEF Lawful, EInv

\* Whoever dispatches did so before.
LEMMA SendsKept ==
  ASSUME SameReply(run, run')
  PROVE  \A s \in SubTasks : Sends(run', s) => Sends(run, s)
BY DEF Sends, SameReply, Replying

\* ... that asks for nothing new to be confirmed.
LEMMA EngineLawful ==
  ASSUME IInv, EInv, Good, NEW x, ConfirmedIn(x), Under(x, db'),
         \A r \in Robots : notify'[r] = notify[r] \/ notify'[r].sub = 0,
         Replies', \A s \in SubTasks : Sends(run', s) => Sends(run, s),
         SameCalls(cont, cont'), confirm'.todo \subseteq confirm.todo
  PROVE  Lawful
<1>1. Asked'
  BY DEF Asked, EInv, EndsKept, Good, IInv, CallsOK
<1>2. Calling'
  BY CallingKept DEF EInv, Good
<1> QED BY <1>1, <1>2, AskingLawful

\* The database is one of its own Executions.
LEMMA SelfUnder ==
  ASSUME IInv, EInv
  PROVE  Under(db.exec, db) /\ ConfirmedIn(db.exec)
BY DEF IInv, EInv, DbOK, Under, HeldTo, ConfirmedIn

\* The common case: nothing new is heard, asked or confirmed.
LEMMA UnderLawful ==
  ASSUME IInv, EInv, Good, Under(db.exec, db'), SameReply(run, run'), SameCalls(cont, cont'),
         UNCHANGED <<notify, confirm>>
  PROVE  Lawful
<1>1. Replies'
  BY RepliesKept DEF Good, EInv
<1> QED BY <1>1, SelfUnder, SendsKept, EngineLawful

\* Replacing a goroutine by one that does not reply, or moving one on.
LEMMA SameReplyMoves ==
  ASSUME NEW rs, RunsOK(db, rs), NEW t \in Tasks
  PROVE  /\ SameReply(rs, rs)
         /\ SameReply(rs, [rs EXCEPT ![t] = Idle])
         /\ SameReply(rs, [rs EXCEPT ![t] = At("pick", 0)])
         /\ \A pc \in {"bind", "wait", "plan", "launch", "agent"} :
              /\ SameReply(rs, [rs EXCEPT ![t].pc = pc])
              /\ \A r : SameReply(rs, [rs EXCEPT ![t].pc = pc, ![t].robot = r])
              /\ \A s \in SubsOf(t) : SameReply(rs, [rs EXCEPT ![t].pc = pc, ![t].sub = s])
         /\ \A d : SameReply(rs, Cancelled(d, rs, t))
<1>1. rs \in [Tasks -> RunRow] /\ rs[t] \in RunRow
  BY DEF RunsOK
<1>2. ASSUME NEW row,
             row.pc \notin Replying \cup {"dispatch"} \/ (row.pc = rs[t].pc /\ row.sub = rs[t].sub),
             row.sub \in {0, rs[t].sub} \cup SubsOf(t)
      PROVE  SameReply(rs, [rs EXCEPT ![t] = row])
  BY <1>1, <1>2 DEF SameReply
<1>3. /\ Idle.pc \notin Replying \cup {"dispatch"} /\ Idle.sub = 0
      /\ At("pick", 0).pc \notin Replying \cup {"dispatch"} /\ At("pick", 0).sub = 0
  BY DEF Idle, At, Replying
<1>4. SameReply(rs, [rs EXCEPT ![t] = Idle]) /\ SameReply(rs, [rs EXCEPT ![t] = At("pick", 0)])
  BY <1>2, <1>3
<1>5. ASSUME NEW pc \in {"bind", "wait", "plan", "launch", "agent"}
      PROVE  SameReply(rs, [rs EXCEPT ![t].pc = pc])
  <2> DEFINE row == [rs[t] EXCEPT !.pc = pc]
  <2>1. row.pc \notin Replying \cup {"dispatch"} /\ row.sub = rs[t].sub
    BY <1>1 DEF RunRow, Replying
  <2> HIDE DEF row
  <2>2. SameReply(rs, [rs EXCEPT ![t] = row])
    BY <1>2, <2>1
  <2> QED BY <2>2 DEF row
<1>6. ASSUME NEW pc \in {"bind", "wait", "plan", "launch", "agent"}, NEW r
      PROVE  SameReply(rs, [rs EXCEPT ![t].pc = pc, ![t].robot = r])
  <2> DEFINE row == [rs[t] EXCEPT !.pc = pc, !.robot = r]
  <2>1. row.pc \notin Replying \cup {"dispatch"} /\ row.sub = rs[t].sub
    BY <1>1 DEF RunRow, Replying
  <2>2. [rs EXCEPT ![t].pc = pc, ![t].robot = r] = [rs EXCEPT ![t] = row]
    BY <1>1
  <2> HIDE DEF row
  <2> QED BY <1>2, <2>1, <2>2
<1>7. ASSUME NEW pc \in {"bind", "wait", "plan", "launch", "agent"}, NEW s \in SubsOf(t)
      PROVE  SameReply(rs, [rs EXCEPT ![t].pc = pc, ![t].sub = s])
  <2> DEFINE row == [rs[t] EXCEPT !.pc = pc, !.sub = s]
  <2>1. row.pc \notin Replying \cup {"dispatch"} /\ row.sub = s
    BY <1>1 DEF RunRow, Replying
  <2>2. [rs EXCEPT ![t].pc = pc, ![t].sub = s] = [rs EXCEPT ![t] = row]
    BY <1>1
  <2> HIDE DEF row
  <2> QED BY <1>2, <2>1, <2>2
<1>8. SameReply(rs, rs)
  BY DEF SameReply
<1>9. ASSUME NEW d
      PROVE  SameReply(rs, Cancelled(d, rs, t))
  <2> DEFINE row == [rs[t] EXCEPT !.cancelled = TRUE]
  <2>1. row.pc = rs[t].pc /\ row.sub = rs[t].sub
    BY <1>1 DEF RunRow
  <2> HIDE DEF row
  <2>2. SameReply(rs, [rs EXCEPT ![t] = row])
    BY <1>2, <2>1
  <2> QED BY <1>8, <2>2 DEF Cancelled, row
<1> QED BY <1>4, <1>5, <1>6, <1>7, <1>8, <1>9

\* reserveTask starts none that replies.
LEMMA ReserveReply ==
  ASSUME NEW rs, NEW ns, RunsOK(db, ns), SameReply(rs, ns), NEW d
  PROVE  SameReply(rs, Reserve(d, ns))
<1> SUFFICES ASSUME NEW t \in Tasks
             PROVE  LET row == Reserve(d, ns)[t] IN
                    /\ row.pc \in Replying => rs[t].pc \in Replying /\ row.sub = rs[t].sub
                    /\ row.pc = "dispatch" => rs[t].pc = "dispatch" /\ row.sub = rs[t].sub
                    /\ row.sub \in {0, rs[t].sub} \cup SubsOf(t)
  BY DEF SameReply
<1> DEFINE old == [ns[t] EXCEPT !.fresh = FALSE]
<1>1. \/ Reserve(d, ns)[t] = old
      \/ Reserve(d, ns)[t] = At("resolve", 0)
      \/ Reserve(d, ns)[t] = ns[t]
  BY Zenon DEF Reserve
<1>2. old.pc = ns[t].pc /\ old.sub = ns[t].sub
  BY DEF RunsOK, RunRow
<1>3. At("resolve", 0).pc \notin Replying \cup {"dispatch"} /\ At("resolve", 0).sub = 0
  BY DEF At, Replying
<1> HIDE DEF old
<1> QED BY <1>1, <1>2, <1>3 DEF SameReply

\* finishOrSchedule.
LEMMA FinishOrScheduleLawful ==
  ASSUME IInv, EInv, Good, NEW d, Under(db.exec, d), NEW rs, RunsOK(db, rs), SameReply(run, rs),
         NEW owner, FinishOrSchedule(d, rs, owner), SameCalls(cont, cont'),
         UNCHANGED <<notify, confirm>>
  PROVE  Lawful
<1>1. Under(db.exec, db')
  BY ScheduledFinishUnder DEF FinishOrSchedule
<1>2. SameReply(run, run')
  BY ReserveReply DEF FinishOrSchedule
<1> QED BY <1>1, <1>2, UnderLawful

\* prepareAndLaunchTask that gives up.
LEMMA PreparationFailsLawful ==
  ASSUME IInv, EInv, Good, NEW t \in Tasks, PreparationFails(t)
  PROVE  Lawful
<1>1. Under(db.exec, failTask(db, t))
  BY SelfUnder, FailTaskUnder
<1>2. RunsOK(db, [run EXCEPT ![t] = Idle]) /\ SameReply(run, [run EXCEPT ![t] = Idle])
  BY IdleOK, RunsUpdated, SameReplyMoves DEF IInv
<1>3. FinishOrSchedule(failTask(db, t), [run EXCEPT ![t] = Idle], Released(res, t))
      /\ UNCHANGED <<notify, confirm>> /\ SameCalls(cont, cont')
  BY DEF PreparationFails, SameCalls
<1> QED BY <1>1, <1>2, <1>3, FinishOrScheduleLawful

\* A binding changes the Robot of a Task only.
LEMMA AssignUnder ==
  ASSUME IInv, EInv, NEW t \in Tasks, NEW r \in Robots \cup {NoRobot}, CanAssign(db, t, r)
  PROVE  Under(db.exec, AssignTask(db, t, r))
<1> DEFINE e == AssignTask(db, t, r)
<1>1. e \in Database /\ Coherent(e)
  BY AssignStep DEF IInv, StepOK, DbOK
<1>2. e.sub = db.sub /\ e.exec = db.exec
  BY DEF AssignTask, IInv, DbOK, Database
<1> HIDE DEF e
<1>3. Evident(e) /\ HeldTo(db.exec, e)
  BY <1>2 DEF EInv, Evident, HeldTo
<1> QED BY <1>1, <1>3 DEF Under, e

\* prepareAndLaunchTask.
LEMMA PrepareLawful ==
  ASSUME IInv, EInv, NEW t \in Tasks, Prepare(t)
  PROVE  Lawful
<1>0. Good /\ Under(db.exec, db) /\ RunsOK(db, run) /\ SameCalls(cont, cont')
      /\ run[t].robot \in Robots \cup {NoRobot}
  <2>1. cont' = cont
    BY DEF Prepare, BindWorker, ResolveRobot, NoRobotFree, BindRobot, BindRefused, BindConflict,
           WaitForResource, PlanTask, PlanFails, PlanCancelled, ClaimRefused, LaunchTask,
           PreparationFails, Bound
  <2> QED BY <2>1, SelfUnder, PrepareGood DEF IInv, RunsOK, RunRow, SameCalls
<1>1. ASSUME NEW d, Under(db.exec, d), Bound(t, d)
      PROVE  Lawful
  <2>1. Under(db.exec, SetPendingTaskReason(d, t, "planning_subtasks"))
    BY <1>1, Names, TransitionsUnder
  <2>2. Under(db.exec, db') /\ UNCHANGED <<notify, confirm>>
    BY <1>1, <2>1 DEF Bound
  <2>3. \/ run' = [run EXCEPT ![t].pc = "launch", ![t].robot = NoRobot]
        \/ run' = [run EXCEPT ![t].pc = "plan", ![t].robot = NoRobot]
    BY <1>1 DEF Bound
  <2>4. SameReply(run, [run EXCEPT ![t].pc = "launch", ![t].robot = NoRobot])
        /\ SameReply(run, [run EXCEPT ![t].pc = "plan", ![t].robot = NoRobot])
    BY <1>0, SameReplyMoves
  <2>5. SameReply(run, run')
    BY <2>3, <2>4, Zenon
  <2> QED BY <1>0, <2>2, <2>5, UnderLawful
<1>2. CASE BindWorker(t)
  BY <1>0, <1>1, <1>2 DEF BindWorker
<1>3. CASE BindRobot(t)
  BY <1>0, <1>1, <1>3, AssignUnder DEF BindRobot
<1>4. CASE BindConflict(t) \/ PlanFails(t)
  BY <1>0, <1>4, PreparationFailsLawful DEF BindConflict, PlanFails
<1>5. CASE ResolveRobot(t) \/ NoRobotFree(t) \/ BindRefused(t) \/ PlanCancelled(t) \/ ClaimRefused(t)
  <2>1. db' = db /\ UNCHANGED <<notify, confirm>>
    BY <1>5 DEF ResolveRobot, NoRobotFree, BindRefused, PlanCancelled, ClaimRefused
  <2>2. \/ \E r : run' = [run EXCEPT ![t].pc = "bind", ![t].robot = r]
        \/ run' = [run EXCEPT ![t].pc = "wait"]
        \/ run' = [run EXCEPT ![t].pc = "wait", ![t].robot = NoRobot]
        \/ run' = [run EXCEPT ![t] = Idle]
    BY <1>5 DEF ResolveRobot, NoRobotFree, BindRefused, PlanCancelled, ClaimRefused
  <2>3. SameReply(run, run')
    <3>1. CASE \E r : run' = [run EXCEPT ![t].pc = "bind", ![t].robot = r]
      <4>1. PICK r : run' = [run EXCEPT ![t].pc = "bind", ![t].robot = r]
        BY <3>1
      <4>2. SameReply(run, [run EXCEPT ![t].pc = "bind", ![t].robot = r])
        BY <1>0, SameReplyMoves
      <4> QED BY <4>1, <4>2, Zenon
    <3>2. SameReply(run, [run EXCEPT ![t].pc = "wait"])
          /\ SameReply(run, [run EXCEPT ![t].pc = "wait", ![t].robot = NoRobot])
          /\ SameReply(run, [run EXCEPT ![t] = Idle])
      BY <1>0, SameReplyMoves
    <3> QED BY <2>2, <3>1, <3>2, Zenon
  <2> QED BY <1>0, <2>1, <2>3, UnderLawful
<1>6. CASE WaitForResource(t)
  <2>1. Under(db.exec, SetPendingTaskReason(db, t, "waiting_resource"))
    BY <1>0, Names, TransitionsUnder
  <2>2. SameReply(run, [run EXCEPT ![t] = Idle])
    BY <1>0, SameReplyMoves
  <2> QED BY <1>0, <1>6, <2>1, <2>2, UnderLawful DEF WaitForResource
<1>7. CASE PlanTask(t)
  <2>1. Under(db.exec, SetTaskSubTasks(db, t))
    BY <1>0, <1>7, SetTaskSubTasksUnder DEF PlanTask
  <2>2. SameReply(run, [run EXCEPT ![t].pc = "launch"])
    BY <1>0, SameReplyMoves
  <2> QED BY <1>0, <1>7, <2>1, <2>2, UnderLawful DEF PlanTask
<1>8. CASE LaunchTask(t)
  <2>1. Under(db.exec, TransitionTask(db, t, "running", ""))
    BY <1>0, Names, TransitionsUnder
  <2>2. SameReply(run, [run EXCEPT ![t] = Idle]) /\ SameReply(run, [run EXCEPT ![t] = At("pick", 0)])
    BY <1>0, SameReplyMoves
  <2>3. Under(db.exec, db') /\ SameReply(run, run') /\ UNCHANGED <<notify, confirm>>
    BY <1>0, <1>8, <2>1, <2>2 DEF LaunchTask
  <2> QED BY <1>0, <2>3, UnderLawful
<1> QED BY <1>2, <1>3, <1>4, <1>5, <1>6, <1>7, <1>8 DEF Prepare

\* A step of Robot Service or of a Pilot rewrites one Execution and says at most of this one
\* something new: what it says must be true, and so must be what was said of it before.
LEMMA RobotLawful ==
  ASSUME IInv, EInv, Good, NEW s \in SubTasks, NEW row \in ExecRow,
         db'.sub = db.sub, db'.exec = [db.exec EXCEPT ![s] = row],
         RowEvident(db.sub[s], row), ExecTrue(row),
         row.status = "queued" => db.exec[s].status \in {"none", "queued"},
         Sends(run', s) => Unsent(s, row, notify'),
         \A y \in SubTasks \ {s} : Sends(run', y) => Sends(run, y),
         \A q \in Robots : \/ notify'[q].sub = 0
                           \/ notify'[q].sub # s /\ notify'[q] = notify[q]
                           \/ notify'[q].sub = s /\ NoteTrue(notify'[q], row),
         Replies', UNCHANGED <<cont, confirm>>
  PROVE  Lawful
<1>0. /\ db.exec \in [SubTasks -> ExecRow] /\ EndsKept(db, db')
      /\ \A q \in Robots : notify[q].sub \in SubTasks \cup {0}
  BY DatabaseRows DEF IInv, DbOK, CallsOK, NoteRow, Good
<1>1. db'.exec[s] = row /\ \A y \in SubTasks \ {s} : db'.exec[y] = db.exec[y]
  BY <1>0
<1>2. Evident(db')
  BY <1>1 DEF EInv, Evident
<1>3. ExecsTrue(db')
  BY <1>1 DEF EInv, ExecsTrue
<1>4. Informed'
  <2> SUFFICES ASSUME NEW q \in Robots, notify'[q].sub # 0
               PROVE  NoteTrue(notify'[q], db'.exec[notify'[q].sub])
    BY DEF Informed
  <2>1. CASE notify'[q].sub = s /\ NoteTrue(notify'[q], row)
    BY <1>1, <2>1
  <2>2. CASE notify'[q].sub # s /\ notify'[q] = notify[q]
    BY <1>0, <1>1, <2>2 DEF EInv, Informed
  <2> QED BY <2>1, <2>2
<1>5. Calling' /\ Asked'
  BY <1>0, CallingKept DEF EInv, SameCalls, Asked
<1>6. ReplayFree
  BY <1>1 DEF EInv, Evident, RowEvident, ReplayFree
<1>7. Dispatches'
  <2> SUFFICES ASSUME NEW y \in SubTasks, Sends(run', y) PROVE Unsent(y, db'.exec[y], notify')
    BY DEF Dispatches
  <2>1. CASE y = s
    BY <1>1, <2>1
  <2>2. CASE y # s
    <3>1. Unsent(y, db.exec[y], notify) /\ y # 0
      BY <2>2, PositionAssumption DEF EInv, Dispatches
    <3>2. \A q \in Robots : notify'[q].sub = y => notify'[q] = notify[q]
      BY <2>2, <3>1
    <3> QED BY <1>1, <2>2, <3>1, <3>2 DEF Unsent
  <2> QED BY <2>1, <2>2
<1> QED BY <1>2, <1>3, <1>4, <1>5, <1>6, <1>7 DEF Lawful, EInv

\* What a row is evidence for depends on the Execution only through these two facts.
LEMMA EvidentFor ==
  ASSUME NEW row, NEW x, NEW y, RowEvident(row, x), x.status # "none", y.status # "none",
         Proven(x) => Proven(y)
  PROVE  RowEvident(row, y)
BY DEF RowEvident

\* An Execution that is carried proves nothing but by an operator's word.
LEMMA CarriedProof ==
  ASSUME NEW x, x.word \/ x.status \in Carried, Proven(x)
  PROVE  x.word
BY DEF Proven, AtRest, Carried, ActiveExecution

\* robot.run was accepted: the SubTask runs, and nothing was said of the Execution yet.
LEMMA AdmittedLawful ==
  ASSUME IInv, EInv, Good, NEW t \in Tasks, RunRobotSkill(t)
  PROVE  Lawful
<1> DEFINE s == run[t].sub
           row == [db.exec[s] EXCEPT !.status = "queued"]
<1>0. /\ db \in Database /\ Coherent(db) /\ db.exec \in [SubTasks -> ExecRow] /\ s \in SubTasks
      /\ run \in [Tasks -> RunRow] /\ EndsKept(db, db')
  BY DatabaseRows DEF IInv, DbOK, RunsOK, RunRow, RunRobotSkill, Good
<1>1. db.exec[s].status = "none" /\ db.sub[s].status = "running" /\ run[t].pc = "agent"
  BY DEF RunRobotSkill, CanAdmit
<1>2. db.exec[s].pilot = "nothing" /\ db.exec[s].phys = "none"
  BY <1>0, <1>1, HasBegun DEF EInv, ExecsTrue, ExecTrue
<1>3. db' = AdmitRobotExecution(db, s) /\ run' = [run EXCEPT ![t].pc = "dispatch"]
      /\ UNCHANGED <<cont, confirm, notify>>
  BY DEF RunRobotSkill
<1> HIDE DEF s
<1>4. row \in ExecRow /\ row.status = "queued" /\ row.pilot = "nothing" /\ row.phys = "none"
  BY <1>0, <1>2 DEF ExecRow, ExecutionStatus, ActiveExecution
<1>5. db'.sub = db.sub /\ db'.exec = [db.exec EXCEPT ![s] = row]
  BY <1>0, <1>3 DEF AdmitRobotExecution, Database
<1> HIDE DEF row
<1>6. RowEvident(db.sub[s], row) /\ ExecTrue(row)
  BY <1>1, <1>4 DEF RowEvident, ExecTrue, Carried, ActiveExecution
<1>7. \A q \in Robots : notify[q].sub # s
  BY <1>0, <1>1, PositionAssumption DEF IInv, Heard
<1>8. \A u \in Tasks : /\ run'[u].sub = run[u].sub
                       /\ run'[u].pc = IF u = t THEN "dispatch" ELSE run[u].pc
  BY <1>0, <1>3 DEF RunRow
<1>9. Replies'
  <2>1. \A u \in Tasks : run'[u].pc \in Replying => run[u].pc \in Replying
    BY <1>8 DEF Replying
  <2> QED BY <1>0, <1>8, <2>1, RepliesGoOn DEF EInv
<1>10. \A y \in SubTasks \ {s} : Sends(run', y) => Sends(run, y)
  BY <1>8 DEF Sends, s
<1>11. Unsent(s, row, notify')
  BY <1>3, <1>4, <1>7 DEF Unsent
<1> QED BY <1>0, <1>1, <1>3, <1>4, <1>5, <1>6, <1>7, <1>9, <1>10, <1>11, RobotLawful

\* The dispatch ends: the Pilot has its start, or the row says that it has not.
DispatchEnd(x, row) ==
  /\ row \in ExecRow /\ row.word = x.word /\ row.safe = x.safe /\ row.phys = x.phys
  /\ \/ row.status = x.status
     \/ row.status \in {"interrupted", "failed", "stopped"} /\ row.pilot = x.pilot

LEMMA DispatchedLawful ==
  ASSUME IInv, EInv, Good, NEW t \in Tasks, run[t].pc = "dispatch",
         NEW s \in SubTasks, run[t].sub = s, NEW row, DispatchEnd(db.exec[s], row),
         db'.sub = db.sub, db'.exec = [db.exec EXCEPT ![s] = row],
         run' = [run EXCEPT ![t].pc = "agent"], UNCHANGED <<cont, confirm, notify>>
  PROVE  Lawful
<1> DEFINE x == db.exec[s]
<1>0. run \in [Tasks -> RunRow] /\ EndsKept(db, db') /\ x.status # "none" /\ ExecTrue(x)
      /\ RowEvident(db.sub[s], x)
  BY DEF IInv, RunsOK, RunRowOK, Good, EInv, Evident, ExecsTrue
<1>1. Unsent(s, x, notify) /\ TaskOf[s] = t
  BY PositionAssumption DEF EInv, Dispatches, Sends, Replies
<1> HIDE DEF x
<1>13. /\ row \in ExecRow /\ row.word = x.word /\ row.safe = x.safe /\ row.phys = x.phys
       /\ \/ row.status = x.status
          \/ row.status \in {"interrupted", "failed", "stopped"} /\ row.pilot = x.pilot
  BY DEF DispatchEnd, x
<1>2. x.word \/ x.status \in {"queued", "interrupted"}
  BY <1>1 DEF Unsent
<1>3. row.status # "none" /\ (row.word <=> x.word)
  BY <1>0, <1>2, <1>13 DEF x, Carried
<1>4. Proven(x) => Proven(row)
  <2>1. x.word \/ x.status \in Carried
    BY <1>2 DEF Carried, ActiveExecution
  <2>2. Proven(x) => x.word
    BY <2>1, CarriedProof
  <2> QED BY <1>3, <2>2 DEF Proven
<1>5. RowEvident(db.sub[s], row)
  BY <1>0, <1>3, <1>4, EvidentFor
<1>6. ExecTrue(row)
  BY <1>1, <1>2, <1>3, <1>13 DEF ExecTrue, Unsent, Carried, ActiveExecution, x
<1>7. \A u \in Tasks : /\ run'[u].sub = run[u].sub
                       /\ run'[u].pc = IF u = t THEN "agent" ELSE run[u].pc
  BY <1>0 DEF RunRow
<1>8. Replies'
  <2>1. \A u \in Tasks : run'[u].pc \in Replying => run[u].pc \in Replying
    BY <1>7 DEF Replying
  <2> QED BY <1>0, <1>7, <2>1, RepliesGoOn DEF EInv
<1>9. ~Sends(run', s)
  BY <1>1, <1>7, PositionAssumption DEF Sends, EInv, Replies
<1>10. \A y \in SubTasks \ {s} : Sends(run', y) => Sends(run, y)
  BY <1>7 DEF Sends
<1>11. ASSUME NEW q \in Robots, notify[q].sub = s
       PROVE  NoteTrue(notify[q], row)
  <2>1. NoteTrue(notify[q], x) /\ (x.word \/ notify[q].saved)
    BY <1>1, <1>11, PositionAssumption DEF EInv, Informed, Unsent, x
  <2> QED BY <1>2, <1>3, <1>13, <2>1 DEF NoteTrue, x, TerminalWork
<1>12. row.status = "queued" => x.status \in {"none", "queued"}
  BY <1>2, <1>13 DEF x, Carried
<1> QED BY <1>13, <1>5, <1>6, <1>8, <1>9, <1>10, <1>11, <1>12, RobotLawful DEF x

\* executeTask from the return of its executor on, in every exit.
LEMMA SettledUnder ==
  ASSUME NEW t \in Tasks, IInv, EInv, run[t].pc = "agent", NEW out \in Outcomes(t)
  PROVE  Under(db.exec, Settled(t, out))
<1> DEFINE s == run[t].sub
           d == IF out = "ok" THEN Recorded(db, s) ELSE db
<1>0. Under(db.exec, db) /\ s \in SubTasks \cup {0}
  BY SelfUnder DEF IInv, RunsOK, RunRow
<1>1. Under(db.exec, d)
  <2>1. CASE out # "ok"
    BY <1>0, <2>1
  <2>2. CASE out = "ok" /\ s = 0
    <3>1. 0 \notin RobotSkills
      BY PositionAssumption, PlanAssumption
    <3>2. Recorded(db, 0) = db
      BY <3>1, Zenon DEF Recorded
    <3> QED BY <1>0, <2>2, <3>2
  <2>3. CASE out = "ok" /\ s # 0 /\ s \in RobotSkills
    <3>1. db.exec[s].status # "none"
      BY <2>3 DEF Outcomes
    <3>2. Under(db.exec, AttachSubTaskExecution(db, s))
      BY <1>0, <2>3, <3>1, AttachUnder
    <3> QED BY <2>3, <3>2, Zenon DEF Recorded
  <2>4. CASE out = "ok" /\ s # 0 /\ s \notin RobotSkills
    <3>1. Under(db.exec, TransitionSubTask(db, s, "completed", ""))
      BY <1>0, <2>4, Names, SubMovesUnder
    <3> QED BY <2>4, <3>1, Zenon DEF Recorded
  <2> QED BY <2>1, <2>2, <2>3, <2>4
<1>2. Settled(t, out) =
        CASE Exit(t, out) = "stop" -> FinishStoppedTask(stopTaskSubTasks(d, t), t)
          [] Exit(t, out) = "fail" -> failTask(d, t)
          [] Exit(t, out) = "keep" -> d
          [] OTHER -> TransitionTask(d, t, "completed", "")
  BY Zenon DEF Settled
<1> HIDE DEF d
<1>3. Under(db.exec, FinishStoppedTask(stopTaskSubTasks(d, t), t))
  <2>1. \A y \in SubsOf(t) : ~Sending(y)
    BY PositionAssumption DEF Sending, SubsOf, EInv, Replies
  <2>2. Under(db.exec, stopTaskSubTasks(d, t))
    BY <1>1, <2>1, StopTaskSubTasksUnder
  <2> QED BY <2>2, FinishStoppedTaskUnder
<1>4. Under(db.exec, failTask(d, t)) /\ Under(db.exec, TransitionTask(d, t, "completed", ""))
  BY <1>1, Names, FailTaskUnder, TransitionsUnder
<1> QED BY <1>1, <1>2, <1>3, <1>4, Zenon

\* executeTask.
LEMMA ExecuteLawful ==
  ASSUME IInv, EInv, NEW t \in Tasks, Execute(t)
  PROVE  Lawful
<1>0. /\ Good /\ Under(db.exec, db) /\ RunsOK(db, run) /\ db \in Database
      /\ db.exec \in [SubTasks -> ExecRow] /\ run[t].sub \in SubTasks \cup {0}
  BY SelfUnder, ExecuteGood, DatabaseRows DEF IInv, DbOK, RunsOK, RunRow
<1>1. CASE PickSubTask(t)
  <2> DEFINE ready == ListRunnableSubTasks(db, t)
             x == Least(ready)
  <2>1. UNCHANGED <<notify, confirm>> /\ SameCalls(cont, cont')
    BY <1>1 DEF PickSubTask, SameCalls
  <2>2. /\ SameReply(run, [run EXCEPT ![t].pc = "agent"])
        /\ ready # {} => SameReply(run, [run EXCEPT ![t].pc = "agent", ![t].sub = x])
    <3>1. ready # {} => x \in SubsOf(t)
      BY RunnableSubTasks
    <3>2. /\ SameReply(run, [run EXCEPT ![t].pc = "agent"])
          /\ \A y \in SubsOf(t) : SameReply(run, [run EXCEPT ![t].pc = "agent", ![t].sub = y])
      BY <1>0, SameReplyMoves
    <3> HIDE DEF x, ready
    <3> QED BY <3>1, <3>2
  <2>3. ready # {} => Under(db.exec, TransitionSubTask(db, x, "running", ""))
    BY <1>0, RunnableSubTasks, SubMovesUnder, Names
  <2>4. \/ db' = db /\ run' = [run EXCEPT ![t].pc = "agent"]
        \/ /\ ready # {} /\ db' = TransitionSubTask(db, x, "running", "")
           /\ run' = [run EXCEPT ![t].pc = "agent", ![t].sub = x]
    BY <1>1 DEF PickSubTask
  <2>5. Under(db.exec, db') /\ SameReply(run, run')
    <3> HIDE DEF x, ready
    <3>1. CASE db' = db /\ run' = [run EXCEPT ![t].pc = "agent"]
      BY <1>0, <2>2, <3>1
    <3>2. CASE /\ ready # {} /\ db' = TransitionSubTask(db, x, "running", "")
               /\ run' = [run EXCEPT ![t].pc = "agent", ![t].sub = x]
      BY <2>2, <2>3, <3>2
    <3> QED BY <2>4, <3>1, <3>2
  <2> QED BY <1>0, <2>1, <2>5, UnderLawful
<1>2. CASE RunRobotSkill(t)
  BY <1>0, <1>2, AdmittedLawful
<1>4. CASE DispatchSends(t) \/ DispatchFails(t)
  <2> DEFINE s == run[t].sub
             sent == [db.exec[s] EXCEPT !.pilot = "start"]
             lost(st) == [db.exec[s] EXCEPT !.status = st]
  <2>1. /\ run[t].pc = "dispatch" /\ run[t].sub = s /\ s \in SubTasks
        /\ run' = [run EXCEPT ![t].pc = "agent"]
        /\ UNCHANGED <<cont, confirm, notify>>
    BY <1>0, <1>4 DEF DispatchSends, DispatchFails, RunsOK, RunRowOK
  <2>2. /\ db'.sub = db.sub
        /\ \/ db'.exec = [db.exec EXCEPT ![s] = sent]
           \/ \E st \in {"interrupted", "failed", "stopped"} :
                db'.exec = [db.exec EXCEPT ![s] = lost(st)]
    BY <1>0, <1>4 DEF DispatchSends, DispatchFails, SetPilotExecution, Database
  <2> HIDE DEF s
  <2>3. DispatchEnd(db.exec[s], sent)
    BY <1>0, <2>1 DEF ExecRow, DispatchEnd
  <2>4. \A st \in {"interrupted", "failed", "stopped"} : DispatchEnd(db.exec[s], lost(st))
    BY <1>0, <2>1 DEF ExecRow, ExecutionStatus, DispatchEnd
  <2> HIDE DEF sent, lost
  <2>7. ASSUME NEW row, DispatchEnd(db.exec[s], row), db'.exec = [db.exec EXCEPT ![s] = row]
        PROVE  Lawful
    BY <1>0, <2>1, <2>2, <2>7, DispatchedLawful
  <2>5. CASE db'.exec = [db.exec EXCEPT ![s] = sent]
    BY <2>3, <2>5, <2>7, Zenon
  <2>6. ASSUME NEW st \in {"interrupted", "failed", "stopped"},
               db'.exec = [db.exec EXCEPT ![s] = lost(st)]
        PROVE  Lawful
    BY <2>4, <2>6, <2>7, Zenon
  <2> QED BY <2>2, <2>5, <2>6
<1>3. ASSUME NEW out \in {"ok", "error", "cancelled"}, FinishRun(t, out)
      PROVE  Lawful
  <2>1. Under(db.exec, db')
    BY <1>3, SettledUnder DEF FinishRun
  <2>2. SameReply(run, run')
    BY <1>0, <1>3, SameReplyMoves DEF FinishRun
  <2>3. SameCalls(cont, cont')
    BY <1>3, CallsSpared DEF FinishRun, IInv
  <2> QED BY <1>0, <1>3, <2>1, <2>2, <2>3, UnderLawful DEF FinishRun
<1> QED BY <1>1, <1>2, <1>3, <1>4 DEF Execute

\* A goroutine that starts to reply, about a SubTask that may be asked about.
LEMMA AskedReplies ==
  ASSUME IInv, Replies, EndsKept(db, db'), NEW t \in Tasks, NEW pc \in Replying,
         NEW s \in SubTasks, TaskOf[s] = t, Asks(db'.sub[s]), run' = [run EXCEPT ![t] = At(pc, s)]
  PROVE  Replies' /\ \A y \in SubTasks : Sends(run', y) => Sends(run, y)
<1>1. At(pc, s).sub = s /\ At(pc, s).pc = pc /\ pc # "dispatch"
  BY DEF At, Replying
<1>2. run'[t] = At(pc, s) /\ \A u \in Tasks : u # t => run'[u] = run[u]
  BY DEF IInv, RunsOK
<1>3. ASSUME NEW u \in Tasks, run'[u].pc \in Replying
      PROVE  Asks(db'.sub[run'[u].sub])
  <2>1. CASE u = t
    BY <1>1, <1>2, <2>1
  <2>2. CASE u # t
    <3>1. run[u].sub \in SubTasks /\ Asks(db.sub[run[u].sub])
      BY <1>2, <1>3, <2>2 DEF IInv, RunsOK, RunRowOK, RunRow, Replying, Replies
    <3> QED BY <1>2, <2>2, <3>1, AsksKept
  <2> QED BY <2>1, <2>2
<1>4. ASSUME NEW u \in Tasks, run'[u].sub # 0
      PROVE  TaskOf[run'[u].sub] = u
  BY <1>1, <1>2, <1>4 DEF Replies
<1>5. ASSUME NEW y \in SubTasks, Sends(run', y)
      PROVE  Sends(run, y)
  BY <1>1, <1>2, <1>5 DEF Sends
<1> QED BY <1>3, <1>4, <1>5 DEF Replies

\* continueOrFinishTask.
LEMMA ContinueLawful ==
  ASSUME IInv, EInv, NEW t \in Tasks, ContinueOrFinishTask(t)
  PROVE  Lawful
<1>0. Good /\ Under(db.exec, db) /\ RunsOK(db, run) /\ UNCHANGED <<notify, confirm>>
      /\ SameReply(run, run) /\ SameReply(run, [run EXCEPT ![t] = At("pick", 0)])
  BY SelfUnder, ContinueGood, SameReplyMoves
     DEF IInv, ContinueOrFinishTask, ContinueNotRunning, ContinueCompletes, ContinueLooks,
         ContinueDecides, ContinueLaunches
<1>1. \A c : GoesOn(t, c, {}) => SameCalls(cont, cont')
  BY CallsSpared DEF IInv
<1>2. CASE ContinueNotRunning(t)
  BY <1>0, <1>1, <1>2, FinishOrScheduleLawful DEF ContinueNotRunning, Called
<1>3. CASE ContinueCompletes(t)
  <2>1. Under(db.exec, TransitionTask(db, t, "completed", ""))
    BY <1>0, Names, TransitionsUnder
  <2> QED BY <1>0, <1>1, <1>3, <2>1, FinishOrScheduleLawful DEF ContinueCompletes, Called
<1>4. CASE ContinueLooks(t)
  <2>1. db' = db /\ run' = run /\ Called(t, NextStep(db, t))
    BY <1>4 DEF ContinueLooks
  <2>2. ASSUME NEW s \in SubTasks, Call("decide", s) \in NextStep(db, t)
        PROVE  db.sub[s].ref /\ TaskOf[s] = t
    <3> DEFINE first == Least(InFlight(db, t))
    <3>1. \A x, y : Call("decide", x) = Call("decide", y) => x = y
      BY DEF Call
    <3>2. Call("decide", s) # Call("launch", 0)
      BY DEF Call
    <3>3. InFlight(db, t) # {} /\ AwaitsDecision(db, first) /\ s = first
      BY <2>2, <3>1, <3>2, Zenon DEF NextStep
    <3> QED BY <3>3, InFlightSubTasks DEF AwaitsDecision
  <2>3. Calling'
    <3> SUFFICES ASSUME NEW u \in Tasks, NEW s \in SubTasks, Call("decide", s) \in cont'[u]
                 PROVE  Asks(db.sub[s]) /\ TaskOf[s] = u
      BY <2>1 DEF Calling
    <3>1. \/ Call("decide", s) \in cont[u]
          \/ u = t /\ Call("decide", s) \in NextStep(db, t)
      BY <2>1 DEF Called, GoesOn, IInv, CallsOK
    <3> QED BY <2>2, <3>1 DEF EInv, Calling, Asks
  <2>4. Replies' /\ Asked'
    BY <1>0, <2>1 DEF EInv, Replies, Asked
  <2> QED BY <1>0, <2>1, <2>3, <2>4, SelfUnder, AskingLawful
<1>5. CASE ContinueDecides(t)
  <2>1. PICK s \in SubTasks :
          /\ GoesOn(t, Call("decide", s), {}) /\ db' = db
          /\ run' = run \/ run' = [run EXCEPT ![t] = At("decide", s)]
    BY <1>5, Zenon DEF ContinueDecides
  <2>2. Asks(db.sub[s]) /\ TaskOf[s] = t
    BY <2>1 DEF GoesOn, EInv, Calling
  <2>3. Replies' /\ \A y \in SubTasks : Sends(run', y) => Sends(run, y)
    <3>1. CASE run' = run
      BY <1>0, <3>1, RepliesKept DEF EInv, Good
    <3>2. CASE run' = [run EXCEPT ![t] = At("decide", s)]
      <4>1. "decide" \in Replying
        BY DEF Replying
      <4> QED BY <1>0, <2>1, <2>2, <3>2, <4>1, AskedReplies DEF EInv, Good
    <3> QED BY <2>1, <3>1, <3>2
  <2> QED BY <1>0, <1>1, <2>1, <2>3, SelfUnder, EngineLawful
<1>6. CASE ContinueLaunches(t)
  <2>1. db' = db /\ SameReply(run, run') /\ SameCalls(cont, cont')
    BY <1>0, <1>1, <1>6 DEF ContinueLaunches
  <2> QED BY <1>0, <2>1, UnderLawful
<1> QED BY <1>2, <1>3, <1>4, <1>5, <1>6 DEF ContinueOrFinishTask

\* OnRobotAvailabilityChanged.
LEMMA RobotAvailableLawful ==
  ASSUME IInv, EInv, NEW r \in Robots, RobotAvailable(r)
  PROVE  Lawful
<1>0. Good /\ Under(db.exec, db) /\ RunsOK(db, run) /\ SameReply(run, run)
  BY SelfUnder, RobotAvailableGood DEF IInv, SameReply
<1>1. /\ UNCHANGED <<notify, confirm>> /\ SameCalls(cont, cont')
      /\ \/ db' = Schedule(db) /\ run' = Reserve(db, run)
         \/ db' = db /\ run' = run
  BY DEF RobotAvailable, SameCalls
<1>2. Under(db.exec, db') /\ SameReply(run, run')
  BY <1>0, <1>1, ScheduleUnder, ReserveReply
<1> QED BY <1>0, <1>1, <1>2, UnderLawful

\* The decision and the recovery Runs are about SubTasks that may be asked about.
LEMMA DecideLawful ==
  ASSUME IInv, EInv, NEW t \in Tasks, Decide(t)
  PROVE  Lawful
<1> DEFINE s == run[t].sub
<1>0. Good /\ Under(db.exec, db) /\ RunsOK(db, run) /\ UNCHANGED <<notify, confirm>>
  BY SelfUnder, DecideGood
     DEF IInv, Decide, DecideReply, DecideFails, DecideCancelled, ReleaseDecision,
         RecoveryRevises, RecoveryFailsTask, RecoveryDropped, RecoveryErrs
<1>12. SameCalls(cont, cont')
  <2>1. cont' = cont \/ cont' = [cont EXCEPT ![t] = @ \cup {Call("called", 0)}]
    BY DEF Decide, DecideReply, DecideFails, DecideCancelled, ReleaseDecision,
           RecoveryRevises, RecoveryFailsTask, RecoveryDropped, RecoveryErrs
  <2> QED BY <2>1, CallsSpared DEF IInv
<1>1. run[t].pc \in Replying
  BY DEF Replying, Decide, DecideReply, DecideFails, DecideCancelled, ReleaseDecision,
         RecoveryRevises, RecoveryFailsTask, RecoveryDropped, RecoveryErrs
<1>2. s \in SubTasks /\ Asks(db.sub[s]) /\ run[t] \in RunRow
  BY <1>0, <1>1 DEF RunsOK, RunRowOK, RunRow, Replying, EInv, Replies
<1>3. db.sub[s].status = "running" => db.sub[s].ref
  BY <1>2 DEF Asks, TerminalWork
<1>4. Under(db.exec, pauseRobotDecisionFailure(db, s))
  BY <1>0, <1>2, <1>3, PauseDecisionUnder
<1>5. RunsOK(db, [run EXCEPT ![t] = Idle]) /\ SameReply(run, [run EXCEPT ![t] = Idle])
  BY <1>0, IdleOK, RunsUpdated, SameReplyMoves
<1>6. CASE DecideReply(t)
  <2>1. SameReply(run, [run EXCEPT ![t].pc = "replied"])
    <3> DEFINE row == [run[t] EXCEPT !.pc = "replied"]
    <3>1. row.sub = run[t].sub /\ row.pc # "dispatch"
      BY <1>2 DEF RunRow
    <3> HIDE DEF row
    <3>2. SameReply(run, [run EXCEPT ![t] = row])
      BY <1>0, <1>1, <3>1 DEF SameReply, RunsOK
    <3> QED BY <3>2 DEF row
  <2>2. SameReply(run, run')
    BY <1>5, <1>6, <2>1 DEF DecideReply
  <2>3. Under(db.exec, db')
    BY <1>0, <1>4, <1>6 DEF DecideReply
  <2> QED BY <1>0, <1>12, <2>2, <2>3, UnderLawful
<1>7. CASE DecideFails(t)
  BY <1>0, <1>4, <1>5, <1>7, <1>12, UnderLawful DEF DecideFails
<1>8. CASE DecideCancelled(t) \/ ReleaseDecision(t) \/ RecoveryDropped(t)
  <2>1. db' = db /\ run' = [run EXCEPT ![t] = Idle]
    BY <1>8 DEF DecideCancelled, ReleaseDecision, RecoveryDropped
  <2>2. Under(db.exec, db')
    BY <1>0, <2>1
  <2> QED BY <1>0, <1>5, <1>12, <2>1, <2>2, UnderLawful
<1>9. CASE RecoveryRevises(t)
  <2>1. Under(db.exec, db')
    BY <1>0, <1>2, <1>9, RecoveryUnder DEF RecoveryRevises
  <2> QED BY <1>0, <1>5, <1>9, <1>12, <2>1, UnderLawful DEF RecoveryRevises
<1>10. CASE RecoveryFailsTask(t)
  <2>1. Under(db.exec, failPausedTask(db, s))
    BY <1>0, <1>2, FailPausedTaskUnder
  <2>2. FinishOrSchedule(failPausedTask(db, s), [run EXCEPT ![t] = Idle], Released(res, t))
    BY <1>10 DEF RecoveryFailsTask
  <2> HIDE DEF s
  <2> QED BY <1>0, <1>5, <1>12, <2>1, <2>2, FinishOrScheduleLawful
<1>11. CASE RecoveryErrs(t)
  <2>1. Under(db.exec, db')
    BY <1>0, <1>2, <1>11, UpdateWaitReasonUnder, Names DEF RecoveryErrs
  <2> QED BY <1>0, <1>5, <1>11, <1>12, <2>1, UnderLawful DEF RecoveryErrs
<1> QED BY <1>6, <1>7, <1>8, <1>9, <1>10, <1>11 DEF Decide

\* A notification that is consumed.
LEMMA ConsumedLawful ==
  ASSUME IInv, EInv, Good, NEW r \in Robots, Consumed(r), Under(db.exec, db'), Replies',
         \A s \in SubTasks : Sends(run', s) => Sends(run, s), SameCalls(cont, cont'),
         UNCHANGED confirm
  PROVE  Lawful
<1>1. Quiet.sub = 0
  BY DEF Quiet
<1>2. \A q \in Robots : notify'[q] = notify[q] \/ notify'[q].sub = 0
  BY <1>1 DEF Consumed, IInv, CallsOK
<1> QED BY <1>2, SelfUnder, EngineLawful

\* The two ways in which a stop that is over is settled, on proof.
LEMMA FinishStoppingUnder ==
  ASSUME NEW x, NEW d, Under(x, d), NEW s \in SubTasks, Proven(d.exec[s]), FinishStopping(d, s)
  PROVE  Under(x, db')
BY SubTaskStoppedUnder, ConvergeUnder DEF FinishStopping

\* finishConfirmedRobotStop, with the propagation.
LEMMA ConfirmedStopUnder ==
  ASSUME NEW x, NEW d, Under(x, d), NEW s \in SubTasks, Proven(d.exec[s]),
         d.sub[s].status = "running" => d.sub[s].ref, ConfirmedStop(d, s)
  PROVE  Under(x, db')
<1> DEFINE e == StopConfirmed(d, s)
<1>1. Under(x, e) /\ e.exec = d.exec
  BY StopConfirmedUnder
<1>2. FinishStopping(e, s) \/ db' = e
  BY DEF ConfirmedStop
<1> HIDE DEF e
<1> QED BY <1>1, <1>2, FinishStoppingUnder

\* OnRobotExecutionChanged: it stops a SubTask only on what was told and is stored.
LEMMA ObserveLawful ==
  ASSUME IInv, EInv, NEW r \in Robots, Observe(r)
  PROVE  Lawful
<1> DEFINE s == notify[r].sub
           d == Seen(r)
           x == db.exec
           n == notify[r]
<1>0. /\ Good /\ Under(x, db) /\ RunsOK(db, run) /\ SameReply(run, run) /\ db \in Database
      /\ EndsKept(db, db') /\ Replies
  BY SelfUnder, ObserveGood DEF IInv, SameReply, Good, DbOK, EInv
<1>1. Consumed(r) /\ s # 0 /\ UNCHANGED confirm /\ n.saved
  BY DEF Observe, ObserveCompleted, ObserveWaitingAgent, ObserveFailedWhileStopping,
         ObserveFailedAfterAction, ObserveFailedBeforeAction, ObserveInterrupted, ObserveStopped,
         ObserveProgress, Observed
<1>2. s \in SubTasks /\ TaskOf[s] \in Tasks /\ db.exec[s].status # "none"
      /\ NoteTrue(n, db.exec[s])
  BY <1>1, PlanAssumption DEF IInv, CallsOK, NoteRow, Heard, EInv, Informed
<1>3. Under(x, d) /\ d.exec = x /\ (d.sub[s].status = "running" => d.sub[s].ref)
  BY <1>0, <1>2, AttachUnder DEF Seen
<1>9. /\ x[s].word \/ n.status \notin TerminalWork \/ (x[s].status = n.status /\ x[s].safe = n.safe)
      /\ {"completed", "failed", "stopped"} \subseteq TerminalWork
  BY <1>1, <1>2 DEF NoteTrue, TerminalWork
<1>18. SameCalls(cont, cont')
  <2>1. \/ cont' = cont
        \/ cont' = [cont EXCEPT ![TaskOf[s]] = @ \cup {Call("called", 0)}]
    BY DEF Observe, ObserveCompleted, ObserveWaitingAgent, ObserveFailedWhileStopping,
           ObserveFailedAfterAction, ObserveFailedBeforeAction, ObserveInterrupted, ObserveStopped,
           ObserveProgress
  <2> QED BY <1>2, <2>1, CallsSpared DEF IInv
<1> HIDE DEF s, d, x, n
<1>4. Asks(d.sub[s])
  <2>1. RowEvident(d.sub[s], d.exec[s]) /\ d.sub[s] \in SubRow
    BY <1>2, <1>3, UnderRows
  <2> QED BY <1>2, <1>3, <2>1 DEF Asks, RowEvident, SubRow, WorkStatus, TerminalWork, x
<1>5. ASSUME NEW why \in Reason
      PROVE  Under(x, pauseRobotSubTask(d, s, why))
  BY <1>2, <1>3, PauseUnder
<1>6. ASSUME Proven(x[s]), FinishStopping(d, s) PROVE Under(x, db')
  BY <1>2, <1>3, <1>6, FinishStoppingUnder
<1>7. ASSUME Proven(x[s]), ConfirmedStop(d, s) PROVE Under(x, db')
  BY <1>2, <1>3, <1>7, ConfirmedStopUnder
<1>8. ASSUME run' = run, Under(x, db') PROVE Lawful
  <2>1. Replies' /\ \A y \in SubTasks : Sends(run', y) => Sends(run, y)
    BY <1>0, <1>8, RepliesKept, SendsKept
  <2> QED BY <1>0, <1>1, <1>8, <1>18, <2>1, ConsumedLawful DEF x
<1>10. CASE ObserveCompleted(r)
  <2>1. n.status = "completed" /\ run' = run
    BY <1>10 DEF ObserveCompleted, Observed, n
  <2>2. Proven(x[s])
    BY <1>9, <2>1 DEF Proven, AtRest
  <2>3. Under(x, completeRobotSubTask(d, s))
    BY <1>2, <1>3, CompleteUnder
  <2>4. FinishStopping(d, s) \/ db' = completeRobotSubTask(d, s)
    BY <1>10, Zenon DEF ObserveCompleted, s, d
  <2> QED BY <1>6, <1>8, <2>1, <2>2, <2>3, <2>4
<1>11. CASE ObserveWaitingAgent(r)
  <2>1. db' = d /\ (run' = run \/ run' = [run EXCEPT ![TaskOf[s]] = At("decide", s)])
    BY <1>11, Zenon DEF ObserveWaitingAgent, s, d
  <2>2. Under(x, db') /\ Asks(db'.sub[s])
    BY <1>3, <1>4, <2>1
  <2>3. CASE run' = [run EXCEPT ![TaskOf[s]] = At("decide", s)]
    <3>1. "decide" \in Replying
      BY DEF Replying
    <3>2. Replies' /\ \A y \in SubTasks : Sends(run', y) => Sends(run, y)
      BY <1>0, <1>2, <2>2, <2>3, <3>1, AskedReplies
    <3> QED BY <1>0, <1>1, <1>18, <2>2, <3>2, ConsumedLawful DEF x
  <2> QED BY <1>8, <2>1, <2>2, <2>3
<1>12. CASE ObserveFailedWhileStopping(r)
  <2>1. /\ n.status = "failed" /\ run' = run
        /\ \/ (n.safe \/ x[s].phys = "none") /\ FinishStopping(d, s)
           \/ db' = pauseRobotSubTask(d, s, "execution_state_unknown")
    BY <1>12, Zenon DEF ObserveFailedWhileStopping, Observed, s, d, n, x
  <2>2. CASE (n.safe \/ x[s].phys = "none") /\ FinishStopping(d, s)
    <3>1. Proven(x[s])
      BY <1>9, <2>1, <2>2 DEF Proven, AtRest
    <3> QED BY <1>6, <1>8, <2>1, <2>2, <3>1
  <2>3. CASE db' = pauseRobotSubTask(d, s, "execution_state_unknown")
    BY <1>5, <1>8, <2>1, <2>3, Names
  <2> QED BY <2>1, <2>2, <2>3
<1>13. CASE ObserveFailedAfterAction(r)
  <2>1. /\ n.status = "failed" /\ run' = run
        /\ \/ n.safe /\ ConfirmedStop(d, s)
           \/ db' = pauseRobotSubTask(d, s, "execution_state_unknown")
    BY <1>13, Zenon DEF ObserveFailedAfterAction, Observed, s, d, n
  <2>2. CASE n.safe /\ ConfirmedStop(d, s)
    <3>1. Proven(x[s])
      BY <1>9, <2>1, <2>2 DEF Proven, AtRest
    <3> QED BY <1>7, <1>8, <2>1, <2>2, <3>1
  <2>3. CASE db' = pauseRobotSubTask(d, s, "execution_state_unknown")
    BY <1>5, <1>8, <2>1, <2>3, Names
  <2> QED BY <2>1, <2>2, <2>3
<1>14. CASE ObserveFailedBeforeAction(r)
  <2> DEFINE e == pauseRobotSubTask(d, s, "robot_execution_failed")
             f == UpdatePausedRobotWaitReason(e, s, "robot_execution_failed", "recovery_running")
  <2>1. \/ db' = e /\ run' = run
        \/ /\ CanUpdateWaitReason(e, s, "robot_execution_failed")
           /\ db' = f /\ run' = [run EXCEPT ![TaskOf[s]] = At("recover", s)]
    BY <1>14, Zenon DEF ObserveFailedBeforeAction, s, d
  <2>2. Under(x, e)
    BY <1>5, Names
  <2> HIDE DEF e
  <2>3. Under(x, f)
    BY <1>2, <2>2, UpdateWaitReasonUnder, Names
  <2>4. CASE db' = e /\ run' = run
    BY <1>8, <2>2, <2>4
  <2>5. CASE /\ CanUpdateWaitReason(e, s, "robot_execution_failed")
             /\ db' = f /\ run' = [run EXCEPT ![TaskOf[s]] = At("recover", s)]
    <3>1. e \in Database /\ e.sub[s].ref
      BY <2>2, <2>5 DEF Under, CanUpdateWaitReason
    <3>2. Follows(e, f)
      BY <1>2, <3>1, UpdateWaitReasonFollows, Names
    <3>3. Asks(db'.sub[s])
      BY <1>2, <2>5, <3>1, <3>2 DEF Follows, SubsFollow, SubRowFollows, Asks
    <3>5. "recover" \in Replying
      BY DEF Replying
    <3>4. Replies' /\ \A y \in SubTasks : Sends(run', y) => Sends(run, y)
      BY <1>0, <1>2, <2>5, <3>3, <3>5, AskedReplies
    <3> QED BY <1>0, <1>1, <1>18, <2>3, <2>5, <3>4, ConsumedLawful DEF x
  <2> QED BY <2>1, <2>4, <2>5
<1>15. CASE ObserveInterrupted(r)
  <2>1. db' = pauseRobotSubTask(d, s, "execution_state_unknown") /\ run' = run
    BY <1>15 DEF ObserveInterrupted, s, d
  <2> QED BY <1>5, <1>8, <2>1, Names
<1>16. CASE ObserveStopped(r)
  <2>1. /\ n.status = "stopped" /\ run' = run
        /\ \/ n.safe /\ ConfirmedStop(d, s)
           \/ n.safe /\ FinishStopping(d, s)
           \/ \E why \in {"execution_state_unknown", "robot_execution_stopped"} :
                db' = pauseRobotSubTask(d, s, why)
    BY <1>16 DEF ObserveStopped, Observed, s, d, n
  <2>2. n.safe => Proven(x[s])
    BY <1>9, <2>1 DEF Proven, AtRest
  <2>3. {"execution_state_unknown", "robot_execution_stopped"} \subseteq Reason
    BY Names
  <2> QED BY <1>5, <1>6, <1>7, <1>8, <2>1, <2>2, <2>3
<1>17. CASE ObserveProgress(r)
  <2>1. db' = d /\ run' = run
    BY <1>17 DEF ObserveProgress, d
  <2> QED BY <1>3, <1>8, <2>1
<1> QED BY <1>10, <1>11, <1>12, <1>13, <1>14, <1>15, <1>16, <1>17 DEF Observe

\* One Execution moves on, and nothing that its row proved is lost.
LEMMA RowLawful ==
  ASSUME IInv, EInv, Good, NEW s \in SubTasks, NEW row \in ExecRow,
         db'.sub = db.sub, db'.exec = [db.exec EXCEPT ![s] = row],
         db.exec[s].status # "none", row.status # "none",
         Proven(db.exec[s]) => Proven(row), ExecTrue(row),
         row.status = "queued" => db.exec[s].status = "queued",
         Sends(run, s) => Unsent(s, row, notify'),
         \A q \in Robots : \/ notify'[q].sub = 0
                           \/ notify'[q].sub # s /\ notify'[q] = notify[q]
                           \/ notify'[q].sub = s /\ NoteTrue(notify'[q], row),
         UNCHANGED <<run, cont, confirm>>
  PROVE  Lawful
<1>1. RowEvident(db.sub[s], row)
  BY EvidentFor DEF EInv, Evident
<1>2. SameReply(run, run')
  BY DEF SameReply
<1>3. Replies'
  BY <1>2, RepliesKept DEF Good, EInv
<1> QED BY <1>1, <1>3, RobotLawful

\* The handler of a Robot's events is at work on one Execution of that Robot at a time.
LEMMA OneNote ==
  ASSUME IInv, NEW s \in SubTasks, db.exec[s].status # "none"
  PROVE  /\ RobotOf(db, s) \in Robots
         /\ \A q \in Robots : q # RobotOf(db, s) => notify[q].sub # s
         /\ notify[RobotOf(db, s)] = Quiet => \A q \in Robots : notify[q].sub # s
         /\ notify \in [Robots -> NoteRow]
<1>1. RobotOf(db, s) \in Robots
  BY ExecutionRobot DEF IInv
<1>2. \A q \in Robots : q # RobotOf(db, s) => notify[q].sub # s
  BY PositionAssumption DEF IInv, Heard
<1>3. Quiet.sub # s
  BY PositionAssumption DEF Quiet
<1> QED BY <1>1, <1>2, <1>3 DEF IInv, CallsOK

\* What a Pilot works on is carried, or an operator spoke for it, and nobody dispatches it.
LEMMA PilotWorks ==
  ASSUME IInv, EInv, NEW s \in SubTasks, AtPilot(s)
  PROVE  /\ db.exec[s].word \/ db.exec[s].status \in Carried
         /\ ~Sends(run, s) /\ db.exec[s].status # "none"
<1>1. db.exec[s].pilot \in {"start", "stop"} /\ db.exec[s] \in ExecRow
  BY DatabaseRows DEF AtPilot, IInv, DbOK
<1>2. db.exec[s].pilot \notin {"nothing", db.exec[s].status}
  BY <1>1 DEF ExecRow, ExecutionStatus, ActiveExecution
<1>3. db.exec[s].status # "none"
  BY <1>1, HasBegun
<1> QED BY <1>2, <1>3 DEF EInv, ExecsTrue, ExecTrue, Dispatches, Unsent

\* An event is read of an Execution that goes on.
LEMMA EventLawful ==
  ASSUME IInv, EInv, Good, NEW s \in SubTasks, NEW row \in ExecRow,
         db'.sub = db.sub, db'.exec = [db.exec EXCEPT ![s] = row],
         db.exec[s].status # "none", row.status = db.exec[s].status, row.word = db.exec[s].word,
         row.phys = db.exec[s].phys, row.safe = db.exec[s].safe,
         row.word \/ row.status \in Carried,
         Sends(run, s) => row.pilot = "nothing" /\ row.word,
         notify[RobotOf(db, s)] = Quiet,
         NEW st \in {"running", "waiting_agent", "interrupted", "completed", "failed", "stopped"},
         st \in TerminalWork => st = row.pilot,
         NEW safe \in BOOLEAN, Handles(s, st, safe), UNCHANGED <<run, cont, confirm>>
  PROVE  Lawful
<1> DEFINE r == RobotOf(db, s)
           n == [sub |-> s, status |-> Projected(db.exec[s].status, st), safe |-> safe,
                 saved |-> FALSE]
<1>0. r \in Robots /\ notify \in [Robots -> NoteRow] /\ \A q \in Robots : notify[q].sub # s
  BY OneNote
<1>1. notify' = [notify EXCEPT ![r] = n] /\ n.sub = s /\ ~n.saved
      /\ n.status = Projected(row.status, st)
  BY DEF Handles
<1> HIDE DEF r, n
<1>2. NoteTrue(n, row)
  BY <1>1 DEF NoteTrue, Projected, Carried, ActiveExecution, TerminalWork
<1>3. Proven(db.exec[s]) => Proven(row)
  BY DEF Proven, AtRest
<1>4. ExecTrue(row)
  BY DEF ExecTrue
<1>5. Sends(run, s) => Unsent(s, row, notify')
  BY DEF Unsent, EInv, Dispatches
<1>6. \A q \in Robots : \/ notify'[q].sub # s /\ notify'[q] = notify[q]
                        \/ notify'[q].sub = s /\ NoteTrue(notify'[q], row)
  BY <1>0, <1>1, <1>2
<1> QED BY <1>3, <1>4, <1>5, <1>6, RowLawful

\* Every event of a Pilot is about an Execution that goes on.
LEMMA PilotLawful ==
  ASSUME IInv, EInv, NEW s \in SubTasks, Pilot(s)
  PROVE  Lawful
<1> DEFINE x == db.exec[s]
<1>0. /\ Good /\ db \in Database /\ db.exec \in [SubTasks -> ExecRow] /\ x \in ExecRow
      /\ x.safe \in BOOLEAN
  BY PilotGood, DatabaseRows DEF IInv, DbOK, ExecRow
<1>1. AtPilot(s) => (x.word \/ x.status \in Carried) /\ ~Sends(run, s) /\ x.status # "none"
  BY PilotWorks
<1>2. TerminalWork = {"completed", "failed", "stopped"}
  BY DEF TerminalWork
<1>3. ASSUME NEW st \in {"running", "waiting_agent", "interrupted"}, Event(s, st),
             notify[RobotOf(db, s)] = Quiet,
             \/ AtPilot(s)
             \/ x.pilot = "nothing" /\ x.status = "stopping"
      PROVE  Lawful
  <2>1. db'.sub = db.sub /\ db'.exec = [db.exec EXCEPT ![s] = x] /\ Handles(s, st, x.safe)
        /\ UNCHANGED <<run, cont, confirm>>
    BY <1>0, <1>3 DEF Event
  <2>2. x.status # "none" /\ (x.word \/ x.status \in Carried)
    BY <1>1, <1>3 DEF Carried, ActiveExecution
  <2>3. Sends(run, s) => x.pilot = "nothing" /\ x.word
    BY <1>1, <1>3 DEF EInv, Dispatches, Unsent
  <2>4. st \notin TerminalWork
    BY <1>2
  <2> HIDE DEF x
  <2> QED BY <1>0, <1>3, <2>1, <2>2, <2>3, <2>4, EventLawful DEF x
<1>4. ASSUME NEW st \in TerminalWork, NEW safe \in BOOLEAN, EndEvent(s, st, safe),
             notify[RobotOf(db, s)] = Quiet, AtPilot(s)
      PROVE  Lawful
  <2> DEFINE row == [x EXCEPT !.pilot = st]
  <2>1. /\ row \in ExecRow /\ row.status = x.status /\ row.word = x.word /\ row.phys = x.phys
        /\ row.safe = x.safe /\ row.pilot = st
    BY <1>0, <1>2 DEF ExecRow
  <2>2. db' = [db EXCEPT !.exec[s] = row] /\ Handles(s, st, safe) /\ UNCHANGED <<run, cont, confirm>>
    BY <1>4 DEF EndEvent
  <2> HIDE DEF row
  <2>3. db'.sub = db.sub /\ db'.exec = [db.exec EXCEPT ![s] = row]
    BY <1>0, <2>2 DEF Database
  <2>4. x.status # "none" /\ (x.word \/ x.status \in Carried) /\ ~Sends(run, s)
    BY <1>1, <1>4
  <2> QED BY <1>0, <1>2, <1>4, <2>1, <2>2, <2>3, <2>4, EventLawful
<1>5. CASE PilotActs(s)
  <2>1. PICK p \in {"maybe", "started"} : db' = [db EXCEPT !.exec[s].phys = p]
    BY <1>5 DEF PilotActs
  <2> DEFINE row == [x EXCEPT !.phys = p]
  <2>2. row \in ExecRow /\ row.status = "running" /\ x.status = "running" /\ row.word = x.word
    BY <1>0, <1>5 DEF PilotActs, ExecRow
  <2>3. db' = [db EXCEPT !.exec[s] = row]
    BY <2>1
  <2> HIDE DEF row
  <2>4. db'.sub = db.sub /\ db'.exec = [db.exec EXCEPT ![s] = row]
    BY <1>0, <2>3 DEF Database
  <2>5. UNCHANGED <<run, cont, confirm, notify>> /\ AtPilot(s) /\ notify[RobotOf(db, s)] = Quiet
    BY <1>5 DEF PilotActs, CanReport
  <2>6. ~Sends(run, s) /\ \A q \in Robots : notify'[q].sub # s /\ notify'[q] = notify[q]
    BY <1>1, <2>2, <2>5, OneNote
  <2>7. (Proven(x) => Proven(row)) /\ ExecTrue(row)
    BY <2>2 DEF Proven, AtRest, ExecTrue, Carried, ActiveExecution
  <2> QED BY <1>0, <2>2, <2>4, <2>5, <2>6, <2>7, RowLawful
<1>6. CASE PilotStarts(s)
  BY <1>3, <1>6 DEF PilotStarts, CanReport
<1>7. CASE PilotAsks(s)
  BY <1>3, <1>7 DEF PilotAsks, CanReport
<1>8. CASE PilotResolves(s)
  BY <1>3, <1>8 DEF PilotResolves, CanReport
<1>9. CASE PilotInterrupts(s)
  BY <1>3, <1>9 DEF PilotInterrupts, CanReport
<1>10. CASE PilotCompletes(s) \/ PilotFails(s) \/ PilotStops(s)
  <2>1. CanReport(s) /\ \E st \in TerminalWork, safe \in BOOLEAN : EndEvent(s, st, safe)
    BY <1>0, <1>2, <1>10 DEF PilotCompletes, PilotFails, PilotStops
  <2> QED BY <1>4, <2>1 DEF CanReport
<1> QED BY <1>5, <1>6, <1>7, <1>8, <1>9, <1>10 DEF Pilot

\* The row becomes what the event made of the row that was read: it went on then, and nobody
\* but an operator ended it since.
LEMMA SaveReportedLawful ==
  ASSUME IInv, EInv, NEW r \in Robots, SaveReported(r)
  PROVE  Lawful
<1> DEFINE n == notify[r]
           s == n.sub
           x == db.exec[s]
           row == [x EXCEPT !.status = n.status, !.safe = n.safe]
           m == [n EXCEPT !.saved = TRUE]
<1>0. /\ Good /\ db \in Database /\ notify \in [Robots -> NoteRow] /\ n \in NoteRow
      /\ s # 0 /\ ~n.saved
  BY SaveReportedGood DEF IInv, DbOK, CallsOK, SaveReported
<1>1. /\ s \in SubTasks /\ x \in ExecRow /\ x.status # "none" /\ n.status # "none"
      /\ RobotOf(db, s) = r /\ NoteTrue(n, x)
  BY <1>0, DatabaseRows DEF IInv, Heard, NoteRow, EInv, Informed
<1>2. /\ row \in ExecRow /\ row.status = n.status /\ row.safe = n.safe /\ row.word = x.word
      /\ row.phys = x.phys /\ row.pilot = x.pilot
  BY <1>0, <1>1 DEF ExecRow, NoteRow
<1>3. m.sub = s /\ m.status = n.status /\ m.safe = n.safe /\ m.saved
      /\ notify' = [notify EXCEPT ![r] = m]
  BY <1>0 DEF SaveReported, NoteRow
<1>4. db'.sub = db.sub /\ db'.exec = [db.exec EXCEPT ![s] = row] /\ UNCHANGED <<run, cont, confirm>>
  BY <1>0 DEF SaveReported, Database
<1>5. Sends(run, s) => x.word /\ x.pilot = "nothing" /\ x.phys = "none"
  BY <1>0, <1>1 DEF EInv, Dispatches, Unsent
<1>6. \A q \in Robots : q # r => notify[q].sub # s
  BY <1>1, OneNote
<1> HIDE DEF n, s, x, row, m
<1>7. ExecTrue(row)
  BY <1>0, <1>1, <1>2 DEF ExecTrue, NoteTrue
<1>8. Proven(x) => Proven(row)
  BY <1>0, <1>1, <1>2, CarriedProof DEF NoteTrue, Proven
<1>9. NoteTrue(m, row)
  BY <1>1, <1>2, <1>3 DEF NoteTrue
<1>10. Sends(run, s) => Unsent(s, row, notify')
  BY <1>2, <1>5 DEF Unsent
<1>11. \A q \in Robots : \/ notify'[q].sub # s /\ notify'[q] = notify[q]
                         \/ notify'[q].sub = s /\ NoteTrue(notify'[q], row)
  BY <1>0, <1>3, <1>6, <1>9
<1>12. row.status # "queued" /\ row.status # "none"
  BY <1>1, <1>2 DEF NoteTrue
<1> QED BY <1>0, <1>1, <1>2, <1>4, <1>7, <1>8, <1>10, <1>11, <1>12, RowLawful DEF x

\* A step that changes at most pointers.
LEMMA PointerLawful ==
  ASSUME IInv, EInv, Good, db'.sub = db.sub, db'.exec = db.exec,
         UNCHANGED <<run, cont, notify, confirm>>
  PROVE  Lawful
<1>1. Under(db.exec, db')
  BY DEF Under, Good, IInv, DbOK, EInv, Evident, HeldTo
<1>2. SameReply(run, run') /\ SameCalls(cont, cont')
  BY DEF SameReply, SameCalls
<1> QED BY <1>1, <1>2, UnderLawful

\* A pointer set back to what somebody read.
LEMMA SaveStalePointerLawful ==
  ASSUME IInv, EInv, NEW r \in Robots, SaveStalePointer(r)
  PROVE  Lawful
<1>1. Good /\ db \in Database
  BY SaveStalePointerGood DEF IInv, DbOK
<1>2. db'.sub = db.sub /\ db'.exec = db.exec /\ UNCHANGED <<run, cont, notify, confirm>>
  BY <1>1 DEF SaveStalePointer, Database
<1> QED BY <1>1, <1>2, PointerLawful

\* Robot Service corrects a row and tells the observer, or only corrects it.
LEMMA CorrectedLawful ==
  ASSUME IInv, EInv, Good, NEW s \in SubTasks, NEW row \in ExecRow,
         db'.sub = db.sub, db'.exec = [db.exec EXCEPT ![s] = row],
         db.exec[s].status # "none", row.status \notin {"none", "queued"},
         Proven(db.exec[s]) => Proven(row), ExecTrue(row),
         Sends(run, s) => Unsent(s, row, notify'),
         notify[RobotOf(db, s)] = Quiet,
         notify' = notify \/ Told(RobotOf(db, s), s, row.status, row.safe),
         UNCHANGED <<run, cont, confirm>>
  PROVE  Lawful
<1> DEFINE r == RobotOf(db, s)
           n == [sub |-> s, status |-> row.status, safe |-> row.safe, saved |-> TRUE]
<1>0. r \in Robots /\ notify \in [Robots -> NoteRow] /\ \A q \in Robots : notify[q].sub # s
  BY OneNote
<1>1. notify' = notify \/ notify' = [notify EXCEPT ![r] = n]
  BY DEF Told
<1>2. n.sub = s /\ NoteTrue(n, row)
  BY DEF NoteTrue
<1> HIDE DEF r, n
<1>3. \A q \in Robots : \/ notify'[q].sub # s /\ notify'[q] = notify[q]
                        \/ notify'[q].sub = s /\ NoteTrue(notify'[q], row)
  BY <1>0, <1>1, <1>2
<1> QED BY <1>3, RowLawful

\* Reconcile takes the Pilot's status, sets back what the Pilot has lost, or takes the end
\* that the event stream holds.
LEMMA ReconcileLawful ==
  ASSUME IInv, EInv, Good, NEW r \in Robots, NEW s \in SubTasks, notify[r] = Quiet,
         ReconcileStatus(r, s) \/ ReconcileMissing(r, s) \/ ReconcileEnd(r, s),
         UNCHANGED <<run, cont, confirm>>
  PROVE  Lawful
<1> DEFINE x == db.exec[s]
<1>0. db \in Database /\ x \in ExecRow /\ ExecTrue(x) /\ RobotOf(db, s) = r
  BY DatabaseRows DEF IInv, DbOK, EInv, ExecsTrue, ReconcileStatus, ReconcileMissing, ReconcileEnd
<1>1. Sends(run, s) => Unsent(s, x, notify)
  BY DEF EInv, Dispatches
<1>2. ASSUME NEW row, row \in ExecRow, row.word = x.word, row.status \in Carried \ {"queued"},
             x.status \in ActiveExecution, db'.sub = db.sub,
             db'.exec = [db.exec EXCEPT ![s] = row], Sends(run, s) => Unsent(s, row, notify'),
             notify' = notify \/ Told(r, s, row.status, row.safe)
      PROVE  Lawful
  <2>1. row.status \notin {"none", "queued"} /\ x.status # "none" /\ ExecTrue(row)
    BY <1>2 DEF Carried, ActiveExecution, ExecTrue
  <2>2. Proven(x) => Proven(row)
    BY <1>2, CarriedProof DEF Carried, Proven
  <2> QED BY <1>0, <1>2, <2>1, <2>2, CorrectedLawful
<1>3. CASE ReconcileStatus(r, s)
  <2>1. PICK row \in {[x EXCEPT !.status = "running", !.pilot = "start"],
                      [x EXCEPT !.status = "waiting_agent", !.pilot = "start"],
                      [x EXCEPT !.status = "stopping"]} :
          db' = [db EXCEPT !.exec[s] = row]
    BY <1>3 DEF ReconcileStatus
  <2>2. row \in ExecRow /\ row.word = x.word /\ row.status \in Carried \ {"queued"}
    BY <1>0, <2>1 DEF ExecRow, Carried, ExecutionStatus, ActiveExecution
  <2> HIDE DEF x
  <2>3. db'.sub = db.sub /\ db'.exec = [db.exec EXCEPT ![s] = row]
    BY <1>0, <2>1 DEF Database
  <2>4. ~Sends(run, s) /\ x.status \in ActiveExecution /\ notify' = notify
    BY <1>1, <1>3 DEF ReconcileStatus, AtPilot, Unsent, x
  <2> QED BY <1>2, <2>2, <2>3, <2>4
<1>4. CASE ReconcileMissing(r, s)
  <2> DEFINE p == IF AtPilot(s) THEN "nothing" ELSE x.pilot
             row == [x EXCEPT !.status = "interrupted", !.pilot = p]
  <2>1. db' = [db EXCEPT !.exec[s] = row, !.lock[r] = s] /\ x.status \in ActiveExecution
        /\ Told(r, s, "interrupted", x.safe)
    BY <1>4 DEF ReconcileMissing
  <2>2. /\ row \in ExecRow /\ row.word = x.word /\ row.status = "interrupted"
        /\ row.safe = x.safe /\ row.phys = x.phys /\ row.pilot = p
    BY <1>0 DEF ExecRow, ExecutionStatus
  <2>3. p \in {"nothing", x.pilot}
    OBVIOUS
  <2> HIDE DEF row, p, x
  <2>4. db'.sub = db.sub /\ db'.exec = [db.exec EXCEPT ![s] = row]
    BY <1>0, <2>1 DEF Database
  <2>5. Sends(run, s) => Unsent(s, row, notify')
    <3>1. \A q \in Robots : notify'[q].sub = s => notify'[q].saved
      BY <1>0, <2>1, OneNote, HasBegun DEF Told, x, ActiveExecution
    <3> QED BY <1>1, <2>2, <2>3, <3>1 DEF Unsent
  <2> QED BY <1>2, <2>1, <2>2, <2>4, <2>5 DEF Carried
<1>5. CASE ReconcileEnd(r, s)
  <2>1. PICK safe \in BOOLEAN :
          /\ db' = [db EXCEPT !.exec[s] = [x EXCEPT !.status = x.pilot, !.safe = safe],
                              !.lock[r] = IF @ = s THEN 0 ELSE @]
          /\ Told(r, s, x.pilot, safe)
    BY <1>5 DEF ReconcileEnd
  <2> DEFINE row == [x EXCEPT !.status = x.pilot, !.safe = safe]
  <2>2. x.pilot \in TerminalWork /\ x.status # x.pilot /\ x.status # "none"
    BY <1>5, HasBegun DEF ReconcileEnd, TerminalWork
  <2>3. /\ row \in ExecRow /\ row.word = x.word /\ row.status = x.pilot /\ row.pilot = x.pilot
        /\ row.safe = safe /\ row.status \notin {"none", "queued"}
    BY <1>0, <2>2 DEF ExecRow, ExecutionStatus, TerminalWork
  <2>4. db' = [db EXCEPT !.exec[s] = row, !.lock[r] = IF @ = s THEN 0 ELSE @]
    BY <2>1
  <2> HIDE DEF row
  <2>5. db'.sub = db.sub /\ db'.exec = [db.exec EXCEPT ![s] = row]
    BY <1>0, <2>4 DEF Database
  <2>6. ExecTrue(row)
    BY <2>3 DEF ExecTrue
  <2>7. Proven(x) => Proven(row)
    <3>1. x.word \/ x.status \in Carried
      BY <1>0, <2>2 DEF ExecTrue, TerminalWork
    <3> QED BY <2>3, <3>1, CarriedProof DEF Proven
  <2>8. ~Sends(run, s)
    BY <1>1, <2>2 DEF Unsent, TerminalWork
  <2> QED BY <1>0, <2>1, <2>2, <2>3, <2>5, <2>6, <2>7, <2>8, CorrectedLawful
<1> QED BY <1>3, <1>4, <1>5

\* Disconnection, and reconnection with Reconcile.
LEMMA SessionLawful ==
  ASSUME IInv, EInv, NEW r \in Robots, PilotOffline(r) \/ PilotOnline(r)
  PROVE  Lawful
<1>0. Good /\ db \in Database /\ UNCHANGED <<run, cont, confirm>>
  BY SessionGood DEF IInv, DbOK, PilotOffline, PilotOnline
<1>1. CASE PilotOffline(r)
  BY <1>0, <1>1, PointerLawful DEF PilotOffline
<1>2. CASE PilotOnline(r) /\ ReconcileNone(r)
  <2>1. db'.sub = db.sub /\ db'.exec = db.exec /\ notify' = notify
    BY <1>0, <1>2 DEF ReconcileNone, Database
  <2> QED BY <1>0, <2>1, PointerLawful
<1>3. ASSUME NEW s \in SubTasks, PilotOnline(r),
             ReconcileStatus(r, s) \/ ReconcileMissing(r, s) \/ ReconcileEnd(r, s)
      PROVE  Lawful
  BY <1>0, <1>3, ReconcileLawful DEF PilotOnline
<1> QED BY <1>1, <1>2, <1>3 DEF PilotOnline

\* robot.stop beside the Workflow.
LEMMA StopExecutionLawful ==
  ASSUME IInv, EInv, NEW s \in SubTasks, StopExecution(s)
  PROVE  Lawful
<1> DEFINE r == RobotOf(db, s)
           x == db.exec[s]
<1>0. /\ Good /\ db \in Database /\ x \in ExecRow /\ x.status # "none" /\ ~Sends(run, s)
      /\ UNCHANGED <<run, cont, confirm>>
  BY StopExecutionGood, DatabaseRows DEF IInv, DbOK, StopExecution, Sending, Sends
<1>1. CASE StopReaches(db, s) /\ db' = [db EXCEPT !.exec[s] = StopSent(@)] /\ notify' = notify
  <2> DEFINE row == StopSent(x)
  <2>1. row \in ExecRow /\ row.status = "stopping" /\ Held(x, row) /\ row.word = x.word
    BY <1>0, StopSentRow DEF StopSent, ExecRow, Held, ExecRowFollows
  <2>2. x.status \in Carried /\ x.status \notin TerminalWork /\ db' = [db EXCEPT !.exec[s] = row]
    BY <1>1 DEF StopReaches, Carried, ActiveExecution, TerminalWork
  <2> HIDE DEF row, x
  <2>3. db'.sub = db.sub /\ db'.exec = [db.exec EXCEPT ![s] = row]
    BY <1>0, <2>2 DEF Database
  <2>4. ExecTrue(row) /\ (Proven(x) => Proven(row))
    BY <2>1, <2>2, CarriedProof DEF ExecTrue, Proven, Carried, ActiveExecution
  <2>5. ASSUME NEW q \in Robots, notify[q].sub = s
        PROVE  NoteTrue(notify[q], row)
    <3>1. notify[q] \in NoteRow /\ NoteTrue(notify[q], x)
      BY <2>5, PositionAssumption DEF IInv, CallsOK, EInv, Informed, x
    <3> QED BY <1>0, <2>1, <2>2, <3>1, NoteHeld
  <2> QED BY <1>0, <1>1, <2>1, <2>3, <2>4, <2>5, RowLawful DEF x
<1>2. CASE /\ x.status \in ActiveExecution /\ notify[r] = Quiet
           /\ db' = [db EXCEPT !.exec[s].status = "interrupted"]
           /\ Told(r, s, "interrupted", x.safe)
  <2> DEFINE row == [x EXCEPT !.status = "interrupted"]
  <2>1. row \in ExecRow /\ row.status = "interrupted" /\ row.word = x.word /\ row.safe = x.safe
    BY <1>0 DEF ExecRow, ExecutionStatus
  <2>2. db' = [db EXCEPT !.exec[s] = row]
    BY <1>2
  <2> HIDE DEF row
  <2>3. db'.sub = db.sub /\ db'.exec = [db.exec EXCEPT ![s] = row]
    BY <1>0, <2>2 DEF Database
  <2>4. ExecTrue(row) /\ (Proven(x) => Proven(row))
    BY <1>2, <2>1, CarriedProof DEF ExecTrue, Proven, Carried, ActiveExecution
  <2> QED BY <1>0, <1>2, <2>1, <2>3, <2>4, CorrectedLawful
<1> QED BY <1>1, <1>2 DEF StopExecution

\* stopWorkflowTasks.
LEMMA WalkLawful ==
  ASSUME IInv, EInv, NEW w \in Walkers, WalkTask(w) \/ WalkEnd(w)
  PROVE  Lawful
<1>0. /\ Good /\ Under(db.exec, db) /\ RunsOK(db, run) /\ SameReply(run, run)
      /\ SameCalls(cont, cont') /\ UNCHANGED <<notify, confirm>>
  BY SelfUnder, WalkGood DEF IInv, SameReply, SameCalls, WalkTask, WalkEnd
<1>1. CASE WalkTask(w)
  <2> DEFINE t == Least(walk[w].todo)
  <2>1. t \in Tasks
    BY <1>1, LeastIsMember, PositionAssumption DEF WalkTask, IInv, CallsOK
  <2>2. run' = Cancelled(db, run, t) /\ db' = StopTask(db, t)
        /\ \A s \in SubsOf(t) : db.sub[s].ref => ~Sending(s)
    BY <1>1 DEF WalkTask
  <2> HIDE DEF t
  <2>3. Under(db.exec, db') /\ SameReply(run, run')
    BY <1>0, <2>1, <2>2, StopTaskUnder, SameReplyMoves
  <2> QED BY <1>0, <2>3, UnderLawful
<1>2. CASE WalkEnd(w)
  <2>1. Under(db.exec, db') /\ run' = run
    BY <1>0, <1>2, ConvergeUnder DEF WalkEnd
  <2> QED BY <1>0, <2>1, UnderLawful
<1> QED BY <1>1, <1>2

\* ConfirmOperatorStop: the operator's word is the proof that the SubTask is stopped on.
LEMMA ConfirmTargetLawful ==
  ASSUME IInv, EInv, ConfirmTarget
  PROVE  Lawful
<1> DEFINE s == Least(confirm.todo)
           r == RobotOf(db, s)
           d == [db EXCEPT !.exec[s] = [@ EXCEPT !.status = "stopped", !.safe = TRUE, !.word = TRUE],
                           !.lock[r] = IF @ = s THEN 0 ELSE @]
           row == [db.exec[s] EXCEPT !.status = "stopped", !.safe = TRUE, !.word = TRUE]
           p == IF db.lock[r] = s THEN 0 ELSE db.lock[r]
<1>0. /\ Good /\ DbOK(db) /\ db \in Database /\ db.exec \in [SubTasks -> ExecRow]
      /\ confirm.todo \subseteq SubTasks /\ SameReply(run, run) /\ Under(db.exec, db)
      /\ EndsKept(db, db')
  BY SelfUnder, ConfirmTargetGood, DatabaseRows DEF IInv, DbOK, CallsOK, SameReply, Good
<1>1. s \in SubTasks /\ db.sub[s].ref
  BY <1>0, LeastIsMember, PositionAssumption DEF ConfirmTarget, EInv, Asked
<1>2. UNCHANGED <<run, notify>> /\ SameCalls(cont, cont') /\ confirm'.todo \subseteq confirm.todo
  <2>1. confirm'.todo = {} \/ confirm'.todo = confirm.todo \ {s}
    <3>1. \/ confirm' = [confirm EXCEPT !.todo = @ \ {s}]
          \/ confirm' = [on |-> FALSE, todo |-> {}]
      BY DEF ConfirmTarget
    <3>2. confirm \in [on : BOOLEAN, todo : SUBSET SubTasks]
      BY DEF IInv, CallsOK
    <3> HIDE DEF s
    <3> QED BY <3>1, <3>2
  <2>2. UNCHANGED <<run, notify>> /\ SameCalls(cont, cont')
    BY DEF ConfirmTarget, SameCalls
  <2> QED BY <2>1, <2>2
<1>3. Replies' /\ \A y \in SubTasks : Sends(run', y) => Sends(run, y)
  BY <1>0, <1>2, RepliesKept DEF EInv
<1>4. CASE db.exec[s].status \notin Confirmable
  <2>1. db' = db
    BY <1>4 DEF ConfirmTarget
  <2> QED BY <1>0, <1>2, <1>3, <2>1, SelfUnder, EngineLawful
<1>5. CASE db.exec[s].status \in Confirmable
  <2>1. db.exec[s].status # "none"
    BY <1>5 DEF Confirmable
  <2>2. r \in Robots
    BY <1>0, <1>1, <2>1, ExecutionRobot
  <2>3. row \in ExecRow /\ row.status = "stopped" /\ row.word /\ ExecRowFollows(db.exec[s], row)
        /\ row.pilot = db.exec[s].pilot /\ row.phys = db.exec[s].phys
    <3> HIDE DEF s
    <3>1. db.exec[s] \in ExecRow /\ "stopped" \in ExecutionStatus
      BY <1>0, <1>1 DEF ExecutionStatus
    <3> QED BY <2>1, <3>1 DEF ExecRow, ExecRowFollows
  <2>4. d = [db EXCEPT !.exec[s] = row, !.lock[r] = p]
    OBVIOUS
  <2>5. (FinishStopping(d, s) /\ d.sub[s].status = "stopping") \/ ConfirmedStop(d, s)
    BY <1>5 DEF ConfirmTarget
  <2>6. p \in SubTasks \cup {0}
    <3>1. db.lock[r] \in SubTasks \cup {0}
      BY <1>0, <2>2, DatabaseRows
    <3> QED BY <3>1
  <2> HIDE DEF d, row, s, p
  <2>7. Follows(db, d)
    BY <1>0, <1>1, <2>3, <2>4, <2>6, ExecAndLockUpdated
  <2>8. d \in Database /\ Coherent(d) /\ d.sub = db.sub /\ d.exec = [db.exec EXCEPT ![s] = row]
    <3>1. d.sub = db.sub /\ d.exec = [db.exec EXCEPT ![s] = row]
      BY <1>0, <2>4 DEF Database
    <3>2. d \in Database /\ Coherent(d)
      BY <1>0, <2>7, FollowsCoherent DEF DbOK, Follows
    <3> QED BY <3>1, <3>2
  <2>9. Proven(row)
    BY <2>3 DEF Proven
  <2>10. d.exec[s] = row /\ \A y \in SubTasks : y # s => d.exec[y] = db.exec[y]
    BY <1>0, <1>1, <2>8
  <2>11. Evident(d)
    BY <1>1, <2>1, <2>8, <2>9, <2>10 DEF EInv, Evident, RowEvident
  <2>12. Under(d.exec, d)
    BY <2>8, <2>11 DEF Under, HeldTo
  <2>13. ConfirmedIn(d.exec)
    BY <1>5, <2>3, <2>10 DEF ConfirmedIn
  <2>14. Under(d.exec, db')
    BY <1>1, <2>5, <2>8, <2>9, <2>10, <2>12, FinishStoppingUnder, ConfirmedStopUnder
  <2> QED BY <1>0, <1>2, <1>3, <2>13, <2>14, EngineLawful
<1> QED BY <1>4, <1>5

\* The rest of ConfirmWorkflowStop.
LEMMA ConfirmEndLawful ==
  ASSUME IInv, EInv, ConfirmEnd
  PROVE  Lawful
<1>0. Good /\ Under(db.exec, db) /\ SameReply(run, run) /\ UNCHANGED <<notify, run>>
      /\ SameCalls(cont, cont') /\ \A s \in SubTasks : Sends(run', s) => Sends(run, s)
  BY SelfUnder, ConfirmEndGood DEF SameReply, SameCalls, ConfirmEnd
<1>1. Under(db.exec, TransitionWorkflow(db, "stopping", ""))
  BY <1>0, TransitionsUnder, Names
<1>2. Under(db.exec, db')
  BY <1>0, <1>1 DEF ConfirmEnd
<1>3. confirm'.todo = confirm.todo
  BY DEF ConfirmEnd, IInv, CallsOK
<1>4. Replies'
  BY <1>0, RepliesKept DEF EInv, Good
<1> QED BY <1>0, <1>2, <1>3, <1>4, SelfUnder, EngineLawful

\* The requests of the user: a confirmation asks about SubTasks that name an Execution.
LEMMA UserLawful ==
  ASSUME IInv, EInv, User
  PROVE  Lawful
<1>0. Good /\ Under(db.exec, db) /\ RunsOK(db, run) /\ SameReply(run, run) /\ db \in Database
      /\ EndsKept(db, db')
  BY SelfUnder, UserGood DEF IInv, SameReply, DbOK, Good
<1>7. UNCHANGED cont => SameCalls(cont, cont')
  BY DEF SameCalls
<1>1. CASE PauseWorkflow
  <2>1. Under(db.exec, db') /\ UNCHANGED <<run, cont, notify, confirm>>
    BY <1>0, <1>1, TransitionsUnder, Names DEF PauseWorkflow
  <2> QED BY <1>0, <1>7, <2>1, UnderLawful
<1>2. CASE ResumeWorkflow
  <2> DEFINE S == Resumable(db, run)
             w == TransitionWorkflow(db, "running", "")
             d == ResumedTasks(w, S)
             launched == [t \in Tasks |-> IF t \in S THEN At("pick", 0) ELSE run[t]]
  <2>1. db' = Schedule(d) /\ run' = Reserve(d, launched) /\ UNCHANGED <<cont, notify, confirm>>
    BY <1>2 DEF ResumeWorkflow
  <2>2. Under(db.exec, w)
    BY <1>0, TransitionsUnder, Names
  <2>3. w.task = db.task
    BY <1>0 DEF TransitionWorkflow, Database
  <2>4. \A t \in S : t \in Tasks => w.task[t].status = "paused"
    BY <2>3 DEF Resumable
  <2>5. RunsOK(db, launched)
    BY <1>0, IdleOK DEF RunsOK, RunRowOK
  <2>6. SameReply(run, launched)
    <3>1. At("pick", 0).pc \notin Replying \cup {"dispatch"} /\ At("pick", 0).sub = 0
      BY DEF At, Replying
    <3> QED BY <3>1 DEF SameReply
  <2> HIDE DEF S, w, launched
  <2>7. Under(db.exec, d)
    BY <2>2, <2>4, ResumedTasksUnder
  <2> HIDE DEF d
  <2>8. Under(db.exec, db') /\ SameReply(run, run')
    BY <2>1, <2>5, <2>6, <2>7, ScheduleUnder, ReserveReply
  <2> QED BY <1>0, <1>7, <2>1, <2>8, UnderLawful
<1>3. CASE StopWorkflow
  <2>1. Under(db.exec, db') /\ UNCHANGED <<run, cont, notify, confirm>>
    BY <1>0, <1>3, TransitionsUnder, Names DEF StopWorkflow
  <2> QED BY <1>0, <1>7, <2>1, UnderLawful
<1>4. CASE ConfirmWorkflowStop
  <2>1. Under(db.exec, TransitionWorkflow(db, "stopping", ""))
    BY <1>0, TransitionsUnder, Names
  <2>2. Under(db.exec, db') /\ UNCHANGED <<run, cont, notify>>
    BY <1>0, <1>4, <2>1 DEF ConfirmWorkflowStop
  <2>3. Replies' /\ Calling'
    BY <1>0, <1>7, <2>2, RepliesKept, CallingKept DEF EInv
  <2>4. confirm'.todo = {s \in RobotSkills : db.sub[s].ref /\ db.sub[s].status \notin TerminalWork}
    BY <1>4 DEF ConfirmWorkflowStop
  <2>5. Asked'
    BY <1>0, <2>4, PlanAssumption DEF Asked, EndsKept
  <2> QED BY <1>0, <2>2, <2>3, <2>5, SelfUnder, AskingLawful
<1>5. CASE MapChanges
  <2>1. db'.sub = db.sub /\ db'.exec = db.exec /\ UNCHANGED <<run, cont, notify, confirm>>
    BY <1>0, <1>5 DEF MapChanges, Database
  <2> QED BY <1>0, <2>1, PointerLawful
<1>6. ASSUME NEW s \in SubTasks, RetryRobotAgentDecision(s)
      PROVE  Lawful
  <2> DEFINE t == TaskOf[s]
             w == TransitionWorkflow(db, "running", "")
             e == TransitionTask(w, t, "running", "")
  <2>1. t \in Tasks /\ TaskOf[s] = t /\ db.sub[s].ref
    BY <1>6, PlanAssumption DEF RetryRobotAgentDecision
  <2>2. Under(db.exec, w)
    BY <1>0, TransitionsUnder, Names
  <2>3. db' = TransitionSubTask(e, s, "running", "") /\ run' = [run EXCEPT ![t] = At("decide", s)]
        /\ UNCHANGED <<cont, notify, confirm>>
    BY <1>6 DEF RetryRobotAgentDecision
  <2> HIDE DEF t, w
  <2>4. Under(db.exec, e)
    BY <2>1, <2>2, TransitionsUnder, Names
  <2> HIDE DEF e
  <2>5. Under(db.exec, db')
    BY <2>3, <2>4, SubMovesUnder, Names
  <2>6. Asks(db'.sub[s])
    BY <1>0, <2>1 DEF EndsKept, Asks
  <2>8. "decide" \in Replying
    BY DEF Replying
  <2>7. Replies' /\ \A y \in SubTasks : Sends(run', y) => Sends(run, y)
    BY <1>0, <2>1, <2>3, <2>6, <2>8, AskedReplies DEF EInv
  <2> QED BY <1>0, <1>7, <2>3, <2>5, <2>7, SelfUnder, EngineLawful
<1> QED BY <1>1, <1>2, <1>3, <1>4, <1>5, <1>6, StopExecutionLawful DEF User

\* A Server that starts has no goroutine that replies or dispatches.
LEMMA StartsReply ==
  ASSUME NEW d
  PROVE  /\ run = Reserve(d, NoRuns) => Replies /\ \A s \in SubTasks : ~Sends(run, s)
         /\ run' = Reserve(d, NoRuns) => Replies' /\ \A s \in SubTasks : ~Sends(run', s)
<1>1. ASSUME NEW t \in Tasks
      PROVE  /\ Reserve(d, NoRuns)[t].pc \in {"idle", "resolve"}
             /\ Reserve(d, NoRuns)[t].sub = 0
  <2>1. \/ Reserve(d, NoRuns)[t] = [Idle EXCEPT !.fresh = FALSE]
        \/ Reserve(d, NoRuns)[t] = At("resolve", 0)
        \/ Reserve(d, NoRuns)[t] = Idle
    BY Zenon DEF Reserve, NoRuns
  <2> QED BY <2>1 DEF Idle, At
<1>2. {"idle", "resolve"} \cap (Replying \cup {"dispatch"}) = {}
  BY DEF Replying
<1> QED BY <1>1, <1>2 DEF Replies, Sends

\* A restart forgets what was asked and told, and attaches what it finds.
LEMMA RestartLawful ==
  ASSUME IInv, EInv, Restart
  PROVE  Lawful
<1> DEFINE d == IF db.wf.status \in {"running", "paused"} THEN RecoveredWorkflow(db) ELSE db
<1>0. Good /\ Under(db.exec, db)
  BY SelfUnder, RestartGood
<1>1. Under(db.exec, d)
  BY <1>0, RecoveredWorkflowUnder
<1>2. db' = Schedule(d) /\ run' = Reserve(d, NoRuns)
  BY DEF Restart
<1> HIDE DEF d
<1>3. Under(db.exec, db')
  BY <1>1, <1>2, ScheduleUnder
<1>4. \A r \in Robots : notify'[r].sub = 0
  BY NoCalls DEF Restart
<1>5. confirm'.todo = {} /\ SameCalls(cont, cont')
  BY DEF Restart, SameCalls
<1>6. Replies' /\ \A s \in SubTasks : ~Sends(run', s)
  BY <1>2, StartsReply
<1> QED BY <1>0, <1>3, <1>4, <1>5, <1>6, SelfUnder, EngineLawful

\* A confirmed Workflow has no Execution, so all is evident.
LEMMA InitEvident == Init => EInv
<1> SUFFICES ASSUME Init PROVE EInv
  OBVIOUS
<1>1. Evident(db) /\ ExecsTrue(db)
  BY DEF Init, InitialDatabase, Evident, RowEvident, ExecsTrue, ExecTrue
<1>2. Informed /\ Asked /\ Calling
  BY NoCalls DEF Init, Informed, Asked, Calling
<1>3. Replies /\ \A s \in SubTasks : ~Sends(run, s)
  BY StartsReply DEF Init
<1> QED BY <1>1, <1>2, <1>3 DEF EInv, Dispatches

\* Every step of the system is lawful.
LEMMA NextLawful ==
  ASSUME IInv, EInv, [Next]_vars
  PROVE  Lawful
<1>1. CASE UNCHANGED vars
  <2>1. Good
    BY <1>1, StutterGood
  <2>2. db' = db /\ UNCHANGED <<run, cont, notify, confirm>>
    BY <1>1 DEF vars
  <2> QED BY <2>1, <2>2, PointerLawful
<1> QED BY <1>1, PrepareLawful, ExecuteLawful, ContinueLawful, DecideLawful, ObserveLawful,
   SaveReportedLawful, SaveStalePointerLawful, RobotAvailableLawful, SessionLawful, PilotLawful, WalkLawful, ConfirmTargetLawful,
   ConfirmEndLawful, UserLawful, RestartLawful DEF Next

\* EInv is an invariant: what the SubTask rows, the calls under way, the decision Runs and an
\* operator's confirmation claim of an Execution is true of the stored one.
THEOREM Evidence == Spec => []EInv
<1>1. IInv /\ EInv /\ [Next]_vars => EInv'
  BY NextLawful DEF Lawful
<1> QED BY <1>1, InitEvident, Invariance, PTL DEF Spec

\* The engine never forges a physical stop: a SubTask with an attached Execution is stopped
\* only on a stored fact that proves the Robot still, through stopTaskSubTasks, the observer's
\* two settlements, operator confirmation and every order of late events.
THEOREM StopsOnEvidence == Spec => []StopNeedsEvidence
<1>1. IInv /\ EInv => StopNeedsEvidence
  <2> SUFFICES ASSUME IInv, EInv, NEW s \in RobotSkills,
                      db.sub[s].status = "stopped", db.sub[s].ref
               PROVE  Proven(db.exec[s])
    BY DEF StopNeedsEvidence, Proven, AtRest
  <2>1. s \in SubTasks
    BY PlanAssumption
  <2> QED BY <2>1 DEF EInv, Evident, RowEvident
<1> QED BY <1>1, Invariance, Evidence, PTL

\* A physical action is never replayed: whatever pauses, resumes, recovers or restarts, a
\* SubTask that has an Execution is not pending again and gets no second one.
THEOREM NoReplay == Spec => NeverReplayed
<1>1. IInv /\ EInv /\ [Next]_vars => ReplayFree
  BY NextLawful DEF Lawful
<1>2. IInv /\ EInv /\ [Next]_vars =>
        [\A s \in RobotSkills :
           db.exec[s].status # "none" =>
             /\ db'.sub[s].status # "pending"
             /\ db'.exec[s].status # "queued" \/ db.exec[s].status = "queued"]_vars
  BY <1>1, PlanAssumption DEF ReplayFree
<1> QED BY <1>2, Invariance, Evidence, PTL DEF Spec, NeverReplayed

------------------------------------------------------------------------------
(* The workspace: which Tasks may work without having claimed it.           *)

\* A rewrite that sets no Task running and gives no reason that permits the resumption of a
\* Task that a restart interrupted.
Slows(d, e) ==
  /\ \A t \in Tasks : e.task[t].status = "running" => d.task[t].status = "running"
  /\ e.wf.reason = "server_restarted" => d.wf.reason = "server_restarted"

\* A database reached from x by such rewrites.
Slowed(x, d) == d \in Database /\ Coherent(d) /\ Slows(x, d)

\* One more of them.
LEMMA SlowedOn ==
  ASSUME NEW x, NEW d, Slowed(x, d), NEW e, Follows(d, e), Slows(d, e)
  PROVE  Slowed(x, e)
<1>1. e \in Database /\ Coherent(e)
  BY FollowsCoherent DEF Slowed, Follows
<1> QED BY <1>1 DEF Slowed, Slows

\* One that leaves the rows of Tasks and Workflow alone.
LEMMA SlowedRows ==
  ASSUME NEW x, NEW d, Slowed(x, d), NEW e, Follows(d, e), e.task = d.task, e.wf = d.wf
  PROVE  Slowed(x, e)
BY SlowedOn DEF Slows

\* Transitions of the Workflow, of a Task to anything but running, and of a SubTask.
LEMMA SlowedMoves ==
  ASSUME NEW x, NEW d, Slowed(x, d), NEW why \in Reason
  PROVE  /\ \A to \in WorkflowStatus : why # "server_restarted"
              => Slowed(x, TransitionWorkflow(d, to, why))
         /\ \A t \in Tasks, to \in WorkStatus : to # "running"
              => Slowed(x, TransitionTask(d, t, to, why))
         /\ \A s \in SubTasks, to \in WorkStatus : Slowed(x, TransitionSubTask(d, s, to, why))
         /\ \A t \in Tasks : Slowed(x, SetPendingTaskReason(d, t, why))
<1>0. d \in Database /\ d.task \in [Tasks -> TaskRow]
  BY DatabaseRows DEF Slowed
<1>1. ASSUME NEW to \in WorkflowStatus, why # "server_restarted"
      PROVE  Slowed(x, TransitionWorkflow(d, to, why))
  <2>1. Slows(d, TransitionWorkflow(d, to, why))
    BY <1>0, <1>1 DEF Slows, TransitionWorkflow, Database
  <2> QED BY <1>0, <2>1, SlowedOn, TransitionWorkflowFollows
<1>2. ASSUME NEW t \in Tasks, NEW to \in WorkStatus, to # "running"
      PROVE  Slowed(x, TransitionTask(d, t, to, why))
  <2>1. Slows(d, TransitionTask(d, t, to, why))
    BY <1>0, <1>2 DEF Slows, TransitionTask, Database, TaskRow
  <2> QED BY <1>0, <2>1, SlowedOn, TransitionTaskFollows
<1>3. ASSUME NEW s \in SubTasks, NEW to \in WorkStatus
      PROVE  Slowed(x, TransitionSubTask(d, s, to, why))
  <2>1. TransitionSubTask(d, s, to, why).task = d.task /\ TransitionSubTask(d, s, to, why).wf = d.wf
    BY <1>0 DEF TransitionSubTask, Database
  <2> QED BY <1>0, <2>1, SlowedRows, TransitionSubTaskFollows
<1>4. ASSUME NEW t \in Tasks
      PROVE  Slowed(x, SetPendingTaskReason(d, t, why))
  <2>1. Slows(d, SetPendingTaskReason(d, t, why))
    BY <1>0 DEF Slows, SetPendingTaskReason, Database, TaskRow
  <2> QED BY <1>0, <2>1, SlowedOn, SetPendingTaskReasonFollows
<1> QED BY <1>1, <1>2, <1>3, <1>4

\* AttachSubTaskExecution and a plan.
LEMMA SlowedSubTasks ==
  ASSUME NEW x, NEW d, Slowed(x, d)
  PROVE  /\ \A s \in SubTasks : d.exec[s].status # "none" => Slowed(x, AttachSubTaskExecution(d, s))
         /\ \A t \in Tasks : CanSetTaskSubTasks(d, t) => Slowed(x, SetTaskSubTasks(d, t))
<1>0. d \in Database /\ Coherent(d)
  BY DEF Slowed
<1>1. ASSUME NEW s \in SubTasks, d.exec[s].status # "none"
      PROVE  Slowed(x, AttachSubTaskExecution(d, s))
  <2>1. AttachSubTaskExecution(d, s).task = d.task /\ AttachSubTaskExecution(d, s).wf = d.wf
    BY <1>0 DEF AttachSubTaskExecution, Database
  <2> QED BY <1>0, <1>1, <2>1, SlowedRows, AttachFollows
<1>2. ASSUME NEW t \in Tasks, CanSetTaskSubTasks(d, t)
      PROVE  Slowed(x, SetTaskSubTasks(d, t))
  <2>1. SetTaskSubTasks(d, t).task = d.task /\ SetTaskSubTasks(d, t).wf = d.wf
    BY <1>0 DEF SetTaskSubTasks, Database
  <2> QED BY <1>0, <1>2, <2>1, SlowedRows, SetTaskSubTasksFollows
<1> QED BY <1>1, <1>2

\* stopPendingWork and failTask.
LEMMA SlowedFailures ==
  ASSUME NEW x, NEW d, Slowed(x, d)
  PROVE  Slowed(x, stopPendingWork(d)) /\ \A t \in Tasks : Slowed(x, failTask(d, t))
<1>0. d \in Database /\ d.task \in [Tasks -> TaskRow]
  BY DatabaseRows DEF Slowed
<1>1. Slows(d, stopPendingWork(d))
  BY <1>0 DEF Slows, stopPendingWork, Database, TaskRow
<1>2. ASSUME NEW t \in Tasks
      PROVE  Slows(d, failTask(d, t))
  <2> DEFINE subs == [s \in SubTasks |->
        CASE s \in SubsOf(t) /\ d.sub[s].status = "running" -> Moved(d.sub[s], "failed", "")
          [] s \in SubsOf(t) /\ d.sub[s].status = "pending" -> Moved(d.sub[s], "stopped", "")
          [] OTHER -> d.sub[s]]
             e == [d EXCEPT !.sub = subs]
  <2>1. failTask(d, t) = IF d.task[t].status \in {"pending", "running"}
                         THEN TransitionTask(e, t, "failed", "") ELSE e
    BY Zenon DEF failTask
  <2> HIDE DEF subs
  <2>2. e.task = d.task /\ e.wf = d.wf
    BY <1>0 DEF Database
  <2>3. TransitionTask(e, t, "failed", "").wf = d.wf
        /\ \A u \in Tasks : TransitionTask(e, t, "failed", "").task[u].status
                              \in {d.task[u].status, "failed"}
    BY <1>0, <2>2 DEF TransitionTask, Database, TaskRow
  <2> HIDE DEF e
  <2> QED BY <2>1, <2>2, <2>3 DEF Slows
<1> QED BY <1>0, <1>1, <1>2, SlowedOn, StopPendingWorkFollows, FailTaskFollows

\* schedule, convergeStoppedWorkflow and finishOrSchedule.
LEMMA SlowedEnds ==
  ASSUME NEW x, NEW d, Slowed(x, d)
  PROVE  Slowed(x, Schedule(d)) /\ Slowed(x, Converge(d)) /\ Slowed(x, Finish(d))
<1>0. d \in Database
  BY DEF Slowed
<1>1. Slowed(x, Schedule(d))
  <2>1. CASE MapRefused(d)
    <3> DEFINE t == Least(ListRunnableTasks(d))
               e == SetPendingTaskReason(d, t, "map_generation_changed")
    <3>1. t \in Tasks
      BY <2>1, RunnableAreTasks DEF MapRefused
    <3> HIDE DEF t
    <3>2. Slowed(x, e)
      BY <3>1, Names, SlowedMoves
    <3> HIDE DEF e
    <3>3. Slowed(x, TransitionWorkflow(e, "paused", "map_generation_changed"))
      BY <3>2, Names, SlowedMoves
    <3> QED BY <2>1, <3>3 DEF Schedule, e, t
  <2>2. CASE ~MapRefused(d)
    BY <2>2 DEF Schedule
  <2> QED BY <2>1, <2>2
<1>2. Slowed(x, Converge(d))
  <2>1. Slows(d, Converge(d))
    BY <1>0 DEF Slows, Converge, TransitionWorkflow, Database
  <2> QED BY <1>0, <2>1, SlowedOn, ConvergeFollows
<1>3. Slowed(x, TransitionWorkflow(stopPendingWork(d), "failed", ""))
  BY SlowedFailures, SlowedMoves, Names
<1>4. Slowed(x, TransitionWorkflow(d, "completed", ""))
  BY SlowedMoves, Names
<1>5. Slowed(x, Finish(d))
  BY <1>2, <1>3, <1>4, Zenon DEF Finish
<1> QED BY <1>1, <1>2, <1>5

\* stopTaskSubTasks.
LEMMA SlowedStops ==
  ASSUME NEW x, NEW d, Slowed(x, d), NEW t \in Tasks
  PROVE  Slowed(x, stopTaskSubTasks(d, t))
<1> DEFINE seen == Visited(d, t)
           verdict == [s \in SubTasks |-> IF s \in seen /\ Stoppable(d, s)
                                          THEN StopVerdict(d, s) ELSE "none"]
           unknown == \E s \in SubTasks : verdict[s] \in {"unknown", "lost"}
           subs == [s \in SubTasks |->
             CASE s \notin seen -> d.sub[s]
               [] verdict[s] = "settled" -> [d.sub[s] EXCEPT !.status = "stopped", !.reason = ""]
               [] verdict[s] = "sent" -> [d.sub[s] EXCEPT !.status = "stopping", !.reason = ""]
               [] verdict[s] \in {"unknown", "lost"} ->
                    [d.sub[s] EXCEPT !.status = "paused", !.reason = "execution_state_unknown"]
               [] OTHER -> TowardStop(d.sub[s])]
           execs == [s \in SubTasks |->
             CASE verdict[s] = "sent" -> StopSent(d.exec[s])
               [] verdict[s] = "lost" -> [d.exec[s] EXCEPT !.status = "interrupted"]
               [] OTHER -> d.exec[s]]
           e == [d EXCEPT !.sub = subs, !.exec = execs]
           f == IF e.task[t].status \in {"running", "stopping"}
                THEN TransitionTask(e, t, "paused", "execution_state_unknown") ELSE e
           g == IF ~unknown THEN e
                ELSE IF f.wf.status = "stopping"
                     THEN TransitionWorkflow(f, "paused", "execution_state_unknown") ELSE f
<1>0. d \in Database /\ Coherent(d) /\ d.task \in [Tasks -> TaskRow]
  BY DatabaseRows DEF Slowed
<1>1. stopTaskSubTasks(d, t) = g
  BY Zenon DEF stopTaskSubTasks
<1> HIDE DEF subs, execs, unknown
<1>2. e.task = d.task /\ e.wf = d.wf /\ DOMAIN e = DOMAIN d
  BY <1>0 DEF Database
<1>3. /\ TransitionTask(e, t, "paused", "execution_state_unknown").wf = d.wf
      /\ \A u \in Tasks : TransitionTask(e, t, "paused", "execution_state_unknown").task[u].status
                            \in {d.task[u].status, "paused"}
  BY <1>0, <1>2 DEF TransitionTask, Database, TaskRow
<1>4. f.wf = d.wf /\ \A u \in Tasks : f.task[u].status \in {d.task[u].status, "paused"}
  BY <1>2, <1>3
<1>5. TransitionWorkflow(f, "paused", "execution_state_unknown").task = f.task
      /\ TransitionWorkflow(f, "paused", "execution_state_unknown").wf.reason
           \in {f.wf.reason, "execution_state_unknown"}
  <2>1. "wf" \in DOMAIN f
    BY <1>0, <1>2 DEF TransitionTask, Database
  <2> HIDE DEF f
  <2> QED BY <2>1 DEF TransitionWorkflow
<1> HIDE DEF e, f
<1>6. Slows(d, g)
  BY <1>2, <1>4, <1>5 DEF Slows
<1> HIDE DEF g
<1> QED BY <1>0, <1>1, <1>6, SlowedOn, StopTaskSubTasksFollows

\* The Task row that follows, and stopWorkflowTasks for one Task.
LEMMA SlowedStopTask ==
  ASSUME NEW x, NEW d, Slowed(x, d), NEW t \in Tasks
  PROVE  Slowed(x, FinishStoppedTask(d, t)) /\ Slowed(x, StopTask(d, t))
<1>1. ASSUME NEW e, Slowed(x, e)
      PROVE  Slowed(x, FinishStoppedTask(e, t))
  BY <1>1, Names, SlowedMoves DEF FinishStoppedTask
<1> DEFINE e == moveTaskTowardStop(d, t)
<1>2. Slowed(x, e)
  BY Names, SlowedMoves DEF moveTaskTowardStop
<1> HIDE DEF e
<1>3. Slowed(x, FinishStoppedTask(stopTaskSubTasks(e, t), t))
  BY <1>1, <1>2, SlowedStops
<1> QED BY <1>1, <1>3 DEF StopTask, e

\* pauseRobotSubTask and pauseRobotDecisionFailure.
LEMMA SlowedPause ==
  ASSUME NEW x, NEW d, Slowed(x, d), NEW s \in SubTasks, NEW why \in Reason, why # "server_restarted"
  PROVE  Slowed(x, pauseRobotSubTask(d, s, why)) /\ Slowed(x, pauseRobotDecisionFailure(d, s))
<1>1. ASSUME NEW r \in Reason, r # "server_restarted"
      PROVE  Slowed(x, pauseRobotSubTask(d, s, r))
  <2> DEFINE t == TaskOf[s]
             g == IF d.sub[s].status \in {"running", "stopping"}
                  THEN TransitionSubTask(d, s, "paused", r) ELSE d
             f == IF g.task[t].status \in {"running", "stopping"}
                  THEN TransitionTask(g, t, "paused", r) ELSE g
  <2>1. t \in Tasks
    BY PlanAssumption
  <2>2. Slowed(x, TransitionSubTask(d, s, "paused", r))
    BY SlowedMoves, Names
  <2>3. Slowed(x, g)
    BY <2>2
  <2>4. pauseRobotSubTask(d, s, r) =
          IF f.wf.status = "stopping" THEN TransitionWorkflow(f, "paused", r) ELSE f
    BY Zenon DEF pauseRobotSubTask
  <2> HIDE DEF g
  <2>5. Slowed(x, f)
    BY <2>1, <2>3, Names, SlowedMoves
  <2> HIDE DEF f
  <2> QED BY <1>1, <2>4, <2>5, Names, SlowedMoves
<1> DEFINE e == pauseRobotSubTask(d, s, "robot_agent_decision_failed")
<1>2. Slowed(x, e)
  BY <1>1, Names
<1>3. pauseRobotDecisionFailure(d, s) =
        IF e.wf.status = "running"
        THEN TransitionWorkflow(e, "paused", "robot_agent_decision_failed") ELSE e
  BY Zenon DEF pauseRobotDecisionFailure
<1> HIDE DEF e
<1>4. Slowed(x, pauseRobotDecisionFailure(d, s))
  BY <1>2, <1>3, Names, SlowedMoves
<1> QED BY <1>1, <1>4

\* failPausedTask.
LEMMA SlowedFailPaused ==
  ASSUME NEW x, NEW d, Slowed(x, d), NEW s \in SubTasks
  PROVE  Slowed(x, failPausedTask(d, s))
<1> DEFINE t == TaskOf[s]
           subs == [y \in SubTasks |->
              CASE y = s -> Moved(d.sub[y], "failed", "")
                [] y \in SubsOf(t) \ {s} /\ d.sub[y].status = "pending" ->
                     Moved(d.sub[y], "stopped", "")
                [] OTHER -> d.sub[y]]
           e == [d EXCEPT !.sub = subs]
<1>0. d \in Database /\ d.task \in [Tasks -> TaskRow] /\ t \in Tasks
  BY DatabaseRows, PlanAssumption DEF Slowed
<1>1. failPausedTask(d, s) = TransitionTask(e, t, "failed", "")
  BY Zenon DEF failPausedTask
<1> HIDE DEF subs
<1>2. e.task = d.task /\ e.wf = d.wf
  BY <1>0 DEF Database
<1>3. TransitionTask(e, t, "failed", "").wf = d.wf
      /\ \A u \in Tasks : TransitionTask(e, t, "failed", "").task[u].status
                            \in {d.task[u].status, "failed"}
  BY <1>0, <1>2 DEF TransitionTask, Database, TaskRow
<1> HIDE DEF e
<1>4. Slows(d, failPausedTask(d, s))
  BY <1>1, <1>3 DEF Slows
<1> QED BY <1>0, <1>4, SlowedOn, FailPausedTaskFollows

\* The settlements of a stop, and what an event of a Pilot leads to.
LEMMA SlowedSettlements ==
  ASSUME NEW x, NEW d, Slowed(x, d), NEW s \in SubTasks
  PROVE  /\ Slowed(x, SubTaskStopped(d, s)) /\ Slowed(x, StopConfirmed(d, s))
         /\ Slowed(x, completeRobotSubTask(d, s))
<1>0. TaskOf[s] \in Tasks
  BY PlanAssumption
<1>1. Slowed(x, TransitionSubTask(d, s, "stopped", ""))
  BY SlowedMoves, Names
<1>2. Slowed(x, SubTaskStopped(d, s))
  BY <1>0, <1>1, SlowedStopTask DEF SubTaskStopped
<1>3. Slowed(x, StopConfirmed(d, s))
  <2> DEFINE t == TaskOf[s]
             g == IF d.wf.status \in {"running", "paused"}
                  THEN TransitionWorkflow(d, "stopping", "") ELSE d
             f == IF g.task[t].status \in {"running", "paused"}
                  THEN TransitionTask(g, t, "stopping", "") ELSE g
  <2>1. StopConfirmed(d, s) = IF f.sub[s].status \in {"running", "paused"}
                              THEN TransitionSubTask(f, s, "stopping", "") ELSE f
    BY Zenon DEF StopConfirmed
  <2>2. Slowed(x, g)
    BY SlowedMoves, Names
  <2> HIDE DEF g
  <2>3. Slowed(x, f)
    BY <1>0, <2>2, SlowedMoves, Names
  <2> HIDE DEF f
  <2> QED BY <2>1, <2>3, SlowedMoves, Names
<1>4. Slowed(x, TransitionSubTask(d, s, "running", ""))
  BY SlowedMoves, Names
<1>5. Slowed(x, TransitionSubTask(TransitionSubTask(d, s, "running", ""), s, "completed", ""))
  BY <1>4, SlowedMoves, Names
<1>6. Slowed(x, completeRobotSubTask(d, s))
  BY <1>5 DEF completeRobotSubTask
<1> QED BY <1>2, <1>3, <1>6

\* UpdatePausedRobotWaitReason changes reasons of a Task and a SubTask only.
LEMMA SlowedWaitReason ==
  ASSUME NEW x, NEW d, Slowed(x, d), NEW s \in SubTasks, NEW from, NEW to \in Reason
  PROVE  Slowed(x, UpdatePausedRobotWaitReason(d, s, from, to))
<1> DEFINE e == UpdatePausedRobotWaitReason(d, s, from, to)
<1>0. d \in Database /\ d.task \in [Tasks -> TaskRow] /\ TaskOf[s] \in Tasks
  BY DatabaseRows, PlanAssumption DEF Slowed
<1>1. Slows(d, e)
  BY <1>0 DEF Slows, UpdatePausedRobotWaitReason, Database, TaskRow
<1>2. Follows(d, e)
  BY <1>0, UpdateWaitReasonFollows
<1> QED BY <1>1, <1>2, SlowedOn

\* A Task is being worked on, or is about to be: it runs and an Agent Run of it is under way.
Busy == {"pick", "agent", "dispatch"}
Working(t) == db.task[t].status = "running" /\ run[t].pc \in Busy

\* Until the first restart no Task can be resumed past its claim, and whichever writer is
\* being worked on owns the workspace.
WInv ==
  /\ \E b \in Budgets : left["restart"] <= b["restart"]
  /\ FirstLife => /\ db.wf.reason # "server_restarted"
                  /\ \A t \in Writers : Working(t) => res = t

\* Restarts that were spent stay spent.
Spared == left' \in [Limits -> Nat] /\ left'["restart"] <= left["restart"]

\* A goroutine goes on with work, or there is none for its Task.
SameWork(rs, ns) == \A t \in Tasks : ns[t].pc \in Busy => rs[t].pc \in Busy

\* The workspace keeps its owner, or is taken from a Task that is not being worked on.
Yielded == res' = res \/ \A t \in Tasks : res = t => ~Working(t)'

\* The common case: nobody starts to work.
LEMMA WorkKept ==
  ASSUME IInv, WInv, Spared, Yielded,
         db'.wf.reason = "server_restarted" => db.wf.reason = "server_restarted",
         \A t \in Tasks : Working(t)' => Working(t)
  PROVE  WInv'
<1>1. left["restart"] \in Nat /\ left'["restart"] \in Nat /\ left'["restart"] <= left["restart"]
      /\ \A b \in Budgets : b["restart"] \in Nat
  BY BudgetAssumption DEF Spared, IInv, CallsOK, Limits
<1>2. \E b \in Budgets : left'["restart"] <= b["restart"]
  BY <1>1 DEF WInv
<1>3. FirstLife' => FirstLife
  BY <1>1 DEF FirstLife
<1>4. \A t \in Writers : t \in Tasks
  BY PlanAssumption
<1>5. FirstLife' => db'.wf.reason # "server_restarted"
  BY <1>3 DEF WInv
<1>6. ASSUME FirstLife', NEW t \in Writers, Working(t)'
      PROVE  res' = t
  <2>1. Working(t) /\ FirstLife
    BY <1>3, <1>4, <1>6
  <2>2. res = t
    BY <2>1 DEF WInv
  <2> QED BY <1>4, <1>6, <2>2 DEF Yielded
<1> QED BY <1>2, <1>5, <1>6 DEF WInv

\* One Task may start to work, on its claim.
LEMMA WorkClaimed ==
  ASSUME IInv, WInv, Spared, NEW t \in Tasks, CanClaim(t), res' = Claimed(t),
         db'.wf.reason = "server_restarted" => db.wf.reason = "server_restarted",
         \A u \in Tasks : u # t /\ Working(u)' => Working(u)
  PROVE  WInv'
<1>1. left["restart"] \in Nat /\ left'["restart"] \in Nat /\ left'["restart"] <= left["restart"]
      /\ \A b \in Budgets : b["restart"] \in Nat
  BY BudgetAssumption DEF Spared, IInv, CallsOK, Limits
<1>2. \E b \in Budgets : left'["restart"] <= b["restart"]
  BY <1>1 DEF WInv
<1>3. FirstLife' => FirstLife
  BY <1>1 DEF FirstLife
<1>4. \A u \in Writers : u \in Tasks /\ u # 0
  BY PlanAssumption, PositionAssumption
<1>5. FirstLife' => db'.wf.reason # "server_restarted"
  BY <1>3 DEF WInv
<1>6. ASSUME FirstLife', NEW u \in Writers, Working(u)'
      PROVE  res' = u
  <2>1. CASE u = t
    BY <2>1 DEF Claimed
  <2>2. CASE u # t
    <3>1. res = u
      BY <1>3, <1>4, <1>6, <2>2 DEF WInv
    <3>2. t \notin Writers
      BY <1>4, <2>2, <3>1 DEF CanClaim
    <3> QED BY <3>1, <3>2 DEF Claimed
  <2> QED BY <2>1, <2>2
<1> QED BY <1>2, <1>5, <1>6 DEF WInv

\* The database slows and the goroutines start no work.
LEMMA SlowedKept ==
  ASSUME IInv, WInv, Spared, Yielded, Slowed(db, db'), SameWork(run, run')
  PROVE  WInv'
BY WorkKept DEF Slowed, Slows, SameWork, Working

\* The rows of Tasks and Workflow, the goroutines and the workspace stay.
LEMMA WorkUntouched ==
  ASSUME IInv, WInv, Spared, db'.task = db.task, db'.wf = db.wf, run' = run, res' = res
  PROVE  WInv'
BY WorkKept DEF Working, Yielded

\* The database is reached from itself.
LEMMA SelfSlowed == ASSUME IInv PROVE Slowed(db, db)
BY DEF IInv, DbOK, Slowed, Slows

\* Replacing a goroutine by one that does not work, or moving one on.
LEMMA SameWorkMoves ==
  ASSUME NEW rs, RunsOK(db, rs), NEW t \in Tasks
  PROVE  /\ SameWork(rs, rs)
         /\ SameWork(rs, [rs EXCEPT ![t] = Idle])
         /\ \A s : \A pc \in {"decide", "recover"} : SameWork(rs, [rs EXCEPT ![t] = At(pc, s)])
         /\ \A pc \in {"bind", "wait", "plan", "launch", "replied"} :
              /\ SameWork(rs, [rs EXCEPT ![t].pc = pc])
              /\ \A r : SameWork(rs, [rs EXCEPT ![t].pc = pc, ![t].robot = r])
         /\ rs[t].pc \in Busy => \A pc :
              /\ SameWork(rs, [rs EXCEPT ![t].pc = pc])
              /\ \A s : SameWork(rs, [rs EXCEPT ![t].pc = pc, ![t].sub = s])
         /\ \A d : SameWork(rs, Cancelled(d, rs, t))
<1>1. rs \in [Tasks -> RunRow] /\ rs[t] \in RunRow
  BY DEF RunsOK
<1>2. ASSUME NEW row, row.pc \in Busy => rs[t].pc \in Busy
      PROVE  SameWork(rs, [rs EXCEPT ![t] = row])
  BY <1>1, <1>2 DEF SameWork
<1>3. SameWork(rs, rs)
  BY DEF SameWork
<1>4. SameWork(rs, [rs EXCEPT ![t] = Idle])
      /\ \A s : \A pc \in {"decide", "recover"} : SameWork(rs, [rs EXCEPT ![t] = At(pc, s)])
  <2>1. Idle.pc \notin Busy /\ \A s : \A pc \in {"decide", "recover"} : At(pc, s).pc \notin Busy
    BY DEF Idle, At, Busy
  <2> QED BY <1>2, <2>1
<1>5. ASSUME NEW pc, pc \in Busy => rs[t].pc \in Busy
      PROVE  /\ SameWork(rs, [rs EXCEPT ![t].pc = pc])
             /\ \A r : SameWork(rs, [rs EXCEPT ![t].pc = pc, ![t].robot = r])
             /\ \A s : SameWork(rs, [rs EXCEPT ![t].pc = pc, ![t].sub = s])
  <2>1. SameWork(rs, [rs EXCEPT ![t].pc = pc])
    <3> DEFINE row == [rs[t] EXCEPT !.pc = pc]
    <3>1. row.pc = pc
      BY <1>1 DEF RunRow
    <3> HIDE DEF row
    <3>2. SameWork(rs, [rs EXCEPT ![t] = row])
      BY <1>2, <1>5, <3>1
    <3> QED BY <3>2 DEF row
  <2>2. ASSUME NEW r
        PROVE  SameWork(rs, [rs EXCEPT ![t].pc = pc, ![t].robot = r])
    <3> DEFINE row == [rs[t] EXCEPT !.pc = pc, !.robot = r]
    <3>1. row.pc = pc
      BY <1>1 DEF RunRow
    <3>2. [rs EXCEPT ![t].pc = pc, ![t].robot = r] = [rs EXCEPT ![t] = row]
      BY <1>1
    <3> HIDE DEF row
    <3> QED BY <1>2, <1>5, <3>1, <3>2
  <2>3. ASSUME NEW s
        PROVE  SameWork(rs, [rs EXCEPT ![t].pc = pc, ![t].sub = s])
    <3> DEFINE row == [rs[t] EXCEPT !.pc = pc, !.sub = s]
    <3>1. row.pc = pc
      BY <1>1 DEF RunRow
    <3>2. [rs EXCEPT ![t].pc = pc, ![t].sub = s] = [rs EXCEPT ![t] = row]
      BY <1>1
    <3> HIDE DEF row
    <3> QED BY <1>2, <1>5, <3>1, <3>2
  <2> QED BY <2>1, <2>2, <2>3
<1>6. \A pc \in {"bind", "wait", "plan", "launch", "replied"} : pc \notin Busy
  BY DEF Busy
<1>8. ASSUME NEW d
      PROVE  SameWork(rs, Cancelled(d, rs, t))
  <2> DEFINE row == [rs[t] EXCEPT !.cancelled = TRUE]
  <2>1. row.pc = rs[t].pc
    BY <1>1 DEF RunRow
  <2> HIDE DEF row
  <2>2. SameWork(rs, [rs EXCEPT ![t] = row])
    BY <1>2, <2>1
  <2> QED BY <1>3, <2>2 DEF Cancelled, row
<1> QED BY <1>3, <1>4, <1>5, <1>6, <1>8

\* reserveTask starts none that works.
LEMMA ReserveWork ==
  ASSUME NEW rs, NEW ns, RunsOK(db, ns), SameWork(rs, ns), NEW d
  PROVE  SameWork(rs, Reserve(d, ns))
<1> SUFFICES ASSUME NEW t \in Tasks, Reserve(d, ns)[t].pc \in Busy
             PROVE  rs[t].pc \in Busy
  BY DEF SameWork
<1> DEFINE old == [ns[t] EXCEPT !.fresh = FALSE]
<1>1. \/ Reserve(d, ns)[t] = old
      \/ Reserve(d, ns)[t] = At("resolve", 0)
      \/ Reserve(d, ns)[t] = ns[t]
  BY Zenon DEF Reserve
<1>2. old.pc = ns[t].pc
  BY DEF RunsOK, RunRow
<1>3. At("resolve", 0).pc \notin Busy
  BY DEF At, Busy
<1> HIDE DEF old
<1> QED BY <1>1, <1>2, <1>3 DEF SameWork

\* convergeStoppedWorkflow takes the workspace only from a Task that does not run.
LEMMA ConvergedYields ==
  ASSUME IInv, NEW d, NEW owner, owner \in {0, res},
         owner # res => \A t \in Tasks : res = t => ~Working(t)',
         Slows(d, db'), res' = ConvergedOwner(d, owner)
  PROVE  Yielded
<1>1. CASE res' = owner
  BY <1>1 DEF Yielded
<1>2. CASE res' # owner
  <2>1. owner # 0 /\ \A t \in Tasks : t <= owner => ~BlocksStop(d.task[t])
    BY <1>2 DEF ConvergedOwner
  <2>2. owner = res /\ res \in Tasks
    BY <2>1 DEF IInv, CallsOK
  <2>3. d.task[res].status # "running"
    <3>1. res <= res
      BY <2>2, PositionAssumption
    <3> QED BY <2>1, <2>2, <3>1 DEF BlocksStop
  <2>4. ASSUME NEW t \in Tasks, res = t
        PROVE  ~Working(t)'
    BY <2>3, <2>4 DEF Slows, Working
  <2> QED BY <2>4 DEF Yielded
<1> QED BY <1>1, <1>2

\* finishOrSchedule, after a database that slows and goroutines that start no work; the
\* workspace was kept, or taken from a Task that ends or whose goroutine does.
LEMMA FinishOrScheduleKept ==
  ASSUME IInv, WInv, Spared, NEW d, Slowed(db, d), NEW rs, RunsOK(db, rs), SameWork(run, rs),
         NEW owner, owner \in {0, res},
         owner # res => \A t \in Tasks : res = t => d.task[t].status # "running" \/ rs[t].pc \notin Busy,
         FinishOrSchedule(d, rs, owner)
  PROVE  WInv'
<1>1. db' = Schedule(Finish(d)) /\ run' = Reserve(Finish(d), rs) /\ res' = ConvergedOwner(d, owner)
  BY DEF FinishOrSchedule
<1>2. Slowed(d, d)
  BY DEF Slowed, Slows
<1>3. Slowed(db, db') /\ Slowed(d, db')
  BY <1>1, <1>2, SlowedEnds
<1>4. SameWork(rs, rs)
  BY DEF SameWork
<1>5. SameWork(run, run') /\ SameWork(rs, run')
  BY <1>1, <1>4, ReserveWork
<1>6. owner # res => \A t \in Tasks : res = t => ~Working(t)'
  BY <1>3, <1>5 DEF Slowed, Slows, SameWork, Working
<1>7. Yielded
  BY <1>1, <1>3, <1>6, ConvergedYields DEF Slowed
<1> QED BY <1>3, <1>5, <1>7, SlowedKept

\* Releasing takes the workspace from that Task or from none.
LEMMA ReleasedFrom ==
  ASSUME IInv, NEW t \in Tasks
  PROVE  Released(res, t) \in {0, res} /\ (Released(res, t) # res => res = t)
BY DEF Released

\* A goroutine that ends works no more.
LEMMA IdleRuns ==
  ASSUME IInv, NEW t \in Tasks
  PROVE  /\ RunsOK(db, [run EXCEPT ![t] = Idle]) /\ SameWork(run, [run EXCEPT ![t] = Idle])
         /\ [run EXCEPT ![t] = Idle][t].pc \notin Busy
<1>1. RunsOK(db, run) /\ [run EXCEPT ![t] = Idle][t] = Idle
  BY DEF IInv, RunsOK
<1>2. Idle.pc \notin Busy
  BY DEF Idle, At, Busy
<1> QED BY <1>1, <1>2, IdleOK, RunsUpdated, SameWorkMoves

\* prepareAndLaunchTask that gives up.
LEMMA PreparationFailsKept ==
  ASSUME IInv, WInv, Spared, NEW t \in Tasks, PreparationFails(t)
  PROVE  WInv'
<1> DEFINE rs == [run EXCEPT ![t] = Idle]
           d == failTask(db, t)
           owner == Released(res, t)
<1>1. Slowed(db, d)
  BY SelfSlowed, SlowedFailures
<1>2. RunsOK(db, rs) /\ SameWork(run, rs) /\ rs[t].pc \notin Busy
  BY IdleRuns
<1>3. owner \in {0, res} /\ (owner # res => res = t)
  BY ReleasedFrom
<1>4. FinishOrSchedule(d, rs, owner)
  BY DEF PreparationFails
<1> HIDE DEF rs, d, owner
<1> QED BY <1>1, <1>2, <1>3, <1>4, FinishOrScheduleKept

\* prepareAndLaunchTask: a Task that writes the workspace is launched on its claim.
LEMMA PrepareKept ==
  ASSUME IInv, WInv, Spared, NEW t \in Tasks, Prepare(t)
  PROVE  WInv'
<1>0. Good /\ Slowed(db, db) /\ RunsOK(db, run) /\ db \in Database
      /\ run[t].robot \in Robots \cup {NoRobot}
  BY SelfSlowed, PrepareGood DEF IInv, DbOK, RunsOK, RunRow
<1>1. ASSUME NEW d, Slowed(db, d), Bound(t, d)
      PROVE  WInv'
  <2>1. Slowed(db, SetPendingTaskReason(d, t, "planning_subtasks"))
    BY <1>1, Names, SlowedMoves
  <2>2. Slowed(db, db') /\ Yielded
    BY <1>1, <2>1 DEF Bound, Yielded
  <2>3. \/ run' = [run EXCEPT ![t].pc = "launch", ![t].robot = NoRobot]
        \/ run' = [run EXCEPT ![t].pc = "plan", ![t].robot = NoRobot]
    BY <1>1 DEF Bound
  <2>4. SameWork(run, [run EXCEPT ![t].pc = "launch", ![t].robot = NoRobot])
        /\ SameWork(run, [run EXCEPT ![t].pc = "plan", ![t].robot = NoRobot])
    BY <1>0, SameWorkMoves
  <2>5. SameWork(run, run')
    BY <2>3, <2>4, Zenon
  <2> QED BY <2>2, <2>5, SlowedKept
<1>2. CASE BindWorker(t)
  BY <1>0, <1>1, <1>2 DEF BindWorker
<1>3. CASE BindRobot(t)
  <2> DEFINE e == AssignTask(db, t, run[t].robot)
  <2>1. CanAssign(db, t, run[t].robot) /\ Bound(t, e)
    BY <1>3 DEF BindRobot
  <2>2. e \in Database /\ Coherent(e)
    BY <1>0, <2>1, AssignStep DEF IInv, StepOK, DbOK
  <2>3. Slows(db, e)
    BY <1>0 DEF Slows, AssignTask, Database, TaskRow
  <2> HIDE DEF e
  <2> QED BY <1>1, <2>1, <2>2, <2>3 DEF Slowed
<1>4. CASE BindConflict(t) \/ PlanFails(t)
  BY <1>4, PreparationFailsKept DEF BindConflict, PlanFails
<1>5. CASE ResolveRobot(t) \/ NoRobotFree(t) \/ BindRefused(t) \/ PlanCancelled(t) \/ ClaimRefused(t)
  <2>1. db' = db /\ Yielded
    BY <1>5 DEF ResolveRobot, NoRobotFree, BindRefused, PlanCancelled, ClaimRefused, Yielded
  <2>2. \/ \E r : run' = [run EXCEPT ![t].pc = "bind", ![t].robot = r]
        \/ run' = [run EXCEPT ![t].pc = "wait"]
        \/ run' = [run EXCEPT ![t].pc = "wait", ![t].robot = NoRobot]
        \/ run' = [run EXCEPT ![t] = Idle]
    BY <1>5 DEF ResolveRobot, NoRobotFree, BindRefused, PlanCancelled, ClaimRefused
  <2>3. SameWork(run, run')
    <3>1. CASE \E r : run' = [run EXCEPT ![t].pc = "bind", ![t].robot = r]
      <4>1. PICK r : run' = [run EXCEPT ![t].pc = "bind", ![t].robot = r]
        BY <3>1
      <4>2. SameWork(run, [run EXCEPT ![t].pc = "bind", ![t].robot = r])
        BY <1>0, SameWorkMoves
      <4> QED BY <4>1, <4>2, Zenon
    <3>2. SameWork(run, [run EXCEPT ![t].pc = "wait"])
          /\ SameWork(run, [run EXCEPT ![t].pc = "wait", ![t].robot = NoRobot])
          /\ SameWork(run, [run EXCEPT ![t] = Idle])
      BY <1>0, SameWorkMoves
    <3> QED BY <2>2, <3>1, <3>2, Zenon
  <2>4. Slowed(db, db')
    BY <1>0, <2>1
  <2> QED BY <2>1, <2>3, <2>4, SlowedKept
<1>6. CASE WaitForResource(t)
  <2>1. Slowed(db, SetPendingTaskReason(db, t, "waiting_resource"))
    BY <1>0, Names, SlowedMoves
  <2>2. SameWork(run, [run EXCEPT ![t] = Idle])
    BY <1>0, SameWorkMoves
  <2> QED BY <1>6, <2>1, <2>2, SlowedKept DEF WaitForResource, Yielded
<1>7. CASE PlanTask(t)
  <2>1. Slowed(db, SetTaskSubTasks(db, t))
    BY <1>0, <1>7, SlowedSubTasks DEF PlanTask
  <2>2. SameWork(run, [run EXCEPT ![t].pc = "launch"])
    BY <1>0, SameWorkMoves
  <2> QED BY <1>7, <2>1, <2>2, SlowedKept DEF PlanTask, Yielded
<1>8. CASE LaunchTask(t)
  <2>1. \A u \in Tasks : u # t => db'.task[u] = db.task[u] /\ run'[u] = run[u]
    <3>1. \A u \in Tasks : u # t => TransitionTask(db, t, "running", "").task[u] = db.task[u]
      BY <1>0 DEF TransitionTask, Database
    <3>2. db' = db \/ db' = TransitionTask(db, t, "running", "")
      BY <1>8 DEF LaunchTask
    <3>3. \A u \in Tasks : u # t => run'[u] = run[u]
      BY <1>0, <1>8 DEF LaunchTask, RunsOK
    <3> QED BY <3>1, <3>2, <3>3
  <2>2. db'.wf = db.wf
    <3>1. TransitionTask(db, t, "running", "").wf = db.wf
      BY <1>0 DEF TransitionTask, Database
    <3> QED BY <1>8, <3>1 DEF LaunchTask
  <2>3. CanClaim(t) /\ res' = Claimed(t)
    BY <1>8 DEF LaunchTask
  <2> QED BY <2>1, <2>2, <2>3, WorkClaimed DEF Working
<1> QED BY <1>2, <1>3, <1>4, <1>5, <1>6, <1>7, <1>8 DEF Prepare

\* executeTask from the return of its executor on, in every exit.
LEMMA SettledSlowed ==
  ASSUME NEW t \in Tasks, IInv, NEW out \in Outcomes(t)
  PROVE  Slowed(db, Settled(t, out))
<1> DEFINE s == run[t].sub
           d == IF out = "ok" THEN Recorded(db, s) ELSE db
<1>0. Slowed(db, db) /\ s \in SubTasks \cup {0}
  BY SelfSlowed DEF IInv, RunsOK, RunRow
<1>1. Slowed(db, d)
  <2>1. CASE out # "ok"
    BY <1>0, <2>1
  <2>2. CASE out = "ok" /\ s = 0
    <3>1. 0 \notin RobotSkills
      BY PositionAssumption, PlanAssumption
    <3>2. Recorded(db, 0) = db
      BY <3>1, Zenon DEF Recorded
    <3> QED BY <1>0, <2>2, <3>2
  <2>3. CASE out = "ok" /\ s # 0 /\ s \in RobotSkills
    <3>1. db.exec[s].status # "none"
      BY <2>3 DEF Outcomes
    <3>2. Slowed(db, AttachSubTaskExecution(db, s))
      BY <1>0, <2>3, <3>1, SlowedSubTasks
    <3> QED BY <2>3, <3>2, Zenon DEF Recorded
  <2>4. CASE out = "ok" /\ s # 0 /\ s \notin RobotSkills
    <3>1. Slowed(db, TransitionSubTask(db, s, "completed", ""))
      BY <1>0, <2>4, Names, SlowedMoves
    <3> QED BY <2>4, <3>1, Zenon DEF Recorded
  <2> QED BY <2>1, <2>2, <2>3, <2>4
<1>2. Settled(t, out) =
        CASE Exit(t, out) = "stop" -> FinishStoppedTask(stopTaskSubTasks(d, t), t)
          [] Exit(t, out) = "fail" -> failTask(d, t)
          [] Exit(t, out) = "keep" -> d
          [] OTHER -> TransitionTask(d, t, "completed", "")
  BY Zenon DEF Settled
<1> HIDE DEF d
<1>3. Slowed(db, FinishStoppedTask(stopTaskSubTasks(d, t), t))
  BY <1>1, SlowedStops, SlowedStopTask
<1>4. Slowed(db, failTask(d, t)) /\ Slowed(db, TransitionTask(d, t, "completed", ""))
  BY <1>1, Names, SlowedFailures, SlowedMoves
<1> QED BY <1>1, <1>2, <1>3, <1>4, Zenon

\* executeTask.
LEMMA ExecuteKept ==
  ASSUME IInv, WInv, Spared, NEW t \in Tasks, Execute(t)
  PROVE  WInv'
<1>0. Slowed(db, db) /\ RunsOK(db, run) /\ db \in Database
  BY SelfSlowed DEF IInv, DbOK
<1>1. CASE PickSubTask(t)
  <2> DEFINE ready == ListRunnableSubTasks(db, t)
             x == Least(ready)
  <2>1. Yielded /\ run[t].pc \in Busy
    BY <1>1 DEF PickSubTask, Yielded, Busy
  <2>2. SameWork(run, [run EXCEPT ![t].pc = "agent"])
        /\ SameWork(run, [run EXCEPT ![t].pc = "agent", ![t].sub = x])
    BY <1>0, <2>1, SameWorkMoves
  <2>3. ready # {} => Slowed(db, TransitionSubTask(db, x, "running", ""))
    BY <1>0, RunnableSubTasks, SlowedMoves, Names
  <2>4. \/ db' = db /\ run' = [run EXCEPT ![t].pc = "agent"]
        \/ /\ ready # {} /\ db' = TransitionSubTask(db, x, "running", "")
           /\ run' = [run EXCEPT ![t].pc = "agent", ![t].sub = x]
    BY <1>1 DEF PickSubTask
  <2>5. Slowed(db, db') /\ SameWork(run, run')
    <3> HIDE DEF x, ready
    <3>1. CASE db' = db /\ run' = [run EXCEPT ![t].pc = "agent"]
      BY <1>0, <2>2, <3>1
    <3>2. CASE /\ ready # {} /\ db' = TransitionSubTask(db, x, "running", "")
               /\ run' = [run EXCEPT ![t].pc = "agent", ![t].sub = x]
      BY <2>2, <2>3, <3>2
    <3> QED BY <2>4, <3>1, <3>2
  <2> QED BY <2>1, <2>5, SlowedKept
<1>2. CASE RunRobotSkill(t) \/ DispatchSends(t) \/ DispatchFails(t)
  <2>1. Yielded /\ run[t].pc \in Busy
    BY <1>2 DEF RunRobotSkill, DispatchSends, DispatchFails, Yielded, Busy
  <2>2. \E pc : run' = [run EXCEPT ![t].pc = pc]
    BY <1>2 DEF RunRobotSkill, DispatchSends, DispatchFails
  <2>3. SameWork(run, run')
    <3>1. PICK pc : run' = [run EXCEPT ![t].pc = pc]
      BY <2>2
    <3>2. SameWork(run, [run EXCEPT ![t].pc = pc])
      BY <1>0, <2>1, SameWorkMoves
    <3> QED BY <3>1, <3>2, Zenon
  <2>4. db'.task = db.task /\ db'.wf = db.wf
    BY <1>0, <1>2 DEF RunRobotSkill, DispatchSends, DispatchFails, AdmitRobotExecution,
                      SetPilotExecution, Database
  <2>5. \A u \in Tasks : Working(u)' => Working(u)
    BY <2>3, <2>4 DEF Working, SameWork
  <2> QED BY <2>1, <2>4, <2>5, WorkKept
<1>3. ASSUME NEW out \in {"ok", "error", "cancelled"}, FinishRun(t, out)
      PROVE  WInv'
  <2>1. Slowed(db, db')
    BY <1>3, SettledSlowed DEF FinishRun
  <2>2. SameWork(run, run') /\ run'[t].pc \notin Busy
    BY <1>3, IdleRuns DEF FinishRun
  <2>3. Yielded
    BY <1>3, <2>2 DEF FinishRun, Released, Yielded, Working
  <2> QED BY <2>1, <2>2, <2>3, SlowedKept
<1> QED BY <1>1, <1>2, <1>3 DEF Execute

\* continueOrFinishTask: the next Agent Run of a writer starts on its claim.
LEMMA ContinueKept ==
  ASSUME IInv, WInv, Spared, NEW t \in Tasks, ContinueOrFinishTask(t)
  PROVE  WInv'
<1>0. Slowed(db, db) /\ RunsOK(db, run) /\ SameWork(run, run) /\ db \in Database
  BY SelfSlowed, SameWorkMoves DEF IInv, DbOK
<1>1. CASE ContinueNotRunning(t)
  BY <1>0, <1>1, FinishOrScheduleKept DEF ContinueNotRunning
<1>2. CASE ContinueCompletes(t)
  <2> DEFINE d == TransitionTask(db, t, "completed", "")
             owner == Released(res, t)
  <2>1. Slowed(db, d)
    BY <1>0, Names, SlowedMoves
  <2>2. d.task[t].status # "running"
    BY <1>0, <1>2 DEF ContinueCompletes, TransitionTask, allowedTaskTransitions, Database, TaskRow,
                      WorkStatus
  <2>3. owner \in {0, res} /\ (owner # res => res = t)
    BY ReleasedFrom
  <2>4. FinishOrSchedule(d, run, owner)
    BY <1>2 DEF ContinueCompletes
  <2> HIDE DEF d, owner
  <2> QED BY <1>0, <2>1, <2>2, <2>3, <2>4, FinishOrScheduleKept
<1>3. CASE ContinueLooks(t)
  <2>1. db' = db /\ run' = run /\ res' = res
    BY <1>3 DEF ContinueLooks
  <2> QED BY <2>1, WorkUntouched
<1>5. CASE ContinueDecides(t)
  <2>1. db' = db /\ Yielded
    BY <1>5 DEF ContinueDecides, Yielded
  <2>2. run' = run \/ \E s \in SubTasks : run' = [run EXCEPT ![t] = At("decide", s)]
    BY <1>5 DEF ContinueDecides
  <2>3. SameWork(run, run')
    <3>1. CASE run' = run
      BY <1>0, <3>1
    <3>2. ASSUME NEW s \in SubTasks, run' = [run EXCEPT ![t] = At("decide", s)]
          PROVE  SameWork(run, run')
      <4>1. SameWork(run, [run EXCEPT ![t] = At("decide", s)])
        BY <1>0, SameWorkMoves
      <4> QED BY <3>2, <4>1, Zenon
    <3> QED BY <2>2, <3>1, <3>2
  <2>4. Slowed(db, db')
    BY <1>0, <2>1
  <2> QED BY <2>1, <2>3, <2>4, SlowedKept
<1>4. CASE ContinueLaunches(t)
  <2>1. db' = db
    BY <1>4 DEF ContinueLaunches
  <2>2. CASE UNCHANGED <<run, res>>
    BY <2>1, <2>2, WorkUntouched
  <2>3. CASE CanClaim(t) /\ run' = [run EXCEPT ![t] = At("pick", 0)] /\ res' = Claimed(t)
    <3>1. \A u \in Tasks : u # t => run'[u] = run[u]
      BY <1>0, <2>3 DEF RunsOK
    <3> QED BY <2>1, <2>3, <3>1, WorkClaimed DEF Working
  <2> QED BY <1>4, <2>2, <2>3 DEF ContinueLaunches
<1> QED BY <1>1, <1>2, <1>3, <1>4, <1>5 DEF ContinueOrFinishTask

\* OnRobotAvailabilityChanged.
LEMMA RobotAvailableKept ==
  ASSUME IInv, WInv, Spared, NEW r \in Robots, RobotAvailable(r)
  PROVE  WInv'
<1>0. Slowed(db, db) /\ RunsOK(db, run) /\ SameWork(run, run)
  BY SelfSlowed DEF IInv, SameWork
<1>1. /\ Yielded
      /\ \/ db' = Schedule(db) /\ run' = Reserve(db, run)
         \/ db' = db /\ run' = run
  BY DEF RobotAvailable, Yielded
<1>2. Slowed(db, db') /\ SameWork(run, run')
  BY <1>0, <1>1, SlowedEnds, ReserveWork
<1> QED BY <1>1, <1>2, SlowedKept

\* The decision and the recovery Runs: a Task that goes on gets no Agent Run from them.
LEMMA DecideKept ==
  ASSUME IInv, EInv, WInv, Spared, NEW t \in Tasks, Decide(t)
  PROVE  WInv'
<1> DEFINE s == run[t].sub
<1>0. Slowed(db, db) /\ RunsOK(db, run) /\ db \in Database
  BY SelfSlowed DEF IInv, DbOK
<1>1. s \in SubTasks
  <2>1. run[t].pc \in {"decide", "replied", "recover"}
    BY DEF Decide, DecideReply, DecideFails, DecideCancelled, ReleaseDecision,
           RecoveryRevises, RecoveryFailsTask, RecoveryDropped, RecoveryErrs
  <2> QED BY <1>0, <2>1 DEF RunsOK, RunRowOK, RunRow
<1>2. RunsOK(db, [run EXCEPT ![t] = Idle]) /\ SameWork(run, [run EXCEPT ![t] = Idle])
      /\ [run EXCEPT ![t] = Idle][t].pc \notin Busy
  BY IdleRuns
<1>3. Slowed(db, pauseRobotDecisionFailure(db, s))
  BY <1>0, <1>1, SlowedPause, Names
<1>4. CASE DecideReply(t)
  <2>1. SameWork(run, [run EXCEPT ![t].pc = "replied"])
    BY <1>0, SameWorkMoves
  <2>2. SameWork(run, run')
    BY <1>2, <1>4, <2>1 DEF DecideReply
  <2>3. Slowed(db, db') /\ Yielded
    BY <1>0, <1>3, <1>4 DEF DecideReply, Yielded
  <2> QED BY <2>2, <2>3, SlowedKept
<1>5. CASE DecideFails(t)
  BY <1>2, <1>3, <1>5, SlowedKept DEF DecideFails, Yielded
<1>6. CASE DecideCancelled(t) \/ ReleaseDecision(t) \/ RecoveryDropped(t)
  <2>1. db' = db /\ run' = [run EXCEPT ![t] = Idle] /\ Yielded
    BY <1>6 DEF DecideCancelled, ReleaseDecision, RecoveryDropped, Yielded
  <2>2. Slowed(db, db')
    BY <1>0, <2>1
  <2> QED BY <1>2, <2>1, <2>2, SlowedKept
<1>7. CASE RecoveryRevises(t)
  <2>1. db' = ApplyFailedRobotRecovery(db, s) /\ run' = [run EXCEPT ![t] = Idle] /\ Yielded
    BY <1>7 DEF RecoveryRevises, Yielded
  <2>2. TaskOf[s] = t
    BY <1>1, PositionAssumption DEF EInv, Replies
  <2> HIDE DEF s
  <2>3. db'.wf = db.wf /\ \A u \in Tasks : u # TaskOf[s] => db'.task[u] = db.task[u]
    BY <1>0, <2>1 DEF ApplyFailedRobotRecovery, Database
  <2>4. \A u \in Tasks : Working(u)' => Working(u)
    BY <1>0, <1>2, <2>1, <2>2, <2>3 DEF Working, RunsOK
  <2> QED BY <2>1, <2>3, <2>4, WorkKept
<1>8. CASE RecoveryFailsTask(t)
  <2> DEFINE rs == [run EXCEPT ![t] = Idle]
             owner == Released(res, t)
  <2>1. Slowed(db, failPausedTask(db, s))
    BY <1>0, <1>1, SlowedFailPaused
  <2>2. FinishOrSchedule(failPausedTask(db, s), rs, owner)
    BY <1>8 DEF RecoveryFailsTask
  <2>3. owner \in {0, res} /\ (owner # res => res = t)
    BY ReleasedFrom
  <2>4. RunsOK(db, rs) /\ SameWork(run, rs) /\ rs[t].pc \notin Busy
    BY <1>2
  <2> HIDE DEF s, rs, owner
  <2> QED BY <2>1, <2>2, <2>3, <2>4, FinishOrScheduleKept
<1>9. CASE RecoveryErrs(t)
  <2>1. Slowed(db, db') /\ Yielded
    BY <1>0, <1>1, <1>9, SlowedWaitReason, Names DEF RecoveryErrs, Yielded
  <2> QED BY <1>2, <1>9, <2>1, SlowedKept DEF RecoveryErrs
<1> QED BY <1>4, <1>5, <1>6, <1>7, <1>8, <1>9 DEF Decide

\* The two ways in which a stop that is over is settled.
LEMMA FinishStoppingSlowed ==
  ASSUME IInv, NEW d, Slowed(db, d), NEW s \in SubTasks, FinishStopping(d, s)
  PROVE  Slowed(db, db') /\ Yielded
<1> DEFINE e == SubTaskStopped(d, s)
<1>1. Slowed(db, e)
  BY SlowedSettlements
<1>2. db' = Converge(e) /\ res' = ConvergedOwner(e, res)
  BY DEF FinishStopping
<1> HIDE DEF e
<1>3. Slowed(e, e)
  BY <1>1 DEF Slowed, Slows
<1>4. Slowed(db, db') /\ Slowed(e, db')
  BY <1>1, <1>2, <1>3, SlowedEnds
<1>5. Yielded
  BY <1>2, <1>4, ConvergedYields DEF Slowed
<1> QED BY <1>4, <1>5

\* finishConfirmedRobotStop, with the propagation.
LEMMA ConfirmedStopSlowed ==
  ASSUME IInv, NEW d, Slowed(db, d), NEW s \in SubTasks, ConfirmedStop(d, s)
  PROVE  Slowed(db, db') /\ Yielded
<1> DEFINE e == StopConfirmed(d, s)
<1>1. Slowed(db, e)
  BY SlowedSettlements
<1>2. FinishStopping(e, s) \/ (db' = e /\ res' = res)
  BY DEF ConfirmedStop
<1> HIDE DEF e
<1> QED BY <1>1, <1>2, FinishStoppingSlowed DEF Yielded

\* OnRobotExecutionChanged starts no Agent Run that works.
LEMMA ObserveKept ==
  ASSUME IInv, EInv, WInv, Spared, NEW r \in Robots, Observe(r)
  PROVE  WInv'
<1> DEFINE s == notify[r].sub
           d == Seen(r)
<1>0. Slowed(db, db) /\ RunsOK(db, run) /\ SameWork(run, run)
  BY SelfSlowed DEF IInv, SameWork
<1>1. s # 0
  BY DEF Observe, ObserveCompleted, ObserveWaitingAgent, ObserveFailedWhileStopping,
         ObserveFailedAfterAction, ObserveFailedBeforeAction, ObserveInterrupted, ObserveStopped,
         ObserveProgress, Observed
<1>2. s \in SubTasks /\ TaskOf[s] \in Tasks /\ db.exec[s].status # "none"
  BY <1>1, PlanAssumption DEF IInv, CallsOK, NoteRow, Heard
<1>3. Slowed(db, d)
  BY <1>0, <1>2, SlowedSubTasks DEF Seen
<1> HIDE DEF s, d
<1>4. ASSUME NEW why \in {"execution_state_unknown", "robot_execution_failed", "robot_execution_stopped"}
      PROVE  Slowed(db, pauseRobotSubTask(d, s, why))
  BY <1>2, <1>3, SlowedPause, Names
<1>5. ASSUME FinishStopping(d, s) \/ ConfirmedStop(d, s)
      PROVE  Slowed(db, db') /\ Yielded
  BY <1>2, <1>3, <1>5, FinishStoppingSlowed, ConfirmedStopSlowed
<1>6. ASSUME run' = run, Slowed(db, db'), Yielded PROVE WInv'
  BY <1>0, <1>6, SlowedKept
<1>7. ASSUME NEW pc \in {"decide", "recover"}, run' = [run EXCEPT ![TaskOf[s]] = At(pc, s)],
             Slowed(db, db'), Yielded
      PROVE  WInv'
  <2>1. SameWork(run, run')
    BY <1>0, <1>2, <1>7, SameWorkMoves
  <2> QED BY <1>7, <2>1, SlowedKept
<1>10. CASE ObserveCompleted(r)
  <2>1. run' = run
    BY <1>10 DEF ObserveCompleted
  <2>2. Slowed(db, completeRobotSubTask(d, s))
    BY <1>2, <1>3, SlowedSettlements
  <2>3. FinishStopping(d, s) \/ (db' = completeRobotSubTask(d, s) /\ res' = res)
    BY <1>10, Zenon DEF ObserveCompleted, s, d
  <2> QED BY <1>5, <1>6, <2>1, <2>2, <2>3 DEF Yielded
<1>11. CASE ObserveWaitingAgent(r)
  <2>1. db' = d /\ res' = res /\ (run' = run \/ run' = [run EXCEPT ![TaskOf[s]] = At("decide", s)])
    BY <1>11, Zenon DEF ObserveWaitingAgent, s, d
  <2> QED BY <1>3, <1>6, <1>7, <2>1 DEF Yielded
<1>12. CASE ObserveFailedWhileStopping(r)
  <2>1. /\ run' = run
        /\ \/ FinishStopping(d, s)
           \/ db' = pauseRobotSubTask(d, s, "execution_state_unknown") /\ res' = res
    BY <1>12, Zenon DEF ObserveFailedWhileStopping, s, d
  <2> QED BY <1>4, <1>5, <1>6, <2>1 DEF Yielded
<1>13. CASE ObserveFailedAfterAction(r)
  <2>1. /\ run' = run
        /\ \/ ConfirmedStop(d, s)
           \/ db' = pauseRobotSubTask(d, s, "execution_state_unknown") /\ res' = res
    BY <1>13, Zenon DEF ObserveFailedAfterAction, s, d
  <2> QED BY <1>4, <1>5, <1>6, <2>1 DEF Yielded
<1>14. CASE ObserveFailedBeforeAction(r)
  <2> DEFINE e == pauseRobotSubTask(d, s, "robot_execution_failed")
             f == UpdatePausedRobotWaitReason(e, s, "robot_execution_failed", "recovery_running")
  <2>1. /\ res' = res
        /\ \/ db' = e /\ run' = run
           \/ db' = f /\ run' = [run EXCEPT ![TaskOf[s]] = At("recover", s)]
    BY <1>14, Zenon DEF ObserveFailedBeforeAction, s, d
  <2>2. Slowed(db, e)
    BY <1>4
  <2> HIDE DEF e
  <2>3. Slowed(db, f)
    BY <1>2, <2>2, SlowedWaitReason, Names
  <2> HIDE DEF f
  <2> QED BY <1>6, <1>7, <2>1, <2>2, <2>3 DEF Yielded
<1>15. CASE ObserveInterrupted(r)
  <2>1. db' = pauseRobotSubTask(d, s, "execution_state_unknown") /\ run' = run /\ res' = res
    BY <1>15 DEF ObserveInterrupted, s, d
  <2> QED BY <1>4, <1>6, <2>1 DEF Yielded
<1>16. CASE ObserveStopped(r)
  <2>1. /\ run' = run
        /\ \/ ConfirmedStop(d, s)
           \/ FinishStopping(d, s)
           \/ /\ \E why \in {"execution_state_unknown", "robot_execution_stopped"} :
                   db' = pauseRobotSubTask(d, s, why)
              /\ res' = res
    BY <1>16 DEF ObserveStopped, s, d
  <2> QED BY <1>4, <1>5, <1>6, <2>1 DEF Yielded
<1>17. CASE ObserveProgress(r)
  <2>1. db' = d /\ run' = run /\ res' = res
    BY <1>17 DEF ObserveProgress, d
  <2> QED BY <1>3, <1>6, <2>1 DEF Yielded
<1> QED BY <1>10, <1>11, <1>12, <1>13, <1>14, <1>15, <1>16, <1>17 DEF Observe

\* Events, sessions, pointers and a robot.stop beside the Workflow touch Executions only.
LEMMA RobotKept ==
  ASSUME IInv, WInv, Spared,
         \/ \E s \in SubTasks : Pilot(s) \/ StopExecution(s)
         \/ \E r \in Robots : \/ SaveReported(r) \/ SaveStalePointer(r)
                            \/ PilotOffline(r) \/ PilotOnline(r)
  PROVE  WInv'
<1>0. db \in Database
  BY DEF IInv, DbOK
<1>1. ASSUME NEW s \in SubTasks, Pilot(s) \/ StopExecution(s)
      PROVE  db'.task = db.task /\ db'.wf = db.wf /\ run' = run /\ res' = res
  <2>1. CASE StopExecution(s)
    BY <1>0, <2>1 DEF StopExecution, Database
  <2>2. CASE PilotActs(s)
    BY <1>0, <2>2 DEF PilotActs, Database
  <2>3. CASE ~StopExecution(s) /\ ~PilotActs(s)
    <3>1. (\E st : Event(s, st)) \/ (\E st, safe : EndEvent(s, st, safe))
      BY <1>1, <2>3 DEF Pilot, PilotStarts, PilotAsks, PilotResolves, PilotCompletes, PilotFails,
                        PilotStops, PilotInterrupts
    <3> QED BY <1>0, <3>1 DEF Event, EndEvent, Database
  <2> QED BY <2>1, <2>2, <2>3
<1>2. ASSUME NEW r \in Robots, SaveReported(r) \/ SaveStalePointer(r) \/ PilotOffline(r)
      PROVE  db'.task = db.task /\ db'.wf = db.wf /\ run' = run /\ res' = res
  <2>1. CASE SaveReported(r)
    BY <1>0, <2>1 DEF SaveReported, Database
  <2>2. CASE SaveStalePointer(r)
    BY <1>0, <2>2 DEF SaveStalePointer, Database
  <2>3. CASE PilotOffline(r)
    BY <2>3 DEF PilotOffline
  <2> QED BY <1>2, <2>1, <2>2, <2>3
<1>3. ASSUME NEW r \in Robots, PilotOnline(r)
      PROVE  db'.task = db.task /\ db'.wf = db.wf /\ run' = run /\ res' = res
  <2>1. run' = run /\ res' = res
    BY <1>3 DEF PilotOnline
  <2>2. CASE ReconcileNone(r)
    BY <1>0, <2>1, <2>2 DEF ReconcileNone, Database
  <2>3. ASSUME NEW s \in SubTasks, ReconcileStatus(r, s)
        PROVE  db'.task = db.task /\ db'.wf = db.wf
    BY <1>0, <2>3 DEF ReconcileStatus, Database
  <2>4. ASSUME NEW s \in SubTasks, ReconcileMissing(r, s)
        PROVE  db'.task = db.task /\ db'.wf = db.wf
    BY <1>0, <2>4 DEF ReconcileMissing, Database
  <2>5. ASSUME NEW s \in SubTasks, ReconcileEnd(r, s)
        PROVE  db'.task = db.task /\ db'.wf = db.wf
    BY <1>0, <2>5 DEF ReconcileEnd, Database
  <2> QED BY <1>3, <2>1, <2>2, <2>3, <2>4, <2>5 DEF PilotOnline
<1> QED BY <1>1, <1>2, <1>3, WorkUntouched

\* stopWorkflowTasks.
LEMMA WalkKept ==
  ASSUME IInv, WInv, Spared, NEW w \in Walkers, WalkTask(w) \/ WalkEnd(w)
  PROVE  WInv'
<1>0. Slowed(db, db) /\ RunsOK(db, run) /\ SameWork(run, run)
  BY SelfSlowed DEF IInv, SameWork
<1>1. CASE WalkTask(w)
  <2> DEFINE t == Least(walk[w].todo)
  <2>1. t \in Tasks
    BY <1>1, LeastIsMember, PositionAssumption DEF WalkTask, IInv, CallsOK
  <2>2. run' = Cancelled(db, run, t) /\ db' = StopTask(db, t) /\ res' = res
    BY <1>1 DEF WalkTask
  <2> HIDE DEF t
  <2>3. Slowed(db, db') /\ SameWork(run, run')
    BY <1>0, <2>1, <2>2, SlowedStopTask, SameWorkMoves
  <2> QED BY <2>2, <2>3, SlowedKept DEF Yielded
<1>2. CASE WalkEnd(w)
  <2>1. Slowed(db, db') /\ run' = run
    BY <1>0, <1>2, SlowedEnds DEF WalkEnd
  <2>2. Yielded
    BY <1>2, <2>1, ConvergedYields DEF WalkEnd, Slowed
  <2> QED BY <1>0, <2>1, <2>2, SlowedKept
<1> QED BY <1>1, <1>2

\* ConfirmOperatorStop and the rest of ConfirmWorkflowStop.
LEMMA ConfirmKept ==
  ASSUME IInv, WInv, Spared, ConfirmTarget \/ ConfirmEnd
  PROVE  WInv'
<1>0. /\ DbOK(db) /\ db \in Database /\ db.exec \in [SubTasks -> ExecRow]
      /\ confirm.todo \subseteq SubTasks /\ SameWork(run, run) /\ Slowed(db, db)
  BY SelfSlowed, DatabaseRows DEF IInv, DbOK, CallsOK, SameWork
<1>1. CASE ConfirmTarget
  <2> DEFINE s == Least(confirm.todo)
             r == RobotOf(db, s)
             d == [db EXCEPT !.exec[s] = [@ EXCEPT !.status = "stopped", !.safe = TRUE, !.word = TRUE],
                             !.lock[r] = IF @ = s THEN 0 ELSE @]
             row == [db.exec[s] EXCEPT !.status = "stopped", !.safe = TRUE, !.word = TRUE]
             p == IF db.lock[r] = s THEN 0 ELSE db.lock[r]
  <2>1. s \in SubTasks /\ run' = run
    BY <1>0, <1>1, LeastIsMember, PositionAssumption DEF ConfirmTarget
  <2>2. CASE db.exec[s].status \notin Confirmable
    <3>1. db' = db /\ res' = res
      BY <1>1, <2>2 DEF ConfirmTarget
    <3> QED BY <2>1, <3>1, WorkUntouched
  <2>3. CASE db.exec[s].status \in Confirmable
    <3>1. db.exec[s].status # "none" /\ db.exec[s] \in ExecRow
      BY <1>0, <2>1, <2>3 DEF Confirmable
    <3>2. r \in Robots
      BY <1>0, <2>1, <3>1, ExecutionRobot
    <3>3. ExecRowFollows(db.exec[s], row)
      <4> HIDE DEF s
      <4> QED BY <3>1 DEF ExecRow, ExecRowFollows, ExecutionStatus
    <3>4. d = [db EXCEPT !.exec[s] = row, !.lock[r] = p]
      OBVIOUS
    <3>5. FinishStopping(d, s) \/ ConfirmedStop(d, s)
      BY <1>1, <2>3 DEF ConfirmTarget
    <3> HIDE DEF d, row, s
    <3>6. p \in SubTasks \cup {0}
      BY <1>0, <2>1, <3>2, DatabaseRows
    <3> HIDE DEF p
    <3>7. Follows(db, d)
      BY <1>0, <2>1, <3>3, <3>4, <3>6, ExecAndLockUpdated
    <3>8. d.task = db.task /\ d.wf = db.wf
      BY <1>0, <3>4 DEF Database
    <3>9. Slowed(db, d)
      BY <1>0, <3>7, <3>8, SlowedRows
    <3>10. Slowed(db, db') /\ Yielded
      BY <2>1, <3>5, <3>9, FinishStoppingSlowed, ConfirmedStopSlowed
    <3> QED BY <1>0, <2>1, <3>10, SlowedKept
  <2> QED BY <2>2, <2>3
<1>2. CASE ConfirmEnd
  <2>1. Slowed(db, TransitionWorkflow(db, "stopping", ""))
    BY <1>0, SlowedMoves, Names
  <2>2. Slowed(db, db') /\ run' = run /\ Yielded
    BY <1>0, <1>2, <2>1 DEF ConfirmEnd, Yielded
  <2> QED BY <1>0, <2>2, SlowedKept
<1> QED BY <1>1, <1>2

\* The requests of the user: before the first restart a resumption restarts no Task, and a
\* repeated decision is no Agent Run that works.
LEMMA UserKept ==
  ASSUME IInv, WInv, Spared, User
  PROVE  WInv'
<1>0. Slowed(db, db) /\ RunsOK(db, run) /\ SameWork(run, run) /\ db \in Database
      /\ db.task \in [Tasks -> TaskRow]
  BY SelfSlowed, DatabaseRows DEF IInv, SameWork, DbOK
<1>1. CASE PauseWorkflow \/ StopWorkflow \/ ConfirmWorkflowStop
  <2>1. Slowed(db, TransitionWorkflow(db, "paused", "user_paused"))
        /\ Slowed(db, TransitionWorkflow(db, "stopping", ""))
    BY <1>0, SlowedMoves, Names
  <2>2. Slowed(db, db') /\ run' = run /\ Yielded
    BY <1>0, <1>1, <2>1 DEF PauseWorkflow, StopWorkflow, ConfirmWorkflowStop, Yielded
  <2> QED BY <1>0, <2>2, SlowedKept
<1>2. CASE ResumeWorkflow
  <2> DEFINE S == Resumable(db, run)
             w == TransitionWorkflow(db, "running", "")
             d == ResumedTasks(w, S)
             launched == [t \in Tasks |-> IF t \in S THEN At("pick", 0) ELSE run[t]]
  <2>1. db' = Schedule(d) /\ run' = Reserve(d, launched) /\ res' = res /\ CanResume(db)
    BY <1>2 DEF ResumeWorkflow
  <2>2. CASE db.wf.reason = "server_restarted"
    <3>1. left["restart"] \in Nat /\ left'["restart"] \in Nat /\ left'["restart"] <= left["restart"]
          /\ \A b \in Budgets : b["restart"] \in Nat
      BY BudgetAssumption DEF Spared, IInv, CallsOK, Limits
    <3>2. ~FirstLife
      BY <2>2 DEF WInv
    <3>3. ~FirstLife' /\ \E b \in Budgets : left'["restart"] <= b["restart"]
      BY <3>1, <3>2 DEF FirstLife, WInv
    <3> QED BY <3>3 DEF WInv
  <2>3. CASE db.wf.reason # "server_restarted"
    <3>1. \A t \in Tasks : db.task[t].status # "paused"
      BY <2>1, <2>3 DEF CanResume
    <3>2. S = {}
      BY <3>1 DEF Resumable
    <3>3. Slowed(db, w)
      BY <1>0, SlowedMoves, Names
    <3>4. launched = run
      BY <1>0, <3>2 DEF RunsOK
    <3> HIDE DEF S, w, launched
    <3>5. Follows(w, d)
      BY <3>2, <3>3, ResumedTasksFollow DEF Slowed
    <3>6. Slows(w, d)
      BY <3>2, <3>3 DEF ResumedTasks, Slowed, Slows, Database
    <3>7. Slowed(db, d)
      BY <3>3, <3>5, <3>6, SlowedOn
    <3> HIDE DEF d
    <3>8. Slowed(db, db') /\ SameWork(run, run')
      BY <1>0, <2>1, <3>4, <3>7, SlowedEnds, ReserveWork
    <3> QED BY <2>1, <3>8, SlowedKept DEF Yielded
  <2> QED BY <2>2, <2>3
<1>3. CASE MapChanges
  <2>1. db'.task = db.task /\ db'.wf = db.wf /\ run' = run /\ res' = res
    BY <1>0, <1>3 DEF MapChanges, Database
  <2> QED BY <2>1, WorkUntouched
<1>4. ASSUME NEW s \in SubTasks, RetryRobotAgentDecision(s)
      PROVE  WInv'
  <2> DEFINE t == TaskOf[s]
             w == TransitionWorkflow(db, "running", "")
             e == TransitionTask(w, t, "running", "")
  <2>1. db' = TransitionSubTask(e, s, "running", "") /\ run' = [run EXCEPT ![t] = At("decide", s)]
        /\ res' = res
    BY <1>4 DEF RetryRobotAgentDecision
  <2>2. w.task = db.task /\ w \in Database
        /\ (w.wf.reason = "server_restarted" => db.wf.reason = "server_restarted")
    <3>1. Slowed(db, w)
      BY <1>0, SlowedMoves, Names
    <3> QED BY <1>0, <3>1 DEF TransitionWorkflow, Database, Slowed, Slows
  <2>3. t \in Tasks
    BY PlanAssumption
  <2> HIDE DEF w, t
  <2>4. e.wf = w.wf /\ \A u \in Tasks : u # t => e.task[u] = w.task[u]
    BY <2>2 DEF TransitionTask, Database
  <2>5. DOMAIN e = DOMAIN w
    BY <2>2 DEF TransitionTask, Database
  <2> HIDE DEF e
  <2>6. db'.task = e.task /\ db'.wf = e.wf
    BY <2>1, <2>2, <2>5 DEF TransitionSubTask, Database
  <2>7. SameWork(run, run') /\ run'[t].pc \notin Busy
    <3>1. SameWork(run, [run EXCEPT ![t] = At("decide", s)])
      BY <1>0, <2>3, SameWorkMoves
    <3>2. [run EXCEPT ![t] = At("decide", s)][t] = At("decide", s)
      BY <1>0, <2>3 DEF RunsOK
    <3>3. At("decide", s).pc \notin Busy
      BY DEF At, Busy
    <3> QED BY <2>1, <3>1, <3>2, <3>3
  <2>8. \A u \in Tasks : Working(u)' => Working(u)
    BY <2>2, <2>4, <2>6, <2>7 DEF Working, SameWork
  <2> QED BY <2>1, <2>2, <2>4, <2>6, <2>8, WorkKept DEF Yielded
<1>5. ASSUME NEW s \in SubTasks, StopExecution(s)
      PROVE  WInv'
  BY <1>5, RobotKept
<1> QED BY <1>1, <1>2, <1>3, <1>4, <1>5 DEF User

\* A restart is the end of the Server's first life.
LEMMA RestartKept ==
  ASSUME IInv, WInv, Spared, Restart
  PROVE  WInv'
<1>1. PICK b \in Budgets : left["restart"] <= b["restart"]
  BY DEF WInv
<1>2. left["restart"] \in Nat /\ b["restart"] \in Nat /\ "restart" \in Limits
  BY BudgetAssumption DEF IInv, CallsOK, Limits
<1>3. left'["restart"] = left["restart"] - 1
  BY <1>2 DEF Restart, Spend, IInv, CallsOK
<1>4. left'["restart"] <= b["restart"] /\ ~(left'["restart"] >= b["restart"])
  BY <1>1, <1>2, <1>3
<1>5. ~FirstLife'
  BY <1>4 DEF FirstLife
<1> QED BY <1>4, <1>5 DEF WInv

\* A confirmed Workflow has no Task that runs.
LEMMA InitWork == Init => WInv
<1> SUFFICES ASSUME Init PROVE WInv
  OBVIOUS
<1>1. left \in Budgets /\ left["restart"] \in Nat
  BY BudgetAssumption DEF Init, Limits
<1>2. \E b \in Budgets : left["restart"] <= b["restart"]
  BY <1>1
<1>3. db.wf.reason # "server_restarted" /\ \A t \in Tasks : ~Working(t)
  BY DEF Init, InitialDatabase, Working
<1> QED BY <1>2, <1>3, PlanAssumption DEF WInv

\* Budgets are only ever spent.
LEMMA NextSpares ==
  ASSUME IInv, [Next]_vars
  PROVE  Spared
<1>0. left \in [Limits -> Nat] /\ "restart" \in Limits
  BY DEF IInv, CallsOK, Limits
<1>1. ASSUME left' = left \/ \E k \in Limits : Spend(k)
      PROVE  Spared
  <2>1. CASE left' = left
    BY <1>0, <2>1 DEF Spared
  <2>2. CASE \E k \in Limits : Spend(k)
    <3>1. PICK k \in Limits : Spend(k)
      BY <2>2
    <3>2. left[k] \in Nat /\ left["restart"] \in Nat /\ left[k] > 0
          /\ left' = [left EXCEPT ![k] = left[k] - 1]
      BY <1>0, <3>1 DEF Spend
    <3>3. left' \in [Limits -> Nat]
      BY <1>0, <3>1, SpendOK
    <3>4. left'["restart"] = left["restart"] \/ left'["restart"] = left["restart"] - 1
      BY <1>0, <3>2
    <3> QED BY <3>2, <3>3, <3>4 DEF Spared
  <2> QED BY <1>1, <2>1, <2>2
<1> DEFINE Spends == left' = left \/ \E k \in Limits : Spend(k)
<1>2. ASSUME NEW t \in Tasks, Prepare(t) PROVE Spends
  BY <1>2, LimitNames DEF Prepare, BindWorker, ResolveRobot, NoRobotFree, BindRobot, BindRefused,
     BindConflict, WaitForResource, PlanTask, PlanFails, PlanCancelled, ClaimRefused, LaunchTask, Bound
<1>3. ASSUME NEW t \in Tasks, Execute(t) PROVE Spends
  BY <1>3, LimitNames DEF Execute, PickSubTask, RunRobotSkill, DispatchSends, DispatchFails, FinishRun
<1>4. ASSUME NEW t \in Tasks, ContinueOrFinishTask(t) \/ Decide(t) PROVE Spends
  BY <1>4, LimitNames DEF ContinueOrFinishTask, ContinueNotRunning, ContinueCompletes,
     ContinueLooks, ContinueDecides, ContinueLaunches, Decide, DecideReply, DecideFails,
     DecideCancelled, ReleaseDecision, RecoveryRevises, RecoveryFailsTask, RecoveryDropped,
     RecoveryErrs
<1>5. ASSUME NEW r \in Robots, Observe(r) PROVE Spends
  BY <1>5 DEF Observe, ObserveCompleted, ObserveWaitingAgent, ObserveFailedWhileStopping,
     ObserveFailedAfterAction, ObserveFailedBeforeAction, ObserveInterrupted, ObserveStopped,
     ObserveProgress
<1>6. ASSUME NEW r \in Robots, \/ SaveReported(r) \/ SaveStalePointer(r) \/ RobotAvailable(r)
                               \/ PilotOffline(r) \/ PilotOnline(r)
      PROVE  Spends
  BY <1>6, LimitNames DEF SaveReported, SaveStalePointer, RobotAvailable, PilotOffline, PilotOnline,
     ReconcileNone, ReconcileStatus, ReconcileMissing, ReconcileEnd
<1>7. ASSUME NEW s \in SubTasks, Pilot(s) PROVE Spends
  BY <1>7, LimitNames DEF Pilot, PilotStarts, PilotActs, PilotAsks, PilotResolves, PilotCompletes,
     PilotFails, PilotStops, PilotInterrupts
<1>8. ASSUME \/ \E w \in Walkers : WalkTask(w) \/ WalkEnd(w)
             \/ ConfirmTarget \/ ConfirmEnd \/ Restart
      PROVE  Spends
  BY <1>8, LimitNames DEF WalkTask, WalkEnd, ConfirmTarget, ConfirmEnd, Restart
<1>9. ASSUME User PROVE Spends
  BY <1>9, LimitNames DEF User, PauseWorkflow, ResumeWorkflow, StopWorkflow, ConfirmWorkflowStop,
     MapChanges, RetryRobotAgentDecision, StopExecution
<1>10. UNCHANGED vars => Spends
  BY DEF vars
<1> HIDE DEF Spends
<1>11. Spends
  BY <1>2, <1>3, <1>4, <1>5, <1>6, <1>7, <1>8, <1>9, <1>10 DEF Next
<1> QED BY <1>1, <1>11 DEF Spends

\* Every step of the system keeps the claims.
LEMMA NextKept ==
  ASSUME IInv, EInv, WInv, [Next]_vars
  PROVE  WInv'
<1>0. Spared
  BY NextSpares
<1>1. CASE UNCHANGED vars
  BY <1>0, <1>1, WorkUntouched DEF vars
<1> QED BY <1>0, <1>1, PrepareKept, ExecuteKept, ContinueKept, DecideKept, ObserveKept,
   RobotAvailableKept, RobotKept, WalkKept, ConfirmKept, UserKept, RestartKept DEF Next

\* WInv is an invariant: until the first restart, whichever Task with the right to write is
\* being worked on owns the workspace, across launches, continuations, pauses and stops.
THEOREM Claims == Spec => []WInv
<1>1. IInv /\ EInv /\ WInv /\ [Next]_vars => WInv'
  BY NextKept
<1> QED BY <1>1, InitWork, Invariance, Evidence, PTL DEF Spec

\* Two running Tasks that write the Project workspace never have their Agents at it at once,
\* as long as the Server was not restarted (claimTaskResources); after a restart they may.
THEOREM WritersAreApart == Spec => []WorkspaceExclusive
<1>1. WInv => WorkspaceExclusive
  <2> SUFFICES ASSUME WInv, FirstLife, NEW t \in Writers, NEW u \in Writers,
                      t # u, AtWork(t), AtWork(u)
               PROVE  FALSE
    BY DEF WorkspaceExclusive
  <2>1. Working(t) /\ Working(u)
    BY DEF AtWork, Working, Busy
  <2> QED BY <2>1 DEF WInv
<1> QED BY <1>1, Claims, PTL

==============================================================================
