------------------------- MODULE WorkflowProperties -------------------------
(***************************************************************************)
(* What the workflow engine promises: safety of completion, stopping and   *)
(* Robot ownership, what no step may do, and what must eventually happen.   *)
(***************************************************************************)
EXTENDS WorkflowEngine

\* Nothing is completed without evidence: a robot_skill SubTask only on an Execution
\* that reported completed (never on robot.run having been accepted), a Task only with
\* every listed SubTask completed or replaced by a recovery as long as no Task of the
\* Workflow failed, the Workflow only with every Task completed
\* (OnRobotExecutionChanged, executeTask, continueOrFinishTask, finishOrSchedule).
CompletionNeedsEvidence ==
  /\ \A s \in RobotSkills : db.sub[s].status = "completed" => db.exec[s].status = "completed"
  /\ \A t \in Tasks : (db.task[t].status = "completed" /\ db.wf.status # "failed")
                        => AllSatisfied(db, t)
  /\ db.wf.status = "completed" => \A t \in Tasks : db.task[t].status = "completed"

\* The engine never forges a physical stop: a SubTask with a known Execution is
\* stopped only once an operator confirmed it, or the Execution is over and either ran
\* to its end, holds the Robot safely or never moved it.  An event that was read before
\* the operator confirmed may still be saved over the row, which is why his word counts
\* by itself (settleTerminalExecutionForStop, finishStoppingRobotSubTask,
\* finishConfirmedRobotStop, ConfirmOperatorStop).
StopNeedsEvidence ==
  \A s \in RobotSkills :
    (db.sub[s].status = "stopped" /\ db.sub[s].ref) =>
      \/ db.exec[s].word
      \/ db.exec[s].status = "completed"
      \/ db.exec[s].status \in {"failed", "stopped"} /\ (db.exec[s].safe \/ db.exec[s].phys = "none")

\* Two unfinished Tasks never own the same Robot, although the catalogue offers it to
\* both before either has stored its choice, and whatever the Pilot's pointer says
\* meanwhile (robotReservation in AssignTask, ReassignPendingTask; the partial unique
\* index on assigned_robot_id).
RobotOwnedByOneTask ==
  \A t, u \in Tasks :
    (t # u /\ ReservesRobot(db.task[t]) /\ ReservesRobot(db.task[u]) /\ db.task[t].robot # NoRobot)
      => db.task[t].robot # db.task[u].robot

\* continueOrFinishTask says that as long as a Robot carries a SubTask out, no other
\* SubTask of the Task may start because it happens to be runnable: the end must be
\* waited for.
RobotStepIsAlone ==
  \A s \in RobotSkills, x \in SubTasks :
    (/\ s # x /\ TaskOf[s] = TaskOf[x]
     /\ db.sub[s].status = "running" /\ db.sub[s].ref /\ db.exec[s].status \in ActiveExecution)
      => db.sub[x].status # "running"

\* A stopped Workflow is quiet and stays quiet: no Task of it runs, waits or is still
\* stopping and no SubTask is open, whatever late plan, launch, decision or event
\* arrives after convergeStoppedWorkflow.
StoppedWorkflowIsQuiet ==
  db.wf.status = "stopped" =>
    /\ \A t \in Tasks : ~BlocksStop(db.task[t])
    /\ \A s \in SubTasks : ~Stoppable(db, s)

\* Until the Server restarts, two running Tasks that write the Project workspace never have
\* their Agents at it at the same time (claimTaskResources).  A restart ends the claim, which
\* is kept in memory: it is taken by prepareAndLaunchTask and continueOrFinishTask, and not
\* taken again for the Tasks that ResumeWorkflow relaunches (resumePausedTasks).  Budgets
\* that allow the same number of restarts let FirstLife say that none was spent.  Only a
\* running Task counts: an Agent whose Task the observer ended meanwhile has lost its claim.
FirstLife == \A b \in Budgets : left["restart"] >= b["restart"]
AtWork(t) == db.task[t].status = "running" /\ run[t].pc \in {"agent", "dispatch"}
WorkspaceExclusive ==
  FirstLife => \A t, u \in Writers : (t # u /\ AtWork(t)) => ~AtWork(u)

\* A step never takes back an end: a terminal Workflow, Task or SubTask keeps its
\* status, an attached Execution stays attached.
EndsAreFinal ==
  [][/\ db.wf.status \in TerminalWork => db'.wf.status = db.wf.status
     /\ \A t \in Tasks : db.task[t].status \in TerminalWork => db'.task[t].status = db.task[t].status
     /\ \A s \in SubTasks : /\ db.sub[s].status \in TerminalWork => db'.sub[s].status = db.sub[s].status
                            /\ db.sub[s].ref => db'.sub[s].ref]_vars

\* A physical action is never replayed: once a SubTask has an Execution, attached or
\* not, no step (resume after a restart least of all) makes the SubTask pending again
\* or gives it a second Execution.
NeverReplayed ==
  [][\A s \in RobotSkills :
       db.exec[s].status # "none" =>
         /\ db'.sub[s].status # "pending"
         /\ db'.exec[s].status # "queued" \/ db.exec[s].status = "queued"]_vars
------------------------------------------------------------------------------
(* Fairness: the Go scheduler runs every goroutine, model calls return, a   *)
(* connected Pilot carries its Execution on and an offline one reconnects.  *)
(* Users, faults and budgeted environment steps are not fair.               *)

Quietly(A) == A /\ UNCHANGED left

Internal(t) ==
  \/ BindWorker(t) \/ ResolveRobot(t) \/ NoRobotFree(t) \/ BindRobot(t) \/ BindRefused(t)
  \/ BindConflict(t) \/ WaitForResource(t)
  \/ PlanTask(t) \/ Quietly(PlanFails(t)) \/ ClaimRefused(t) \/ LaunchTask(t)
  \/ PickSubTask(t) \/ RunRobotSkill(t) \/ DispatchSends(t) \/ Quietly(DispatchFails(t))
  \/ \E out \in {"ok", "error", "cancelled"} : Quietly(FinishRun(t, out))
  \/ DecideReply(t) \/ ReleaseDecision(t) \/ RecoveryRevises(t) \/ RecoveryFailsTask(t)
  \/ RecoveryDropped(t)

PilotProgress(s) ==
  \/ PilotStarts(s) \/ PilotResolves(s) \/ PilotCompletes(s)
  \/ Quietly(PilotStops(s)) \/ Quietly(PilotInterrupts(s))

Fairness ==
  /\ \A t \in Tasks : WF_vars(Internal(t)) /\ WF_vars(ContinueOrFinishTask(t))
  /\ \A r \in Robots : WF_vars(SaveReported(r) \/ Observe(r))
                      /\ WF_vars(RobotAvailable(r)) /\ WF_vars(PilotOnline(r))
  /\ \A s \in RobotSkills : WF_vars(PilotProgress(s))
  /\ \A w \in Walkers : WF_vars(WalkTask(w) \/ WalkEnd(w))
  /\ WF_vars(ConfirmTarget \/ ConfirmEnd)

FairSpec == Spec /\ Fairness

\* A stop that is passed on to the Tasks converges, whoever asked for it and whatever the
\* Agents and the Robot are at: the Workflow ends as stopped, or as paused when the
\* physical state is unknown and an operator must confirm (StopWorkflow,
\* stopWorkflowTasks, convergeStoppedWorkflow).  It is said of Pilots that stay connected
\* and of Executions that do not fail: with either fault a stop may have to be repeated.
StopConverges ==
  (db.wf.status = "stopping" /\ \E w \in Walkers : walk[w].on)
    ~> db.wf.status \in {"stopped", "paused"}

\* A question that comes while the Agent Run of its SubTask still holds the gate is not
\* forgotten: the Execution stops waiting, or the Task or the Workflow is no longer
\* running (launchRobotAgentDecision, continueOrFinishTask after that Run).  It is said of
\* a Task for which no earlier call is late: one that still means to decide for the step
\* before would hold the gate in its turn.
AskedDuringRun(s) ==
  /\ db.exec[s].status = "waiting_agent" /\ cont[TaskOf[s]] = {}
  /\ run[TaskOf[s]].pc = "agent" /\ run[TaskOf[s]].sub = s
DecisionArrives ==
  \A s \in RobotSkills :
    AskedDuringRun(s) ~>
      \/ db.exec[s].status # "waiting_agent"
      \/ db.task[TaskOf[s]].status # "running" \/ db.wf.status # "running"
==============================================================================
