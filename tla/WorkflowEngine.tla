--------------------------- MODULE WorkflowEngine ---------------------------
(***************************************************************************)
(* The workflow service (internal/workflow) driving one confirmed Workflow: *)
(* scheduling, the Agent Run of a Task, Robot Execution events, decisions   *)
(* and recovery, pause, stop, operator confirmation and Server restart.     *)
(*                                                                          *)
(* A step is what one goroutine does between two points at which another    *)
(* may run: a model or robot call, or the release of the activeTasks gate.  *)
(* Robot Service and Pilot appear through what the workflow service sees of *)
(* them.  An Execution is admitted in one step and dispatched in another; a *)
(* Pilot event reads its row in one step, saves it in a second and calls    *)
(* the observer in a third, whatever others wrote in between; the pointer   *)
(* may be set back to what somebody read earlier.  robot.stop and the       *)
(* reconciliation of one Execution are one step: RobotLink models the same  *)
(* service statement by statement.                                          *)
(***************************************************************************)
EXTENDS WorkflowStore

CONSTANT Budgets  \* how often the user, the environment and the faults may act

Limits == {"pause", "stop", "confirm", "retry", "restart", "offline", "undelivered",
           "ask", "execfail", "agenterr", "map", "pointer"}

ASSUME BudgetAssumption == Budgets \subseteq [Limits -> Nat]

VARIABLES
  db,        \* the store
  run,       \* activeTasks: per Task, the one goroutine that may write it
  cont,      \* per Task, the continueOrFinishTask calls under way
  res,       \* activeResources: the Task that owns the workspace, or 0
  walk,      \* stopWorkflowTasks under way: for a request, for the observer
  confirm,   \* ConfirmWorkflowStop under way
  notify,    \* per Robot, the Pilot event being handled, up to its observer call
  avail,     \* Robots with an OnRobotAvailabilityChanged call under way
  online,    \* Pilot sessions
  answered,  \* Executions whose agent.reply the Pilot has not consumed yet
  left       \* what remains of one of Budgets

vars == <<db, run, cont, res, walk, confirm, notify, avail, online, answered, left>>

Phase == {"idle", "resolve", "bind", "wait", "plan", "launch", "pick", "agent", "dispatch",
          "decide", "replied", "recover"}
At(pc, s) == [pc |-> pc, sub |-> s, robot |-> NoRobot, cancelled |-> FALSE, fresh |-> TRUE]
Idle == At("idle", 0)
Quiet == [sub |-> 0, status |-> "none", safe |-> FALSE, saved |-> FALSE]

\* A call that has not looked yet, or what it decided to do when it looked.  Two calls of
\* one Task in the same situation count as one.
Calls == [pc : {"called", "launch", "decide"}, sub : SubTasks \cup {0}]
Call(pc, s) == [pc |-> pc, sub |-> s]
Walkers == {"request", "observer"}

TypeOK ==
  /\ db \in Database
  /\ run \in [Tasks -> [pc : Phase, sub : SubTasks \cup {0}, robot : Robots \cup {NoRobot},
                        cancelled : BOOLEAN, fresh : BOOLEAN]]
  /\ cont \in [Tasks -> SUBSET Calls]
  /\ res \in Tasks \cup {0}
  /\ walk \in [Walkers -> [on : BOOLEAN, todo : SUBSET Tasks]]
  /\ confirm \in [on : BOOLEAN, todo : SUBSET SubTasks]
  /\ notify \in [Robots -> [sub : SubTasks \cup {0}, status : ExecutionStatus,
                             safe : BOOLEAN, saved : BOOLEAN]]
  /\ avail \in SUBSET Robots
  /\ online \in [Robots -> BOOLEAN]
  /\ answered \in SUBSET SubTasks
  /\ left \in [Limits -> Nat]

Spend(k) == left[k] > 0 /\ left' = [left EXCEPT ![k] = @ - 1]
RobotOf(d, s) == d.task[TaskOf[s]].robot
------------------------------------------------------------------------------
(* Scheduling.                                                              *)

\* schedule, when the approved map generation is gone: the first runnable Task is
\* marked (even one that a goroutine has reserved) and the Workflow pauses.
MapRefused(d) == d.wf.status = "running" /\ d.stale /\ ListRunnableTasks(d) # {}

Schedule(d) ==
  IF MapRefused(d)
  THEN TransitionWorkflow(
         SetPendingTaskReason(d, Least(ListRunnableTasks(d)), "map_generation_changed"),
         "paused", "map_generation_changed")
  ELSE d

\* reserveTask for every runnable Task without a goroutine.
Reserve(d, rs) ==
  [t \in Tasks |->
     CASE MapRefused(d) /\ t = Least(ListRunnableTasks(d)) -> [rs[t] EXCEPT !.fresh = FALSE]
       [] ~MapRefused(d) /\ d.wf.status = "running" /\ t \in ListRunnableTasks(d)
            /\ rs[t].pc = "idle" -> At("resolve", 0)
       [] OTHER -> rs[t]]

\* Mutant of BlocksStop: a paused Task does not keep the Workflow from ending.
BlocksStopUnlessPaused(row) == row.status \in {"running", "stopping"}

BlocksStop(row) == row.status \in {"running", "stopping", "paused"}

Converge(d) ==
  IF d.wf.status = "stopping" /\ \A t \in Tasks : ~BlocksStop(d.task[t])
  THEN TransitionWorkflow(d, "stopped", d.wf.reason)
  ELSE d

\* convergeStoppedWorkflow walks the Tasks in order and gives up the workspace of
\* every Task it passes before the first that is still active.
ConvergedOwner(d, owner) ==
  IF /\ owner # 0 /\ d.wf.status = "stopping"
     /\ \A t \in Tasks : t <= owner => ~BlocksStop(d.task[t])
  THEN 0 ELSE owner

Released(owner, t) == IF owner = t THEN 0 ELSE owner

stopPendingWork(d) ==
  [d EXCEPT
     !.sub = [s \in SubTasks |-> IF d.sub[s].status = "pending"
                                 THEN Moved(d.sub[s], "stopped", "") ELSE d.sub[s]],
     !.task = [t \in Tasks |-> IF d.task[t].status = "pending"
                               THEN [d.task[t] EXCEPT !.status = "stopped", !.reason = ""]
                               ELSE d.task[t]]]

\* finishOrSchedule up to its call of schedule.
Finish(d) ==
  CASE d.wf.status = "stopping" -> Converge(d)
    [] d.wf.status = "running" /\ (\E t \in Tasks : d.task[t].status = "failed") ->
         TransitionWorkflow(stopPendingWork(d), "failed", "")
    [] d.wf.status = "running" /\ (\A t \in Tasks : d.task[t].status = "completed") ->
         TransitionWorkflow(d, "completed", "")
    [] OTHER -> d

\* finishOrSchedule, with the database, the goroutines and the workspace as the
\* caller leaves them.
FinishOrSchedule(d, rs, owner) ==
  /\ db' = Schedule(Finish(d))
  /\ run' = Reserve(Finish(d), rs)
  /\ res' = ConvergedOwner(d, owner)

failTask(d, t) ==
  LET stopped == [s \in SubTasks |->
        CASE s \in SubsOf(t) /\ d.sub[s].status = "running" -> Moved(d.sub[s], "failed", "")
          [] s \in SubsOf(t) /\ d.sub[s].status = "pending" -> Moved(d.sub[s], "stopped", "")
          [] OTHER -> d.sub[s]]
      e == [d EXCEPT !.sub = stopped]
  IN IF d.task[t].status \in {"pending", "running"} THEN TransitionTask(e, t, "failed", "") ELSE e
------------------------------------------------------------------------------
(* prepareAndLaunchTask: late binding, planning, workspace claim, launch.   *)

\* resolveRobotTaskAssignment: the Robots it would offer, its own first.
Offered(t) ==
  LET idle == {r \in Candidates[t] : online[r] /\ ~PilotHolds(db, r) /\ ~TaskHolds(db, r, t)}
  IN IF db.task[t].robot \in idle THEN {db.task[t].robot} ELSE idle

\* A preparation error other than "wait for a resource" fails the Task.
PreparationFails(t) ==
  /\ FinishOrSchedule(failTask(db, t), [run EXCEPT ![t] = Idle], Released(res, t))
  /\ UNCHANGED <<cont, walk, confirm, notify, avail, online, answered>>

\* The binding is stored; a Task without a plan goes on to planning_subtasks.
Bound(t, d) ==
  /\ IF Listed(d, t) # {}
     THEN db' = d /\ run' = [run EXCEPT ![t].pc = "launch", ![t].robot = NoRobot]
     ELSE /\ db' = SetPendingTaskReason(d, t, "planning_subtasks")
          /\ run' = [run EXCEPT ![t].pc = "plan", ![t].robot = NoRobot]
  /\ UNCHANGED <<cont, res, walk, confirm, notify, avail, online, answered, left>>

\* The Task row is still the one that schedule read.
Current(t) == db.task[t].status = "pending" /\ run[t].fresh

\* Storing the binding to r, or the planning_subtasks mark, writes the Task row.
BindWrites(t, r) == Listed(db, t) = {} \/ db.task[t].robot # r

BindWorker(t) ==
  /\ run[t].pc = "resolve" /\ t \notin RobotTasks
  /\ BindWrites(t, NoRobot) => Current(t)
  /\ Bound(t, db)

\* ResolveTaskAssignment reads the catalogue; the assignment is a later transaction.
ResolveRobot(t) ==
  /\ run[t].pc = "resolve" /\ t \in RobotTasks
  /\ \E r \in Offered(t) : run' = [run EXCEPT ![t].pc = "bind", ![t].robot = r]
  /\ UNCHANGED <<db, cont, res, walk, confirm, notify, avail, online, answered, left>>

NoRobotFree(t) ==
  /\ run[t].pc = "resolve" /\ t \in RobotTasks /\ Offered(t) = {}
  /\ run' = [run EXCEPT ![t].pc = "wait"]
  /\ UNCHANGED <<db, cont, res, walk, confirm, notify, avail, online, answered, left>>

BindRobot(t) ==
  LET r == run[t].robot IN
  /\ run[t].pc = "bind"
  /\ BindWrites(t, r) => Current(t)
  /\ CanAssign(db, t, r)
  /\ Bound(t, AssignTask(db, t, r))

\* The transaction finds the Robot reserved since it was offered.
BindRefused(t) ==
  LET r == run[t].robot IN
  /\ run[t].pc = "bind" /\ Current(t) /\ db.task[t].robot # r /\ ~IsFree(db, r, t)
  /\ run' = [run EXCEPT ![t].pc = "wait", ![t].robot = NoRobot]
  /\ UNCHANGED <<db, cont, res, walk, confirm, notify, avail, online, answered, left>>

\* The Task row moved on since schedule read it: revision conflict.
BindConflict(t) ==
  /\ run[t].pc = "bind" \/ (run[t].pc = "resolve" /\ t \notin RobotTasks)
  /\ BindWrites(t, run[t].robot) /\ ~Current(t)
  /\ PreparationFails(t) /\ UNCHANGED left

WaitForResource(t) ==
  /\ run[t].pc = "wait"
  /\ db' = SetPendingTaskReason(db, t, "waiting_resource")
  /\ run' = [run EXCEPT ![t] = Idle]
  /\ UNCHANGED <<cont, res, walk, confirm, notify, avail, online, answered, left>>

PlanTask(t) ==
  /\ run[t].pc = "plan"
  /\ CanSetTaskSubTasks(db, t) /\ run[t].fresh
  /\ db' = SetTaskSubTasks(db, t)
  /\ run' = [run EXCEPT ![t].pc = "launch"]
  /\ UNCHANGED <<cont, res, walk, confirm, notify, avail, online, answered, left>>

\* SetTaskSubTasks meets a moved row, or the planner fails.
PlanFails(t) ==
  /\ run[t].pc = "plan"
  /\ \/ (~CanSetTaskSubTasks(db, t) \/ ~run[t].fresh) /\ UNCHANGED left
     \/ Spend("agenterr")
  /\ PreparationFails(t)

PlanCancelled(t) ==
  /\ run[t].pc = "plan" /\ run[t].cancelled
  /\ run' = [run EXCEPT ![t] = Idle]
  /\ UNCHANGED <<db, cont, res, walk, confirm, notify, avail, online, answered, left>>

\* Mutant of CanClaim: the owner of the workspace is not checked.
CanAlwaysClaim(t) == t \in Tasks

CanClaim(t) == t \in Writers => res \in {0, t}
Claimed(t) == IF t \in Writers THEN t ELSE res

ClaimRefused(t) ==
  /\ run[t].pc = "launch" /\ ~CanClaim(t)
  /\ run' = [run EXCEPT ![t].pc = "wait"]
  /\ UNCHANGED <<db, cont, res, walk, confirm, notify, avail, online, answered, left>>

\* claimTaskResources, the second look at the Workflow, launchReservedTask.  A
\* refusal after the claim releases the gate but not the workspace.
LaunchTask(t) ==
  /\ run[t].pc = "launch" /\ CanClaim(t)
  /\ res' = Claimed(t)
  /\ IF db.wf.status = "running" /\ db.task[t].status = "pending" /\ run[t].fresh
     THEN /\ db' = TransitionTask(db, t, "running", "")
          /\ run' = [run EXCEPT ![t] = At("pick", 0)]
     ELSE db' = db /\ run' = [run EXCEPT ![t] = Idle]
  /\ UNCHANGED <<cont, walk, confirm, notify, avail, online, answered, left>>
------------------------------------------------------------------------------
(* Stopping one Task: stopTaskSubTasks.                                     *)

\* moveSubTaskTowardStop.
TowardStop(row) ==
  IF row.status = "pending" THEN Moved(row, "stopped", "") ELSE Moved(row, "stopping", "")

Stoppable(d, s) == d.sub[s].status \in {"running", "paused", "stopping"}

\* Robot Service's Stop can still deliver execution.stop for s.
StopReaches(d, s) ==
  /\ online[RobotOf(d, s)]
  /\ \/ d.exec[s].status \in ActiveExecution
     \/ d.exec[s].status = "interrupted" /\ d.lock[RobotOf(d, s)] = s

\* Mutant of StopVerdict: a failed Execution is taken for a Robot at rest.
StopVerdictTrusting(d, s) ==
  IF ~d.sub[s].ref THEN "settled" ELSE
  CASE d.exec[s].status \in {"completed", "failed"} -> "settled"
    [] d.exec[s].status = "stopped" -> IF d.exec[s].safe THEN "settled" ELSE "unknown"
    [] OTHER -> IF StopReaches(d, s) THEN "sent" ELSE "lost"

\* What stopping an attached SubTask comes to, from the Execution that is stored:
\* settled (a terminal fact proves the Robot still), unknown (a terminal fact that
\* does not), sent (execution.stop delivered) or lost (no way to deliver it).
StopVerdict(d, s) ==
  IF ~d.sub[s].ref THEN "settled" ELSE
  CASE d.exec[s].status = "completed" -> "settled"
    [] d.exec[s].status = "failed" ->
         IF d.exec[s].safe \/ d.exec[s].phys = "none" THEN "settled" ELSE "unknown"
    [] d.exec[s].status = "stopped" -> IF d.exec[s].safe THEN "settled" ELSE "unknown"
    [] OTHER -> IF StopReaches(d, s) THEN "sent" ELSE "lost"

\* A lost stop ends the loop: SubTasks behind it are not visited.
Visited(d, t) ==
  {s \in SubsOf(t) : \A x \in SubsOf(t) :
     (Stoppable(d, x) /\ StopVerdict(d, x) = "lost") => s <= x}

\* The stop is on record, and with a Pilot that has the Execution.
StopSent(x) ==
  [x EXCEPT !.status = "stopping", !.pilot = IF @ = "start" THEN "stop" ELSE @]

stopTaskSubTasks(d, t) ==
  LET seen == Visited(d, t)
      verdict == [s \in SubTasks |-> IF s \in seen /\ Stoppable(d, s)
                                     THEN StopVerdict(d, s) ELSE "none"]
      unknown == \E s \in SubTasks : verdict[s] \in {"unknown", "lost"}
      e == [d EXCEPT
        !.sub = [s \in SubTasks |->
           CASE s \notin seen -> d.sub[s]
             [] verdict[s] = "settled" -> [d.sub[s] EXCEPT !.status = "stopped", !.reason = ""]
             [] verdict[s] = "sent" -> [d.sub[s] EXCEPT !.status = "stopping", !.reason = ""]
             [] verdict[s] \in {"unknown", "lost"} ->
                  [d.sub[s] EXCEPT !.status = "paused", !.reason = "execution_state_unknown"]
             [] OTHER -> TowardStop(d.sub[s])],
        !.exec = [s \in SubTasks |->
           CASE verdict[s] = "sent" -> StopSent(d.exec[s])
             [] verdict[s] = "lost" -> [d.exec[s] EXCEPT !.status = "interrupted"]
             [] OTHER -> d.exec[s]]]
      f == IF e.task[t].status \in {"running", "stopping"}
           THEN TransitionTask(e, t, "paused", "execution_state_unknown") ELSE e
  IN IF ~unknown THEN e
     ELSE IF f.wf.status = "stopping"
          THEN TransitionWorkflow(f, "paused", "execution_state_unknown") ELSE f

SafelyTerminal(d, t) == \A s \in Listed(d, t) : d.sub[s].status \in TerminalWork

\* The Task itself follows once none of its SubTasks is left open.
FinishStoppedTask(d, t) ==
  IF d.task[t].status = "stopping" /\ SafelyTerminal(d, t)
  THEN TransitionTask(d, t, "stopped", "") ELSE d

moveTaskTowardStop(d, t) ==
  IF d.task[t].status = "pending" THEN TransitionTask(d, t, "stopped", "")
  ELSE IF d.task[t].status \in {"running", "paused"}
       THEN TransitionTask(d, t, "stopping", "") ELSE d

StopTask(d, t) == FinishStoppedTask(stopTaskSubTasks(moveTaskTowardStop(d, t), t), t)
------------------------------------------------------------------------------
(* executeTask: one Agent Run for one SubTask.                              *)

PickSubTask(t) ==
  /\ run[t].pc = "pick"
  /\ LET ready == ListRunnableSubTasks(db, t) IN
       IF ready = {}
       THEN db' = db /\ run' = [run EXCEPT ![t].pc = "agent"]
       ELSE /\ db' = TransitionSubTask(db, Least(ready), "running", "")
            /\ run' = [run EXCEPT ![t].pc = "agent", ![t].sub = Least(ready)]
  /\ UNCHANGED <<cont, res, walk, confirm, notify, avail, online, answered, left>>

\* The Robot Agent calls robot.run and the Execution is admitted.
RunRobotSkill(t) ==
  LET s == run[t].sub IN
  /\ run[t].pc = "agent" /\ s # 0
  /\ CanAdmit(db, s) /\ online[RobotOf(db, s)]
  /\ db' = AdmitRobotExecution(db, s)
  /\ run' = [run EXCEPT ![t].pc = "dispatch"]
  /\ UNCHANGED <<cont, res, walk, confirm, notify, avail, online, answered, left>>

\* The pointer is set, whatever became of the row, and execution.start is sent.
DispatchSends(t) ==
  LET s == run[t].sub IN
  /\ run[t].pc = "dispatch" /\ online[RobotOf(db, s)]
  /\ db' = [SetPilotExecution(db, s) EXCEPT !.exec[s].pilot = "start"]
  /\ run' = [run EXCEPT ![t].pc = "agent"]
  /\ UNCHANGED <<cont, res, walk, confirm, notify, avail, online, answered, left>>

\* The command cannot be sent (interrupted, the Robot stays locked), its artifacts cannot
\* be authorised (failed) or the Run was cancelled (stopped).  No observer is called.
DispatchFails(t) ==
  LET s == run[t].sub IN
  /\ run[t].pc = "dispatch"
  /\ \/ /\ db' = [SetPilotExecution(db, s) EXCEPT !.exec[s].status = "interrupted"]
        /\ IF online[RobotOf(db, s)] THEN Spend("undelivered") ELSE UNCHANGED left
     \/ db' = [db EXCEPT !.exec[s].status = "failed"] /\ Spend("undelivered")
     \/ db' = [db EXCEPT !.exec[s].status = "stopped"] /\ run[t].cancelled /\ UNCHANGED left
  /\ run' = [run EXCEPT ![t].pc = "agent"]
  /\ UNCHANGED <<cont, res, walk, confirm, notify, avail, online, answered>>

\* What the executor reports back to executeTask.
Outcomes(t) ==
  LET s == run[t].sub IN
  (IF s \in RobotSkills /\ db.exec[s].status = "none" THEN {} ELSE {"ok"})
  \cup (IF run[t].cancelled THEN {"cancelled"} ELSE {})
  \cup (IF s # 0 THEN {"error"} ELSE {})

\* Mutant of Recorded: robot.run having been accepted completes the SubTask.
RecordedAsCompleted(d, s) ==
  CASE s = 0 -> d
    [] s \in RobotSkills -> TransitionSubTask(AttachSubTaskExecution(d, s), s, "completed", "")
    [] OTHER -> TransitionSubTask(d, s, "completed", "")

\* An accepted Execution is attached to its SubTask; an agent step completes.
Recorded(d, s) ==
  CASE s = 0 -> d
    [] s \in RobotSkills -> AttachSubTaskExecution(d, s)
    [] OTHER -> TransitionSubTask(d, s, "completed", "")

\* The attachment found the row moved on, or the agent step was no longer running.
RecordFails(d, s) ==
  CASE s = 0 -> FALSE
    [] s \in RobotSkills -> ~CanAttach(d, s) /\ ~d.sub[s].ref
    [] OTHER -> d.sub[s].status # "running"

HasActiveSubTask(d, t) ==
  \E s \in Listed(d, t) : d.sub[s].status \notin TerminalWork

\* Which way executeTask leaves: stopped, failed, still going, or Task completed.
Exit(t, out) ==
  LET s == run[t].sub
      d == Recorded(db, s)
  IN IF db.task[t].status = "stopping" \/ out = "cancelled" THEN "stop"
     ELSE IF out = "error" \/ RecordFails(db, s) THEN "fail"
     ELSE IF s \in RobotSkills \/ HasActiveSubTask(d, t) \/ d.task[t].status # "running" THEN "keep"
     ELSE "complete"

Settled(t, out) ==
  LET d == IF out = "ok" THEN Recorded(db, run[t].sub) ELSE db
  IN CASE Exit(t, out) = "stop" -> FinishStoppedTask(stopTaskSubTasks(d, t), t)
       [] Exit(t, out) = "fail" -> failTask(d, t)
       [] Exit(t, out) = "keep" -> d
       [] OTHER -> TransitionTask(d, t, "completed", "")

\* robot.run would be refused, so the Robot Agent uses up its turns and fails.
RunRefused(t) ==
  LET s == run[t].sub IN
  s \in RobotSkills /\ db.exec[s].status = "none" /\ ~(CanAdmit(db, s) /\ online[RobotOf(db, s)])

\* executeTask from the executor's return to its deferred release of the gate.
FinishRun(t, out) ==
  /\ run[t].pc = "agent" /\ out \in Outcomes(t)
  /\ IF out = "error" /\ ~RunRefused(t) THEN Spend("agenterr") ELSE UNCHANGED left
  /\ db' = Settled(t, out)
  /\ run' = [run EXCEPT ![t] = Idle]
  /\ res' = IF Exit(t, out) \in {"fail", "complete"} THEN Released(res, t) ELSE res
  /\ cont' = [cont EXCEPT ![t] = @ \cup {Call("called", 0)}]
  /\ UNCHANGED <<walk, confirm, notify, avail, online, answered>>
------------------------------------------------------------------------------
(* continueOrFinishTask, the only entry that advances a running Task.       *)

Satisfied(row) ==
  \/ row.status = "completed"
  \/ row.status = "failed" /\ row.reason = "replaced_after_failure"
  \/ row.status = "stopped" /\ row.reason = "revised_after_failure"

AllSatisfied(d, t) == Listed(d, t) # {} /\ \A s \in Listed(d, t) : Satisfied(d.sub[s])
InFlight(d, t) == {s \in Listed(d, t) : d.sub[s].status \in {"running", "stopping"}}

\* A call goes on with what it saw, or returns (next is empty).
GoesOn(t, c, next) == c \in cont[t] /\ cont' = [cont EXCEPT ![t] = (@ \ {c}) \cup next]
Called(t, next) == GoesOn(t, Call("called", 0), next)

ContinueNotRunning(t) ==
  /\ Called(t, {}) /\ db.task[t].status # "running"
  /\ FinishOrSchedule(db, run, res)
  /\ UNCHANGED <<walk, confirm, notify, avail, online, answered, left>>

ContinueCompletes(t) ==
  /\ Called(t, {}) /\ db.task[t].status = "running" /\ AllSatisfied(db, t)
  /\ FinishOrSchedule(TransitionTask(db, t, "completed", ""), run, Released(res, t))
  /\ UNCHANGED <<walk, confirm, notify, avail, online, answered, left>>

\* A SubTask in flight is waited for, unless its Execution waits for a decision whose
\* event came while the Agent Run still held the gate.
AwaitsDecision(d, s) ==
  /\ d.sub[s].status = "running" /\ s \in RobotSkills /\ d.sub[s].ref
  /\ d.exec[s].status = "waiting_agent"

\* Mutant of NextStep: a decision that the Agent Run kept out is not taken up.
NextStepWithoutDecision(d, t) ==
  IF InFlight(d, t) = {} /\ ListRunnableSubTasks(d, t) # {} THEN {Call("launch", 0)} ELSE {}

\* What is to do for a running Task, from the SubTask rows as they are read.
NextStep(d, t) ==
  IF InFlight(d, t) # {}
  THEN LET s == Least(InFlight(d, t)) IN IF AwaitsDecision(d, s) THEN {Call("decide", s)} ELSE {}
  ELSE IF ListRunnableSubTasks(d, t) # {} THEN {Call("launch", 0)} ELSE {}

ContinueLooks(t) ==
  /\ Called(t, NextStep(db, t)) /\ db.task[t].status = "running" /\ ~AllSatisfied(db, t)
  /\ UNCHANGED <<db, run, res, walk, confirm, notify, avail, online, answered, left>>

\* reserveTask: whoever holds the gate by now keeps it.  Nothing is read again.
ContinueDecides(t) ==
  /\ \E s \in SubTasks :
       /\ GoesOn(t, Call("decide", s), {})
       /\ run' = IF run[t].pc = "idle" THEN [run EXCEPT ![t] = At("decide", s)] ELSE run
  /\ UNCHANGED <<db, res, walk, confirm, notify, avail, online, answered, left>>

\* The next SubTask gets an Agent Run, if the gate and the workspace are free.
ContinueLaunches(t) ==
  /\ GoesOn(t, Call("launch", 0), {})
  /\ IF run[t].pc = "idle" /\ CanClaim(t)
     THEN run' = [run EXCEPT ![t] = At("pick", 0)] /\ res' = Claimed(t)
     ELSE UNCHANGED <<run, res>>
  /\ UNCHANGED <<db, walk, confirm, notify, avail, online, answered, left>>

ContinueOrFinishTask(t) ==
  \/ ContinueNotRunning(t) \/ ContinueCompletes(t) \/ ContinueLooks(t)
  \/ ContinueDecides(t) \/ ContinueLaunches(t)

\* OnRobotAvailabilityChanged: only a Task already marked waiting_resource counts.
RobotAvailable(r) ==
  /\ r \in avail /\ avail' = avail \ {r}
  /\ IF /\ db.wf.status = "running"
        /\ \E t \in RobotTasks : /\ db.task[t].status = "pending"
                                 /\ db.task[t].reason = "waiting_resource"
     THEN db' = Schedule(db) /\ run' = Reserve(db, run)
     ELSE UNCHANGED <<db, run>>
  /\ UNCHANGED <<cont, res, walk, confirm, notify, online, answered, left>>
------------------------------------------------------------------------------
(* Pausing, and the two decision Runs.                                      *)

pauseRobotSubTask(d, s, why) ==
  LET t == TaskOf[s]
      e == IF d.sub[s].status \in {"running", "stopping"}
           THEN TransitionSubTask(d, s, "paused", why) ELSE d
      f == IF e.task[t].status \in {"running", "stopping"}
           THEN TransitionTask(e, t, "paused", why) ELSE e
  IN IF f.wf.status = "stopping" THEN TransitionWorkflow(f, "paused", why) ELSE f

pauseRobotDecisionFailure(d, s) ==
  LET e == pauseRobotSubTask(d, s, "robot_agent_decision_failed")
  IN IF e.wf.status = "running"
     THEN TransitionWorkflow(e, "paused", "robot_agent_decision_failed") ELSE e

robotDecisionStillCurrent(d, s) ==
  /\ d.wf.status = "running"
  /\ d.task[TaskOf[s]].status = "running"
  /\ d.sub[s].status = "running" /\ d.sub[s].ref
  /\ d.exec[s].status = "waiting_agent"

\* The decision is made: it is sent if the world is as it was, and dropped if not.
DecideReply(t) ==
  LET s == run[t].sub
      current == robotDecisionStillCurrent(db, s)
  IN /\ run[t].pc = "decide"
     /\ IF current /\ online[RobotOf(db, s)]
        THEN answered' = answered \cup {s} /\ run' = [run EXCEPT ![t].pc = "replied"]
        ELSE answered' = answered /\ run' = [run EXCEPT ![t] = Idle]
     /\ db' = IF current /\ ~online[RobotOf(db, s)] THEN pauseRobotDecisionFailure(db, s) ELSE db
     /\ UNCHANGED <<cont, res, walk, confirm, notify, avail, online, left>>

DecideFails(t) ==
  /\ run[t].pc = "decide" /\ Spend("agenterr")
  /\ db' = pauseRobotDecisionFailure(db, run[t].sub)
  /\ run' = [run EXCEPT ![t] = Idle]
  /\ UNCHANGED <<cont, res, walk, confirm, notify, avail, online, answered>>

DecideCancelled(t) ==
  /\ run[t].pc \in {"decide", "recover"} /\ run[t].cancelled
  /\ run' = [run EXCEPT ![t] = Idle]
  /\ UNCHANGED <<db, cont, res, walk, confirm, notify, avail, online, answered, left>>

ReleaseDecision(t) ==
  /\ run[t].pc = "replied"
  /\ run' = [run EXCEPT ![t] = Idle]
  /\ UNCHANGED <<db, cont, res, walk, confirm, notify, avail, online, answered, left>>

failedRecoveryStillCurrent(d, s) ==
  /\ d.wf.status = "running"
  /\ CanUpdateWaitReason(d, s, "recovery_running")
  /\ d.exec[s].status = "failed"

RecoveryRevises(t) ==
  LET s == run[t].sub IN
  /\ run[t].pc = "recover"
  /\ failedRecoveryStillCurrent(db, s) /\ CanApplyRecovery(db, s)
  /\ db' = ApplyFailedRobotRecovery(db, s)
  /\ run' = [run EXCEPT ![t] = Idle]
  /\ cont' = [cont EXCEPT ![t] = @ \cup {Call("called", 0)}]
  /\ UNCHANGED <<res, walk, confirm, notify, avail, online, answered, left>>

failPausedTask(d, s) ==
  LET t == TaskOf[s]
      e == [d EXCEPT !.sub = [x \in SubTasks |->
              CASE x = s -> Moved(d.sub[x], "failed", "")
                [] x \in SubsOf(t) \ {s} /\ d.sub[x].status = "pending" ->
                     Moved(d.sub[x], "stopped", "")
                [] OTHER -> d.sub[x]]]
  IN TransitionTask(e, t, "failed", "")

RecoveryFailsTask(t) ==
  LET s == run[t].sub IN
  /\ run[t].pc = "recover" /\ failedRecoveryStillCurrent(db, s)
  /\ FinishOrSchedule(failPausedTask(db, s), [run EXCEPT ![t] = Idle], Released(res, t))
  /\ UNCHANGED <<cont, walk, confirm, notify, avail, online, answered, left>>

\* No decision that still applies: the Task stays paused.
RecoveryDropped(t) ==
  LET s == run[t].sub IN
  /\ run[t].pc = "recover"
  /\ ~(failedRecoveryStillCurrent(db, s) /\ CanApplyRecovery(db, s))
  /\ run' = [run EXCEPT ![t] = Idle]
  /\ UNCHANGED <<db, cont, res, walk, confirm, notify, avail, online, answered, left>>

RecoveryErrs(t) ==
  /\ run[t].pc = "recover" /\ Spend("agenterr")
  /\ db' = UpdatePausedRobotWaitReason(db, run[t].sub, "recovery_running", "recovery_exhausted")
  /\ run' = [run EXCEPT ![t] = Idle]
  /\ UNCHANGED <<cont, res, walk, confirm, notify, avail, online, answered>>
------------------------------------------------------------------------------
(* OnRobotExecutionChanged, with the Execution as the handler saved it.     *)

\* An event that finds its running SubTask without a reference attaches it first.
Observed(r, st) == notify[r].sub # 0 /\ notify[r].saved /\ notify[r].status = st
Seen(r) == AttachSubTaskExecution(db, notify[r].sub)
Consumed(r) == notify' = [notify EXCEPT ![r] = Quiet]

\* finishStoppingRobotSubTask, before and including its convergeStoppedWorkflow.
SubTaskStopped(d, s) ==
  FinishStoppedTask(TransitionSubTask(d, s, "stopped", ""), TaskOf[s])

\* Mutant of FinishStopping: the Workflow is not looked at again.
FinishStoppingAlone(d, s) == db' = SubTaskStopped(d, s) /\ res' = res

FinishStopping(d, s) ==
  /\ db' = Converge(SubTaskStopped(d, s))
  /\ res' = ConvergedOwner(SubTaskStopped(d, s), res)

\* finishConfirmedRobotStop up to the propagation: Workflow, Task and SubTask are
\* taken to stopping and the SubTask is settled.
StopConfirmed(d, s) ==
  LET t == TaskOf[s]
      e == IF d.wf.status \in {"running", "paused"}
           THEN TransitionWorkflow(d, "stopping", "") ELSE d
      f == IF e.task[t].status \in {"running", "paused"}
           THEN TransitionTask(e, t, "stopping", "") ELSE e
  IN IF f.sub[s].status \in {"running", "paused"}
     THEN TransitionSubTask(f, s, "stopping", "") ELSE f

\* A SubTask that already ended refuses the last transition: the handler returns
\* its error and propagates nothing.
ConfirmedStop(d, s) ==
  IF StopConfirmed(d, s).sub[s].status = "stopping"
  THEN /\ FinishStopping(StopConfirmed(d, s), s)
       /\ walk' = [walk EXCEPT !["observer"] = [on |-> TRUE, todo |-> Tasks]]
  ELSE db' = StopConfirmed(d, s) /\ UNCHANGED <<res, walk>>

completeRobotSubTask(d, s) ==
  IF d.sub[s].status \in {"running", "paused"}
  THEN TransitionSubTask(TransitionSubTask(d, s, "running", ""), s, "completed", "") ELSE d

ObserveCompleted(r) ==
  LET s == notify[r].sub IN
  /\ Observed(r, "completed") /\ Consumed(r)
  /\ IF Seen(r).sub[s].status = "stopping"
     THEN FinishStopping(Seen(r), s) /\ cont' = cont
     ELSE /\ db' = completeRobotSubTask(Seen(r), s) /\ res' = res
          /\ cont' = [cont EXCEPT ![TaskOf[s]] = @ \cup {Call("called", 0)}]
  /\ UNCHANGED <<run, walk, confirm, avail, online, answered, left>>

\* launchRobotAgentDecision: dropped while another goroutine holds the Task.
ObserveWaitingAgent(r) ==
  LET s == notify[r].sub IN
  /\ Observed(r, "waiting_agent") /\ Consumed(r)
  /\ db' = Seen(r)
  /\ run' = IF run[TaskOf[s]].pc = "idle" THEN [run EXCEPT ![TaskOf[s]] = At("decide", s)] ELSE run
  /\ UNCHANGED <<cont, res, walk, confirm, avail, online, answered, left>>

\* failed, the SubTask stopping: settled by evidence, or the state is unknown.
ObserveFailedWhileStopping(r) ==
  LET s == notify[r].sub IN
  /\ Observed(r, "failed") /\ Seen(r).sub[s].status = "stopping" /\ Consumed(r)
  /\ IF notify[r].safe \/ db.exec[s].phys = "none"
     THEN FinishStopping(Seen(r), s)
     ELSE db' = pauseRobotSubTask(Seen(r), s, "execution_state_unknown") /\ res' = res
  /\ UNCHANGED <<run, cont, walk, confirm, avail, online, answered, left>>

\* failed after a physical action: stopped if the Robot holds, unknown otherwise.
ObserveFailedAfterAction(r) ==
  LET s == notify[r].sub IN
  /\ Observed(r, "failed") /\ Seen(r).sub[s].status # "stopping" /\ Consumed(r)
  /\ db.exec[s].phys = "started"
  /\ IF notify[r].safe
     THEN ConfirmedStop(Seen(r), s)
     ELSE /\ db' = pauseRobotSubTask(Seen(r), s, "execution_state_unknown")
          /\ UNCHANGED <<res, walk>>
  /\ UNCHANGED <<run, cont, confirm, avail, online, answered, left>>

\* failed with no physical action: paused, and one recovery Run if the gate is free.
ObserveFailedBeforeAction(r) ==
  LET s == notify[r].sub
      t == TaskOf[s]
      e == pauseRobotSubTask(Seen(r), s, "robot_execution_failed")
      starts == CanUpdateWaitReason(e, s, "robot_execution_failed") /\ run[t].pc = "idle"
  IN /\ Observed(r, "failed") /\ Seen(r).sub[s].status # "stopping" /\ Consumed(r)
     /\ db.exec[s].phys # "started"
     /\ db' = IF starts THEN UpdatePausedRobotWaitReason(e, s, "robot_execution_failed",
                                                         "recovery_running") ELSE e
     /\ run' = IF starts THEN [run EXCEPT ![t] = At("recover", s)] ELSE run
     /\ UNCHANGED <<cont, res, walk, confirm, avail, online, answered, left>>

ObserveInterrupted(r) ==
  /\ Observed(r, "interrupted") /\ Consumed(r)
  /\ db' = pauseRobotSubTask(Seen(r), notify[r].sub, "execution_state_unknown")
  /\ UNCHANGED <<run, cont, res, walk, confirm, avail, online, answered, left>>

ObserveStopped(r) ==
  LET s == notify[r].sub
      stopping == Seen(r).sub[s].status = "stopping"
  IN /\ Observed(r, "stopped") /\ Consumed(r)
     /\ \/ /\ notify[r].safe /\ ~stopping /\ ConfirmedStop(Seen(r), s)
        \/ /\ notify[r].safe /\ stopping
           /\ FinishStopping(Seen(r), s) /\ walk' = walk
        \/ /\ ~notify[r].safe
           /\ db' = pauseRobotSubTask(Seen(r), s, IF stopping THEN "execution_state_unknown"
                                                  ELSE "robot_execution_stopped")
           /\ UNCHANGED <<res, walk>>
     /\ UNCHANGED <<run, cont, confirm, avail, online, answered, left>>

\* Progress only attaches.
ObserveProgress(r) ==
  /\ \E st \in {"queued", "running", "stopping"} : Observed(r, st)
  /\ Consumed(r) /\ db' = Seen(r)
  /\ UNCHANGED <<run, cont, res, walk, confirm, avail, online, answered, left>>

Observe(r) ==
  \/ ObserveCompleted(r) \/ ObserveWaitingAgent(r) \/ ObserveFailedWhileStopping(r)
  \/ ObserveFailedAfterAction(r) \/ ObserveFailedBeforeAction(r)
  \/ ObserveInterrupted(r) \/ ObserveStopped(r) \/ ObserveProgress(r)
------------------------------------------------------------------------------
(* Robot Service and Pilot, as far as the workflow service sees them.       *)

\* The Pilot works on s, is connected, and the handler of its events is free.
AtPilot(s) == db.exec[s].pilot \in {"start", "stop"}
CanReport(s) ==
  /\ AtPilot(s)
  /\ online[RobotOf(db, s)] /\ notify[RobotOf(db, s)] = Quiet

\* Nothing over becomes active again, and stopping yields only to an end.
Projected(was, st) ==
  IF st \in ActiveExecution /\ was \notin ActiveExecution \ {"stopping"} THEN was ELSE st

\* HandlePilotEvent: the row is read and the event projected onto what was read.
Handles(s, st, safe) ==
  notify' = [notify EXCEPT ![RobotOf(db, s)] =
    [sub |-> s, status |-> Projected(db.exec[s].status, st), safe |-> safe, saved |-> FALSE]]

Event(s, st) ==
  /\ Handles(s, st, db.exec[s].safe)
  /\ UNCHANGED <<db, run, cont, res, walk, confirm, avail, online>>

\* The Pilot is done with s; the event stream has its end before the row does.
EndEvent(s, st, safe) ==
  /\ Handles(s, st, safe)
  /\ db' = [db EXCEPT !.exec[s].pilot = st]
  /\ UNCHANGED <<run, cont, res, walk, confirm, avail, online, answered>>

\* The row is saved as it was projected, over whatever it holds by now.  An interrupted
\* Execution keeps the Pilot's pointer, one that is over clears it, whoever holds it.
SaveReported(r) ==
  LET n == notify[r]
      over == n.status \in TerminalWork
  IN /\ n.sub # 0 /\ ~n.saved
     /\ db' = [db EXCEPT !.exec[n.sub] = [@ EXCEPT !.status = n.status, !.safe = n.safe],
                         !.lock[r] = IF over THEN 0
                                     ELSE IF n.status = "interrupted" THEN n.sub ELSE @]
     /\ avail' = IF over THEN avail \cup {r} ELSE avail
     /\ notify' = [notify EXCEPT ![r].saved = TRUE]
     /\ UNCHANGED <<run, cont, res, walk, confirm, online, answered, left>>

PilotStarts(s) ==
  /\ CanReport(s) /\ db.exec[s].status = "queued"
  /\ Event(s, "running")
  /\ UNCHANGED <<answered, left>>

\* Action events are evidence; the observer ignores them, and their save of the row is
\* no other than that of a progress event.
PilotActs(s) ==
  /\ CanReport(s) /\ db.exec[s].status = "running" /\ db.exec[s].phys = "none"
  /\ \E p \in {"maybe", "started"} : db' = [db EXCEPT !.exec[s].phys = p]
  /\ UNCHANGED <<run, cont, res, walk, confirm, notify, avail, online, answered, left>>

PilotAsks(s) ==
  /\ CanReport(s) /\ db.exec[s].status = "running" /\ Spend("ask")
  /\ Event(s, "waiting_agent")
  /\ UNCHANGED answered

\* agent.resolved.
PilotResolves(s) ==
  /\ CanReport(s) /\ s \in answered /\ answered' = answered \ {s}
  /\ Event(s, "running")
  /\ UNCHANGED left

PilotCompletes(s) ==
  /\ CanReport(s) /\ db.exec[s].status \notin {"queued", "waiting_agent"}
  /\ EndEvent(s, "completed", db.exec[s].safe)
  /\ UNCHANGED left

PilotFails(s) ==
  /\ CanReport(s) /\ Spend("execfail")
  /\ \E held \in BOOLEAN : EndEvent(s, "failed", held)

\* As it was told, or of its own accord when it exits; the hold may fail.
PilotStops(s) ==
  /\ CanReport(s)
  /\ \/ db.exec[s].pilot = "stop" /\ EndEvent(s, "stopped", TRUE) /\ UNCHANGED left
     \/ Spend("execfail") /\ \E held \in BOOLEAN : EndEvent(s, "stopped", held)

\* The Pilot loses sight of the Robot or fails to stop it, or rejects the stop of an
\* Execution that it never had.
PilotInterrupts(s) ==
  /\ \/ CanReport(s) /\ db.exec[s].status \in ActiveExecution /\ Spend("execfail")
     \/ /\ db.exec[s].pilot = "nothing" /\ db.exec[s].status = "stopping"
        /\ online[RobotOf(db, s)] /\ notify[RobotOf(db, s)] = Quiet
        /\ UNCHANGED left
  /\ Event(s, "interrupted")
  /\ UNCHANGED answered

\* A heartbeat, a connection or an event of an Execution that is over saves a pointer
\* that was read before somebody else set it.
SaveStalePointer(r) ==
  /\ Spend("pointer")
  /\ \E p \in {0} \cup {s \in SubTasks : db.exec[s].status # "none" /\ RobotOf(db, s) = r} :
       p # db.lock[r] /\ db' = [db EXCEPT !.lock[r] = p]
  /\ UNCHANGED <<run, cont, res, walk, confirm, notify, avail, online, answered>>

PilotOffline(r) ==
  /\ online[r] /\ Spend("offline")
  /\ online' = [online EXCEPT ![r] = FALSE]
  /\ UNCHANGED <<db, run, cont, res, walk, confirm, notify, avail, answered>>

\* The observer is told of a row that is stored already.
Told(r, s, st, safe) ==
  notify' = [notify EXCEPT ![r] = [sub |-> s, status |-> st, safe |-> safe, saved |-> TRUE]]

\* Reconcile, for one Execution at most.  No row differs: a pointer to an Execution that
\* is over is cleared, and a Robot without a pointer is announced.
ReconcileNone(r) ==
  LET over == db.lock[r] # 0 /\ db.exec[db.lock[r]].status \in TerminalWork IN
  /\ \A s \in SubTasks :
       db.exec[s].status \in ActiveExecution /\ RobotOf(db, s) = r => AtPilot(s)
  /\ db' = [db EXCEPT !.lock[r] = IF over THEN 0 ELSE @]
  /\ avail' = IF over \/ db.lock[r] = 0 THEN avail \cup {r} ELSE avail
  /\ UNCHANGED <<notify, left>>

\* The Pilot's status replaces that of an active Execution, a stop that was lost with the
\* connection included, without a word to the observer.
ReconcileStatus(r, s) ==
  /\ db.exec[s].status \in ActiveExecution /\ RobotOf(db, s) = r
  /\ \/ AtPilot(s) /\ \E st \in {"running", "waiting_agent"} :
          db' = [db EXCEPT !.exec[s] = [@ EXCEPT !.status = st, !.pilot = "start"]]
     \/ db.exec[s].pilot = "stop" /\ db' = [db EXCEPT !.exec[s].status = "stopping"]
  /\ UNCHANGED <<notify, avail, left>>

\* The Pilot does not have it, because it never got it or because it lost it.
ReconcileMissing(r, s) ==
  LET x == db.exec[s] IN
  /\ x.status \in ActiveExecution /\ RobotOf(db, s) = r
  /\ IF AtPilot(s) THEN Spend("execfail") ELSE UNCHANGED left
  /\ db' = [db EXCEPT !.exec[s] = [x EXCEPT !.status = "interrupted",
                                            !.pilot = IF AtPilot(s) THEN "nothing" ELSE x.pilot],
                      !.lock[r] = s]
  /\ Told(r, s, "interrupted", x.safe) /\ avail' = avail

\* recoverPersistedExecutionTerminal: the end in the event stream wins over the row.
ReconcileEnd(r, s) ==
  LET x == db.exec[s] IN
  /\ x.pilot \in TerminalWork /\ x.status \notin {"completed", x.pilot} /\ RobotOf(db, s) = r
  /\ \E safe \in BOOLEAN :
       /\ db' = [db EXCEPT !.exec[s] = [x EXCEPT !.status = x.pilot, !.safe = safe],
                           !.lock[r] = IF @ = s THEN 0 ELSE @]
       /\ Told(r, s, x.pilot, safe)
  /\ avail' = IF db.lock[r] = s THEN avail \cup {r} ELSE avail
  /\ UNCHANGED left

PilotOnline(r) ==
  /\ ~online[r] /\ notify[r] = Quiet
  /\ online' = [online EXCEPT ![r] = TRUE]
  /\ \/ ReconcileNone(r)
     \/ \E s \in SubTasks : ReconcileStatus(r, s) \/ ReconcileMissing(r, s) \/ ReconcileEnd(r, s)
  /\ UNCHANGED <<run, cont, res, walk, confirm, answered>>

\* robot.run holds the admission mutex until it has sent; robot.stop waits for it.
Sending(s) == \E t \in Tasks : run[t].pc = "dispatch" /\ run[t].sub = s

\* robot.stop from a tool or the device page, beside the Workflow.
StopExecution(s) ==
  LET r == RobotOf(db, s) IN
  /\ db.exec[s].status # "none" /\ ~Sending(s) /\ Spend("stop")
  /\ \/ StopReaches(db, s) /\ db' = [db EXCEPT !.exec[s] = StopSent(@)] /\ notify' = notify
     \/ /\ db.exec[s].status \in ActiveExecution /\ ~online[r] /\ notify[r] = Quiet
        /\ db' = [db EXCEPT !.exec[s].status = "interrupted"]
        /\ Told(r, s, "interrupted", db.exec[s].safe)
  /\ UNCHANGED <<run, cont, res, walk, confirm, avail, online, answered>>

Pilot(s) ==
  \/ PilotStarts(s) \/ PilotActs(s) \/ PilotAsks(s) \/ PilotResolves(s)
  \/ PilotCompletes(s) \/ PilotFails(s) \/ PilotStops(s) \/ PilotInterrupts(s)
------------------------------------------------------------------------------
(* stopWorkflowTasks and the user's requests.                               *)

\* cancelTaskAttempt.
Cancelled(d, rs, t) ==
  IF ReservesRobot(d.task[t]) /\ rs[t].pc # "idle" THEN [rs EXCEPT ![t].cancelled = TRUE] ELSE rs

WalkTask(w) ==
  /\ walk[w].on /\ walk[w].todo # {}
  /\ LET t == Least(walk[w].todo) IN
       /\ \A s \in SubsOf(t) : db.sub[s].ref => ~Sending(s)
       /\ walk' = [walk EXCEPT ![w].todo = @ \ {t}]
       /\ run' = Cancelled(db, run, t)
       /\ db' = StopTask(db, t)
  /\ UNCHANGED <<cont, res, confirm, notify, avail, online, answered, left>>

WalkEnd(w) ==
  /\ walk[w].on /\ walk[w].todo = {}
  /\ walk' = [walk EXCEPT ![w].on = FALSE]
  /\ db' = Converge(db) /\ res' = ConvergedOwner(db, res)
  /\ UNCHANGED <<run, cont, confirm, notify, avail, online, answered, left>>

PauseWorkflow ==
  /\ db.wf.status = "running" /\ Spend("pause")
  /\ db' = TransitionWorkflow(db, "paused", "user_paused")
  /\ UNCHANGED <<run, cont, res, walk, confirm, notify, avail, online, answered>>

\* validateExplicitWorkflowResume.
CanResume(d) ==
  \/ d.wf.reason = "user_paused" /\ \A t \in Tasks : d.task[t].status # "paused"
  \/ /\ d.wf.reason = "server_restarted"
     /\ \A t \in Tasks : d.task[t].status = "paused" => d.task[t].reason = "server_restarted"
     /\ \A s \in SubTasks : d.sub[s].status = "paused" =>
                              d.sub[s].reason = "server_restarted" /\ ~d.sub[s].ref

\* The Tasks that resumePausedTasks restarts.
Resumable(d, rs) ==
  {t \in Tasks : /\ d.task[t].status = "paused" /\ rs[t].pc = "idle"
                 /\ \A u \in TaskDeps[t] : d.task[u].status = "completed"}

\* Each gets its paused steps back as pending and an Agent Run, in one loop.
ResumedTasks(d, S) ==
  [d EXCEPT
     !.sub = [s \in SubTasks |-> IF TaskOf[s] \in S
                                 THEN ResumePausedAgentSteps(d, TaskOf[s]).sub[s] ELSE d.sub[s]],
     !.task = [t \in Tasks |-> IF t \in S THEN [d.task[t] EXCEPT !.status = "running", !.reason = ""]
                               ELSE d.task[t]]]

ResumeWorkflow ==
  LET S == Resumable(db, run)
      d == ResumedTasks(TransitionWorkflow(db, "running", ""), S)
      launched == [t \in Tasks |-> IF t \in S THEN At("pick", 0) ELSE run[t]]
  IN /\ db.wf.status = "paused" /\ CanResume(db) /\ ~db.stale
     /\ db' = Schedule(d) /\ run' = Reserve(d, launched)
     /\ UNCHANGED <<cont, res, walk, confirm, notify, avail, online, answered, left>>

\* Reopens exactly the decision that failed; it never starts robot.run again.
RetryRobotAgentDecision(s) ==
  LET t == TaskOf[s]
      failed == {u \in Tasks : /\ db.task[u].status = "paused"
                               /\ db.task[u].reason = "robot_agent_decision_failed"}
      e == TransitionTask(TransitionWorkflow(db, "running", ""), t, "running", "")
  IN /\ db.wf.status = "paused" /\ db.wf.reason = "robot_agent_decision_failed"
     /\ failed = {t} /\ run[t].pc = "idle"
     /\ db.sub[s].status = "paused" /\ db.sub[s].reason = "robot_agent_decision_failed"
     /\ s \in RobotSkills /\ db.sub[s].ref /\ db.exec[s].status = "waiting_agent"
     /\ Spend("retry")
     /\ db' = TransitionSubTask(e, s, "running", "")
     /\ run' = [run EXCEPT ![t] = At("decide", s)]
     /\ UNCHANGED <<cont, res, walk, confirm, notify, avail, online, answered>>

StopWorkflow ==
  /\ db.wf.status \in {"running", "paused", "stopping"} /\ ~walk["request"].on /\ Spend("stop")
  /\ db' = TransitionWorkflow(db, "stopping", "")
  /\ walk' = [walk EXCEPT !["request"] = [on |-> TRUE, todo |-> Tasks]]
  /\ UNCHANGED <<run, cont, res, confirm, notify, avail, online, answered>>

\* ConfirmWorkflowStop fixes its targets first, then confirms them one by one.
ConfirmWorkflowStop ==
  /\ ~confirm.on /\ Spend("confirm")
  /\ db.wf.status = "stopping"
     \/ (db.wf.status = "paused" /\ db.wf.reason = "execution_state_unknown")
  /\ confirm' = [on |-> TRUE, todo |-> {s \in RobotSkills : /\ db.sub[s].ref
                                        /\ db.sub[s].status \notin TerminalWork}]
  /\ db' = IF db.wf.status = "paused" THEN TransitionWorkflow(db, "stopping", "") ELSE db
  /\ UNCHANGED <<run, cont, res, walk, notify, avail, online, answered>>

Confirmable == {"stopping", "interrupted", "failed", "stopped"}

\* ConfirmOperatorStop: a safe stop on the operator's word, observed at once.
ConfirmTarget ==
  /\ confirm.on /\ confirm.todo # {} /\ ~walk["observer"].on
  /\ LET s == Least(confirm.todo)
         r == RobotOf(db, s)
         d == [db EXCEPT !.exec[s] = [@ EXCEPT !.status = "stopped", !.safe = TRUE, !.word = TRUE],
                         !.lock[r] = IF @ = s THEN 0 ELSE @]
         goesOn == d.sub[s].status = "stopping" \/ StopConfirmed(d, s).sub[s].status = "stopping"
     IN IF db.exec[s].status \in Confirmable
        THEN /\ IF d.sub[s].status = "stopping" THEN FinishStopping(d, s) /\ walk' = walk
                                               ELSE ConfirmedStop(d, s)
             /\ avail' = IF db.lock[r] = s /\ online[r] THEN avail \cup {r} ELSE avail
             /\ confirm' = IF goesOn THEN [confirm EXCEPT !.todo = @ \ {s}]
                            ELSE [on |-> FALSE, todo |-> {}]
        ELSE confirm' = [on |-> FALSE, todo |-> {}] /\ UNCHANGED <<db, res, walk, avail>>
  /\ UNCHANGED <<run, cont, notify, online, answered, left>>

ConfirmEnd ==
  /\ confirm.on /\ confirm.todo = {} /\ ~walk["observer"].on /\ ~walk["request"].on
  /\ confirm' = [confirm EXCEPT !.on = FALSE]
  /\ LET d == IF db.wf.status = "paused" THEN TransitionWorkflow(db, "stopping", "") ELSE db IN
       /\ db' = d
       /\ walk' = IF d.wf.status = "stopping"
                  THEN [walk EXCEPT !["request"] = [on |-> TRUE, todo |-> Tasks]] ELSE walk
  /\ UNCHANGED <<run, cont, res, notify, avail, online, answered, left>>

MapChanges ==
  /\ ~db.stale /\ Spend("map")
  /\ db' = [db EXCEPT !.stale = TRUE]
  /\ UNCHANGED <<run, cont, res, walk, confirm, notify, avail, online, answered>>
------------------------------------------------------------------------------
(* RecoverInterruptedWorkflows after a Server restart.                      *)

\* Mutant of Interrupted: an Execution that was never attached is not looked for.
InterruptedUnattached(d) ==
  LET reason(s) == IF d.sub[s].ref THEN "execution_state_unknown" ELSE "server_restarted"
      lost(t) == \E s \in SubsOf(t) : d.sub[s].status = "running" /\ d.sub[s].ref
  IN [d EXCEPT
        !.sub = [s \in SubTasks |->
           IF d.sub[s].status = "running"
           THEN [d.sub[s] EXCEPT !.status = "paused", !.reason = reason(s)] ELSE d.sub[s]],
        !.task = [t \in Tasks |->
           IF d.task[t].status = "running"
           THEN [d.task[t] EXCEPT !.status = "paused",
                   !.reason = IF lost(t) THEN "execution_state_unknown" ELSE "server_restarted"]
           ELSE d.task[t]]]

\* Interrupted SubTasks and Tasks pause; an Execution found for the SubTask is
\* attached and makes its state unknown.
Interrupted(d) ==
  LET found(s) == s \in RobotSkills /\ d.exec[s].status # "none"
      reason(s) == IF d.sub[s].ref \/ found(s) THEN "execution_state_unknown" ELSE "server_restarted"
      lost(t) == \E s \in SubsOf(t) : d.sub[s].status = "running"
                                      /\ reason(s) = "execution_state_unknown"
  IN [d EXCEPT
        !.sub = [s \in SubTasks |->
           IF d.sub[s].status = "running"
           THEN [status |-> "paused", reason |-> reason(s), ref |-> d.sub[s].ref \/ found(s)]
           ELSE d.sub[s]],
        !.task = [t \in Tasks |->
           IF d.task[t].status = "running"
           THEN [d.task[t] EXCEPT !.status = "paused",
                   !.reason = IF lost(t) THEN "execution_state_unknown" ELSE "server_restarted"]
           ELSE d.task[t]]]

\* A running Workflow pauses if anything was interrupted or is paused already.
RecoveredWorkflow(d) ==
  IF /\ d.wf.status = "running"
     /\ \/ \E s \in SubTasks : d.sub[s].status = "running"
        \/ \E t \in Tasks : d.task[t].status \in {"running", "paused"}
  THEN TransitionWorkflow(Interrupted(d), "paused",
         IF \E t \in Tasks : /\ Interrupted(d).task[t].status = "paused"
                             /\ Interrupted(d).task[t].reason = "execution_state_unknown"
         THEN "execution_state_unknown" ELSE "server_restarted")
  ELSE Interrupted(d)

NoRuns == [t \in Tasks |-> Idle]

Restart ==
  /\ Spend("restart")
  /\ LET d == IF db.wf.status \in {"running", "paused"} THEN RecoveredWorkflow(db) ELSE db IN
       /\ db' = Schedule(d) /\ run' = Reserve(d, NoRuns)
  /\ walk' = [w \in Walkers |-> IF w = "request" /\ db.wf.status = "stopping"
                                 THEN [on |-> TRUE, todo |-> Tasks] ELSE [on |-> FALSE, todo |-> {}]]
  /\ cont' = [t \in Tasks |-> {}] /\ res' = 0
  /\ confirm' = [on |-> FALSE, todo |-> {}]
  /\ notify' = [r \in Robots |-> Quiet] /\ avail' = {}
  /\ online' = [r \in Robots |-> FALSE]
  /\ answered' = answered
------------------------------------------------------------------------------
Init ==
  /\ db = InitialDatabase
  /\ run = Reserve(InitialDatabase, NoRuns)
  /\ cont = [t \in Tasks |-> {}]
  /\ res = 0
  /\ walk = [w \in Walkers |-> [on |-> FALSE, todo |-> {}]]
  /\ confirm = [on |-> FALSE, todo |-> {}]
  /\ notify = [r \in Robots |-> Quiet]
  /\ avail = {}
  /\ online = [r \in Robots |-> TRUE]
  /\ answered = {}
  /\ left \in Budgets

Prepare(t) ==
  \/ BindWorker(t) \/ ResolveRobot(t) \/ NoRobotFree(t) \/ BindRobot(t) \/ BindRefused(t)
  \/ BindConflict(t) \/ WaitForResource(t)
  \/ PlanTask(t) \/ PlanFails(t) \/ PlanCancelled(t) \/ ClaimRefused(t) \/ LaunchTask(t)

Execute(t) ==
  \/ PickSubTask(t) \/ RunRobotSkill(t) \/ DispatchSends(t) \/ DispatchFails(t)
  \/ \E out \in {"ok", "error", "cancelled"} : FinishRun(t, out)

Decide(t) ==
  \/ DecideReply(t) \/ DecideFails(t) \/ DecideCancelled(t) \/ ReleaseDecision(t)
  \/ RecoveryRevises(t) \/ RecoveryFailsTask(t) \/ RecoveryDropped(t) \/ RecoveryErrs(t)

User ==
  \/ PauseWorkflow \/ ResumeWorkflow \/ StopWorkflow \/ ConfirmWorkflowStop \/ MapChanges
  \/ \E s \in SubTasks : RetryRobotAgentDecision(s) \/ StopExecution(s)

Next ==
  \/ \E t \in Tasks : Prepare(t) \/ Execute(t) \/ ContinueOrFinishTask(t) \/ Decide(t)
  \/ \E r \in Robots : SaveReported(r) \/ Observe(r) \/ RobotAvailable(r)
                      \/ PilotOffline(r) \/ PilotOnline(r) \/ SaveStalePointer(r)
  \/ \E s \in SubTasks : Pilot(s)
  \/ \E w \in Walkers : WalkTask(w) \/ WalkEnd(w)
  \/ ConfirmTarget \/ ConfirmEnd
  \/ User \/ Restart

Spec == Init /\ [][Next]_vars
==============================================================================
