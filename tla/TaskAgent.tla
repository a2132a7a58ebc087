------------------------------ MODULE TaskAgent ------------------------------
(***************************************************************************)
(* Agent Runs of a Robot Task (internal/agent/runtime/workflow_runtime.go  *)
(* with the kernel it drives: kernel/run.go, middleware.go, trace.go, the  *)
(* tool executor and the robot and interaction tools).                     *)
(*                                                                         *)
(* The Workflow service asks for a plan, an execution, a recovery or a     *)
(* decision; each call is a Run that takes the Context of the Task, talks  *)
(* to the model in exchanges, and answers the caller.  A tool call that    *)
(* times out or whose Run is cancelled goes on in a goroutine nobody waits *)
(* for.  The model, the trace recorders and the Pilot take their own time. *)
(***************************************************************************)
EXTENDS Naturals, FiniteSets

CONSTANTS AgentRuns,     \* identities of Runs of the Task
          NoAgentRun,
          MaxTurns,      \* Limits.MaxTurns of the Agent Profile
          MaxContractCorrections,
          AgentTools,    \* names of the tools a model may ask for
          AgentFaults    \* how many calls of the store or the model may fail

ASSUME TaskAgentConstants ==
  /\ NoAgentRun \notin AgentRuns /\ MaxTurns \in Nat \ {0}
  /\ MaxContractCorrections \in Nat /\ AgentFaults \in Nat

RunEnds == {"completed", "failed", "cancelled"}

VARIABLES
  agent,       \* the goroutine of a Run and its budget
  runRow,      \* run_sessions: status
  activeRun,   \* activeRuns[ContextID]
  asked,       \* Runs whose question is pending; the Task is paused for it
  calls,       \* tool calls under way; those with live = FALSE are abandoned
  admission,   \* the Robot's admission lock is held by a call of robot.run
  robotExecs,  \* Runs that created an Execution of the SubTask
  recorders,   \* Runs with a stream callback that still writes its usage
  skillReady,  \* the Skill of the SubTask is installed and enabled
  faultsLeft

taskAgentVars == <<agent, runRow, activeRun, asked, calls, admission, robotExecs,
                   recorders, skillReady, faultsLeft>>

NoRun == [pc |-> "none", purpose |-> "plan", exchange |-> 0, round |-> 0, used |-> 0,
          bad |-> FALSE, seen |-> FALSE, answer |-> "none", cancelled |-> FALSE,
          result |-> "none"]

TaInit ==
  /\ agent = [r \in AgentRuns |-> NoRun]
  /\ runRow = [r \in AgentRuns |-> "none"] /\ asked = {}
  /\ activeRun = NoAgentRun /\ calls = {} /\ admission = FALSE
  /\ robotExecs = {} /\ recorders = {}
  /\ skillReady = TRUE /\ faultsLeft = AgentFaults

----------------------------------------------------------------------------
(* What a Run may call, and how its answers are judged *)

PlanningToolAllowed(t) == t \in {"map.query", "interaction.ask"}
DecisionToolAllowed(t) == t \in {"robot.get", "map.query", "interaction.ask"}
ExecutionTools == {"robot.get", "robot.run", "map.query", "interaction.ask"}
Reads(t) == t \in {"robot.get", "map.query"}      \* left alone, it changes nothing
Guarded(p) == p # "execute"                      \* a ToolPolicy wraps its calls
ToolAllowed(p, t) ==
  CASE p = "plan" -> PlanningToolAllowed(t)
    [] p = "execute" -> t \in ExecutionTools
    [] OTHER -> DecisionToolAllowed(t)

CorrectionLimit ==
  IF MaxTurns - 1 < MaxContractCorrections THEN MaxTurns - 1 ELSE MaxContractCorrections

\* A correction is granted unless the Run is cancelled or its budget is spent.
CorrectionGranted(a) == ~a.cancelled /\ a.used < CorrectionLimit

\* A plan and a recovery may name only Skills of the catalog read before the Run.
CatalogReady(p) == p \in {"plan", "recover"} => skillReady
PlanAccepted(a) == a.answer = "fits" /\ a.seen
RecoveryAccepted(a) == a.answer = "fits" /\ a.seen
DecisionAccepted(a) == a.answer = "fits"
Accepted(a) == CASE a.purpose = "plan" -> PlanAccepted(a)
                 [] a.purpose = "recover" -> RecoveryAccepted(a)
                 [] OTHER -> DecisionAccepted(a)

Fault == faultsLeft > 0 /\ faultsLeft' = faultsLeft - 1
Set(r, new) == agent' = [agent EXCEPT ![r] = new]
LeaveContext(r) == activeRun' = IF activeRun = r THEN NoAgentRun ELSE activeRun
Return(r, result) ==
  /\ Set(r, IF agent[r].purpose # "execute" THEN [NoRun EXCEPT !.pc = "over"]
            ELSE [NoRun EXCEPT !.pc = "caller", !.purpose = "execute", !.result = result,
                               !.cancelled = agent[r].cancelled])
  /\ LeaveContext(r)
  /\ recorders' = IF result = "answer" THEN recorders ELSE recorders \ {r}

----------------------------------------------------------------------------
(* A call of the Workflow service *)

CallAgent(r, p) ==
  /\ agent[r].pc = "none" /\ CatalogReady(p)
  /\ runRow' = [runRow EXCEPT ![r] = "running"]
  /\ Set(r, [NoRun EXCEPT !.pc = "register", !.purpose = p, !.seen = skillReady])
  /\ UNCHANGED <<activeRun, asked, calls, admission, robotExecs, recorders, skillReady, faultsLeft>>

PlanTask(r) == CallAgent(r, "plan")
RecoverTask(r) == CallAgent(r, "recover")
ResolveRobotAgentRequest(r) == CallAgent(r, "decide")
ExecuteTask(r) == robotExecs = {} /\ CallAgent(r, "execute")

\* registerPurposeRun: one Run of a Context at a time; runTaskAgent ends the refused one.
RegisterRun(r) ==
  /\ agent[r].pc = "register" /\ activeRun = NoAgentRun
  /\ activeRun' = r /\ Set(r, [agent[r] EXCEPT !.pc = "prepare"])
  /\ UNCHANGED <<runRow, asked, calls, admission, robotExecs, recorders, skillReady, faultsLeft>>

RefuseRun(r) ==
  /\ agent[r].pc = "register" /\ activeRun # NoAgentRun
  /\ Return(r, "error")
  /\ runRow' = IF agent[r].purpose = "execute" THEN runRow
               ELSE [runRow EXCEPT ![r] = "failed"]
  /\ UNCHANGED <<asked, calls, admission, robotExecs, skillReady,
                 faultsLeft>>

\* The prompt is stored and the context read; the input contract comes from the Pilot.
PrepareContext(r) ==
  /\ agent[r].pc = "prepare" /\ (agent[r].purpose = "execute" => skillReady)
  /\ Set(r, [agent[r] EXCEPT !.pc = "ask"])
  /\ UNCHANGED <<runRow, activeRun, asked, calls, admission, robotExecs, recorders,
                 skillReady, faultsLeft>>

\* An error here is returned as it is: the row of the Run stays "running".
PrepareFails(r) ==
  /\ agent[r].pc = "prepare"
  /\ \/ Fault
     \/ agent[r].purpose = "execute" /\ ~skillReady /\ UNCHANGED faultsLeft
  /\ Return(r, "error")
  /\ UNCHANGED <<runRow, asked, calls, admission, robotExecs, skillReady>>

----------------------------------------------------------------------------
(* One exchange: rounds of the model and the tools it calls *)

Break(r) == Set(r, [agent[r] EXCEPT !.pc = "ended", !.answer = "error"])

\* BeforeModelRound: problems the tools reported cost one correction.
BeforeModelRound(r) ==
  LET a == agent[r] IN
  /\ a.pc = "ask" /\ ~a.cancelled /\ a.round < MaxTurns
  /\ a.bad => CorrectionGranted(a)
  /\ Set(r, [a EXCEPT !.pc = "model", !.round = @ + 1, !.bad = FALSE,
                      !.used = IF a.bad THEN @ + 1 ELSE @])
  /\ UNCHANGED <<runRow, activeRun, asked, calls, admission, robotExecs, recorders,
                 skillReady, faultsLeft>>

RefuseRound(r) ==
  LET a == agent[r] IN
  /\ a.pc = "ask"
  /\ a.cancelled \/ a.round >= MaxTurns \/ (a.bad /\ ~CorrectionGranted(a))
  /\ Break(r)
  /\ UNCHANGED <<runRow, activeRun, asked, calls, admission, robotExecs, recorders,
                 skillReady, faultsLeft>>

\* The stream of the model is copied to the recorder of its usage.
ModelAnswers(r, text) ==
  /\ agent[r].pc = "model"
  /\ recorders' = recorders \cup {r}
  /\ Set(r, [agent[r] EXCEPT !.pc = "drain", !.answer = text])
  /\ UNCHANGED <<runRow, activeRun, asked, calls, admission, robotExecs, skillReady, faultsLeft>>

\* A failed request was tried twice before any byte of the answer.
ModelFails(r) ==
  /\ agent[r].pc = "model"
  /\ \/ Fault
     \/ agent[r].cancelled /\ UNCHANGED faultsLeft
  /\ Break(r)
  /\ UNCHANGED <<runRow, activeRun, asked, calls, admission, robotExecs, recorders,
                 skillReady>>

RecordStream(r) ==
  /\ r \in recorders /\ recorders' = recorders \ {r}
  /\ UNCHANGED <<agent, runRow, activeRun, asked, calls, admission, robotExecs, skillReady, faultsLeft>>

\* pump: Done is reported after the recorders of the Run have ended.
RecordersDone(r) == r \notin recorders
EndStream(r) ==
  /\ agent[r].pc = "drain" /\ RecordersDone(r)
  /\ IF agent[r].cancelled THEN Break(r) ELSE Set(r, [agent[r] EXCEPT !.pc = "ended"])
  /\ UNCHANGED <<runRow, activeRun, asked, calls, admission, robotExecs, recorders,
                 skillReady, faultsLeft>>

Call(r, t) == [run |-> r, tool |-> t, live |-> TRUE, step |-> "start"]

ModelCallsTool(r, t) ==
  /\ agent[r].pc = "model" /\ ToolAllowed(agent[r].purpose, t)
  /\ recorders' = recorders \cup {r}
  /\ calls' = calls \cup {Call(r, t)}
  /\ Set(r, [agent[r] EXCEPT !.pc = "tool"])
  /\ UNCHANGED <<runRow, activeRun, asked, admission, robotExecs, skillReady,
                 faultsLeft>>

\* The policy answers BAD; the gate answers UNKNOWN_TOOL to a Run without a policy.
ToolRefused(r, t) ==
  /\ agent[r].pc = "model" /\ ~ToolAllowed(agent[r].purpose, t)
  /\ recorders' = recorders \cup {r}
  /\ Set(r, [agent[r] EXCEPT !.pc = "ask", !.bad = Guarded(agent[r].purpose)])
  /\ UNCHANGED <<runRow, activeRun, asked, calls, admission, robotExecs, skillReady, faultsLeft>>

\* The result of a live call reaches the model; robot.run is returned directly.
ToolResult(c, ok) ==
  IF ~c.live THEN UNCHANGED agent
  ELSE Set(c.run, [agent[c.run] EXCEPT
         !.pc = IF c.tool = "robot.run" THEN "drain" ELSE "ask",
         !.answer = IF c.tool = "robot.run" THEN "odd" ELSE @,
         !.bad = ~ok /\ Guarded(agent[c.run].purpose)])

ReadTool(c, ok) ==
  /\ c \in calls /\ Reads(c.tool)
  /\ calls' = calls \ {c} /\ ToolResult(c, ok)
  /\ UNCHANGED <<runRow, activeRun, asked, admission, robotExecs, recorders, skillReady, faultsLeft>>

\* The Task is paused first, so it has one open question; the row of the Run must be
\* running, while the context of the call is not looked at.
MayAsk(r) == asked = {} /\ runRow[r] = "running"
AskUser(c) ==
  /\ c \in calls /\ c.tool = "interaction.ask"
  /\ asked' = IF MayAsk(c.run) THEN {c.run} ELSE asked
  /\ ToolResult(c, MayAsk(c.run))
  /\ calls' = calls \ {c}
  /\ UNCHANGED <<runRow, activeRun, admission, robotExecs, recorders, skillReady,
                 faultsLeft>>

\* robot.run: the request key names the SubTask, so a repeated call finds its Execution.
RunFindsExecution(c) ==
  /\ c \in calls /\ c.tool = "robot.run" /\ c.step = "start" /\ robotExecs # {}
  /\ calls' = calls \ {c} /\ ToolResult(c, TRUE)
  /\ UNCHANGED <<runRow, activeRun, asked, admission, robotExecs, recorders, skillReady, faultsLeft>>

LookUpRequest(c) ==
  /\ c \in calls /\ c.tool = "robot.run" /\ c.step = "start" /\ robotExecs = {}
  /\ calls' = (calls \ {c}) \cup {[c EXCEPT !.step = "lock"]}
  /\ UNCHANGED <<agent, runRow, activeRun, asked, admission, robotExecs, recorders,
                 skillReady, faultsLeft>>

RunIsBusy(c) ==
  /\ c \in calls /\ c.step = "lock" /\ (admission \/ ~skillReady)
  /\ calls' = calls \ {c} /\ ToolResult(c, FALSE)
  /\ UNCHANGED <<runRow, activeRun, asked, admission, robotExecs, recorders, skillReady, faultsLeft>>

ValidateInput(c) ==
  /\ c \in calls /\ c.step = "lock" /\ ~admission /\ skillReady
  /\ admission' = TRUE
  /\ calls' = (calls \ {c}) \cup {[c EXCEPT !.step = "validate"]}
  /\ UNCHANGED <<agent, runRow, activeRun, asked, robotExecs, recorders, skillReady, faultsLeft>>

\* The Pilot refused the input, or the context of the call is over.
InputRefused(c) ==
  /\ c \in calls /\ c.step = "validate"
  /\ admission' = FALSE /\ calls' = calls \ {c} /\ ToolResult(c, FALSE)
  /\ UNCHANGED <<runRow, activeRun, asked, robotExecs, recorders, skillReady,
                 faultsLeft>>

InputValid(c) ==
  /\ c \in calls /\ c.step = "validate" /\ c.live
  /\ calls' = (calls \ {c}) \cup {[c EXCEPT !.step = "admit"]}
  /\ UNCHANGED <<agent, runRow, activeRun, asked, admission, robotExecs, recorders,
                 skillReady, faultsLeft>>

\* AdmitRobotExecution looks for the request again; a call abandoned by now still admits
\* and leaves an Execution that is stopped before its dispatch.
Admitted(r) == IF robotExecs = {} THEN {r} ELSE robotExecs
AdmitExecution(c) ==
  /\ c \in calls /\ c.step = "admit"
  /\ robotExecs' = Admitted(c.run)
  /\ admission' = FALSE /\ calls' = calls \ {c} /\ ToolResult(c, TRUE)
  /\ UNCHANGED <<runRow, activeRun, asked, recorders, skillReady, faultsLeft>>

\* ExecuteOne stops waiting: the hard limit of the tool or the end of the Run.
AbandonCall(c) ==
  /\ c \in calls /\ c.live
  /\ LET a == agent[c.run] IN
     \/ a.cancelled /\ Break(c.run) /\ UNCHANGED faultsLeft
     \/ ~a.cancelled /\ Fault
        /\ Set(c.run, [a EXCEPT !.pc = IF c.tool = "robot.run" THEN "drain" ELSE "ask",
                                !.answer = IF c.tool = "robot.run" THEN "odd" ELSE @])
  /\ calls' = (calls \ {c}) \cup
       {[x EXCEPT !.live = FALSE] : x \in {c} \cap {y \in calls : ~Reads(y.tool)}}
  /\ UNCHANGED <<runRow, activeRun, asked, admission, robotExecs, recorders, skillReady>>

----------------------------------------------------------------------------
(* The end of an exchange *)

\* runTaskAgent: an open question comes before the answer and before an error.
WaitForAnswer(r) ==
  /\ agent[r].pc = "ended" /\ agent[r].purpose # "execute" /\ r \in asked
  /\ IF runRow[r] = "running"
     THEN /\ runRow' = [runRow EXCEPT ![r] = "waiting_input"] /\ Return(r, "waiting")
     ELSE UNCHANGED runRow /\ Return(r, "error")
  /\ UNCHANGED <<asked, calls, admission, robotExecs, skillReady,
                 faultsLeft>>

NextExchange(a) == [a EXCEPT !.pc = "ask", !.exchange = @ + 1, !.round = 0,
                             !.used = @ + 1, !.answer = "none"]
MayCorrectUncounted(a) == a.exchange + 1 < MaxTurns
MayCorrect(a) == a.exchange + 1 < MaxTurns /\ CorrectionGranted(a)

ReviewAnswer(r) ==
  LET a == agent[r] IN
  /\ a.pc = "ended" /\ a.purpose # "execute" /\ r \notin asked
  /\ Set(r, IF a.answer = "error" \/ Accepted(a) THEN [a EXCEPT !.pc = "finish"]
            ELSE IF MayCorrect(a) THEN NextExchange(a)
            ELSE [a EXCEPT !.pc = "finish", !.answer = "error"])
  /\ UNCHANGED <<runRow, activeRun, asked, calls, admission, robotExecs, recorders,
                 skillReady, faultsLeft>>

FinishRun(r) ==
  LET a == agent[r] IN
  /\ a.pc = "finish"
  /\ runRow' = [runRow EXCEPT ![r] =
       IF @ \in RunEnds THEN @ ELSE IF a.answer # "error" THEN "completed"
       ELSE IF a.cancelled THEN "cancelled" ELSE "failed"]
  /\ IF a.answer = "error" \/ runRow[r] \in RunEnds THEN Return(r, "error")
     ELSE Set(r, [a EXCEPT !.pc = "append"]) /\ UNCHANGED <<activeRun, recorders>>
  /\ UNCHANGED <<asked, calls, admission, robotExecs, skillReady,
                 faultsLeft>>

\* ExecuteTask: without an Execution the Agent is asked again.
ReviewExecution(r) ==
  LET a == agent[r] IN
  /\ a.pc = "ended" /\ a.purpose = "execute"
  /\ IF a.answer = "error" THEN Return(r, "error")
     ELSE IF r \in asked THEN Return(r, "waiting")
     ELSE IF robotExecs = {} /\ ~MayCorrect(a) THEN Return(r, "error")
     ELSE /\ Set(r, IF robotExecs # {} THEN [a EXCEPT !.pc = "append"] ELSE NextExchange(a))
          /\ UNCHANGED <<activeRun, recorders>>
  /\ UNCHANGED <<runRow, asked, calls, admission, robotExecs, skillReady, faultsLeft>>

AppendAnswer(r) ==
  /\ agent[r].pc = "append"
  /\ \/ Return(r, "answer") /\ UNCHANGED faultsLeft
     \/ Fault /\ Return(r, "error")
  /\ UNCHANGED <<runRow, asked, calls, admission, robotExecs, skillReady>>

\* The deferred FinishRunSession of Workflow's executeTask: a Run that waits for its user
\* is completed if the Task is still paused, and fails the Task otherwise.
CallerEndsRun(r) ==
  /\ agent[r].pc = "caller"
  /\ runRow' = [runRow EXCEPT ![r] =
       IF @ \in RunEnds THEN @
       ELSE IF agent[r].result = "error" THEN IF agent[r].cancelled THEN "cancelled" ELSE "failed"
       ELSE IF agent[r].result = "waiting" /\ asked = {} THEN "failed" ELSE "completed"]
  /\ Set(r, [agent[r] EXCEPT !.pc = "over", !.cancelled = FALSE])
  /\ UNCHANGED <<activeRun, asked, calls, admission, robotExecs, recorders, skillReady, faultsLeft>>

----------------------------------------------------------------------------
(* The user, the Robot and a restart of the Server *)

CancelRunByID(r) ==
  /\ activeRun = r /\ runRow[r] \in {"running", "waiting_input"}
  /\ runRow' = [runRow EXCEPT ![r] = "cancelling"]
  /\ Set(r, [agent[r] EXCEPT !.cancelled = TRUE])
  /\ UNCHANGED <<activeRun, asked, calls, admission, robotExecs, recorders, skillReady, faultsLeft>>

AnswerQuestion(r) ==
  /\ r \in asked /\ asked' = asked \ {r}
  /\ UNCHANGED <<agent, runRow, activeRun, calls, admission, robotExecs, recorders,
                 skillReady, faultsLeft>>

UninstallSkill ==
  /\ skillReady /\ skillReady' = FALSE
  /\ UNCHANGED <<agent, runRow, activeRun, asked, calls, admission, robotExecs, recorders, faultsLeft>>

\* RecoverInterruptedRuns fails what ran; goroutines and locks are gone.
RestartAgents ==
  /\ Fault /\ \E r \in AgentRuns : agent[r].pc \notin {"none", "over"}
  /\ runRow' = [r \in AgentRuns |->
       CASE runRow[r] = "running" -> "failed" [] runRow[r] = "cancelling" -> "cancelled"
         [] OTHER -> runRow[r]]
  /\ agent' = [r \in AgentRuns |-> IF agent[r].pc = "none" THEN NoRun
                                   ELSE [NoRun EXCEPT !.pc = "over"]]
  /\ activeRun' = NoAgentRun /\ calls' = {} /\ admission' = FALSE
  /\ recorders' = {}
  /\ UNCHANGED <<asked, robotExecs, skillReady>>

CallEnds(c) ==
  \/ \E ok \in BOOLEAN : ReadTool(c, ok)
  \/ AskUser(c) \/ RunFindsExecution(c) \/ LookUpRequest(c) \/ RunIsBusy(c)
  \/ ValidateInput(c) \/ InputRefused(c) \/ InputValid(c) \/ AdmitExecution(c)
  \/ AbandonCall(c)

RunStep(r) ==
  \/ PlanTask(r) \/ RecoverTask(r) \/ ResolveRobotAgentRequest(r) \/ ExecuteTask(r)
  \/ RegisterRun(r) \/ RefuseRun(r) \/ PrepareContext(r) \/ PrepareFails(r)
  \/ BeforeModelRound(r) \/ RefuseRound(r)
  \/ \E text \in {"fits", "odd"} : ModelAnswers(r, text)
  \/ ModelFails(r) \/ RecordStream(r) \/ EndStream(r)
  \/ \E t \in AgentTools : ModelCallsTool(r, t) \/ ToolRefused(r, t)
  \/ WaitForAnswer(r) \/ ReviewAnswer(r) \/ FinishRun(r) \/ ReviewExecution(r)
  \/ AppendAnswer(r) \/ CallerEndsRun(r) \/ CancelRunByID(r) \/ AnswerQuestion(r)

TaNext ==
  \/ \E r \in AgentRuns : RunStep(r)
  \/ \E c \in calls : CallEnds(c)
  \/ UninstallSkill \/ RestartAgents

TaskAgentSpec == TaInit /\ [][TaNext]_taskAgentVars

----------------------------------------------------------------------------
(* Properties *)

\* contract_correction.go promises one budget of corrections for a Run, whether tools
\* reported problems or an answer broke its contract.
CorrectionsAreBounded == \A r \in AgentRuns : agent[r].used <= MaxContractCorrections

\* trace.go promises that the usage of a Run is stored before the Run is reported done
\* (WaitStreams): no completed Run has a recorder at work.
CompletedRunIsMetered ==
  \A r \in AgentRuns : runRow[r] = "completed" => r \notin recorders

\* Whatever is abandoned, corrected or cancelled, a SubTask gets one Execution, and the
\* Run that answers an execution without an error found it.
AnsweredRunHasExecution ==
  /\ Cardinality(robotExecs) <= 1
  /\ \A r \in AgentRuns : agent[r].purpose = "execute" /\ agent[r].result = "answer"
                            => robotExecs # {}

\* What a Run of the Task may spend, has spent and has started is accounted for.
RunsAreAccounted == CorrectionsAreBounded /\ CompletedRunIsMetered /\ AnsweredRunHasExecution
=============================================================================
