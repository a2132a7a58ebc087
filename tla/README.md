# Verification of the Semantic Framework

TLA+ models, TLC configurations and TLAPS proofs kept beside the Go source of the
Semantic Framework (`src/`): a Server that plans work with Agents, schedules it as
Workflows of Tasks and SubTasks, and has physical Robots carry out the steps through
Pilot processes.

## 1. Inventory

| Part | State it keeps | Operations | What makes it correct |
|---|---|---|---|
| Workflow service (`internal/workflow`) | `activeTasks` (one goroutine per Task), `activeResources` (the workspace lock), cancel functions | schedule, prepare, launch, execute, continue, observe Executions, decide, recover, pause, resume, retry, stop, confirm, recover after restart | nothing completed or stopped without evidence, one goroutine per Task, ends are final, stops converge |
| Workflow store (`internal/store/workflow.go`) | rows of workflows, tasks, subtasks with status, reason, revision, assigned Robot, execution reference | guarded transitions, assignment, planning, attachment, recovery, runnable queries | the transition tables are the only way a status changes |
| Robot admission (`internal/store/robot_admission.go`) | none of its own: three reservations over Tasks, Executions and Pilots | check, admit | one owner and one load per Robot |
| Robot service (`internal/robot`) | Executions and their event streams, Pilot rows with `current_execution_id`, sessions, pending commands, tokens | connect, heartbeat, run, stop, events, acknowledgements, reconcile, operator confirmation, Skill commands, debug orders, artifact transfer | one command stream per Robot; terminal facts are true of the Robot |
| Pilot (`internal/pilot`, `cmd/semantic-pilot`) | Skill Workers, action journal, Agent requests, locks of the Robot, packages on disk, debugs, local artifacts | start, stop, recover, actions, ask the Agent, install Skills, debug, publish files, shut down | an action is sent once, an end is quiet, what moves holds the lock, a running Skill keeps its package |
| Interaction service (`internal/interaction`) | open approvals and questions, waiters | ask, answer, expire, cancel, route | an answer counts as what it is, once |
| Agent runtime and kernel (`internal/agent`) | conversation locks, active Runs, cached Runners, Runs of Tasks, correction budgets | message, Run, approve, cancel, evict, reconfigure; plan, execute, decide, recover | one Run per conversation, cancels stick, budgets hold, nobody blocks a conversation |
| Event bus, aggregator, hub (`internal/event`, `internal/server`) | subscriptions with channel and backlog, the sequenced event log, connections | publish, store, broadcast, snapshot, sync, replay | FIFO; a synchronised client has no holes; a slow reader blocks nobody |
| Simulation (`internal/simulation`) | Runtime processes, the slot of each Project, leases of tabs; scene documents, bundles, catalogs | ensure, start, stop, switch, release, recover; edit, build, publish | slot and Runtime agree; stored documents are sound |
| Managed Robots (`internal/robotruntime`, `internal/bootstrap`) | instance records, port leases, supervisors | start, stop, sweep, reclaim | one running instance per Robot, one instance per port |
| Semantic map (`internal/store/semantic_map.go`) | generations, entities, relations, links to simulated things | edit, query, snapshot, checkpoint | edits are made on what was seen, what a user put is kept, views closed |
| MCP registry (`internal/mcpregistry`, `pkg/mcp`) | items, catalog, pooled connections with a circuit | synchronise, notify, call | a change of the tools is not missed |
| Installers (`cmd/semantic`, `internal/install`) | packs, environments, catalogs, manifests; inbox records, receipts, bindings | install, upgrade, uninstall; import, install, bind, roll back, remove | what is visible is complete; what is in use is installed |
| Artifact store (`internal/store/artifact.go`) | content files and rows | put, refer, delete | a reference leads somewhere |
| Plan proposals (`internal/store/plan_proposal.go`, `internal/workflow/proposal.go`, `plan.suggest`) | rows of proposals, the submission a Run is bound to | submit, revise, read, approve, discard | one plan per Project, approved as it was shown, submitted once per Run |
| Settings, metering, migrations | rows | CRUD | data rather than protocol |

How they interact. The workflow service calls the Agent runtime for every plan, step,
decision and recovery (long calls; anything may happen meanwhile). A Robot Agent calls
`robot.run`, which Robot Service admits in one store transaction and sends to the Pilot.
Pilot events are persisted by Robot Service, which then calls the workflow service back
(`OnRobotExecutionChanged`) with a snapshot of the Execution, and separately announces
Robots that became free (`OnRobotAvailabilityChanged`). The user pauses, resumes, stops
and confirms through HTTP handlers at any time. The Server may die between any two store
transactions; everything that is not in the store is then gone.

Conversations share the Agent runtime and the Interaction service with the Workflows: a
Task's Run may belong to a conversation, and an answer may resume a Task. Every committed
change is published on the bus, stored by the aggregator and pushed to the Studio. The
Studio's tabs hold the lease of a simulation scene, whose start launches the Robots that
Pilots then serve.

The hard parts are therefore the races between the goroutine of a Task, the observer, the
stop walk and the user; decisions made on a state that has moved on; work that is physical
and must be neither replayed nor declared stopped on no evidence; wake-ups that pass
while nobody listens; locks held across waits; file systems changed by commands that may
be killed between two statements; and replies that are lost after the deed was done.
`PROJECT.json` lists them as hazards, each at its line.

## 2. Modules

| Module | Models | Lines it translates |
|---|---|---|
| `WorkflowStore` | the database of one confirmed Workflow and the store methods as functions on it | `internal/store/workflow.go`, `robot_admission.go` |
| `WorkflowEngine` | the workflow service, one action per step between two points at which another goroutine may run; Robot Service and Pilot as far as the workflow service meets them | `internal/workflow/*.go`, parts of `internal/robot/service.go`, `internal/agent/runtime/workflow_runtime.go` |
| `WorkflowProperties` | invariants, action properties, fairness, liveness | – |
| `MCWorkflow` | the plans and budgets TLC uses | – |
| `RobotLink` | Robot Service, the Pilot of one Robot and the connection between them, statement by statement, with its properties | `internal/robot/service.go`, `gateway.go`, `internal/pilot/remote.go`, `runtime.go`, `internal/store/robot_admission.go` |
| `MCRobotLink` | the budgets TLC uses for it | – |
| `Conversations` | one conversation: messages, Runs, cached Runner, approvals, questions, Task Runs, its Project | `internal/agent/runtime/service*.go`, `interaction_resume.go`, `internal/interaction`, `internal/store/chat.go`, `project.go`, `interaction.go` |
| `EventQueue` | what the bus promises a subscriber: a FIFO queue | abstract specification |
| `EventStream` | bus, aggregator, event log, hub, connections and the client's view; shown to implement `EventQueue` | `internal/event`, `internal/server/aggregate`, `internal/server/ws`, `internal/store/events.go`, `studio.go` |
| `RobotInstances` | the Robots a scene launches, their supervisors and ports | `internal/robotruntime`, `internal/bootstrap/managed_robot_runtime.go`, `internal/store/robot_runtime.go` |
| `SimulationScenes` | Runtimes, scenes, leases; EXTENDS and composes `RobotInstances` | `internal/simulation/service.go`, `registry.go`, `project_*.go`, `catalog_launch.go` |
| `PilotSkills` | one Robot on its Pilot: command loop, Workers, handlers, journal, Abilities, shutdown | `internal/pilot/runtime.go`, `runner.go`, `supervisor.go`, `store.go`, `cmd/semantic-pilot/main.go` |
| `RuntimeInstall` | packs, environments, catalogs and manifests under the Runtime commands | `cmd/semantic/runtime*.go` |
| `ComponentInstall` | import inbox, install jobs, receipts, bindings, launches | `internal/install`, `internal/bootstrap/component_*.go` |
| `SceneAuthoring` | scene documents, bundles and catalogs of a Project | `internal/simulation/authoring.go` and its neighbours |
| `SkillPackages` | a Robot Skill from the registry to the Pilot's disk | `internal/robot/service.go`, `enrollment.go`, `internal/pilot/skill*.go` |
| `PlanProposals` | the plan of a Project from `plan.suggest` to the Workflow an approval makes | `internal/store/plan_proposal.go`, `internal/workflow/proposal.go`, `internal/tool/builtin/plan_suggest.go` and their callers |
| `TaskAgent` | the Agent Runs of a Task: rounds, tools, corrections, questions, `robot.run` | `internal/agent/runtime/workflow_runtime.go`, `contract_correction.go`, `internal/agent/kernel`, `internal/tool` |
| `SemanticMaps` | generations, edits, queries, checkpoints | `internal/store/semantic_map.go`, `internal/bootstrap/simulation_map_sync.go` |
| `AbilityDebug` | debug invocations on a Pilot | `internal/pilot/abilitydebug.go` |
| `Artifacts` | artifact store and the transfer from and to a Pilot | `internal/store/artifact.go`, `internal/pilot/artifact.go`, `internal/robot/service.go` |
| `McpTools` | connection pool, catalog, synchronisation items | `internal/mcpregistry`, `pkg/mcp` |
| `MCAssembly` | `RuntimeInstall`, `ComponentInstall`, `SceneAuthoring`, `SkillPackages`, `PlanProposals` in one run | – |
| `MCOperations` | `TaskAgent`, `SemanticMaps`, `AbilityDebug`, `Artifacts`, `McpTools` in one run | – |
| `MCConversations`, `MCStream`, `MCScenes`, `MCPilot` | instances of the modules above | – |
| `WorkflowProofs`, `RobotLinkProofs`, `PilotProofs`, `ConversationsProofs`, `ScenesProofs`, `EventStreamProofs` | the TLAPS proofs about the module of that name (`ScenesProofs` about `RobotInstances` and `SimulationScenes`) | – |
| `AssemblyProofs`, `OperationsProofs` | the TLAPS proofs about the parts of `MCAssembly` and of `MCOperations` | – |

The parts of `MCAssembly` and of `MCOperations` share no state in the code. The run picks
one of them in its initial state (`part`) and lets it take all the steps; the others stay
as they begin. Each part could be run alone from its own `Init` and `Next`.

### State of WorkflowEngine

`db` is the store: `wf`, `task`, `sub` are the rows; `exec[s]` is the Execution of
SubTask `s` (there is at most one, because the request key of `robot.run` is derived from
workflow, task and subtask), with `phys` and `safe` for what its event stream proves of
physical actions and of the hold, `word` for an operator's confirmation of its stop, and
`pilot` for what the Pilot has of it: nothing, a start, a stop, or the end it reported;
`lock[r]` is the Pilot's `current_execution_id`, a pointer that may be set back to something
stale; `stale` says that the approved map generation is gone. `run[t]` is the entry of Task
`t` in `activeTasks`: the phase of its one goroutine, the SubTask it works on, whether it was
cancelled, and whether the Task row is still the revision it read. `cont[t]` holds the calls
of `continueOrFinishTask` under way, each `called` or with what it means to do (`launch`,
`decide`) since it looked; two calls of one Task in the same situation count as one. `res` is
`activeResources`, `walk` the two `stopWorkflowTasks` loops (the request's and the
observer's), `confirm` the operator confirmation loop, `notify[r]` the Pilot event being
handled, from the read of the row over its save to the observer call, `avail` the
availability calls under way, `online` the Pilot sessions, `answered` the `agent.reply`
commands the Pilot has not consumed.

### Actions of WorkflowEngine

`Prepare(t)` is `prepareAndLaunchTask` split at the resolution call, the assignment
transaction, the planning call and the workspace claim. `Execute(t)` is `executeTask`:
`PickSubTask`, `RunRobotSkill` (the admission transaction of `robot.run`), `DispatchSends` or
`DispatchFails` (its pointer and its command), and `FinishRun`, the return of the executor
with everything up to the deferred release. `ContinueOrFinishTask(t)` is the call after it
and after an observed end: it finds the Task over or complete (`ContinueNotRunning`,
`ContinueCompletes`) or reads the SubTasks (`ContinueLooks`), and reserves the Task in a
later step on what it read (`ContinueDecides`, `ContinueLaunches`), as the code does. `Decide(t)`
holds the decision Run and the recovery Run. `Pilot(s)` is an event of the Pilot as
`HandlePilotEvent` begins with it, reading the row (`Event`, `EndEvent`); `SaveReported(r)`
saves what it made of that row, over whatever others wrote meanwhile, and clears the pointer
of an end whoever holds it; `Observe(r)` is `OnRobotExecutionChanged`, one action per event
kind. `SaveStalePointer(r)` is the late save of a pointer by `Heartbeat` or `connect`;
`PilotOnline(r)` is a registration with its `Reconcile`, which finds nothing, takes over a
status, interrupts what the Pilot does not have, or stores an end the Pilot logged.
`StopExecution(s)` is `robot.stop`. `User` holds the requests; `WalkTask`, `WalkEnd`,
`ConfirmTarget`, `ConfirmEnd` are the loops they start. `Restart` loses everything but the
store and runs `RecoverInterruptedWorkflows`.

### Abstractions

* Revisions are not numbers. A store method reads and writes in one transaction, so its
  revision check can fail only against a snapshot taken earlier; the one snapshot that
  crosses a step is the Task row of `prepareAndLaunchTask`, kept as `run[t].fresh`.
* Texts, arguments, results and artifacts are left out. Reasons are kept where a guard
  reads them.
* In `WorkflowEngine` the steps of Robot Service are those between which the workflow
  service can meet it: admission and dispatch, the read, the save and the observer call of an
  event, the late save of a pointer. One step each are `robot.stop` and the reconciliation of
  one Execution; `RobotLink` has both statement by statement. A registration reconciles one
  Execution of the Robot; another is left as after a connection that was lost again.
* One event per Robot is handled at a time, as Pilot events of one session are
  handled in order.
* The Workflow is one; other Workflows would appear only as further Tasks that compete
  for the same Robots, which the two-Task instances contain.

### RobotLink

On the Server `exec`, `log` and `row` are the Execution rows, their terminal events and
the Pilot row; `session` is the session with its own copy of the row; `run`, `stop`, `op`,
`gw` and `cn` are the program counters of `Run`, `Stop`, a confirmation, the gateway loop
and `connect`; `write` holds the rows that were saved and not yet copied into the session;
`pending` are the registered commands. `link`, `down` and `up` are the connection. On the
Pilot `work` are the Skill Executions, `busy` is `activeRobots`, `live` the `active` map,
`hand` the command being carried out, `beat` a heartbeat between its query and its write.

`Run` and `Stop` hold the Robot's admission mutex, nothing else does. Each action is one
statement on shared state: the read of a row, its save, the channel send, the registration
of the command after the send. A connection that is lost leaves a stale session, to which
commands can still be sent, until the gateway notices or the Pilot registers again. An
orderly end of the Pilot stops its work after the connection is closed, so its events are
lost like those of a crash. `waiting_agent` counts as running and `starting` as queued.

### Conversations

A Run is also the thread of `handleMessageWithMode` that carries it; `pc[r]` is where the
thread stands, `gate` is the `sessionLocks` entry it holds. Every store transaction, every
release of `Service.mu` and every wait (model, approval, timer) ends a step. `projects`,
`chat`, `runs`, `talk` and `asks` survive a restart. Approvals, the structured questions
and their routing to a new Run share one table of Interactions, as in the code. A user
cancels by conversation, which meets its active Run, or by Run (`HandleCancelRun`), which
meets any stored one, also one that is over.

### EventStream and EventQueue

A change is written, then published; `outbox`, `backlog`, `flight` and `wake` are the
subscription of the aggregator, `agg` is the aggregator between insert, look-up of targets
and delivery, `conn` a socket with its send buffer and replay, `view` what the client has
made of Snapshot and events. `Pending` maps channel, forwarder and backlog onto the queue
of `EventQueue`, and `BusIsFifo` is that specification.

### RobotInstances and SimulationScenes

Instance `<<s, b>>` is Robot `b` in scene `s`, as the ID is made of both. `busy[b]` is the
Robot lock of the orchestrator, `starter` the goroutine of `StartSceneRobots`, `sweep` the
loop of `StopSceneRobots` or `Shutdown`. Supervisors have process groups of their own and
survive the Server. `SimulationScenes` adds the Runtimes (external processes that run one
scene), the `slot` of each Project, `stateMu` (`mutex`), the observers of starts and the
lease with its timer; a scene operation stops the Robots of the scene under `stateMu`. The
Runtime's own hold may fail although it serves. A reset waits in `HoldSceneRobots` until the
Pilots of the scene are connected and have stopped and waited for what they run; one that
is offline or does not stop refuses it. A start whose catalog cannot be saved
(`StartCatalogScene`) stops the scene again. A reclaim is two steps: `BeginReclaim` takes
the Robot lock and orders the old processes to end, `EndReclaim` follows when they did, which
may be never. A stop, a start and a reset may each lose the Runtime's answer, or fail to save,
after the Runtime has done it, and a recovery follows a probe that merely failed. What such a
step leaves is written down in two history variables no action looks at: `cut` are the scenes
that ended while the slot still names them, `astray` those that go on while no slot does,
under an adopted Runtime that the recovery gave up for instance.

### PilotSkills

One goroutine handles the requests of a Worker one by one, one waits for `skill.run`; the
command loop takes one command at a time. A Worker that exits is restarted once while the
handler of the old one may be at work. Every call to an Ability, a Worker or the Agent
ends a step. Assumed of what is not in `src/`: a Worker executes one physical Action,
may ask the Agent and checkpoint, begins no other Action after `skill.stop` and then
executes its stop Action; it writes its requests in order; an Ability starts an invocation
at most once and ends it by itself or when halted.

### The installers, authoring and plans (`MCAssembly`)

* `RuntimeInstall`: the state is the file system. Each statement that changes a directory
  is a step, a command can fail or be killed between any two, two installations may share
  a pack, and a pack of a known version may come with other content. Commands do not
  overlap: two command lines at once are not excluded by the code and are not modelled.
* `ComponentInstall`: `Inbox.mu`, the mutex of the jobs and `ComponentStore.mu` are kept as
  what excludes what; the launcher's own `ComponentStore` excludes nobody, so launches
  run beside everything. `InspectArchive` sorts what came by its root
  manifest; `HandleBindComponents` and `HandleRollbackComponents` change what is bound,
  the latter for a managed Robot only.
* `SceneAuthoring`: the service has no lock. Each request reads the file, decides and
  writes, with other requests in between; the validation works on what was read. A refresh
  of the catalog is refused when the bundle is of another Runtime profile than the Project.
* `SkillPackages`: every acknowledgement and every status starts a goroutine that compares
  desired and actual rows; the Pilot's command loop, its disk and its catalog in memory are
  separate. Folders may be whole, broken or hollow after a cut-off removal. `PartOf` names
  the pairs of versions of which one's name is within the other's.
* `PlanProposals`: a call of `plan.suggest` is the checks before the transaction
  (`SuggestPlan`) and the transaction (`SubmitPlanProposalForRun`), with anything in
  between; a call whose caller timed out goes on, and the model may call again. An answer
  of the user is likewise the request with its first checks (`HandlePlanProposalAction`)
  and the transaction, of the revision the tab shows. One response of the model may call
  `plan.suggest` several times; once a call of it has succeeded the Run ends before its
  next round (`BeforeModelRound`). A tab reads at any time, and an event
  that reaches it is such a reading, so screens may be stale. `written` is a history of the
  revisions that Runs wrote, and `shown` in a Workflow the plan its user saw; no action
  looks at either.

### The operations (`MCOperations`)

* `TaskAgent`: `agent[r]` is the goroutine of a Run with its exchange, round and
  corrections; `calls` are the tool calls, abandoned ones included (`live = FALSE`), which
  still act on the Robot; `recorders` write usage after the stream has ended.
* `SemanticMaps`: reads are single statements, an update or a new generation is one
  transaction that comes after a read of the row and compares it. `manual` are the rows as
  users put them: a checkpoint preserves their pose and annotations, and a user's removal of
  what the simulation still reports is not one of them.
* `AbilityDebug`: a debug row is written by the command loop (`handler`: a start, a stop)
  and by the goroutine that polls (`monitor`), each from what it read or was told in an
  earlier step: `StopReads` and `StopSaves` are the two ends of a stop that may overwrite
  what the goroutine saved between them, `MonitorPolls`, `MonitorChecks` and `MonitorSaves`
  the three of a poll. `invocation` is what the Ability does, and it may begin long after
  its caller gave up. A shutdown stops what was active when it began (`leaving`); `Recover`
  polls what a crash left. Orders are lost with the connection (`DebugLinkDrops`); a row
  that cannot be written is not (`Noted`). `SkillStarts` is there because a Skill is not
  refused for a debug, while a debug is refused for a Skill.
* `Artifacts`: content and row are separate, written in this order (`ContentWritten`,
  `RowInserted`) and removed in the other; the Pilot's entries and the Server's tokens are
  in memory only. A request loop of the Execution publishes in the steps of `pub`: no entry
  for the path is found, an entry is made, it is announced, or the announcement fails and the
  entry as it was made is then saved as failed, over what an upload may have made of it.
  After `restartWorker` two loops publish, the old one what it still has. The Server maps
  an upload in a step of its own (`filing`) and then replies. Admission (`admitted`)
  authorises downloads with the start command, which the Pilot takes like an upload command;
  a command to a Pilot that is not linked, or whose queue is full, is dropped. `ToolArts`
  have no owner and are neither deleted nor attached by a user; only `Images` are attached.
* `McpTools`: a configuration change cancels the item before, whose goroutine finishes what
  it holds. It keeps the pool key, as a change of the risk class or a new registration of
  the same server does.

## 3. Runs

Every instance fixes a plan or a set of participants and a *budget*: how often users act
and how often each fault may occur. Budgets bound what the code does not bound; everything
else is explored exhaustively. Deadlock is not checked because a finished Workflow, an
idle Server or a used-up budget may stop.

| Run | Instance and budget | Shows |
|---|---|---|
| `shared_robot` | two Robot Tasks, one Robot, a replacement step; any two of stop, Execution failure and restart, or a late pointer with a stop or an unconfirmed dispatch | `TypeOK`, `CompletionNeedsEvidence`, `RobotOwnedByOneTask`, `StopNeedsEvidence`, `EndsAreFinal` |
| `one_robot` | one Task: robot skill, agent step, replacement skill; six budgets: two questions, retry, Agent error, stop, Pilot loss, undelivered command; or failure, Agent error, retry, stop; or pause, stop, confirm, undelivered command, restart and failure or Pilot loss; or stop, confirm, failure, Pilot loss; or stop, restart and a late pointer | `StoppedWorkflowIsQuiet`, `NeverReplayed` |
| `convergence` | a Robot Task and an Agent Task that both write the workspace, fair; two questions, an Agent error and a retry, or a question and a stop, or a pause and a map change | `WorkspaceExclusive`, `StopConverges`, `DecisionArrives` |
| `step_boundary` | one Task with two robot skills and a replacement skill, no request and no fault | refutes `RobotStepIsAlone` |
| `robot_link` | two interchangeable Executions on one Robot, command channel of two; any two of: a stop, confirmation or heartbeat; a lost connection, Server crash or Pilot restart; a failure | `EndsAreTrue`, `StopFollowsStart`, `OneWorker` |
| `conversations` | two messages, one approval or question, fair; a question left by an earlier Run and two outside events, or none and one | `ConversationIsExclusive`, `AnswersCountOnce`, `CancelIsNotLost`, `ConversationIsReleased` |
| `event_stream` | three changes (one a delta, one a trace), one client, buffers of one, one fault, fair | `ViewIsComplete`, `BusIsFifo`, `EventsAreStored` |
| `scenes` | two scenes, two Runtimes, one port; one Project with a Robot and three operations, or two and a mishap, or without Robots two operations and two mishaps; two Projects that share a Robot, or compete for the Runtimes only, and a mishap; fair | `InstancesAreExclusive`, `SlotMatchesRuntime`, `StateLockIsReleased` |
| `pilot` | one Execution, nine budgets of Agent requests, checkpoints, stops, faults, a crash, a shutdown, fair | `ActionIsSentOnce`, `EndsAreQuiet`, `MovingIsLocked`, `StopReturns` |
| `safe_report` | one Execution, one fault, a shutdown | refutes `SafeReportIsTrue` |
| `assembly` | two installations and versions with two contents, three commands, one kill; two Abilities, a catalog and a scene package, four operations, or three and a crash; two documents and editors, four requests, one restart; two Skill versions, one's name within the other's, three operations, or two and a fault; two conversations of a Project and another Project, three Runs, three plans that share a Task or have a cycle, two calls, two tabs, two operations, or one and a fault | `InstallationsAreWhole`, `ComponentsAreConsistent`, `AuthoringIsSound`, `SkillsAreConsistent`, `PlansAreReviewed` |
| `operations` | two Runs with two exchanges, one correction, and questions to the user or one fault; two entities, a relation, a thing, one user and one checkpoint; two debugs, three stops and faults, at most two of each; three artifacts, one of them an image and one of a tool, a file, two request loops, three operations and faults, at most two of each; two items, two lists, two connections and a caller | `RunsAreAccounted`, `PutsAreKept`, `DebugEndIsQuiet`, `ReferencesHold`, `ChangeIsNotMissed` |

Why the bounds suffice. The Workflow races need at most two Tasks (one Robot, one
workspace), two SubTasks of a Task plus one replacement (one step open, one to be started
wrongly, one inserted by recovery) and one occurrence of each fault; a second question is
allowed because a reply to the first may be outstanding, or the gate of its decision still
held, when the second is asked. In
`robot_link` the second Execution is there to be harmed by what is left of the first; its
budgets put every two of a request, a broken process or connection and a failure at every
point of every call. Executions are exchangeable, hence the symmetry; so are, in
`assembly`, the installations, the editors, the tabs and the two Runs of one conversation,
and in `operations` the two Runs, debugs, request loops, connections and local ids. A
behaviour of those two runs belongs to one part, so exchanging the members of all parts at
once identifies the states that exchanging them part by part does, with fewer
permutations to try. Most parts that count operations and faults do not combine the
largest numbers of both: an operation less leaves room for the fault.

In the other runs two of whatever competes are present (messages, Projects, Workers,
editors, versions, Runs, items), buffers have room for one, so that full and empty both
occur and the backlog is used, and the faults of a behaviour are as many as the code's
recovery distinguishes: the `pilot` budgets pair each fault with each request that it can
meet, and two generations of Workers are all that `restartWorker` allows. Every property
has a mutant of a mapped definition that violates it within these bounds.

### Fairness

* Workflows (`Fairness`): the Go scheduler runs every goroutine that can run, model calls return (they
  carry a timeout), an event is saved and observed by synchronous calls of a live connection, a connected
  Pilot drives its Execution on, and an offline Pilot reconnects (`runConnection` retries
  for ever).
* `ConvFairness`: the threads of Runs run and their timers fire, requests that began are
  finished. No message, answer or cancel is fair.
* `StreamFairness`: the goroutines of bus, aggregator and replay run, `writePump` writes or
  times out and closes. `Deliver` is strongly fair per client, because the send buffer is
  full again and again while `enqueue` waits in its select; Go's channel queues are FIFO.
* `ScenesFairness`: the goroutines of the Robots run (a start has a deadline) and whoever
  holds `stateMu` goes on. Not fair are the two waits that have no deadline of their own: for
  the Pilots of a scene before a reset, and for the old processes of a Robot in a reclaim.
  `StateLockIsReleased` therefore ends in a free lock or in a holder that waits for one of
  them (`HolderWaits`).
* `PilotFairness`: the goroutines run, calls of an Ability return because they carry a
  timeout, an Ability ends its invocations, a Worker answers `skill.stop` or dies.

Users, faults and everything that spends a budget are not fair. `assembly` and
`operations` state no liveness: what follows a lost reply there is a later request.

### The refuted properties

`SafeReportIsTrue` (`cmd/semantic-pilot/main.go:238`). The report of a Pilot that shuts
down is "safe, hold confirmed" when no stop failed. Interrupted Executions are on no list
that is stopped, and the active invocations that are listed are not looked at: an
Execution whose Action was left moving is reported as a confirmed hold.

`RobotStepIsAlone` (`scheduler.go:594`). While a SubTask is in flight the Task "must wait for
the terminal event" ("必须等待终态事件后再推进", 565-566). The Agent Run and the observer of the end
each call `continueOrFinishTask`, which reads the SubTasks (541), reads what is runnable (590)
and reserves the Task (594) without reading again; `executeTask` then takes what
`ListRunnableSubTasks` offers (391), which looks at pending rows only. A call that is late by
one Agent Run starts the next SubTask beside the Execution of the one before. Only the
Robot's own reservation keeps the two apart on the machine.

### Behaviour that the code does not keep, without a run of its own

These were met while modelling; the models behave as the code does, and no property above
depends on the opposite. Where a comment promises otherwise it is quoted.

Workflows:

* When one Task fails, `stopPendingWork` (`scheduler.go:790`) stops the pending SubTasks of
  every Task, running ones included; such a Task then finds no active SubTask and
  completes ("全部完成时收敛 Task", 522-523). `CompletionNeedsEvidence` therefore speaks of
  Tasks only while the Workflow has not failed.
* A stop between `robot.run` and the attachment of the Execution (`scheduler.go:887`) finds
  no reference, ends SubTask, Task and Workflow as stopped and sends no stop ("避免在任务层
  伪造物理设备已经停止", `types.go:163`). `StopNeedsEvidence` speaks of attached Executions.
* Of an Execution that asks again before `ReleaseDecision` the decision is never made: the
  goroutine gives back the gate without calling `continueOrFinishTask`
  (`robot_execution.go:312-326`), and the call of the second question found the gate held. A
  call of `continueOrFinishTask` that is late by a whole SubTask may likewise hold the gate,
  for a decision that is no longer due, while the next question comes. `DecisionArrives`
  speaks of questions that come while the Agent Run holds the gate and no call is late.
* `finishConfirmedRobotStop` for a SubTask that has already ended takes a paused Task and
  Workflow to stopping; its last transition is then refused and nobody passes the stop on.
  The Workflow stays stopping until the user stops it again. `StopConverges` speaks of stops
  that are passed on.
* `claimTaskResources` promises that two Tasks which write never change the same directory
  at once ("也不能让两个写 Task 并发修改同一目录", `scheduler.go:172-173`). The claim is kept in
  memory and is lost with the process; `resumePausedTasks` (1158-1178) launches the paused
  Tasks with the gate of each but without the claim, so after a restart and a resume two
  writers of one workspace run. Up to the first restart the claim holds, which is what
  `WorkspaceExclusive` says.
* A launch refused after `claimTaskResources` gives back the gate but not the workspace
  (`scheduler.go:259-268`), nor does a late `continueOrFinishTask` whose Task was ended
  between its claim and its launch. The other way round, an observer that ends a Task gives the
  workspace back while an Agent Run of that Task may still be on its way to its end:
  `WorkspaceExclusive` counts the Tasks that are running, not the Runs.
* The availability edge of a Robot may pass between the failed resolution and the
  `waiting_resource` mark (226-235); there is no later edge or poll. The workspace is no
  better: between a refused claim and the mark (248-255) the owner may finish, release it and
  call `schedule`, which passes over the Task because its gate is still held. A last waiting
  Task then stays pending under a Workflow that is running. For both reasons nothing is said of
  the completion of a Workflow.
* `convergeStoppedWorkflow` does not look at pending Tasks (1115-1123): a crash before the
  walk reaches such a Task leaves its Robot reserved, because
  `RecoverInterruptedWorkflows` visits unfinished Workflows only.
* A restart under a user pause leaves Tasks paused as `server_restarted` under the reason
  `user_paused`, which `validateExplicitWorkflowResume` (`service.go:415`) refuses.
* A fast failure that finds the gate held gets no recovery Run
  (619); a Workflow whose last Task completed under a pause is set running by
  `ResumeWorkflow` and nobody completes it (`service.go:102`).
* The checks of a Project, a conversation and a map come before the transactions of a plan
  (`plan_proposal.go:97-111`, `workflow/proposal.go:86`): a call begun earlier makes or
  revises the proposal of a Project that was left meanwhile, and a Workflow may begin on a
  map generation that is gone.
* A pause for `map_generation_changed` cannot be resumed, and an Execution that completed
  across a restart leaves its Task paused.

Robot service and link:

* `HandlePilotEvent` reads the row (`robot/service.go:1226`) and saves what it made of it (1319,
  no revision is checked) without the admission mutex that `Stop` holds (909-946): an event that
  read running is saved over a stopping that was stored in between, although accepting a stop
  is called a one-way boundary ("Server 已经接受停止意图后的单向边界", 1275-1278). The
  Execution goes on and the SubTask waits for its end, which `StopConverges` then rests on.
* A stop lost with the connection is undone by `Reconcile` (1475), which takes over the
  Pilot's running or waiting_agent; an Execution that waits for its Agent then waits for
  ever under a Workflow that is stopping. `StopConverges` speaks of connected Pilots.
* `Stop` saves the row it read before a terminal event was stored (943), although
  "a late stop cannot overwrite a terminal event" (912-913): the event handler does not
  take the admission mutex. A confirmation read early and saved late does the same, and an
  event read before a confirmation is saved over it, hence `word` in `StopNeedsEvidence`.
* The refusal of a start may arrive before `sendCommand` has registered the command, and
  the Execution stays queued (393); a late event of an Execution that is over clears the
  pointer whichever Execution holds it (1330); a heartbeat composed before a terminal event
  names the finished Execution again (340); `connect` saves a pointer it read before
  `robot.run` set another (207); a `reconcile.request` answered before a start that is
  behind it interrupts the Execution about to run (1459). The pointer of a Robot is thus no
  proof of what it carries, and two Executions of one Robot can be active in the database; the
  Pilot still works on one (`OneWorker`), and the Robot belongs to one Task
  (`RobotOwnedByOneTask`), whatever the pointer says.

Pilot:

* `activePhysical` is checked and set in two critical sections (`runner.go:96-103`,
  127-131): the handler of an Execution that was given up meanwhile may take the Robot from
  the Action of another. `MovingIsLocked` and `EndsAreQuiet` speak of Executions beside
  which no other was given up. An interrupted physical Action does not hold the Robot after a restart
  (`runner.go:50-66`, `store.go:220-241`), although "确认前 Robot 锁保持占用" (`runner.go:231`).
  `EndsAreQuiet` and `MovingIsLocked` therefore end with the first restart.
* A checkpoint or Stage event writes the status it read over "stopping"
  (`runtime.go:604-640`); an Action still inside `StartTask` is not in the snapshot of Stop
  (341-346); a `StopOutcome` stored before a crash counts as fresh evidence (363-371).
* The command loop carries out one command at a time, so a Stop delays `agent.reply`; the
  handler serves one request at a time, so hold waits behind a poll of an Action.
* The start of a Skill does not look at Ability debugging (`runtime.go:222`).
* A confirmed end of a debug is overwritten by Stop or the monitor
  (`abilitydebug.go:158-165`, 226-240); a debug whose start never reached the Ability stays
  interrupted and locks debugging.

Conversations and events:

* A tool approval answered over the socket (`interaction/service.go:294-330`) is never
  marked handled; after a restart it starts a Run. A question cannot be answered once
  another message has moved the revision. `CancelSession` wakes a waiter with "cancelled"
  although the stored answer approved.
* A stale Runner is reused while a Task Run keeps the session busy
  (`agent/runtime/service.go:219-221`); `EvictSession` misses a Run that is created and not
  yet registered (734-735).
* A crash between a commit and its stored event loses the event; live events interleave
  with a replay.

Simulation and managed Robots:

* `ReleaseProject` (`project_resources.go:453-466`) calls `StopManaged` even when the stop of
  the scene failed or another Project's scene runs there.
* `EnsureProjectRuntime` rewrites the installation under an active scene (385), and a start
  checks the profile and not the installation of the scene that is active
  (`service.go:307`): the slot then names a Runtime that does not run the scene, and the
  scene goes on where nobody looks for it. `astray` collects such scenes together with
  those of lost replies, and `SlotMatchesRuntime` leaves them out.
* A stop whose answer is lost (`service.go:398-401`) or whose state cannot be saved (412-414)
  leaves a slot that names a scene nobody runs: `cut`.
* `RecoverInterruptedProject` runs after any failed probe (`project_resources.go:511-582`) and
  clears the slot of an adopted Runtime that it cannot stop and that may still run the scene
  (573-577), although only an unreachable, locally managed Runtime is spoken of (507-510).
* A reset polls `StopAndWait` (`robot/service.go:979-1000`, `managed_robot_runtime.go:876-882`)
  and a reclaim waits for an orphan to exit (`process_retire_unix.go:35-45`, under
  `context.Background()` from `project_lease.go:103` and `catalog_launch.go:240`), both under
  `stateMu`: every scene operation of every Project waits with them.
* A lost reply of `StartScene` leaves a scene nobody records (`service.go:311`);
  an instance left "starting" by a crash is skipped for ever
  (`managed_robot_runtime.go:815`); a Robot's start goroutine may begin after
  `StopSceneRobots` listed nothing.

Installers, authoring, Skills:

* An environment that exists is reused for a new pack of the same version
  (`cmd/semantic/runtime_install.go:690`), although "不能忽略用户刚提供的新包，再用旧环境通过
  smoke 后误报“安装成功”" (549-551).
* A crash between the rename of the catalog and the manifest leaves the new catalog under
  the old manifest; a failed development reinstall removes the old catalog (1105-1117); a
  Project may bind between `countRuntimeProjectBindings` and the uninstall.
* A removal of a component that is cut off half-way leaves its receipt
  (`install/component.go:185`).
* Publishing again replaces a version of the scene catalog (`authoring.go:400`), although
  "每次发布都是一个不可修改的目录版本" (`project_scene_catalog.go:26`); of two edits with the
  same revision both pass (`authoring.go:297-330`).
* A Skill row "failed" is not retried until the Pilot reconnects (`enrollment.go:147`); a
  refused command overwrites the row with failed (`robot/service.go:538-543`); switching to
  another version leaves the row of the first installed and enabled; an unpublished desired
  Skill ends the comparison for all (`enrollment.go:150-152`). Disabling or uninstalling
  version 1.0 removes the active link of 1.0.1, because the link's target contains the
  other's name (`skillactivation_unix.go:37-43`); that version is then off after the Pilot
  restarts, until the next comparison.

Agents, map, artifacts, tools:

* The row of a Task Run stays "running" after an early error
  (`workflow_runtime.go:1015-1040`), "cancelling" when it is cancelled while its question is
  pending (1047-1051), and a cancelled Run that completes is "completed" (1096); the tool
  goroutine goes on after its timeout (`tool/executor.go:174-221`).
* A user's removal of a simulated entity (`semantic_map.go:718-729`) is undone by the next
  checkpoint that still reports it: `sameSimulationEntity` sees a difference
  (`simulation_map_sync.go:198-240`) and `preserveManual` keeps pose and annotations, not the
  status (`semantic_map.go:792-795`). `PutsAreKept` speaks of what a user put.
* A checkpoint that meets an edit gives up with `ErrRevisionConflict`
  (`robot_map_checkpoint.go:100`); an older snapshot may be applied after a newer one
  (`catalog_launch.go:266-273`); a new generation is committed although its first write is
  refused (`simulation_map_sync.go:103-150`).
* A failed announcement of an artifact is never repeated, nor is one whose entry could not be
  persisted (`pilot/artifact.go:190-208`), and a
  restart of the Pilot forgets local entries; a lost reply to an upload leaves the Pilot
  pending while the Server has the file (`robot/service.go:1997-2033`); deletion does not
  look at Robot mappings.
* `RemoveServer` while an item is between `ListTools` and `reconcileLocked` brings the
  entries back (`mcpregistry/registry.go:166-181`; "删除 server → 停同步项并移除目录条目");
  `openCircuit` overwrites a connection another user just stored (`pkg/mcp/pool.go:233`); a
  cancelled caller opens the circuit for all (192).

## 4. Proofs

Eight modules hold the proofs; they speak of every set of participants, every plan and
every budget, where TLC sees the instances of section 3. In each the theorem about a
component follows from an inductive invariant (its last definition before the lemmas), and
that invariant was model-checked before it was proved. One lemma per action, or per group
of actions of one actor, shows that a step preserves it. What is assumed of the constants
are the named assumptions of the modules: what stands for "nothing" is none of the things
of its set, budgets and buffer sizes are numbers, sets whose members are counted or lined
up are finite, plans, catalogs and requirements are of their types. TLC evaluates each of
them in a run.

| Theorem | States | Component |
|---|---|---|
| `TypeCorrectness`, `Invariance` | `[]TypeOK`, `[]IInv` | `WorkflowEngine` |
| `RobotExclusion` | `[]RobotOwnedByOneTask` | |
| `Finality` | `EndsAreFinal` | |
| `StopsOnEvidence` | `[]StopNeedsEvidence` | |
| `NoReplay` | `NeverReplayed` | |
| `WritersAreApart` | `[]WorkspaceExclusive` | |
| `EndsAreTrueOfTheRobot` | `[]EndsAreTrue` | `RobotLink` |
| `StopsFollowStarts` | `[]StopFollowsStart` | |
| `RobotHasOneWorker` | `[]OneWorker` | |
| `ActionsAreSentOnce` | `[]ActionIsSentOnce` | `PilotSkills` |
| `MovesAreLocked` | `[]MovingIsLocked` | |
| `EndsStayQuiet` | `[]EndsAreQuiet` | |
| `ConversationsAreExclusive` | `[]ConversationIsExclusive` | `Conversations` |
| `AnswersCount` | `[]AnswersCountOnce` | |
| `CancellationsAreKept` | `CancelIsNotLost` | |
| `BusIsAQueue` | `BusIsFifo`: the bus implements `EventQueue` | `EventStream` |
| `ViewsAreComplete` | `[]ViewIsComplete` | |
| `InstancesNeverShare` | `[]InstancesAreExclusive` | `RobotInstances` within `SimulationScenes` |
| `SlotsMatchRuntimes` | `[]SlotMatchesRuntime` | `SimulationScenes` |
| `InstallationsStayWhole` | `[]InstallationsAreWhole` | `RuntimeInstall` |
| `SkillsStayConsistent` | `[]SkillsAreConsistent` | `SkillPackages` |
| `ComponentsStayConsistent` | `[]ComponentsAreConsistent` | `ComponentInstall` |
| `AuthoringStaysSound` | `[]AuthoringIsSound` | `SceneAuthoring` |
| `PlansStayReviewed` | `[]PlansAreReviewed` | `PlanProposals` |
| `AgentRunsAreAccounted` | `[]RunsAreAccounted` | `TaskAgent` |
| `PutsAreKeptAlways` | `PutsAreKept` | `SemanticMaps` |
| `DebugEnds` | `[]DebugEndIsQuiet` | `AbilityDebug` |
| `ReferencesKept` | `ReferencesHold` | `Artifacts` |
| `ChangesAreSeen` | `[]ChangeIsNotMissed` | `McpTools` |

### WorkflowProofs

The invariants are not inductive as they stand. `IInv` adds *coherence* of the store (a
reference names an Execution that exists, an Execution belongs to a robot skill of a Task
that has a Robot, an absent row has no reference), that a decision or recovery goroutine
is about a SubTask, and that everything in a notification or an outstanding reply is an
Execution of the store. Coherence is needed because assignment must not move a Robot away
from under an Execution, and because a stop is sent only for what a Robot carries; the
last part because the observer attaches what it was told of.

Nearly every operation rewrites rows in one restricted way, `Follows(d, e)`: ends and
references stay, new references name Executions, Tasks keep their Robots, no Execution
begins. Of statuses of Executions and of pointers it says nothing more than their type, so
that an event which is saved late, or a pointer which is saved stale, is such a rewriting
too: `RobotOwnedByOneTask` rests on the Task rows alone. One lemma per operator shows that it
does only that; `Follows` is transitive, so chains of operators inside an action need no
further work; and `FollowsStep` shows once that it preserves the store's invariant. Two steps
go beyond it and have their own lemmas: `AssignStep`, which gives a Task its Robot, and
`AdmitStep`, with which an Execution begins. A second layer goes through the actions group by group and ends in `NextGood`.

`EInv` (theorem `Evidence`) adds how rows and calls agree with the stored Executions: a step
that is pending or absent has none, one that is paused or stopping names the one it has, and
one that stopped names an Execution at rest, or one for which an operator gave his word
(`Evident`); a row is over only as the Pilot said, as an operator did, or before the Pilot had
it (`ExecsTrue`); an event that is not yet saved was read of an Execution that went on, and a
saved end is the row's, unless an operator confirmed the stop since (`Informed`); a decision or
recovery Run, or a call that means to begin one, is about a SubTask of its own Task that names
its Execution or has ended (`Replies`, `Calling`); the targets of a confirmation name theirs
(`Asked`); and the Pilot has nothing of what is being dispatched (`Dispatches`). The second layer goes over the actions
again; `Under(x, d)` says of an operator that it keeps rows evident and does no more to the
Executions of `x` than stop or interrupt one that has not ended. `StopsOnEvidence` is a part of `EInv`; `NoReplay` follows from it step by step, because only a step without an Execution can be given a new one.

`WInv` (theorem `Claims`) says of the time until the first restart that whichever writer is
being worked on owns the workspace (`Working`: the Task runs and a goroutine picks its next
step or waits for its Agent), and that no Task waits for a resumption after a restart, the
only way past the claim. `Slows` is the restricted rewriting here: no Task is set running.
A step then either slows and starts no goroutine (`WorkKept`) or starts one Task on its
claim (`WorkClaimed`), and a claim is only given back by a Task that is no longer worked on
(`Yielded`). That the recovery Run revises a row of its own Task is the part of `EInv` this
needs. After a restart the claims are gone, hence `FirstLife` in
`WorkspaceExclusive`: no restart was spent. The budget of a behaviour is no variable, so
`FirstLife` compares what is left with every budget; with budgets that allow the same number
of restarts, as in `convergence`, it says exactly that none was spent.

### RobotLinkProofs

Six places write the status of an Execution, each from something it read, received or was
handed earlier. `TrueEnd(e, st)` says that the end `st` is one that `EndsAreTrue` allows for
`e`, and `LinkInv` says it of everything a writer holds: rows, the log, the gateway's next
write, the tables of a reconciliation, and every message on its way up. `LinkGrows` is what
no step takes back: rows, vouchers, a Pilot's end, and "no start will come". It carries
`TrueEnd` over any step, so an action only has to show that what it writes is a
`TrueEnd` now. For starts and stops `LinkInv` says that `Run` and `Stop` exclude each other,
and that a start is once on the connection, before every stop of its Execution, and only
while the Pilot has not begun. `PilotSound` says that what runs holds the Robot.

### PilotProofs

`BystandersStay` shows that a step of one Execution leaves the invariant of the others
alone. For the Execution that moves, `Base` says where the handlers, the Worker and the
command loop stand, and that a handler about to call `StartTask` has stored the row of its
Action and called for it never before: the row comes first, a key that has a row is not
sent again, and no step, restart or stop removes a row. Known actions of the second
Worker are those of the first.

`MovesAreLocked` and `EndsStayQuiet` rest on `Calm`, which holds of every Execution until
the first restart. Neither property is inductive: the lock is taken between a check and a
call, an end is written by a loop that knows only what it read, and hold waits behind go.
`Talk` follows a request of a Worker's two coroutines through the queue and the handler to
its answer, with the step at which hold stands; `Truth` says that a confirmed end in the
Journal, or on its way there, is of an invocation that does not move, and that a stop
halts only Actions that were journaled and are past `StartTask`; `Held`, that hold began
only when go can begin no more, and what `evidence` and a report of stopped know of it;
`Quiet`, that an Execution which gave the Robot back begins no Action unless it was given up;
`Locked`, that whatever moves, is about to, or still has the lock to return (`Claim`) has
it. `OthersKeep` shows that a step of one Execution leaves `Calm` of the others, for which
the two locks must not change under them; a handler that was given up breaks exactly
this, which is why the properties exclude it. `BeginsNothingKeeps` and `CommandCalm` do
the work for the steps of a handler that begin no Action, and for the commands.

### ConversationsProofs

The argument is the lock. Who is past `sessionLocks` holds it (`LockIsHeld`), and an active
Run has a thread that holds it (`RunsHaveThreads`); a build of a Runner reads the
configuration under it (`BuildsAreCurrent`: what is being built is of this version or of
an older generation, and is then not cached as current). `YesIsStored` follows an
approval from the row over the waiter to the Run, and `OneClaim` says which Runs answer for
an Interaction, those included that are queued and not yet stored. `CancelIsNotLost` comes
from the conditional update of the row, stated once as `RunsMove`.

### EventStreamProofs

`BusIsAQueue` is a refinement: channel, forwarder and backlog are mapped onto the one queue
of `EventQueue`, and each action is a push, a pop or a stutter. It needs that the backlog
is empty while the forwarder sleeps without a token, and that the direct way is taken only
then. `ViewsAreComplete` follows a change through bus, aggregator, log, send buffer and
replay: `ClientSound` says of a client which prefix of the log it has, what its replay
will read, and that what lies between is in its buffer.

### ScenesProofs

`InstInv`: a Robot has at most one active record, a lock is held for an active instance by
a call that is under way, leases are apart, and whatever listens has its lease. `SceneInv`
adds that the slot names a scene whose owner is this Project and that its Runtime serves,
and, for each operation that is under way (`JobSound`), what it still relies on of what it
read before it waited.

### AssemblyProofs

* `RtInv`: what a rollback takes away was not there before (`WorkSound`), a pack that is
  going to be removed is in nobody's manifest (`UninstallSound`), and at every step what a
  rollback would leave is what the command found (`BeforeSound`).
* `SpInv`: what a Worker, the link or the catalog uses is whole and not being removed; a
  pending command is on the connection, is answered or is the removal under way; and a
  difference between desired and actual rows is about to be noticed (`Noticed`).
* `CiInv`: a receipt means complete unless a removal was cut off, installation and removal
  exclude each other, and what holders name has a receipt.
* `SaInv`: what a request is going to save was validated against the document it read, of
  which only what cannot change is still relied on. `TreesHaveNoCycle` shows that
  `validateSceneGraph`, which counts levels, accepts trees only: a node below itself would
  have a least level and one below it.
* `PpInv`: what a tab or a request was shown of a row is the row's revision or an older
  one, and with the same revision the same plan; every plan under way, stored or shown
  passed its checks; the id of a Task is the key in its plan or one the store made, and no
  two rows share it; a Run that wrote is bound. A later approval can only
  meet the revision that was read, hence the plan that was shown.

### OperationsProofs

* `TaInv`: a call that is waited for is its Run's one call; from the end of its exchange on
  an answered Run has no recorder; an execution is answered after a look at the Execution.
* `SmInv`: what a request read is not newer than the map, and if it is not older either it
  is what the map holds, hence the comparison inside the transaction is enough. A
  checkpoint hands the transaction each manual row as it was read (`PutsStay`).
* `DebugInv`: an invocation that moves, or may still begin to, has an open row
  (`RowsCover`); while a start is under way nothing else moves and no goroutine writes its
  row (`StartIsAlone`); an end a goroutine holds is one the Ability reported
  (`PollsAreTrue`), so it may be saved over whatever the row says by then.
* `ArtifactInv`: each station of a file (unsent, sent, awaited, stored, synced) excludes the
  others, over all loops (`AnnouncedOnce`): hence no upload maps a local id a second time.
  An artifact id is given out once, and one that a mapping or a reply names is past its
  writing (`ArtifactsOwned`): hence no failed write takes its content away.
* `McpInv`: the hook comes before the list; what was read or written is the server's list
  or a change is announced.

### What is only model-checked

* `CompletionNeedsEvidence` and `StoppedWorkflowIsQuiet` of the Workflow
  service: they need the order of the SubTasks in a Task (which one the gate's holder works
  on, and that the others are untouched or ended), of which `IInv`, `EInv` and `WInv` say
  nothing.
* All liveness properties: fairness and ENABLED are out of the prover's reach.

No module declares a RECURSIVE operator, so each can be proved about.

## 5. Plan

In this order:

1. `WorkflowProofs`: `StoppedWorkflowIsQuiet`, then `CompletionNeedsEvidence`.
2. The observer call in `RobotLink`, with a Robot as the Pilot keeps it as the abstract
   specification that Robot service implements for the workflow service.
3. The rows of waiting_input in `WorkflowEngine`; rollouts.

## 6. Not modelled

The components with status `not_modelled` in `PROJECT.json`, each with its reason:
catalogues and configuration (data), one-request commands and scripts, and schema migrations
(run once, before anything else). In the parts that are modelled: the rows of waiting_input
in the Workflow store, the form of drafts beyond their Tasks, dependencies, Skills and map,
the contents of plans, messages, prompts, documents and packages beyond what the guards tell
apart, HTTP and WebSocket encoding, and time (timeouts appear as errors of the call that
carries them, or as a timer that may fire).

## Running the checks

`tlc -config MCShared.cfg MCWorkflow`, and likewise `MCSolo`, `MCLive`
and `MCBoundary`;
`tlc -config MCLink.cfg MCRobotLink`, `tlc -config MCConv.cfg MCConversations`,
`tlc -config MCStream.cfg MCStream`, `tlc -config MCScenes.cfg MCScenes`,
`tlc -config MCPilot.cfg MCPilot` and `MCUnsafe.cfg`, `tlc -config MCAssembly.cfg
MCAssembly`, `tlc -config MCOperations.cfg MCOperations`; `tlapm WorkflowProofs.tla`, and
likewise the other seven modules of proofs.
