----------------------------- MODULE PilotSkills -----------------------------
(***************************************************************************)
(* How a Pilot carries out Robot Skills (internal/pilot: runtime.go,       *)
(* runner.go, supervisor.go, agent_gateway.go, store.go) on its one Robot. *)
(*                                                                         *)
(* The command loop takes one command of the Server at a time.  Each       *)
(* Worker process has a goroutine that handles its requests one by one and *)
(* one that waits for skill.run.  A Worker that exits is restarted once,   *)
(* while the handler of the old one may still be at work.  Every await (a  *)
(* call to the Ability, to the Worker, to the Agent) ends a step.          *)
(*                                                                         *)
(* The Worker (the Skill SDK) and the Ability are external.  A Worker      *)
(* executes one physical Action "go", may ask the Agent and checkpoint;    *)
(* on skill.stop it begins no other Action and executes the stop Action    *)
(* "hold"; it reports a safe stop only when hold succeeded.  An Ability    *)
(* starts an invocation at most once, and the invocation ends by itself or *)
(* is halted.                                                              *)
(*                                                                         *)
(* The Pilot row, Journal and stop evidence survive a restart.             *)
(***************************************************************************)
EXTENDS Naturals, Sequences, FiniteSets

CONSTANTS Execs,         \* Skill Executions the Server starts
          None,
          PilotBudgets   \* how often each of PilotLimits may happen

\* "ask": Agent requests; "note": checkpoints and Stage events; "stop": execution.stop;
\* "fault": failed calls and exits of Workers; "crash": of the Pilot; "exit": SIGTERM.
PilotLimits == {"ask", "note", "stop", "fault", "crash", "exit"}

Keys == {"go", "hold"}
Gens == {1, 2}             \* restartWorker: restarts >= 1
Invocations == Execs \X Keys

ASSUME PilotConstants == /\ PilotBudgets \subseteq [PilotLimits -> Nat]
                         /\ None \notin Execs \cup Invocations

SkillEnds == {"completed", "failed", "stopped", "interrupted"}
ActionEnds == {"succeeded", "failed", "rejected", "stopped", "interrupted"}

VARIABLES
  skill,     \* pilot_skill_executions: status
  evidence,  \* the stored StopOutcome is safe
  journal,   \* pilot_action_journal: status of an Action
  device,    \* the Ability's side of an invocation
  sent,      \* how often StartTask was called for an Action
  robot,     \* activeRobots
  owner,     \* activePhysical
  live,      \* activeSkill of an Execution
  worker,    \* Worker processes: their two coroutines
  handler,   \* serveRequests of a Worker
  run,       \* runWorker of a Worker
  cmd,       \* the command the Pilot carries out
  told,      \* the end last reported to the Server
  exit,      \* stopActivePilotWork
  boots,     \* processes of the Pilot so far
  credit     \* what remains of the budget

stored == <<skill, evidence, journal>>
pilotVars == <<stored, device, sent, robot, owner, live, worker, handler, run, cmd, told,
               exit, boots, credit>>

NotLive == [on |-> FALSE, stopping |-> FALSE, moved |-> FALSE, acts |-> {},
            gen |-> 0, cancelled |-> FALSE]
NoWorker == [on |-> FALSE, go |-> "none", step |-> 0, stop |-> "none", hold |-> 0,
             requests |-> <<>>]
FreshWorker == [NoWorker EXCEPT !.on = TRUE, !.go = "ready"]
HandlerIdle == [pc |-> "idle", who |-> "go", req |-> "none", seen |-> "none"]
CmdIdle == [pc |-> "idle", e |-> None, keys |-> {}, key |-> "none", gen |-> 0]

PilotInit ==
  /\ skill = [e \in Execs |-> "none"] /\ evidence = [e \in Execs |-> FALSE]
  /\ journal = [i \in Invocations |-> "none"]
  /\ device = [i \in Invocations |-> "none"] /\ sent = [i \in Invocations |-> 0]
  /\ robot = None /\ owner = None
  /\ live = [e \in Execs |-> NotLive]
  /\ worker = [e \in Execs |-> [g \in Gens |-> NoWorker]]
  /\ handler = [e \in Execs |-> [g \in Gens |-> HandlerIdle]]
  /\ run = [e \in Execs |-> [g \in Gens |-> "none"]]
  /\ cmd = CmdIdle /\ told = [e \in Execs |-> "none"]
  /\ exit = [pc |-> "no", list |-> {}, ok |-> TRUE]
  /\ boots = 1 /\ credit \in PilotBudgets

PaysFor(k) == credit[k] > 0 /\ credit' = [credit EXCEPT ![k] = @ - 1]
Up == exit.pc # "reported"
-----------------------------------------------------------------------------
(* The rows and the two locks of the Robot.                                *)

\* SaveSkillExecution: an end is not replaced by another status.
Saved(e, s) == IF skill[e] \in SkillEnds THEN skill ELSE [skill EXCEPT ![e] = s]

ListRecoverableSkillExecutions == {e \in Execs : skill[e] \notin SkillEnds \cup {"none"}}
ListActiveActions == {i \in Invocations : journal[i] \notin ActionEnds \cup {"none"}}

releasePhysical(i) == IF owner = i THEN None ELSE owner

\* applyAbilityState: a confirmed end gives the physical lock back.
AfterState(i, s) ==
  IF s \in ActionEnds \ {"interrupted"} THEN releasePhysical(i) ELSE owner

\* markInterrupted: the result is unknown, and the lock stays.
markInterrupted(i) == journal' = [journal EXCEPT ![i] = "interrupted"]

\* normalizeActionStatus of what GetExecution says; an unknown invocation is interrupted.
StateOf(d) == CASE d = "moving" -> "running"
                [] d = "done" -> "succeeded"
                [] d = "broken" -> "failed"
                [] d = "halted" -> "stopped"
                [] OTHER -> "interrupted"

\* cleanup: the Execution leaves active and activeRobots; its context is cancelled.
Gone(e) == [live EXCEPT ![e].on = FALSE, ![e].cancelled = TRUE]
RobotAfter(e) == IF robot = e THEN None ELSE robot
Killed(e) == [worker EXCEPT ![e] = [g \in Gens |-> [worker[e][g] EXCEPT !.on = FALSE]]]
KilledGen(e, g) == [worker EXCEPT ![e][g].on = FALSE]

\* What stopActivePilotWork remembers of a Stop.
Noted(good) == exit' = IF exit.pc = "stopping" THEN [exit EXCEPT !.ok = @ /\ good] ELSE exit
-----------------------------------------------------------------------------
(* The Worker.                                                             *)

\* The coroutine of skill.run: go, its result, then whatever the Skill does.
WorkerAsks(e, g, req) ==
  /\ worker[e][g].on /\ worker[e][g].go = "ready"
  /\ \/ req = "start" /\ worker[e][g].step = 0 /\ worker[e][g].stop = "none" /\ UNCHANGED credit
     \/ req = "result" /\ worker[e][g].step = 1 /\ UNCHANGED credit
     \/ req \in {"ask", "note"} /\ PaysFor(req)
  /\ worker' = [worker EXCEPT ![e][g].go = req, ![e][g].requests = Append(@, "go")]
  /\ UNCHANGED <<stored, device, sent, robot, owner, live, handler, run, cmd, told, exit>>

\* skill.run returns; the status is stopping only after skill.stop.
WorkerReturns(e, g) ==
  /\ worker[e][g].on /\ worker[e][g].go = "ready"
  /\ \E s \in {"completed", "failed", "stopping"} :
       /\ s = "stopping" => worker[e][g].stop # "none"
       /\ worker' = [worker EXCEPT ![e][g].go = s]
  /\ UNCHANGED <<stored, device, sent, robot, owner, live, handler, run, cmd, told, exit, credit>>

\* on_stop: hold, its result, then stop.outcome.
WorkerHolds(e, g) ==
  /\ worker[e][g].on /\ worker[e][g].stop = "ready" /\ worker[e][g].hold < 3
  /\ worker' = [worker EXCEPT ![e][g].stop =
                  CASE worker[e][g].hold = 0 -> "start"
                    [] worker[e][g].hold = 1 -> "result"
                    [] OTHER -> "outcome",
                  ![e][g].requests = Append(@, "stop")]
  /\ UNCHANGED <<stored, device, sent, robot, owner, live, handler, run, cmd, told, exit, credit>>

WorkerDies(e, g) ==
  /\ worker[e][g].on
  /\ PaysFor("fault")
  /\ worker' = KilledGen(e, g)
  /\ UNCHANGED <<stored, device, sent, robot, owner, live, handler, run, cmd, told, exit>>

DeviceEnds(i) ==
  /\ device[i] = "moving"
  /\ \E d \in {"done", "broken"} : device' = [device EXCEPT ![i] = d]
  /\ UNCHANGED <<stored, sent, robot, owner, live, worker, handler, run, cmd, told, exit, credit>>
-----------------------------------------------------------------------------
(* handleWorker: one request at a time, in the goroutine of the Worker.    *)

\* The response as the coroutine who sees it: an Action's status, ok or error.
Answered(e, g, r) ==
  LET w == worker[e][g]
      h == handler[e][g]
      started == h.req = "start" /\ r # "error"
  IN worker' = [worker EXCEPT ![e][g] =
       IF h.who = "go"
       THEN [w EXCEPT !.go = "ready",
                      !.step = CASE started -> 1
                                 [] h.req \in {"start", "result"} -> 2
                                 [] OTHER -> w.step]
       ELSE [w EXCEPT !.stop = "ready",
                      !.hold = CASE started -> 1
                                 [] h.req = "result" /\ r = "succeeded" -> 2
                                 [] h.req = "outcome" -> 3
                                 [] OTHER -> 4]]

HandlerAt(e, g, pc, seen) == handler' = [handler EXCEPT ![e][g].pc = pc, ![e][g].seen = seen]
Responds(e, g, r) ==
  /\ Answered(e, g, r)
  /\ handler' = [handler EXCEPT ![e][g] = HandlerIdle]

KeyOf(h) == IF h.who = "go" THEN "go" ELSE "hold"
Act(e, g) == <<e, KeyOf(handler[e][g])>>

\* The next request is taken, in the order they were written, and the Execution read.
HandlerTakes(e, g) ==
  LET w == worker[e][g]
      who == Head(w.requests)
  IN /\ handler[e][g].pc = "idle" /\ w.requests # <<>>
     /\ worker' = [worker EXCEPT ![e][g][who] = "busy", ![e][g].requests = Tail(@)]
     /\ handler' = [handler EXCEPT ![e][g] =
                      [pc |-> w[who], who |-> who, req |-> w[who], seen |-> skill[e]]]
     /\ UNCHANGED <<stored, device, sent, robot, owner, live, run, cmd, told, exit, credit>>

\* An Action the Ability got, or may have got, is remembered for the stop.
Registered(e, k, moved) ==
  live' = [live EXCEPT ![e].acts = @ \cup {k}, ![e].moved = @ \/ moved]

NeverBusy == TRUE
RobotIsFree == owner = None

\* StartAction: a journaled Action is not sent again; a new one needs the Robot.
ActionChecked(e, g) ==
  LET i == Act(e, g)
      j == journal[i]
  IN /\ handler[e][g].pc = "start"
     /\ \/ /\ j = "none" /\ RobotIsFree
           /\ HandlerAt(e, g, "save", "none")
           /\ UNCHANGED <<worker, live, credit>>
        \/ /\ j = "none" /\ ~RobotIsFree
           /\ Responds(e, g, "error")
           /\ UNCHANGED <<live, credit>>
        \/ /\ j = "none"                           \* no binding in the catalog
           /\ PaysFor("fault")
           /\ Responds(e, g, "error")
           /\ UNCHANGED live
        \/ /\ j \in ActionEnds
           /\ Registered(e, i[2], j # "rejected")
           /\ Responds(e, g, j)
           /\ UNCHANGED credit
        \/ /\ j \notin ActionEnds \cup {"none"}
           /\ HandlerAt(e, g, "result", "none")
           /\ UNCHANGED <<worker, live, credit>>
     /\ UNCHANGED <<stored, device, sent, robot, owner, run, cmd, told, exit>>

JournaledAgain(i) == TRUE

\* SaveAction: the key is unique within the Execution.
CanJournal(i) == journal[i] = "none"

ActionSaved(e, g) ==
  LET i == Act(e, g)
  IN /\ handler[e][g].pc = "save"
     /\ IF CanJournal(i)
        THEN /\ journal' = [journal EXCEPT ![i] = "accepted"]
             /\ owner' = i
             /\ HandlerAt(e, g, "send", "none")
             /\ UNCHANGED worker
        ELSE /\ Responds(e, g, "error")
             /\ UNCHANGED <<journal, owner>>
     /\ UNCHANGED <<skill, evidence, device, sent, robot, live, run, cmd, told, exit, credit>>

\* StartTask, called once: accepted, refused before it was registered, or without a
\* result, whether it arrived or not.
ActionSent(e, g) ==
  LET i == Act(e, g)
      arrives == device' = [device EXCEPT ![i] = "moving"]
  IN /\ handler[e][g].pc = "send"
     /\ \/ /\ live[e].cancelled
           /\ HandlerAt(e, g, "sent", "error")
           /\ UNCHANGED <<device, sent, credit>>
        \/ /\ ~live[e].cancelled
           /\ sent' = [sent EXCEPT ![i] = @ + 1]
           /\ \/ arrives /\ HandlerAt(e, g, "sent", "ok") /\ UNCHANGED credit
              \/ PaysFor("fault") /\ HandlerAt(e, g, "sent", "rejected") /\ UNCHANGED device
              \/ PaysFor("fault") /\ HandlerAt(e, g, "sent", "error")
                 /\ (arrives \/ UNCHANGED device)
     /\ UNCHANGED <<stored, robot, owner, live, worker, run, cmd, told, exit>>

\* What StartAction makes of the result: after an error one GetExecution decides.
ActionStarted(e, g) ==
  LET i == Act(e, g)
      out == handler[e][g].seen
      known == StateOf(device[i]) \in ActionEnds \ {"interrupted"}
      becomes(s) == journal' = [journal EXCEPT ![i] = s]
  IN /\ handler[e][g].pc = "sent"
     /\ \/ /\ out = "ok"
           /\ becomes("running") /\ Registered(e, i[2], TRUE) /\ Responds(e, g, "running")
           /\ UNCHANGED <<owner, credit>>
        \/ /\ out = "rejected"
           /\ becomes("rejected") /\ Registered(e, i[2], FALSE) /\ Responds(e, g, "error")
           /\ owner' = None                         \* whoever has it
           /\ UNCHANGED credit
        \/ /\ out = "error" /\ known /\ ~live[e].cancelled
           /\ becomes(StateOf(device[i])) /\ owner' = AfterState(i, StateOf(device[i]))
           /\ Registered(e, i[2], TRUE) /\ Responds(e, g, "error")
           /\ UNCHANGED credit
        \/ /\ out = "error"
           /\ IF known /\ ~live[e].cancelled THEN PaysFor("fault") ELSE UNCHANGED credit
           /\ markInterrupted(i) /\ Registered(e, i[2], TRUE) /\ Responds(e, g, "error")
           /\ UNCHANGED owner
     /\ UNCHANGED <<skill, evidence, device, sent, robot, run, cmd, told, exit>>

\* A query of the Ability: its start, then polls until it has completed.  A cancelled
\* context ends it, and a lost call or one the Ability fails is an error.
AbilityAsked(e, g, i) ==
  \/ live[e].cancelled /\ HandlerAt(e, g, "state", "error") /\ UNCHANGED credit
  \/ ~live[e].cancelled /\ PaysFor("fault") /\ HandlerAt(e, g, "state", "error")
  \/ ~live[e].cancelled /\ HandlerAt(e, g, "state", StateOf(device[i])) /\ UNCHANGED credit

\* Refresh: an ended Action needs no call ...
ActionQueried(e, g) ==
  LET i == Act(e, g)
      h == handler[e][g]
  IN /\ h.pc = "result"
     /\ IF journal[i] \in ActionEnds
        THEN /\ live' = IF h.req = "start" THEN [live EXCEPT ![e].acts = @ \cup {i[2]}, ![e].moved = TRUE]
                        ELSE IF journal[i] = "interrupted" THEN live
                        ELSE [live EXCEPT ![e].acts = @ \ {i[2]}]
             /\ Responds(e, g, journal[i])
             /\ UNCHANGED credit
        ELSE /\ AbilityAsked(e, g, i)
             /\ UNCHANGED <<worker, live>>
     /\ UNCHANGED <<stored, device, sent, robot, owner, run, cmd, told, exit>>

\* ... and what comes back is written over the row, whatever happened meanwhile;
\* waitActionResult asks again until the Action has ended.
ActionRefreshed(e, g) ==
  LET i == Act(e, g)
      h == handler[e][g]
      s == IF h.seen = "error" THEN "interrupted" ELSE h.seen
  IN /\ h.pc = "state"
     /\ journal' = [journal EXCEPT ![i] = s]
     /\ owner' = AfterState(i, s)
     /\ \/ /\ h.req = "start"
           /\ Registered(e, i[2], TRUE)
           /\ Responds(e, g, IF h.seen = "error" THEN "error" ELSE s)
        \/ /\ h.req = "result" /\ s \in ActionEnds
           /\ live' = IF s = "interrupted" THEN live ELSE [live EXCEPT ![e].acts = @ \ {i[2]}]
           /\ Responds(e, g, s)
        \/ /\ h.req = "result" /\ s \notin ActionEnds
           /\ IF live[e].cancelled THEN Responds(e, g, "error")
              ELSE HandlerAt(e, g, "result", "none") /\ UNCHANGED worker
           /\ UNCHANGED live
     /\ UNCHANGED <<skill, evidence, device, sent, robot, run, cmd, told, exit, credit>>

\* checkpoint, Stage events and feedback write back the row read with the request.
RowWrittenBack(e, g) ==
  /\ handler[e][g].pc = "note"
  /\ skill' = Saved(e, handler[e][g].seen)
  /\ Responds(e, g, "ok")
  /\ UNCHANGED <<evidence, journal, device, sent, robot, owner, live, run, cmd, told, exit, credit>>

\* UpdateSkillStopOutcome leaves the status alone.
OutcomeSaved(e, g) ==
  /\ handler[e][g].pc = "outcome"
  /\ evidence' = [evidence EXCEPT ![e] = TRUE]
  /\ Responds(e, g, "ok")
  /\ UNCHANGED <<skill, journal, device, sent, robot, owner, live, run, cmd, told, exit, credit>>

WaiterCancelled(e) == live[e].cancelled

\* stopDecisions cancels the context of a request, also before it waits.
DecisionCancelled(e) == live[e].stopping \/ live[e].cancelled

\* requestAgent: refused while stopping, else waiting_agent ...
AgentAsked(e, g) ==
  /\ handler[e][g].pc = "ask"
  /\ IF live[e].stopping
     THEN Responds(e, g, "error") /\ UNCHANGED skill
     ELSE /\ skill' = Saved(e, "waiting_agent")
          /\ HandlerAt(e, g, "register", "none")
          /\ UNCHANGED worker
  /\ UNCHANGED <<evidence, journal, device, sent, robot, owner, live, run, cmd, told, exit, credit>>

\* ... then a waiter, and the report to the Server.
AgentWaits(e, g) ==
  /\ handler[e][g].pc = "register"
  /\ \/ DecisionCancelled(e) /\ Responds(e, g, "error") /\ UNCHANGED credit
     \/ ~DecisionCancelled(e) /\ PaysFor("fault") /\ Responds(e, g, "error")
     \/ ~DecisionCancelled(e) /\ HandlerAt(e, g, "wait", "none") /\ UNCHANGED <<worker, credit>>
  /\ UNCHANGED <<stored, device, sent, robot, owner, live, run, cmd, told, exit>>

\* agent.reply is a command: it finds the loop idle and a waiter.
AgentReplies(e, g) ==
  /\ handler[e][g].pc = "wait" /\ handler[e][g].seen = "none"
  /\ cmd.pc = "idle" /\ exit.pc = "no"
  /\ HandlerAt(e, g, "wait", "reply")
  /\ UNCHANGED <<stored, device, sent, robot, owner, live, worker, run, cmd, told, exit, credit>>

AgentAnswered(e, g) ==
  /\ handler[e][g].pc = "wait"
  /\ \/ /\ handler[e][g].seen = "reply" /\ ~live[e].stopping
        /\ skill' = Saved(e, "running")
        /\ Responds(e, g, "ok")
     \/ /\ \/ handler[e][g].seen = "reply" /\ live[e].stopping
           \/ handler[e][g].seen = "woken"
           \/ DecisionCancelled(e)
        /\ Responds(e, g, "error")
        /\ UNCHANGED skill
  /\ UNCHANGED <<evidence, journal, device, sent, robot, owner, live, run, cmd, told, exit, credit>>

Handling(e, g) ==
  \/ HandlerTakes(e, g) \/ ActionChecked(e, g) \/ ActionSaved(e, g) \/ ActionSent(e, g)
  \/ ActionStarted(e, g) \/ ActionQueried(e, g) \/ ActionRefreshed(e, g)
  \/ RowWrittenBack(e, g) \/ OutcomeSaved(e, g) \/ AgentAsked(e, g) \/ AgentWaits(e, g)
  \/ AgentAnswered(e, g)
-----------------------------------------------------------------------------
(* runWorker.                                                              *)

InStop(e) == cmd.e = e /\ cmd.pc \in {"actions", "halt", "worker"}

NeverOwned(e) == FALSE

\* An Action of the Execution still holds the Robot.
Unconfirmed(e) == owner # None /\ owner[1] = e

\* interruptSkill: reported, and the Robot stays taken.
Interrupts(e) ==
  /\ skill' = Saved(e, "interrupted")
  /\ told' = IF skill[e] \in SkillEnds THEN told ELSE [told EXCEPT ![e] = "interrupted"]
  /\ UNCHANGED <<robot, live, worker>>

\* An end that frees the Robot.
Ends(e, s) ==
  /\ skill' = Saved(e, s)
  /\ told' = [told EXCEPT ![e] = s]
  /\ live' = Gone(e) /\ robot' = RobotAfter(e) /\ worker' = Killed(e)

\* skill.run returned: the end is decided under stopMu.
RunEnds(e, g) ==
  LET s == worker[e][g].go
  IN /\ run[e][g] = "calling"
     /\ s \in {"completed", "failed", "stopping"}
     /\ ~InStop(e)
     /\ run' = [run EXCEPT ![e][g] = "gone"]
     /\ \/ /\ skill[e] \in SkillEnds \cup {"stopping"}
           /\ UNCHANGED <<skill, told, live, robot, worker>>
        \/ /\ skill[e] \notin SkillEnds \cup {"stopping"} /\ Unconfirmed(e)
           /\ Interrupts(e)
        \/ /\ skill[e] \notin SkillEnds \cup {"stopping"} /\ ~Unconfirmed(e)
           /\ IF s = "stopping" THEN UNCHANGED <<skill, told, live, robot, worker>> ELSE Ends(e, s)
     /\ UNCHANGED <<evidence, journal, device, sent, owner, handler, cmd, exit, credit>>

\* The Worker is gone before skill.run returned; a stop in progress decides alone.
RunFails(e, g) ==
  /\ run[e][g] = "calling"
  /\ ~worker[e][g].on
  /\ worker[e][g].go \notin {"completed", "failed", "stopping"}
  /\ run' = [run EXCEPT ![e][g] = IF skill[e] \in SkillEnds \cup {"stopping"}
                                  THEN "gone" ELSE "failed"]
  /\ UNCHANGED <<stored, device, sent, robot, owner, live, worker, handler, cmd, told, exit, credit>>

\* restartWorker: the interpreter only.
RunRestarts(e, g) ==
  /\ run[e][g] = "failed"
  /\ live[e].gen = 1 /\ ~live[e].cancelled
  /\ live' = [live EXCEPT ![e].gen = 2]
  /\ worker' = [worker EXCEPT ![e][2] = FreshWorker]
  /\ run' = [run EXCEPT ![e] = [k \in Gens |-> IF k = 1 THEN "gone" ELSE "calling"]]
  /\ UNCHANGED <<stored, device, sent, robot, owner, handler, cmd, told, exit, credit>>

\* No restart: failed when no Action reached the device, as far as is known, else
\* interrupted.
RunGivesUp(e, g) ==
  /\ run[e][g] = "failed"
  /\ IF live[e].gen = 1 /\ ~live[e].cancelled THEN PaysFor("fault") ELSE UNCHANGED credit
  /\ run' = [run EXCEPT ![e][g] = "gone"]
  /\ \/ /\ live[e].moved
        /\ Interrupts(e)
     \/ /\ ~live[e].moved /\ skill[e] \notin SkillEnds
        /\ Ends(e, "failed")
     \/ /\ ~live[e].moved /\ skill[e] \in SkillEnds
        /\ UNCHANGED <<skill, told, live, robot, worker>>
  /\ UNCHANGED <<evidence, journal, device, sent, owner, handler, cmd, exit>>

Running(e, g) == RunEnds(e, g) \/ RunFails(e, g) \/ RunRestarts(e, g) \/ RunGivesUp(e, g)
-----------------------------------------------------------------------------
(* Commands.                                                               *)

\* Start: the Execution is new and the Robot free.
SkillStarts(e) ==
  /\ cmd.pc = "idle" /\ exit.pc = "no"
  /\ skill[e] = "none"
  /\ robot = None /\ owner = None
  /\ robot' = e
  /\ skill' = [skill EXCEPT ![e] = "starting"]
  /\ cmd' = [CmdIdle EXCEPT !.pc = "launch", !.e = e]
  /\ UNCHANGED <<evidence, journal, device, sent, owner, live, worker, handler, run, told, exit, credit>>

Launched(e) ==
  /\ live' = [live EXCEPT ![e] = [NotLive EXCEPT !.on = TRUE, !.gen = 1]]
  /\ worker' = [worker EXCEPT ![e] = [g \in Gens |-> IF g = 1 THEN FreshWorker ELSE NoWorker]]
  /\ run' = [run EXCEPT ![e] = [g \in Gens |-> IF g = 1 THEN "calling" ELSE "none"]]

SkillLaunched ==
  /\ cmd.pc = "launch"
  /\ \/ /\ Launched(cmd.e)
        /\ skill' = Saved(cmd.e, "running")
        /\ UNCHANGED <<robot, credit>>
     \/ /\ PaysFor("fault")
        /\ skill' = Saved(cmd.e, "failed")
        /\ robot' = RobotAfter(cmd.e)
        /\ UNCHANGED <<live, worker, run>>
  /\ cmd' = CmdIdle
  /\ UNCHANGED <<evidence, journal, device, sent, owner, handler, told, exit>>

\* Stop of an Execution that has not ended, or whose end is interrupted.  Without a
\* Worker nothing can be confirmed.
StopBegins(e) ==
  /\ cmd.pc = "idle"
  /\ skill[e] \notin (SkillEnds \ {"interrupted"}) \cup {"none"}
  /\ IF live[e].on
     THEN /\ cmd' = [CmdIdle EXCEPT !.pc = "latch", !.e = e]
          /\ UNCHANGED skill
     ELSE /\ skill' = Saved(e, "interrupted")
          /\ UNCHANGED cmd
  /\ UNCHANGED <<evidence, journal, device, sent, robot, owner, live, worker, handler, run, told>>

SkillStops(e) ==
  /\ exit.pc = "no"
  /\ PaysFor("stop")
  /\ StopBegins(e)
  /\ UNCHANGED exit

\* Whoever waits for the Agent is told that nobody will answer.
CancelExecution(e) ==
  handler' = [handler EXCEPT ![e] = [g \in Gens |->
    IF handler[e][g].pc = "wait" /\ handler[e][g].seen = "none"
    THEN [handler[e][g] EXCEPT !.seen = "woken"] ELSE handler[e][g]]]

\* Under stopMu: decisions are refused from here on, waiters are woken, and the
\* Actions to stop are read.
StopLatches ==
  LET e == cmd.e
  IN /\ cmd.pc = "latch"
     /\ \/ /\ skill[e] \in SkillEnds \ {"interrupted"}
           /\ cmd' = CmdIdle
           /\ Noted(skill[e] \in {"stopped", "completed"})
           /\ UNCHANGED <<skill, live, handler>>
        \/ /\ skill[e] \notin SkillEnds \ {"interrupted"}
           /\ live' = [live EXCEPT ![e].stopping = TRUE]
           /\ skill' = Saved(e, "stopping")
           /\ CancelExecution(e)
           /\ cmd' = [cmd EXCEPT !.pc = "actions", !.keys = live[e].acts, !.gen = live[e].gen]
           /\ UNCHANGED exit
     /\ UNCHANGED <<evidence, journal, device, sent, robot, owner, worker, run, told, credit>>

\* Runner.Stop: an interrupted Action may be stopped again.
StopsAction(k) ==
  LET i == <<cmd.e, k>>
  IN /\ cmd.pc = "actions" /\ k \in cmd.keys
     /\ IF journal[i] \in ActionEnds \ {"interrupted"}
        THEN /\ cmd' = [cmd EXCEPT !.keys = @ \ {k}]
             /\ UNCHANGED journal
        ELSE /\ journal' = [journal EXCEPT ![i] = "stopping"]
             /\ cmd' = [cmd EXCEPT !.pc = "halt", !.key = k]
     /\ UNCHANGED <<skill, evidence, device, sent, robot, owner, live, worker, handler, run, told,
                    exit, credit>>

\* StopExecution: the Ability halts the invocation, or the result is unknown.
ActionHalted ==
  LET e == cmd.e
      i == <<e, cmd.key>>
      d == IF device[i] = "moving" THEN "halted" ELSE device[i]
  IN /\ cmd.pc = "halt"
     /\ \/ /\ device[i] # "none"
           /\ device' = [device EXCEPT ![i] = d]
           /\ journal' = [journal EXCEPT ![i] = StateOf(d)]
           /\ owner' = AfterState(i, StateOf(d))
           /\ cmd' = [cmd EXCEPT !.pc = "actions", !.keys = @ \ {cmd.key}]
           /\ UNCHANGED <<skill, live, worker, exit, credit>>
        \/ /\ IF device[i] = "none" THEN UNCHANGED credit ELSE PaysFor("fault")
           /\ device' \in {device, [device EXCEPT ![i] = d]}
           /\ markInterrupted(i)
           /\ skill' = Saved(e, "interrupted")
           /\ worker' = Killed(e)
           /\ live' = [live EXCEPT ![e].cancelled = TRUE]
           /\ cmd' = CmdIdle
           /\ Noted(FALSE)
           /\ UNCHANGED owner
     /\ UNCHANGED <<evidence, sent, robot, handler, run, told>>

\* skill.stop goes to the Worker there was when the stop began.
WorkerToldToStop ==
  /\ cmd.pc = "actions" /\ cmd.keys = {}
  /\ cmd' = [cmd EXCEPT !.pc = "worker"]
  /\ worker' = IF worker[cmd.e][cmd.gen].on
               THEN [worker EXCEPT ![cmd.e][cmd.gen].stop = "ready", ![cmd.e][cmd.gen].hold = 0]
               ELSE worker
  /\ UNCHANGED <<stored, device, sent, robot, owner, live, handler, run, told, exit, credit>>

\* Stop's result: stopped frees the Robot, anything else keeps it.
Finalized(e, s) ==
  /\ skill' = Saved(e, s)
  /\ told' = [told EXCEPT ![e] = s]
  /\ worker' = Killed(e)
  /\ IF s = "stopped" THEN live' = Gone(e) /\ robot' = RobotAfter(e)
     ELSE live' = [live EXCEPT ![e].cancelled = TRUE] /\ UNCHANGED robot
  /\ cmd' = CmdIdle
  /\ Noted(s = "stopped")

\* WorkerProcess.Call lets the requests that came before the reply be handled first; the
\* model lets them be handled before or after, which allows more.
StopReplied ==
  LET e == cmd.e
      w == worker[e][cmd.gen]
  IN /\ cmd.pc = "worker"
     /\ w.on /\ w.stop = "ready" /\ w.hold \in {3, 4}
     /\ Finalized(e, IF w.hold = 3 THEN "stopped" ELSE "interrupted")
     /\ evidence' = IF w.hold = 3 THEN [evidence EXCEPT ![e] = TRUE] ELSE evidence
     /\ UNCHANGED <<journal, device, sent, owner, handler, run, credit>>

\* The reply is lost with the Worker: the stored evidence decides.
HasEvidence(e) == evidence[e]

StopUnanswered ==
  /\ cmd.pc = "worker"
  /\ ~worker[cmd.e][cmd.gen].on
  /\ Finalized(cmd.e, IF HasEvidence(cmd.e) THEN "stopped" ELSE "interrupted")
  /\ UNCHANGED <<evidence, journal, device, sent, owner, handler, run, credit>>

Stopping ==
  \/ StopLatches \/ ActionHalted \/ WorkerToldToStop \/ StopReplied \/ StopUnanswered
  \/ \E k \in Keys : StopsAction(k)
-----------------------------------------------------------------------------
(* Restart and shutdown of the Pilot.                                      *)

\* The process dies with its Workers; NewRunner takes back the lock of an Action that
\* has not ended, and Recover starts the Worker of an Execution that has not ended.
PilotRestarts ==
  LET open == ListActiveActions
      R == ListRecoverableSkillExecutions
      afresh(e) == [x \in Execs |-> IF x = e THEN [NotLive EXCEPT !.on = TRUE, !.gen = 1] ELSE NotLive]
  IN /\ exit.pc = "no"
     /\ PaysFor("crash")
     /\ boots' = boots + 1
     /\ owner' \in IF open = {} THEN {None} ELSE open
     /\ handler' = [e \in Execs |-> [g \in Gens |-> HandlerIdle]]
     /\ cmd' = CmdIdle
     /\ \/ /\ R = {}
           /\ robot' = None
           /\ live' = [e \in Execs |-> NotLive]
           /\ worker' = [e \in Execs |-> [g \in Gens |-> NoWorker]]
           /\ run' = [e \in Execs |-> [g \in Gens |-> "none"]]
           /\ UNCHANGED skill
        \/ \E e \in R, up \in BOOLEAN :
             /\ robot' = e
             /\ skill' = [x \in Execs |-> IF x \notin R THEN skill[x]
                                          ELSE IF x = e /\ up THEN "running" ELSE "interrupted"]
             /\ live' = IF up THEN afresh(e) ELSE [x \in Execs |-> NotLive]
             /\ worker' = [x \in Execs |-> [g \in Gens |->
                             IF up /\ x = e /\ g = 1 THEN FreshWorker ELSE NoWorker]]
             /\ run' = [x \in Execs |-> [g \in Gens |->
                             IF up /\ x = e /\ g = 1 THEN "calling" ELSE "none"]]
     /\ UNCHANGED <<evidence, journal, device, sent, told, exit>>

\* SIGTERM between two commands: every Execution on the list is stopped, one by one.
PilotExits ==
  /\ exit.pc = "no" /\ cmd.pc = "idle"
  /\ PaysFor("exit")
  /\ exit' = [pc |-> "stopping", ok |-> TRUE,
              list |-> ListRecoverableSkillExecutions]
  /\ UNCHANGED <<stored, device, sent, robot, owner, live, worker, handler, run, cmd, told>>

ExitStops(e) ==
  /\ exit.pc = "stopping" /\ cmd.pc = "idle"
  /\ e \in exit.list
  /\ \/ /\ StopBegins(e)
        /\ exit' = [exit EXCEPT !.list = @ \ {e}, !.ok = @ /\ live[e].on]
        /\ UNCHANGED credit
     \/ /\ skill[e] \in SkillEnds \ {"interrupted"}
        /\ exit' = [exit EXCEPT !.list = @ \ {e}, !.ok = @ /\ skill[e] # "failed"]
        /\ UNCHANGED <<stored, device, sent, robot, owner, live, worker, handler, run, cmd, told, credit>>

\* The report says that the Robot holds when no stop failed.
ExitReports ==
  /\ exit.pc = "stopping" /\ cmd.pc = "idle" /\ exit.list = {}
  /\ exit' = [exit EXCEPT !.pc = "reported"]
  /\ UNCHANGED <<stored, device, sent, robot, owner, live, worker, handler, run, cmd, told, credit>>

\* A step of the Pilot process that is up.
Step(A) == Up /\ A /\ boots' = boots

PilotNext ==
  \/ \E e \in Execs : Step(SkillStarts(e) \/ SkillStops(e) \/ ExitStops(e))
  \/ \E e \in Execs, g \in Gens :
       \/ Step(Handling(e, g) \/ AgentReplies(e, g) \/ Running(e, g))
       \/ Step(WorkerReturns(e, g) \/ WorkerHolds(e, g) \/ WorkerDies(e, g))
       \/ \E req \in {"start", "result", "ask", "note"} : Step(WorkerAsks(e, g, req))
  \/ \E i \in Invocations : Step(DeviceEnds(i))
  \/ Step(SkillLaunched \/ Stopping \/ PilotExits \/ ExitReports)
  \/ PilotRestarts

PilotSpec == PilotInit /\ [][PilotNext]_pilotVars

\* The goroutines run, a call to an Ability returns (it has a timeout), an Ability ends
\* its invocations, and a Worker that is not waiting for an answer goes on.
PilotFairness ==
  /\ WF_pilotVars(Step(Stopping))
  /\ \A i \in Invocations : WF_pilotVars(Step(DeviceEnds(i)))
  /\ \A e \in Execs, g \in Gens : /\ WF_pilotVars(Step(Handling(e, g)))
                                  /\ WF_pilotVars(Step(WorkerHolds(e, g)))

PilotFairSpec == PilotSpec /\ PilotFairness
-----------------------------------------------------------------------------
(* What makes it correct.                                                  *)

\* StartTask is called at most once for an Action key: not by a Worker that was
\* restarted, not by the handler of the old one, not after a restart of the Pilot.
ActionIsSentOnce == \A i \in Invocations : sent[i] <= 1

Moves(e) == \E k \in Keys : device[<<e, k>>] = "moving"

NothingRestarted == boots = 1 /\ \A e \in Execs : live[e].gen < 2

\* runWorker gave e up, as failed, because its Worker could not be restarted.  The handler
\* of the old Worker may be between the check of the lock and its taking (StartAction): it
\* then takes the lock from the Execution that has the Robot by that time.
GivenUp(e) == skill[e] = "failed" /\ live[e].gen # 0 /\ worker[e][1].go # "failed"
Undisturbed(e) == \A f \in Execs \ {e} : ~GivenUp(f)

\* An Execution reported as completed or stopped has nothing moving: the end waits for
\* the physical lock (runWorker, the busy Robot that refuses hold), whatever the Worker
\* claims.  A restarted Worker or Pilot, and the handler of an Execution that was given
\* up, do not keep this.
EndsAreQuiet ==
  NothingRestarted =>
    \A e \in Execs : told[e] \in {"completed", "stopped"} /\ Undisturbed(e) => ~Moves(e)

\* What moves the Robot holds its lock, from before StartTask until the end is
\* confirmed, as long as neither the Pilot nor a Worker is restarted and no other
\* Execution was given up.
MovingIsLocked ==
  NothingRestarted =>
    \A i \in Invocations : device[i] = "moving" /\ Undisturbed(i[1]) => owner = i

\* A stop returns: no wait for the Agent, poll of an Action or lost Worker keeps it.
StopReturns == cmd.pc \in {"latch", "actions", "halt", "worker"} ~> cmd.pc = "idle" \/ ~Up

\* stopActivePilotWork (cmd/semantic-pilot/main.go) reports that the Robot holds, or
\* that no physical Action is active, only when nothing moves.
SafeReportIsTrue == exit.pc = "reported" /\ exit.ok => \A e \in Execs : ~Moves(e)
=============================================================================
