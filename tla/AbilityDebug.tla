---------------------------- MODULE AbilityDebug -----------------------------
(***************************************************************************)
(* Debugging one Ability of a Robot by hand                                *)
(* (src/internal/pilot/abilitydebug.go): the Server sends start and stop   *)
(* commands, the Pilot keeps a row per debug, calls the Ability and polls  *)
(* it from a goroutine.  An answer that does not come says nothing about   *)
(* the Robot, so the row is then "interrupted" and keeps the Robot; a new  *)
(* debug starts only when every row has a confirmed end.                   *)
(*                                                                         *)
(* The command loop of the Pilot handles one command at a time, and stops  *)
(* what is active when it shuts down; monitors run beside it.  Both read a *)
(* row, call the Ability and save the row in separate steps.               *)
(***************************************************************************)
EXTENDS Naturals, Sequences, SequencesExt

CONSTANTS
  Debugs,      \* ids the Server gives to debugs
  NoDebug,
  StopBudget,  \* stop requests of users
  DebugFaults  \* lost answers, failed writes, dropped connections and restarts

ASSUME AbilityDebugAssumption ==
  NoDebug \notin Debugs /\ StopBudget \in Nat /\ DebugFaults \in Nat

VARIABLES
  row,         \* debug -> the status in pilot_ability_debug, "none" without a row
  invocation,  \* debug -> what the Ability does with its invocation
  orders,      \* commands on their way to the Pilot
  handler,     \* what the command loop is doing
  monitor,     \* debug -> its polling goroutine
  polled,      \* debug -> the answer the goroutine holds
  serving,     \* FALSE once the Pilot shuts down
  leaving,     \* debugs the shutdown has still to stop
  skillRuns,   \* a Robot Skill holds the Robot
  stopsAsked, debugFaults

pilotDebugVars == <<row, invocation, orders, handler, monitor, polled, serving, leaving, skillRuns>>
debugVars == <<pilotDebugVars, stopsAsked, debugFaults>>

Ended == {"succeeded", "failed", "stopped"}

\* "interrupted" ends the goroutine and is no confirmed end.
abilityDebugTerminal(status) == status \in Ended \cup {"interrupted"}

GetAbilityDebug(d) == row[d]
HasDebug(d) == GetAbilityDebug(d) # "none"
SaveAbilityDebug(d, status) == row' = [row EXCEPT ![d] = status]
ListActiveAbilityDebug == {d \in Debugs : row[d] \notin Ended \cup {"none"}}

HandlerIdle == [does |-> "reads", id |-> NoDebug]

DebugInit ==
  /\ row = [d \in Debugs |-> "none"] /\ invocation = [d \in Debugs |-> "none"]
  /\ orders = <<>> /\ handler = HandlerIdle
  /\ monitor = [d \in Debugs |-> "none"] /\ polled = [d \in Debugs |-> "none"]
  /\ serving = TRUE /\ leaving = {} /\ skillRuns = FALSE
  /\ stopsAsked = 0 /\ debugFaults = 0

DebugSteady == UNCHANGED <<stopsAsked, debugFaults>>
DebugFault == debugFaults < DebugFaults /\ debugFaults' = debugFaults + 1 /\ UNCHANGED stopsAsked

\* Most callers go on, whether the row could be written or not.
Noted(d, status) ==
  \/ SaveAbilityDebug(d, status) /\ DebugSteady
  \/ UNCHANGED row /\ DebugFault

-----------------------------------------------------------------------------
(* The Server.  It checks the last heartbeat, which may be old, and sends. *)

\* The id is new.
StartAbilityDebug(d) ==
  /\ serving /\ ~HasDebug(d) /\ handler.id # d
  /\ ~ \E i \in DOMAIN orders : orders[i].id = d
  /\ orders' = Append(orders, [do |-> "start", id |-> d])
  /\ DebugSteady
  /\ UNCHANGED <<row, invocation, handler, monitor, polled, serving, leaving, skillRuns>>

\* The id is the one the user names.
StopAbilityDebug(d) ==
  /\ serving
  /\ stopsAsked < StopBudget /\ stopsAsked' = stopsAsked + 1 /\ UNCHANGED debugFaults
  /\ orders' = Append(orders, [do |-> "stop", id |-> d])
  /\ UNCHANGED <<row, invocation, handler, monitor, polled, serving, leaving, skillRuns>>

\* What was sent on a connection is gone with it; the Pilot dials again.
DebugLinkDrops ==
  /\ orders # <<>> /\ orders' = <<>> /\ DebugFault
  /\ UNCHANGED <<row, invocation, handler, monitor, polled, serving, leaving, skillRuns>>

-----------------------------------------------------------------------------
(* Start on the Pilot. *)

DebugBusyUnlessInterrupted == \E d \in ListActiveAbilityDebug : ~abilityDebugTerminal(row[d])

DebugBusy == ListActiveAbilityDebug # {}

\* The command loop takes a command once it is done with the one before.
TakesCommand(do) ==
  /\ handler = HandlerIdle /\ orders # <<>> /\ Head(orders).do = do
  /\ orders' = Tail(orders)

\* One goroutine per debug.
startMonitor(d) == monitor' = [monitor EXCEPT ![d] = IF @ = "none" THEN "reads" ELSE @]

\* Under mu: an id that has a row is answered with it, and no call leaves before the
\* row is written.
StartDebug ==
  /\ TakesCommand("start")
  /\ LET d == Head(orders).id IN
     \/ /\ HasDebug(d) \/ DebugBusy \/ skillRuns
        /\ UNCHANGED <<row, handler>> /\ DebugSteady
     \/ /\ ~HasDebug(d) /\ ~DebugBusy /\ ~skillRuns
        /\ \/ /\ SaveAbilityDebug(d, "starting") /\ DebugSteady
              /\ handler' = [does |-> "starts", id |-> d]
           \/ UNCHANGED <<row, handler>> /\ DebugFault
  /\ UNCHANGED <<invocation, monitor, polled, serving, leaving, skillRuns>>

StartTaskLeaves ==
  /\ handler.does = "starts" /\ invocation[handler.id] = "none"
  /\ invocation' = [invocation EXCEPT ![handler.id] = "sent"]
  /\ DebugSteady
  /\ UNCHANGED <<row, orders, handler, monitor, polled, serving, leaving, skillRuns>>

\* What Start makes of the answer to StartTask.
Answered(d) ==
  IF invocation[d] = "refused" THEN "failed" ELSE "running"

\* Without the row "running" there is no goroutine either.
StartTaskReturns ==
  /\ handler.does = "starts" /\ invocation[handler.id] \notin {"none", "sent"}
  /\ LET d == handler.id IN
     \/ /\ SaveAbilityDebug(d, Answered(d)) /\ DebugSteady
        /\ IF Answered(d) = "running" THEN startMonitor(d) ELSE UNCHANGED monitor
     \/ UNCHANGED <<row, monitor>> /\ DebugFault
  /\ handler' = HandlerIdle
  /\ UNCHANGED <<invocation, orders, polled, serving, leaving, skillRuns>>

\* The call or its answer is lost: one query, and only a confirmed end ends the
\* row.
Reconciled(d) == IF invocation[d] \in Ended THEN invocation[d] ELSE "interrupted"

StartTaskUnconfirmed ==
  /\ handler.does = "starts" /\ DebugFault
  /\ \/ UNCHANGED row
     \/ \E status \in {Reconciled(handler.id), "interrupted"} :
          SaveAbilityDebug(handler.id, status)
  /\ handler' = HandlerIdle
  /\ UNCHANGED <<invocation, orders, monitor, polled, serving, leaving, skillRuns>>

-----------------------------------------------------------------------------
(* Stop on the Pilot. *)

\* A debug without a row is an error, one with a confirmed end is answered; an
\* interrupted one may be stopped again.
StopReads(d) ==
  handler' = IF GetAbilityDebug(d) \in Ended \cup {"none"} THEN handler
             ELSE [does |-> "stopping", id |-> d]

StopDebug ==
  /\ TakesCommand("stop")
  /\ StopReads(Head(orders).id) /\ DebugSteady
  /\ UNCHANGED <<row, invocation, monitor, polled, serving, leaving, skillRuns>>

\* Over what the goroutine saved since.
StopSaves ==
  /\ handler.does = "stopping" /\ Noted(handler.id, "stopping")
  /\ handler' = [handler EXCEPT !.does = "stops"]
  /\ UNCHANGED <<invocation, orders, monitor, polled, serving, leaving, skillRuns>>

\* Only the answer "stopped" counts: an invocation that ended by itself
\* meanwhile leaves the row interrupted, as one the Ability does not know.
StopResult(d) == IF invocation[d] = "stopped" THEN "stopped" ELSE "interrupted"

StopReturnsEvidence ==
  /\ handler.does = "stops" /\ invocation[handler.id] # "moving"
  /\ Noted(handler.id, StopResult(handler.id))
  /\ handler' = [handler EXCEPT !.does = "cancels"]
  /\ UNCHANGED <<invocation, orders, monitor, polled, serving, leaving, skillRuns>>

StopUnconfirmed ==
  /\ handler.does = "stops" /\ DebugFault
  /\ SaveAbilityDebug(handler.id, "interrupted") \/ UNCHANGED row
  /\ handler' = [handler EXCEPT !.does = "cancels"]
  /\ UNCHANGED <<invocation, orders, monitor, polled, serving, leaving, skillRuns>>

\* A cancelled goroutine gives up its query; one that holds an answer goes on.
cancelMonitor ==
  /\ handler.does = "cancels"
  /\ monitor' = [monitor EXCEPT ![handler.id] = IF @ = "saves" THEN @ ELSE "none"]
  /\ handler' = HandlerIdle
  /\ DebugSteady /\ UNCHANGED <<row, invocation, orders, polled, serving, leaving, skillRuns>>

-----------------------------------------------------------------------------
(* The goroutine that polls. *)

MonitorReads(d) ==
  /\ monitor[d] = "reads"
  /\ monitor' = [monitor EXCEPT ![d] = IF abilityDebugTerminal(GetAbilityDebug(d)) THEN "none" ELSE "polls"]
  /\ DebugSteady
  /\ UNCHANGED <<row, invocation, orders, handler, polled, serving, leaving, skillRuns>>

\* What the Ability reports of an invocation; one it never started is an error.
Reported(d) ==
  IF invocation[d] = "moving" THEN "running"
  ELSE IF invocation[d] \in Ended THEN invocation[d] ELSE "error"

MonitorPolls(d) ==
  /\ monitor[d] = "polls"
  /\ \/ polled' = [polled EXCEPT ![d] = Reported(d)] /\ DebugSteady
     \/ polled' = [polled EXCEPT ![d] = "error"] /\ DebugFault
  /\ monitor' = [monitor EXCEPT ![d] = "checks"]
  /\ UNCHANGED <<row, invocation, orders, handler, serving, leaving, skillRuns>>

\* Before it saves an answer the goroutine reads the row again; an error is
\* saved over whatever the row says by now.
GivesWay(d) == polled[d] # "error" /\ (row[d] = "stopping" \/ abilityDebugTerminal(row[d]))

MonitorChecks(d) ==
  /\ monitor[d] = "checks"
  /\ monitor' = [monitor EXCEPT ![d] = IF GivesWay(d) THEN "none" ELSE "saves"]
  /\ polled' = [polled EXCEPT ![d] = IF GivesWay(d) THEN "none" ELSE @]
  /\ DebugSteady
  /\ UNCHANGED <<row, invocation, orders, handler, serving, leaving, skillRuns>>

\* An answer becomes the status; an error leaves the Robot in doubt.
applyDebugState(d) == IF polled[d] = "error" THEN "interrupted" ELSE polled[d]

\* The goroutine ends with what it saw, whether the row says so or not.
MonitorSaves(d) ==
  /\ monitor[d] = "saves"
  /\ LET status == applyDebugState(d) IN
     /\ Noted(d, status)
     /\ monitor' = [monitor EXCEPT ![d] = IF abilityDebugTerminal(status) THEN "none" ELSE "reads"]
  /\ polled' = [polled EXCEPT ![d] = "none"]
  /\ UNCHANGED <<invocation, orders, handler, serving, leaving, skillRuns>>

-----------------------------------------------------------------------------
(* The Ability, the Skills of the Robot, and the Pilot process. *)

\* A call that was sent may be carried out long after its caller gave up.
AbilityAnswersStart(d) ==
  /\ invocation[d] = "sent"
  /\ \E answer \in {"moving", "refused"} :
       invocation' = [invocation EXCEPT ![d] = answer]
  /\ DebugSteady
  /\ UNCHANGED <<row, orders, handler, monitor, polled, serving, leaving, skillRuns>>

\* By itself, or because a stop was asked for, by whoever still waits for its answer
\* or gave up.
AbilityEnds(d) ==
  /\ invocation[d] = "moving"
  /\ \E end \in Ended : invocation' = [invocation EXCEPT ![d] = end]
  /\ DebugSteady
  /\ UNCHANGED <<row, orders, handler, monitor, polled, serving, leaving, skillRuns>>

\* A Skill is started by the command loop too, and not refused for a debug.
SkillStarts ==
  /\ serving /\ handler = HandlerIdle /\ ~skillRuns
  /\ skillRuns' = TRUE /\ DebugSteady
  /\ UNCHANGED <<row, invocation, orders, handler, monitor, polled, serving, leaving>>

RobotReleased ==
  /\ skillRuns /\ skillRuns' = FALSE /\ DebugSteady
  /\ UNCHANGED <<row, invocation, orders, handler, monitor, polled, serving, leaving>>

\* The command loop ends, and what is active then is to be stopped.
PilotShutsDown ==
  /\ serving /\ handler = HandlerIdle /\ DebugFault
  /\ serving' = FALSE /\ orders' = <<>> /\ leaving' = ListActiveAbilityDebug
  /\ UNCHANGED <<row, invocation, handler, monitor, polled, skillRuns>>

\* One after the other, and the next one also when a stop failed.
stopActivePilotWork(d) ==
  /\ ~serving /\ handler = HandlerIdle /\ d \in leaving
  /\ leaving' = leaving \ {d} /\ StopReads(d) /\ DebugSteady
  /\ UNCHANGED <<row, invocation, orders, monitor, polled, serving, skillRuns>>

\* A crash at any point, or the end of a shutdown.  What was active is polled again
\* and never started again; a Skill keeps the Robot if its Worker starts.
Recover ==
  /\ \/ DebugFault
     \/ ~serving /\ handler = HandlerIdle /\ leaving = {} /\ DebugSteady
  /\ serving' = TRUE /\ orders' = <<>> /\ handler' = HandlerIdle /\ leaving' = {}
  /\ skillRuns' \in {skillRuns, FALSE}
  /\ monitor' = [d \in Debugs |->
       IF d \in ListActiveAbilityDebug /\ row[d] # "interrupted" THEN "reads" ELSE "none"]
  /\ polled' = [d \in Debugs |-> "none"]
  /\ UNCHANGED <<row, invocation>>

DebugNext ==
  \/ \E d \in Debugs :
       \/ StartAbilityDebug(d) \/ StopAbilityDebug(d)
       \/ MonitorReads(d) \/ MonitorPolls(d) \/ MonitorChecks(d) \/ MonitorSaves(d)
       \/ AbilityAnswersStart(d) \/ AbilityEnds(d) \/ stopActivePilotWork(d)
  \/ DebugLinkDrops \/ StartDebug \/ StartTaskLeaves \/ StartTaskReturns
  \/ StartTaskUnconfirmed \/ StopDebug \/ StopSaves \/ StopReturnsEvidence
  \/ StopUnconfirmed \/ cancelMonitor \/ SkillStarts \/ RobotReleased
  \/ PilotShutsDown \/ Recover

DebugSpec == DebugInit /\ [][DebugNext]_debugVars

-----------------------------------------------------------------------------

\* What the Pilot reports as over is over: a debug whose row has a confirmed end
\* has nothing moving and nothing under way that could still begin to move,
\* however answers, polls, stops and restarts fell; and so at most one debug
\* moves the Robot.
DebugEndIsQuiet ==
  /\ \A d \in Debugs : row[d] \in Ended => invocation[d] \notin {"sent", "moving"}
  /\ \A d, e \in Debugs : invocation[d] = "moving" /\ invocation[e] = "moving" => d = e
=============================================================================
