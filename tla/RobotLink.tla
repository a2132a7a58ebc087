------------------------------ MODULE RobotLink ------------------------------
(***************************************************************************)
(* The Robot service of the Server (internal/robot), the Pilot of one       *)
(* Robot (internal/pilot) and the WebSocket between them, step by step.     *)
(*                                                                          *)
(* On the Server robot.run and robot.stop hold the Robot's admission mutex, *)
(* the gateway goroutine, a registration and an operator do not; each reads *)
(* and writes the Execution rows and the Pilot row (current_execution_id    *)
(* and robot_status) in separate statements, and the copy of the Pilot row  *)
(* in the session is written apart from both.  A step below is one          *)
(* statement, or a read with the write that directly follows it.            *)
(*                                                                          *)
(* The writes that Reconcile makes for one Execution are one step, and the  *)
(* gateway finishes a message of an old connection before it takes one of   *)
(* the new: the code has a goroutine per connection.  Skill and Ability     *)
(* commands, Artifacts and views published to the user are left out.        *)
(*                                                                          *)
(* WorkflowEngine sees the same service as one atomic component.  The data  *)
(* of an Execution is reduced to its status; waiting_agent counts as        *)
(* running and starting as queued, because no guard here tells them apart.  *)
(***************************************************************************)
EXTENDS Naturals, Sequences, FiniteSets

CONSTANTS Execs,     \* Executions, one per request key, all for one Robot
          None,
          Capacity,  \* of the command channel of a session (128 in the code)
          Budgets    \* how often requests, broken processes and failures may happen

\* "ask": robot.stop, operator confirmations and heartbeats; "break": lost connections,
\* crashes of the Server and of the Pilot; "fail": Workers and calls that fail.
Limits == {"ask", "break", "fail"}

ASSUME NoneAssumption == None \notin Execs
ASSUME CapacityAssumption == Capacity \in Nat \ {0}
ASSUME BudgetAssumption == Budgets \subseteq [Limits -> Nat]
------------------------------------------------------------------------------
Active == {"queued", "running", "stopping"}
Ends == {"completed", "failed", "stopped"}
Terminal == Ends \cup {"interrupted"}
Status == Active \cup Terminal \cup {"none"}

Row == [ptr : Execs \cup {None}, robot : {"idle", "busy", "interrupted", "offline"}]
NoRow == [ptr |-> None, robot |-> "none"]
Writers == {"run", "gw", "op"}

VARIABLES
  exec,     \* robot_executions: the status of each Execution
  log,      \* robot_execution_events: the last execution.terminal of each
  row,      \* robot_pilots: current_execution_id and robot_status
  vouched,  \* Executions declared stopped, by an operator or by a managed hold
  session,  \* the Pilot's session: installed, its connection lost, copy of the row
  run,      \* robot.run in progress
  stop,     \* robot.stop in progress
  op,       \* an operator confirmation in progress
  gw,       \* the gateway goroutine
  cn,       \* a registration in progress
  write,    \* per goroutine, the row it still has to copy into the session
  pending,  \* commands sent and not acknowledged
  link,     \* the connection as the Pilot sees it
  down, up, \* commands to and messages from the Pilot
  work,     \* pilot_skill_executions
  busy,     \* the Execution that holds the Robot on the Pilot
  live,     \* Executions with a Worker on record
  hand,     \* the command the Pilot is carrying out
  beat,     \* a heartbeat that was composed and not yet written
  left      \* what remains of the budget

server == <<exec, log, row, vouched>>
calls == <<run, stop, op>>
wire == <<link, down, up>>
pilot == <<work, busy, live, hand, beat>>
vars == <<exec, log, row, vouched, session, run, stop, op, gw, cn, write, pending,
          link, down, up, work, busy, live, hand, beat, left>>

Idle == [pc |-> "idle", e |-> None]
HandFree == [k |-> "none", e |-> None, n |-> 0]
NoBeat == [on |-> FALSE, ptr |-> None]

Init ==
  /\ exec = [e \in Execs |-> "none"] /\ log = [e \in Execs |-> "none"]
  /\ row = [ptr |-> None, robot |-> "idle"] /\ vouched = {}
  /\ session = [on |-> TRUE, stale |-> FALSE, row |-> row]
  /\ run = Idle /\ stop = [pc |-> "idle", e |-> None, n |-> 0] /\ op = Idle
  /\ gw = [pc |-> "idle"] /\ cn = [pc |-> "idle", ptr |-> None]
  /\ write = [p \in Writers |-> NoRow] /\ pending = {}
  /\ link = "up" /\ down = <<>> /\ up = <<>>
  /\ work = [e \in Execs |-> "none"] /\ busy = None /\ live = {} /\ hand = HandFree
  /\ beat = NoBeat /\ left \in Budgets

Spend(k) == left[k] > 0 /\ left' = [left EXCEPT ![k] = @ - 1]
------------------------------------------------------------------------------
(* The rows.                                                                *)

FreeRow(r) == r.ptr = None /\ r.robot \notin {"busy", "interrupted"}
NoActive == \A e \in Execs : exec[e] \notin Active

Busy(e) == [ptr |-> e, robot |-> "busy"]
Held(e) == [ptr |-> e, robot |-> "interrupted"]
Released == [ptr |-> None, robot |-> "idle"]

\* setPilotExecution and setPilotInterrupted save the row first ...
SetPilot(p, r) == row' = r /\ write' = [write EXCEPT ![p] = r]

\* ... and then copy it into the session, if there is one.
SetSession(p) ==
  /\ write[p] # NoRow
  /\ write' = [write EXCEPT ![p] = NoRow]
  /\ session' = IF session.on THEN [session EXCEPT !.row = write[p]] ELSE session
  /\ UNCHANGED <<server, calls, gw, cn, pending, wire, pilot, left>>

\* A command reaches the channel of the session; on a connection that is already lost
\* nobody takes it out again.
CanSend == session.on /\ (session.stale \/ Len(down) < Capacity)
Sent(c) == down' = IF session.stale THEN down ELSE Append(down, c)
------------------------------------------------------------------------------
(* robot.run.                                                               *)

AdmissionsWithoutRun == stop.pc = "idle"

\* robotAdmission: robot.run (TryLock) and robot.stop exclude each other.
Admissions == run.pc = "idle" /\ stop.pc = "idle" /\ write["run"] = NoRow

\* Request key, TryLock, preflight, Pilot row, online, and the input sent for validation.
RunBegins(e) ==
  /\ Admissions /\ exec[e] = "none" /\ NoActive /\ FreeRow(row) /\ session.on
  /\ run' = [pc |-> "validating", e |-> e]
  /\ UNCHANGED <<server, session, stop, op, gw, cn, write, pending, wire, pilot, left>>

\* The Pilot's refusal, a cancelled request or a closed session end the wait.
RunRefused ==
  /\ run.pc \in {"validating", "closed"}
  /\ run.pc = "validating" => left["fail"] > 0
  /\ run' = Idle
  /\ left' = [left EXCEPT !["fail"] = IF run.pc = "closed" THEN @ ELSE @ - 1]
  /\ UNCHANGED <<server, session, stop, op, gw, cn, write, pending, wire, pilot>>

\* The Pilot's answer: AdmitRobotExecution repeats the checks in the transaction that
\* inserts the row.
Admissible == NoActive /\ FreeRow(row)

RunAdmits ==
  /\ run.pc = "validating" /\ ~session.stale
  /\ IF Admissible
     THEN exec' = [exec EXCEPT ![run.e] = "queued"] /\ run' = [run EXCEPT !.pc = "admitted"]
     ELSE exec' = exec /\ run' = Idle
  /\ UNCHANGED <<log, row, vouched, session, stop, op, gw, cn, write, pending, wire, pilot, left>>

\* A missing Artifact fails the Execution, a cancelled request stops it: nothing was sent.
RunAbandons ==
  /\ run.pc = "admitted" /\ Spend("fail")
  /\ \E st \in {"failed", "stopped"} : exec' = [exec EXCEPT ![run.e] = st]
  /\ run' = Idle
  /\ UNCHANGED <<log, row, vouched, session, stop, op, gw, cn, write, pending, wire, pilot>>

RunPoints ==
  /\ run.pc = "admitted"
  /\ SetPilot("run", Busy(run.e))
  /\ run' = [run EXCEPT !.pc = "pointed"]
  /\ UNCHANGED <<exec, log, vouched, session, stop, op, gw, cn, pending, wire, pilot, left>>

RunSends ==
  /\ run.pc = "pointed" /\ write["run"] = NoRow
  /\ IF CanSend
     THEN /\ Sent([k |-> "start", e |-> run.e, n |-> 0])
          /\ run' = [run EXCEPT !.pc = "registering"] /\ exec' = exec
     ELSE /\ exec' = [exec EXCEPT ![run.e] = "interrupted"]
          /\ run' = [run EXCEPT !.pc = "unsent"] /\ down' = down
  /\ UNCHANGED <<log, row, vouched, session, stop, op, gw, cn, write, pending, link, up, pilot, left>>

\* sendCommand registers the command only after it is in the channel.
RunRegisters ==
  /\ run.pc = "registering"
  /\ pending' = pending \cup {<<run.e, 0>>}
  /\ run' = Idle
  /\ UNCHANGED <<server, session, stop, op, gw, cn, write, wire, pilot, left>>

RunInterrupts ==
  /\ run.pc = "unsent"
  /\ SetPilot("run", Held(run.e))
  /\ run' = Idle
  /\ UNCHANGED <<exec, log, vouched, session, stop, op, gw, cn, pending, wire, pilot, left>>

Run ==
  \/ \E e \in Execs : RunBegins(e)
  \/ RunRefused \/ RunAdmits \/ RunAbandons \/ RunPoints
  \/ RunSends \/ RunRegisters \/ RunInterrupts
------------------------------------------------------------------------------
(* robot.stop.                                                              *)

Stoppable(e) ==
  \/ exec[e] \in Active
  \/ exec[e] = "interrupted" /\ row.ptr = e /\ session.on

\* The status is read again under the mutex.
StopReads(e) ==
  /\ Admissions /\ Stoppable(e) /\ Spend("ask")
  /\ stop' = [pc |-> "read", e |-> e, n |-> left["ask"]]
  /\ UNCHANGED <<server, session, run, op, gw, cn, write, pending, wire, pilot>>

\* The row is written whatever has become of it since.
StopSaves ==
  /\ stop.pc = "read"
  /\ exec' = [exec EXCEPT ![stop.e] = "stopping"]
  /\ stop' = [stop EXCEPT !.pc = "saved"]
  /\ UNCHANGED <<log, row, vouched, session, run, op, gw, cn, write, pending, wire, pilot, left>>

StopSends ==
  /\ stop.pc = "saved"
  /\ IF CanSend
     THEN /\ Sent([k |-> "stop", e |-> stop.e, n |-> stop.n])
          /\ stop' = [stop EXCEPT !.pc = "registering"] /\ exec' = exec
     ELSE /\ exec' = [exec EXCEPT ![stop.e] = "interrupted"]
          /\ stop' = [pc |-> "idle", e |-> None, n |-> 0] /\ down' = down
  /\ UNCHANGED <<log, row, vouched, session, run, op, gw, cn, write, pending, link, up, pilot, left>>

StopRegisters ==
  /\ stop.pc = "registering"
  /\ pending' = pending \cup {<<stop.e, stop.n>>}
  /\ stop' = [pc |-> "idle", e |-> None, n |-> 0]
  /\ UNCHANGED <<server, session, run, op, gw, cn, write, wire, pilot, left>>

Stop == (\E e \in Execs : StopReads(e)) \/ StopSaves \/ StopSends \/ StopRegisters
------------------------------------------------------------------------------
(* ConfirmOperatorStop and ConfirmManagedSimulationHold.                    *)

\* An operator may not skip robot.stop of active work nor repeat a confirmation; the hold
\* of a managed simulation covers whatever is not over.
Vouchable(e, by) ==
  IF by = "operator"
  THEN /\ exec[e] \in {"stopping", "interrupted", "failed", "stopped"}
       /\ ~(exec[e] = "stopped" /\ <<e, by>> \in vouched)
  ELSE exec[e] \in Active \cup {"interrupted"}

ConfirmReads(e) ==
  /\ op.pc = "idle" /\ Spend("ask")
  /\ \E by \in {"operator", "hold"} :
       /\ Vouchable(e, by)
       /\ op' = [pc |-> "read", e |-> e, by |-> by]
  /\ UNCHANGED <<server, session, run, stop, gw, cn, write, pending, wire, pilot>>

ConfirmSaves ==
  /\ op.pc = "read"
  /\ exec' = [exec EXCEPT ![op.e] = "stopped"] /\ vouched' = vouched \cup {<<op.e, op.by>>}
  /\ op' = [op EXCEPT !.pc = "saved"]
  /\ UNCHANGED <<log, row, session, run, stop, gw, cn, write, pending, wire, pilot, left>>

ConfirmReleases ==
  /\ op.pc = "saved"
  /\ IF row.ptr = op.e THEN SetPilot("op", Released) ELSE UNCHANGED <<row, write>>
  /\ op' = Idle
  /\ UNCHANGED <<exec, log, vouched, session, run, stop, gw, cn, pending, wire, pilot, left>>

Confirm == (\E e \in Execs : ConfirmReads(e)) \/ ConfirmSaves \/ ConfirmReleases
------------------------------------------------------------------------------
(* The gateway goroutine takes one message at a time.                       *)

Ready == gw.pc = "idle" /\ write["gw"] = NoRow
Receives(k) ==
  /\ Ready /\ session.on /\ ~session.stale /\ link = "up"
  /\ up # <<>> /\ Head(up).k = k /\ up' = Tail(up)

\* Nothing over becomes active again, and stopping yields only to an end.
Projected(was, st) ==
  IF \/ was \notin Active /\ st \in Active
     \/ was = "stopping" /\ st \in Active
  THEN was ELSE st

\* HandlePilotEvent: the event is appended, the status projected from the row just read.
GatewayEvent ==
  LET m == Head(up) IN
  /\ Receives("event")
  /\ log' = IF m.terminal THEN [log EXCEPT ![m.e] = m.st] ELSE log
  /\ gw' = [pc |-> "save", e |-> m.e, next |-> Projected(exec[m.e], m.st), own |-> FALSE]
  /\ UNCHANGED <<exec, row, vouched, session, calls, cn, write, pending, link, down, pilot, left>>

RefusalFails(m) == "failed"

Refusal(m) == IF m.n = 0 THEN "failed" ELSE "interrupted"

\* HandleCommandAckResult: only a refusal of a registered command has an effect, a
\* refused start fails the Execution and a refused stop leaves it interrupted.
GatewayAck ==
  LET m == Head(up) IN
  /\ Receives("ack")
  /\ pending' = pending \ {<<m.e, m.n>>}
  /\ gw' = IF <<m.e, m.n>> \in pending /\ ~m.ok /\ exec[m.e] \in Active
           THEN [pc |-> "save", e |-> m.e, next |-> Refusal(m), own |-> TRUE]
           ELSE gw
  /\ UNCHANGED <<server, session, calls, cn, write, link, down, pilot, left>>

GatewaySaves ==
  /\ gw.pc = "save"
  /\ exec' = [exec EXCEPT ![gw.e] = gw.next]
  /\ gw' = IF gw.next \in Active THEN [pc |-> "idle"] ELSE [gw EXCEPT !.pc = "point"]
  /\ UNCHANGED <<log, row, vouched, session, calls, cn, write, pending, wire, pilot, left>>

\* interrupted keeps the Robot; an end releases it, whichever Execution holds it (after a
\* refused start only if it is this one).
GatewayPoints ==
  /\ gw.pc = "point"
  /\ IF gw.next = "interrupted" THEN SetPilot("gw", Held(gw.e))
     ELSE IF gw.own /\ row.ptr # gw.e THEN UNCHANGED <<row, write>>
     ELSE SetPilot("gw", Released)
  /\ gw' = [pc |-> "idle"]
  /\ UNCHANGED <<exec, log, vouched, session, calls, cn, pending, wire, pilot, left>>

\* Heartbeat: the session under the lock, the row after it; an empty pointer keeps the
\* one the session has.
GatewayBeat ==
  LET m == Head(up)
      r == [ptr |-> IF m.ptr = None THEN session.row.ptr ELSE m.ptr,
            robot |-> IF m.ptr = None THEN "idle" ELSE "busy"]
  IN
  /\ Receives("beat")
  /\ session' = [session EXCEPT !.row = r]
  /\ gw' = [pc |-> "row", row |-> r]
  /\ UNCHANGED <<server, calls, cn, write, pending, link, down, pilot, left>>

\* The connection is gone: the session is removed, its copy saved as offline.
GatewayLeaves ==
  /\ Ready /\ session.on /\ session.stale
  /\ session' = [session EXCEPT !.on = FALSE]
  /\ gw' = [pc |-> "row", row |-> [session.row EXCEPT !.robot = "offline"]]
  /\ run' = IF run.pc = "validating" THEN [run EXCEPT !.pc = "closed"] ELSE run
  /\ UNCHANGED <<server, stop, op, cn, write, pending, wire, pilot, left>>

GatewaySavesRow ==
  /\ gw.pc = "row"
  /\ row' = gw.row /\ gw' = [pc |-> "idle"]
  /\ UNCHANGED <<exec, log, vouched, session, calls, cn, write, pending, wire, pilot, left>>

\* Reconcile works on a snapshot of the Pilot row and of the Executions.
GatewayReconciles ==
  LET m == Head(up) IN
  /\ Receives("recon")
  /\ gw' = [pc |-> "recon", row |-> row, local |-> exec, remote |-> m.remote,
            todo |-> {e \in Execs : exec[e] # "none"}, free |-> None]
  /\ UNCHANGED <<server, session, calls, cn, write, pending, link, down, pilot, left>>

\* recoverPersistedExecutionTerminal: the logged end wins over the projection.
Recovered(e) ==
  IF gw.local[e] # "completed" /\ log[e] \notin {"none", gw.local[e]} THEN log[e] ELSE gw.local[e]

\* An Execution that is active here takes the Pilot's status; one that the Pilot does
\* not have is interrupted.
Reconciled(e) ==
  IF Recovered(e) \notin Active THEN Recovered(e)
  ELSE IF gw.remote[e] = "none" THEN "interrupted" ELSE gw.remote[e]

ReconcileOne(e) ==
  LET missing == Recovered(e) \in Active /\ gw.remote[e] = "none"
      regained == Recovered(e) # gw.local[e] /\ Recovered(e) = "interrupted" /\ gw.row.ptr = e
  IN
  /\ gw.pc = "recon" /\ write["gw"] = NoRow /\ e \in gw.todo
  /\ exec' = IF Reconciled(e) # gw.local[e] THEN [exec EXCEPT ![e] = Reconciled(e)] ELSE exec
  /\ IF missing \/ regained THEN SetPilot("gw", Held(e)) ELSE UNCHANGED <<row, write>>
  /\ gw' = [gw EXCEPT !.todo = @ \ {e},
                      !.free = IF gw.row.ptr = e /\ Recovered(e) \in Ends THEN e ELSE @]
  /\ UNCHANGED <<log, vouched, session, calls, cn, pending, wire, pilot, left>>

\* The pointer of an Execution that is over is released if it is still the pointer.
ReconcileEnds ==
  /\ gw.pc = "recon" /\ write["gw"] = NoRow /\ gw.todo = {}
  /\ IF gw.free # None /\ row.ptr = gw.free
     THEN SetPilot("gw", Released) ELSE UNCHANGED <<row, write>>
  /\ gw' = [pc |-> "idle"]
  /\ UNCHANGED <<exec, log, vouched, session, calls, cn, pending, wire, pilot, left>>

Gateway ==
  \/ GatewayEvent \/ GatewayAck \/ GatewaySaves \/ GatewayPoints \/ GatewayBeat
  \/ GatewayLeaves \/ GatewaySavesRow \/ GatewayReconciles
  \/ (\E e \in Execs : ReconcileOne(e)) \/ ReconcileEnds
------------------------------------------------------------------------------
(* A registration, in a goroutine of its own: connect.                      *)

ConnectReads ==
  /\ link = "dial" /\ cn.pc = "idle"
  /\ cn' = [pc |-> "read", ptr |-> row.ptr]
  /\ UNCHANGED <<server, session, calls, gw, write, pending, wire, pilot, left>>

\* The new session replaces, and closes, the old one.
ConnectInstalls ==
  /\ cn.pc = "read"
  /\ session' = [on |-> TRUE, stale |-> FALSE, row |-> [ptr |-> cn.ptr, robot |-> "idle"]]
  /\ run' = IF run.pc = "validating" THEN [run EXCEPT !.pc = "closed"] ELSE run
  /\ cn' = [cn EXCEPT !.pc = "installed"]
  /\ UNCHANGED <<server, stop, op, gw, write, pending, wire, pilot, left>>

\* The row is saved, and the Pilot asked for its Executions.
ConnectSaves ==
  /\ cn.pc = "installed"
  /\ row' = [ptr |-> cn.ptr, robot |-> "idle"]
  /\ cn' = [pc |-> "idle", ptr |-> None]
  /\ link' = "up"
  /\ down' = IF Len(down) < Capacity THEN Append(down, [k |-> "recon", e |-> None, n |-> 0]) ELSE down
  /\ UNCHANGED <<exec, log, vouched, session, calls, gw, write, pending, up, pilot, left>>

Connect == ConnectReads \/ ConnectInstalls \/ ConnectSaves

\* The process dies: rows and events stay.
ServerCrashes ==
  /\ Spend("break")
  /\ session' = [session EXCEPT !.on = FALSE, !.stale = TRUE]
  /\ run' = Idle /\ stop' = [pc |-> "idle", e |-> None, n |-> 0] /\ op' = Idle
  /\ gw' = [pc |-> "idle"] /\ cn' = [pc |-> "idle", ptr |-> None]
  /\ write' = [p \in Writers |-> NoRow] /\ pending' = {}
  /\ link' = "down" /\ down' = <<>> /\ up' = <<>>
  /\ UNCHANGED <<server, pilot>>
------------------------------------------------------------------------------
(* The Pilot.  What it writes without a connection is lost.                 *)

Tell(ms) == up' = IF link = "down" THEN up ELSE up \o ms
Event(e, st, terminal) == [k |-> "event", e |-> e, st |-> st, terminal |-> terminal]
Ack(c, ok) == [k |-> "ack", e |-> c.e, n |-> c.n, ok |-> ok]

Takes(k) ==
  /\ link = "up" /\ hand = HandFree
  /\ down # <<>> /\ Head(down).k = k /\ down' = Tail(down)

AnyTime == TRUE

\* One Execution at a time holds the Robot.
RobotFree == busy = None

\* execution.start: a Worker that cannot be started leaves
\* a failed record, a Skill that cannot be resolved none.
PilotStarts ==
  LET c == Head(down) IN
  /\ Takes("start")
  /\ \/ /\ RobotFree
        /\ work' = [work EXCEPT ![c.e] = "running"] /\ busy' = c.e /\ live' = live \cup {c.e}
        /\ Tell(<<Event(c.e, "running", FALSE)>>)
        /\ hand' = c /\ left' = left
     \/ /\ ~RobotFree
        /\ Tell(<<Ack(c, FALSE)>>) /\ UNCHANGED <<work, busy, live, hand, left>>
     \/ /\ RobotFree /\ Spend("fail")
        /\ \E st \in {"none", "failed"} : work' = [work EXCEPT ![c.e] = st]
        /\ Tell(<<Ack(c, FALSE)>>) /\ UNCHANGED <<busy, live, hand>>
  /\ UNCHANGED <<server, session, calls, gw, cn, write, pending, link, beat>>

\* execution.accepted and the acknowledgement follow while the Worker runs already.
PilotAccepts ==
  /\ hand.k = "start" /\ hand' = HandFree
  /\ Tell(<<Event(hand.e, "running", FALSE), Ack(hand, TRUE)>>)
  /\ UNCHANGED <<server, session, calls, gw, cn, write, pending, link, down, work, busy, live, beat, left>>

\* execution.stop: what is over is acknowledged, what is unknown or has no Worker is not.
PilotStops ==
  LET c == Head(down) IN
  /\ Takes("stop")
  /\ \/ /\ work[c.e] \in Ends \cup {"none"}
        /\ Tell(<<Ack(c, work[c.e] # "none")>>) /\ UNCHANGED <<work, hand>>
     \/ /\ work[c.e] \notin Ends \cup {"none"} /\ c.e \notin live
        /\ work' = [work EXCEPT ![c.e] = "interrupted"]
        /\ Tell(<<Ack(c, FALSE)>>) /\ hand' = hand
     \/ /\ work[c.e] \notin Ends /\ c.e \in live
        /\ work' = [work EXCEPT ![c.e] = "stopping"]
        /\ hand' = c /\ up' = up
  /\ UNCHANGED <<server, session, calls, gw, cn, write, pending, link, busy, live, beat, left>>

\* The Abilities are stopped and the Worker asked for the hold; without a safe outcome
\* the Execution is interrupted: reported or not, acknowledged or refused.
PilotHalts ==
  /\ hand.k = "stop" /\ hand' = HandFree
  /\ \/ /\ work' = [work EXCEPT ![hand.e] = "stopped"] /\ live' = live \ {hand.e}
        /\ busy' = IF busy = hand.e THEN None ELSE busy
        /\ Tell(<<Event(hand.e, "stopped", FALSE), Ack(hand, TRUE)>>) /\ left' = left
     \/ /\ Spend("fail") /\ work' = [work EXCEPT ![hand.e] = "interrupted"]
        /\ \/ Tell(<<Event(hand.e, "interrupted", FALSE), Ack(hand, TRUE)>>)
           \/ Tell(<<Event(hand.e, "interrupted", FALSE), Ack(hand, FALSE)>>)
           \/ Tell(<<Ack(hand, FALSE)>>)
        /\ UNCHANGED <<live, busy>>
  /\ UNCHANGED <<server, session, calls, gw, cn, write, pending, link, down, beat>>

\* reconcile.request: every Execution that is not terminal, with its status.
PilotReconciles ==
  /\ Takes("recon")
  /\ Tell(<<[k |-> "recon", remote |-> [e \in Execs |-> IF work[e] \in Terminal THEN "none" ELSE work[e]]]>>)
  /\ UNCHANGED <<server, session, calls, gw, cn, write, pending, link, pilot, left>>

\* The Worker ends; an Execution of unknown physical state keeps the Robot.
WorkerEnds(e) ==
  /\ e \in live /\ work[e] = "running"
  /\ \E st \in {"completed", "failed", "interrupted"} :
       /\ IF st = "completed" THEN left' = left ELSE Spend("fail")
       /\ work' = [work EXCEPT ![e] = st]
       /\ IF st = "interrupted" THEN UNCHANGED <<busy, live>> ELSE busy' = None /\ live' = live \ {e}
       /\ Tell(<<Event(e, st, TRUE)>>)
  /\ UNCHANGED <<server, session, calls, gw, cn, write, pending, link, down, hand, beat>>

\* heartbeatLoop reads the Executions and then writes the message.
BeatReads ==
  /\ ~beat.on /\ link # "down" /\ Spend("ask")
  /\ \E p \in Execs \cup {None} :
       /\ IF p = None THEN \A e \in Execs : work[e] \notin {"running", "stopping"}
          ELSE work[p] \in {"running", "stopping"}
       /\ beat' = [on |-> TRUE, ptr |-> p]
  /\ UNCHANGED <<server, session, calls, gw, cn, write, pending, wire, work, busy, live, hand>>

BeatWrites ==
  /\ beat.on /\ beat' = NoBeat
  /\ Tell(<<[k |-> "beat", ptr |-> beat.ptr]>>)
  /\ UNCHANGED <<server, session, calls, gw, cn, write, pending, link, down, work, busy, live, hand, left>>

LinkDrops ==
  /\ link = "up" /\ Spend("break")
  /\ link' = "down" /\ down' = <<>> /\ up' = <<>>
  /\ session' = [session EXCEPT !.stale = TRUE]
  /\ UNCHANGED <<server, calls, gw, cn, write, pending, pilot>>

\* The next connection is opened by the loop that also carries the commands out.
PilotDials ==
  /\ link = "down" /\ hand = HandFree
  /\ link' = "dial"
  /\ UNCHANGED <<server, session, calls, gw, cn, write, pending, down, up, pilot, left>>

\* The Pilot process ends, with or without the safe stop of an orderly exit, and starts
\* again: Recover gives what is not terminal a new Worker or interrupts it, and an action
\* of unknown outcome in the journal may keep the Robot busy.
PilotReboots ==
  LET open == {e \in Execs : work[e] \in {"running", "stopping"}} IN
  /\ link # "dial" /\ Spend("break")  \* a registration in progress completes
  /\ \E st \in {"running", "interrupted", "stopped"}, held \in Execs \cup {None} :
       /\ held # None => work[held] = "interrupted"
       /\ work' = [e \in Execs |-> IF e \in open THEN st ELSE work[e]]
       /\ live' = IF st = "running" THEN open ELSE {}
       /\ IF open # {} /\ st # "stopped" THEN busy' \in open ELSE busy' = held
  /\ hand' = HandFree /\ beat' = NoBeat
  /\ link' = "down" /\ down' = <<>> /\ up' = <<>>
  /\ session' = [session EXCEPT !.stale = TRUE]
  /\ UNCHANGED <<server, calls, gw, cn, write, pending>>

Pilot ==
  \/ PilotStarts \/ PilotAccepts \/ PilotStops \/ PilotHalts \/ PilotReconciles
  \/ (\E e \in Execs : WorkerEnds(e)) \/ BeatReads \/ BeatWrites
  \/ LinkDrops \/ PilotDials \/ PilotReboots
------------------------------------------------------------------------------
Next ==
  \/ Run \/ Stop \/ Confirm \/ Gateway \/ Connect \/ ServerCrashes \/ Pilot
  \/ \E p \in Writers : SetSession(p)

Spec == Init /\ [][Next]_vars
------------------------------------------------------------------------------
(* Correctness.                                                             *)

\* Rows, calls under way, channel and Pilot records stay in their types; the command
\* channel never holds more than its capacity.
TypeOK ==
  /\ exec \in [Execs -> Status] /\ log \in [Execs -> Terminal \cup {"none"}]
  /\ row \in Row /\ vouched \subseteq Execs \X {"operator", "hold"}
  /\ session.on \in BOOLEAN /\ session.stale \in BOOLEAN /\ session.row \in Row
  /\ run.e \in Execs \cup {None} /\ stop.e \in Execs \cup {None} /\ op.e \in Execs \cup {None}
  /\ write \in [Writers -> Row \cup {NoRow}] /\ pending \subseteq Execs \X Nat
  /\ link \in {"up", "down", "dial"} /\ Len(down) <= Capacity
  /\ work \in [Execs -> Status \ {"queued"}] /\ busy \in Execs \cup {None}
  /\ live \subseteq Execs /\ left \in [Limits -> Nat]

\* Commands of kind k for e on their way to the Pilot.
Coming(k, e) == {i \in DOMAIN down : down[i].k = k /\ down[i].e = e}

\* robot.run has admitted e and not yet sent its start.
Starting(e) == run.e = e /\ run.pc \in {"admitted", "pointed"}

Vouched(e) == \E by \in {"operator", "hold"} : <<e, by>> \in vouched

\* An end in the Server's database is true of the Robot: unless an operator or a managed
\* hold vouched for it, the Pilot reached the same end, or the work failed or was
\* cancelled before any start could reach the Pilot.  Run, Stop, acknowledgements, events
\* and Reconcile all write that status, from what each of them read earlier.
EndsAreTrue ==
  \A e \in Execs :
    exec[e] \in Ends /\ ~Vouched(e) =>
      \/ work[e] = exec[e]
      \/ /\ exec[e] \in {"failed", "stopped"} /\ work[e] = "none"
         /\ ~Starting(e) /\ Coming("start", e) = {}

\* A stop never overtakes its start: Stop waits for the admission mutex until the
\* execution.start being prepared is sent, and the connection keeps their order.
StopFollowsStart ==
  \A e \in Execs :
    /\ Starting(e) => stop.e # e /\ Coming("stop", e) = {}
    /\ \A i \in Coming("start", e), j \in Coming("stop", e) : i < j

\* The Pilot works on one Execution at a time, also when the Server has released the
\* Robot under a running one and starts the next (runtime.Start).
OneWorker ==
  \A e, f \in Execs : {work[e], work[f]} \subseteq {"running", "stopping"} => e = f

==============================================================================
